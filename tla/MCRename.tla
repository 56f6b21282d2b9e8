------------------------------ MODULE MCRename ------------------------------
(***************************************************************************)
(* Small documents with one feature each of those that a name can be used  *)
(* through.                                                                *)
(***************************************************************************)
EXTENDS Rename

At(kind, name, of) == [kind |-> kind, name |-> name, of |-> of]

MCFold(name) == CASE name = "Users" -> "users" [] name = "ID" -> "id" [] OTHER -> name

\* Table users as u { id int; status status }  Table orders { id int; uid int }
\* Enum status { paid }  TableGroup g { users u }  Ref r: orders.uid > Users.ID
\* Ref: orders.id > u.id
Shop == <<
  At("table", "users", 0), At("alias", "u", 1),
  At("column", "id", 1), At("type", "int", 3),
  At("column", "status", 1), At("type", "status", 5),
  At("table", "orders", 0),
  At("column", "id", 7), At("type", "int", 8),
  At("column", "uid", 7), At("type", "int", 10),
  At("enum", "status", 0), At("value", "paid", 12),
  At("group", "g", 0), At("member", "users", 14), At("member", "u", 14),
  At("refname", "r", 0),
  At("refTable", "orders", 0), At("refColumn", "uid", 18),
  At("refTable", "Users", 0), At("refColumn", "ID", 20),
  At("refTable", "orders", 0), At("refColumn", "id", 22),
  At("refTable", "u", 0), At("refColumn", "id", 24) >>

\* Table auth.users { id int; id text; note int }  TableGroup g {}  TableGroup g {}
\* Ref: auth.users.id > nowhere.id
Odd == <<
  At("table", "users", 0), At("schema", "auth", 1),
  At("column", "id", 1), At("type", "int", 3),
  At("column", "id", 1), At("type", "text", 5),
  At("column", "note", 1), At("type", "int", 7),
  At("group", "g", 0), At("group", "g", 0),
  At("refTable", "users", 0), At("schema", "auth", 11), At("refColumn", "id", 11),
  At("refTable", "nowhere", 0), At("refColumn", "id", 14) >>

MCDocuments == {Shop, Odd}

\* These documents meet the hypothesis of MeaningStays (RenameProofs).
ASSUME MCDocumentsUnderstood == \A d \in MCDocuments : Understood(d)

\* Table users { id int  indexes { id [pk] } }
Indexed == {<< At("table", "users", 0), At("column", "id", 1), At("type", "int", 2),
               At("index", "id", 1) >>}
=============================================================================
