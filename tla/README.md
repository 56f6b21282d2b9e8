# dbml-tools: formal models, checks and proofs

This directory holds TLA+ modules that model the stateful and the order-sensitive
parts of dbml-tools, TLC configurations that check them on small instances, and
theorems about seven of them that TLAPS proves for every value of the constants.
File names without a directory are modules of this directory; paths such as
`generator/indexes.go` are relative to the repository.

## 1. Inventory

dbml-tools reads DBML, a language for database schemas, and has these parts.

| Part | Source | State | Operations |
|---|---|---|---|
| Lexer | `lexer/lexer.go` | position, line, column, tokens, errors | one scan function per kind of token, then the attaching of spaces and comments to tokens |
| Parser | `parser/parser.go` | position in the tokens, errors | recursive descent with recovery, one function per construct |
| Interpreter | `interpreter/interpreter.go` | the schema it builds | syntax tree to schema: tables, settings, enums, refs, indexes, records, groups, project |
| Analysis | `analysis/*.go` | per document: tree, schema, spans, symbols, references | offset to path, symbol to references, rename, completion, hover |
| Language server | `lsp/*.go` | open documents with text, analysis and line index; the exit channel | loop: read, handle, write; twelve methods |
| Index-name resolver | `generator/indexes.go` | names, counts, names taken | indexNames and the comparison of indexes and keys |
| SQL generator | `generator/generator.go` | none between calls; the database that runs its scripts has | Dump (a whole schema), Migrate (the difference of two) |
| Graphviz output | `generator/dot.go` | none | a formatter |
| Introspection | `introspect/*.go` | the schema read so far | a dozen catalogue queries per engine, filter, rows, DBML writer |
| Command line | `main.go` | the dialect, detected once | todbml, tosql, migrate, check, todot, lsp |

How they interact. `tosql` is source → lexer → parser → interpreter → Dump.
`migrate` does this for two arguments; an argument that is a connection string is
introspected first, *written as DBML text*, and read back by the same lexer,
parser and interpreter; Migrate then compares the two schemas. The scripts are
run by another program, statement by statement, on a database that the tool may
later introspect again: the loop *write script → run → introspect → compare*
is the most important interaction of the command line, and it goes through
everything the database does to names and types on the way. The language
server runs lexer, parser, interpreter and analysis on every change of a document
and answers an editor that does not wait for it, over two pipes.

What is hard:

* the tool identifies indexes and keys by names that it computes, which the
  database may cut, refuse, choose itself or report in another order;
* a script is not a transaction: each prefix of it is a state that users meet, and
  that the next `migrate` starts from;
* statements depend on each other across tables, types and shared namespaces;
* the editor edits while answers are under way, both pipes are finite, and the
  exit may come while messages are queued;
* a document is broken nearly all the time it is being typed, and rename must
  not miss a use or capture one;
* five countings of the same place: runes, lines and columns of the lexer, tokens
  of the parser, line offsets of the analysis, UTF-16 units of the editor.

Nothing in the tool runs concurrently with itself, and it persists nothing: the
concurrency is with the editor and with the database, the crashes are those of a
script that is cut off.

What makes each part correct:

* *Resolver*: distinct names in their scope; names that the database does not
  cut; an end; the same names after a round trip through the database.
* *Migrate*: no statement refused, from any prefix of an earlier script; a
  result that is the target and compares equal to it; nothing lost that both
  schemas have.
* *Dump*: no statement refused for the order of tables or a cycle of refs, or for
  anything but a few causes that can be named; everything there at the end; all rows
  or none in SQLite.
* *Language server*: the server's text is the editor's; one answer per request,
  made from the text of its moment, in order; nothing after exit; no deadlock.
* *Introspection*: what no other client touches is reported as if it were read at
  once, and nothing is reported that there never was.
* *Loading*: what `migrate` gets of a database is what the catalogue has, after
  writer, lexer, parser and interpreter; a schema means the same however it is
  spelled; of a broken file what comes is what the file declares up to there.
* *Rename*: every use still stands for what it stood for.
* *Lexer, parser, positions*: tokens tile the text, no trivia is lost, every token
  is in the tree or reported, ranges are ranges, and the countings agree.
* *Completion and hover*: at a cursor in the place of a missing word, what belongs there
  is offered, though the text has errors just because the word is missing; hover takes
  a word for what completion offers it as.

## 2. Modules

| Module | Models | State and actions |
|---|---|---|
| `IndexNames` | `indexNames` with its helpers; the round trip through a database's catalogue | the numbering loop is the state machine: `NextTable`, `SkipPK`, `Number`, `Claim`; `Reload` reads the database back, in any order, and resolves again |
| `SqlDatabase` | the statements the generator renders, and the databases that run them (external) | operators: `CreateTable`, `RenderColumn`, .. write a statement; `Accepts` and `Apply` are the database |
| `Migrate` | `Migrate`, `diffTable`, `diffType`, `sameType`, `diffPK`, `diffIndexes`; the use of its script | `Read` introspects and writes the script, `Execute` runs its next statement, `Interrupt` cuts it off, `Finish` |
| `Dump` | `Dump`, `foreignKeys`, `fkConstraints`, `insertSQL`; the loading of its script | `Define`, `InsertRows`, `OpenTransaction`, `Commit`, `CutOff`, `Finish` |
| `LspMessages` | `lsp/protocol.go`: the messages and what they say about a document | operators only |
| `LanguageService` | *abstract*: what a language server promises | `Write`, `Answer`, `Refresh` |
| `LspServer` | `lsp/server.go`, `handlers.go`, `transport.go` and an editor | the editor's `Write`, `HangUp`, `Receive`; the server's `DidOpen`, `DidChange`, `DidClose`, `Respond`, `RespondOther`, `Ignore`, `Exit`, `Fail`, `Return` |
| `Rename` | `analysis/symbols.go`, `refs.go`, `rename.go` | `RenameAt`: a rename at any place, its edits applied, the result analysed anew |
| `Lexer` | `lexer/lexer.go`; `OffsetToPosition` of `analysis.go` | one action per branch of `next`, `End`, then `Attach` (attachTrivia) |
| `Positions` | `lsp/conv.go` | both conversions, as operators on a text |
| `Places` | the countings of `Lexer`, the analysis and `Positions` on one text | the actions of `Lexer` |
| `Parser` | `parser/parser.go` | recursive operators, one per parse function |
| `SyntaxTree` | `analysis/span.go` over the trees of `Parser` | `Type`: the next token of a document that is being typed; a document may also be there as a whole (`Finished`) |
| `Completion` | `analysis/completion.go`, and what `hover.go` tells of keywords, settings and types | operators: the context of a cursor (`Classify`), what is offered in it (`Items`), `Hover`; on the documents and the actions of `SyntaxTree` |
| `Introspect` | `introspect/introspect.go` and the readers of the three engines; a database with other clients (external) | one action per catalogue query (`QueryColumns`, `QueryKeys`, `QueryMariadbIndexes`, `QueryChecks`, `QueryEnums`, `QueryInlineEnums`, `QueryForeignKeys`), `Filter`, `FetchRows`, `Fail`; the clients' `ChangeTable`, `DropTable`, `ChangeEnums` |
| `DbmlText` | `introspect/dbml.go` | operators: a schema as the tokens of the DBML that is written |
| `Interpreter` | `interpreter/interpreter.go` | operators, one per interpret or extract function, on the trees of `Parser` |
| `LoadSchema` | `main.go`: loadSchema, parseAndInterpret; `introspect.go`: Run | the actions of `Introspect`, `Write`, `ReadFile`, `Load` |
| `IndexNamesProofs`, `DumpProofs`, `MigrateProofs`, `LspServerProofs`, `IntrospectProofs`, `RenameProofs`, `LexerProofs` | | theorems and their lemmas; those of `LexerProofs` are about `Positions` and `Places`, too |
| `BasicLemmas` | | lemmas that several of them share, on least and greatest numbers, lists and `FlattenSeq` |
| `MC..` | | instances for TLC |

`LspServer` composes with `LanguageService` by refinement (`ServiceSpec`),
`Migrate` and `Dump` with `SqlDatabase`, `SyntaxTree` with `Parser`, `Places` joins
`Lexer` and `Positions`, `Completion` works on the trees of `SyntaxTree` with the helpers
of `Interpreter`, and `LoadSchema` puts `Introspect`, `DbmlText`, `Parser` and
`Interpreter` one behind the other, as `migrate` does with a database: what is read
is written, parsed and interpreted before it is compared.
`Migrate` takes the names of indexes as resolved: `IndexNames` is what makes that
sound, by `NoClash`, `AllFit` and `RoundTrip`.

Correspondence. A definition has the name of its function where TLA+ allows it
(`Truncate` is truncateIdent, `DiffTable` diffTable, `TriviaSplit` traiviaSplit);
`PROJECT.json` maps each to its lines. Definitions whose comment says "a faulty
form of X" are plausible bugs of X; no specification uses them. Each is the
replacement with which one property is shown to fail, so that no property holds
merely by the shape of the model.

The main abstractions:

* *Names* are sequences of small numbers in `IndexNames`, where length, bytes and
  cutting matter, and opaque strings elsewhere.
* *Types* are tuples of words in `SqlDatabase`; enough of `typeAliases` is kept to
  tell a type as declared, as rendered and as reported. Arguments, suffixes,
  defaults, checks and comments are left out.
* *Index signatures* are keys and uniqueness; index types and the normalisation
  of expressions are left out.
* *The databases* are external and modelled from how the code uses them: which
  statements they refuse, what they do with names, serial types, keys and unique
  columns, and what they report. They are deliberately strict where the code's
  comments rely on them (shared namespaces, dependent columns, deferred checks).
* *Answers* carry the text they were made from, as an analysis is a function of
  the text; the seven requests that read a document are one.
* *Tokens*, not characters, pass between `DbmlText` and `Parser`; a type is a tuple of
  words and signs, of which the first is the name.
* *A catalogue* is what the queries report of each table (`Form`). A query is one step:
  it sees the database at one moment.
* *Runes* that the lexer treats alike are one rune; tokens that the parser treats
  alike are one kind.

## 3. Runs

| Run | Instance | What it shows |
|---|---|---|
| `names` | two tables, up to three and one indexes; declared, default, prefixed, numbered, over-long and expression names; PostgreSQL, MariaDB, SQLite (131,000 states) | `TypeOK`, `NoClash`, `AllFit`, `RoundTrip`, `Terminates` |
| `migrate` | every pair of some fifty schemas of tables `a`, `b`, `u`, `foo` that the dialect's script can express, one interruption (50,000 states) | `TypeOK`, `NoStatementRefused`, `Migrated`, `KeepsShared` |
| `migrate_serial_key` | a serial key | *violation* of `CreatedComparesEqual`, finding 1 |
| `dump` | two tables, all sets of four refs (self, both ways, many-to-many), with and without records, in both orders; and the same tables with two refs of one column, a key that is declared and not written, indexes, keys and enums named like what PostgreSQL names itself, a second column that counts up (10,000 states) | `OnlyKnownRefusals`, `Loaded`, `AllRowsOrNone` |
| `lsp` | two documents, two texts, three messages of any kind, a pipe of two, under fairness (817,000 states) | `TypeOK`, `DocsFollow`, `MadeFromItsText`, `OneForOne`, `ShownIsCurrent`, `NothingAfterExit`, refinement `ServiceSpec`, liveness `EveryRequestAnswered`, `CatchesUp`, `LoopEnds` |
| `rename` | two documents with every kind of use, up to three renames in a row to new, used, case-differing and invalid names (11,500 states) | `BindingsKept`, `MeaningKept` |
| `rename_index` | a column that an index lists | *violation*, finding 2 |
| `lexer` | all texts of up to three of 15 runes, longer ones of strings, comments, lines, numbers, names and wide runes, with every offset and position in and around each (88,000 states) | `TypeOK`, `Tiles`, `PlacesAgree`, `TriviaAttached`, `Delimited` |
| `parser` | every place in two documents that have every construct, continued by any two tokens, line breaks included; and two finished documents with one line broken or joined anywhere (110,000 states) | `TypeOK`, `EveryTokenKept`, `InnermostIsPath`, `NewLineKeepsDeclarations`, `WordsOffered` |
| `parser_ranges` | the same, one token | *violation*, finding 3 |
| `load` | a database of each engine with every kind of key, a foreign key, enums and long types, five command lines, three statements of other clients between any two queries; and four files, each broken off behind any line (29,000 states) | `TypeOK`, `UntouchedReported`, `NothingInvented`, `ReadsBack`, `SameMeaning`, `PartLoaded` |
| `load_composite` | a foreign key of two columns, nobody else | *violation* of `RefsReadBack`, finding 4 |

Bounds, and why they are enough:

* `Limit = 6`, `MaxNumber = 12` (`IndexNames`): a limit of six characters cuts
  default, prefixed and numbered names, inside wide characters too. At most four
  indexes compete for a name, so no number over 4 is reached before a name is
  free; numbers of two digits are allowed for and never needed. In the
  specification the bound is a guard of `Number`; the code has none.
  `Terminates` shows that the guard never stops the loop.
* `MaxInterrupts = 1` (`Migrate`): a second interruption starts from a schema
  that lies between two schemas again; one already reaches every prefix of every
  script. Four tables cover the roles that a statement can depend on: modified,
  removed, new, and one whose name is an index's.
* `MaxSent = 3`, `PipeSize = 2` (`LspServer`): three messages are what it takes
  for a text, a change and a request, or an exit with a message before and behind
  it; the third answer into a pipe of two blocks the server. Most of the safety
  properties are proved for all values.
* `MaxRenames = 3`: a name can be freed, taken, and given back.
* `MaxTyped = 2` (`SyntaxTree`): the documents to start from are all prefixes of two
  documents with every construct, so the first token ends, opens or breaks a construct
  at every place there can be, and the second meets what the parser made of the first.
  The grammar looks one token ahead.
* `Finished` (`SyntaxTree`): `WordsOffered` speaks of documents without errors, of which
  typing reaches some; these are 146 more, of which 110 have no errors. They have a
  project, enums, groups, every kind of column setting and of `Ref`, and a line that ends
  where no one would end it, as completion goes by the line of the cursor.
* `MaxStatements = 3` (`Introspect`): enough to change a table that is being read, to
  drop one and to make another, or to change one, an enum and its user; the reader
  has five to seven queries, so statements fall between all of them. What is proved of
  `Introspect` holds of any number. The other forms a table can get differ in the
  columns, the order of columns, the keys and the references that they have, and a new
  table takes names of columns, keys and indexes that another table has.
* `Options` of `load`: no filter, an exclusion, an inclusion and an exclusion at once, a
  PostgreSQL schema on the search path and off it, rows, normalised types.
* Texts of the lexer: `'''` twice with something between takes seven runes;
  all other tokens are delimited by at most two.

`CHECK_DEADLOCK FALSE` stands where the system stops: a migrated or refused
script, a server that has returned, an editor with nothing to send, a text that
is read. `IndexNames` has an explicit `Done` and is checked for deadlock.

Conditions on the schemas of `migrate`. `CanMigrate` in `MCMigrate` excludes
what the scripts are known not to express, each exclusion a named operator;
section 6 lists them. Without them `NoStatementRefused` or `Migrated` fail.

## 4. Fairness

* `IndexNames!FairSpec`, `WF(Next)`: indexNames is one call that runs until it
  returns.
* `LspServer!FairSpec`, `WF(Serve) /\ WF(Receive)`: the server is one goroutine whose
  loop is never disabled by choice, and an editor reads what the server writes. Not
  assumed: that the editor ever writes, hangs up, or reads before the server
  blocks. Weak fairness is enough, as the server's step, once enabled, stays
  enabled until it is taken: only the server consumes stdin, and room in the pipe
  is only taken by the server itself.

No other run checks liveness: a reader of a catalogue asks a fixed number of queries, any
of which may fail; the lexer's progress follows from `Tiles` (no token but the end is
empty) and `TypeOK` (the position stays in the text), which are proved for every text.

## 5. Proofs

`IndexNamesProofs`, for every dialect, limit of at least two characters, set of
wide characters and set of schemas in which no table is declared twice:

* `TypeCorrect == Spec => []TypeOK` and `NamesFit == Spec => []AllFit`. `AllFit`
  alone is not inductive, as `Number` builds the next name from `base`: `TypeInv`
  adds that every `base` fits. `CutFits`, `WithSuffixFits`, `PrefixedFits` say
  that cutting to a longest fitting prefix fits, also with a number behind it;
  `NumberFits` is where the assumption on the limit and on digits being one byte
  is used.
* `NamesDistinct == Spec => []NoClash`. A loop that asks only whether a name is
  taken knows nothing of earlier indexes. The invariant `IInv` adds `AllMarked`:
  every settled name, and every reserved one, is in `taken`. `SettleNext` and
  `SettleNone` say how `Settled` grows when the position moves.

* `NamesComeBack == Spec => []RoundTrip`, where no unique index of MariaDB is named after
  its only column (`NoneIsItsColumn`; section 6 has what becomes of such an index, and TLC
  evaluates the condition in run `names`). What is read back is a rearrangement of what was
  created: `Origin` leads from each slot to the one it comes from, one for one (`OriginIs`).
  The names that come back fit and are apart, so the first passes leave them
  (`PrefixedAgain`), and `RoundInv` keeps for the second round that `names` is still `base`
  and that `taken` holds reserved names and those of passed indexes only, so that the loop
  finds each name free (`FreeAgain`). A column that MariaDB reports as UNIQUE takes an index
  away from the second round only if the index has its name, and the names that the
  passes make are longer (`Named`).

Assumptions: `DialectsAssumption`, `LimitAssumption`, `NumberAssumption` (a number
has at most two digits; the code has no such bound) and `DatabaseAssumption`, all
of which TLC evaluates in run `names`.

`DumpProofs`, for every dialect and every set of sound schemas:

* `ScriptRuns == Spec => []OnlyKnownRefusals`, `LoadComplete == Spec => []Loaded` and
  `CutLeavesNoPart == Spec => []AllRowsOrNone`. The script does not change while it runs,
  so what it is made of is stated once of the whole: which statements it has (`ScriptOps`),
  that it has one for each table, index, ref and list of records (`ScriptComplete`), none
  twice (`ScriptOnce`), and which kind comes before which (`ScriptOrder`). The inductive
  invariant `IInv` (`DumpInvariant`) says how far the script is (`Progress`), that the
  database is what the statements so far make of an empty one (`LiveIs`), and where the
  rows of the records so far are (`RowsIn`). Each statement then has what it needs before
  it. A name that is taken is taken by a table or an index of the schema (`TakenBy`), which
  the resolver keeps apart, or by a key or a sequence (`KeyTaken`), of which the invariant
  knows that it has one of the names in `KeyNames`.

  A schema is sound (`Sound`, `SchemasAssumption`) if nothing is declared twice, indexes
  and types name what exists, refs lead to a key that is declared (`DeclaredKey`), and the
  records satisfy the refs (`Holds`). The interpreter does not check this; without it the
  database is right to refuse. Of the names of indexes it has what `NoClash` says of the
  resolved ones and `NamesDistinct` proves (`NamesApart`): they are distinct in their scope and
  none is the name of a table or, in MariaDB, of a unique column. Nothing is asked that
  only the code could see to. Where the code does not, the theorem says of the statement
  that is refused what the cause is (`KnownRefusal`): in PostgreSQL the name of a key, a
  sequence or a type (`NameOfKey`, `KeyNamedTwice`), two refs of one name (`NamedTwice`), a
  key that is declared and not written (`ToNoKey`), in MariaDB a column that counts up
  and is no key, or not the only one (`FreeIncrement`). Run `dump` has schemas with each of
  them; with any one of the causes left out of `KnownRefusal` it fails. Section 6 has the lines.

`MigrateProofs`, for every dialect, every set of pairs of declared schemas (`Declared`, the
part of `Sound` without refs and records) and every number of runs that are cut off:

* `MigrateInvariant == Spec => []MigrateInv`. After a run that was cut off, the script is
  written anew from a database between two schemas, so nothing is said of what the
  database was made from. `TypeInv` says that it is one that can be compared (one table
  and one column of a name, indexes of columns that are there), and of each statement left
  in the script what it was written for, in terms of the target alone (`MeantFor`). That
  is stable: the target does not change. `ScriptIs` shows it of every script, `ApplyStep`
  what a statement of each kind does to each table (`Became`) if the database accepts it
  (`AcceptedRunnable`). `OrderInv` adds that no two indexes share a name, apart from the
  second keys that MariaDB makes (`Second`), and that an index is dropped once, and before
  columns of its table are (`Follows`).
* `TypeCorrect == Spec => []TypeOK`.
* `SharedKept == Spec => KeepsShared`, an action property: no step takes away a table, a
  column or an index that both sides have. A DROP INDEX goes by name, and what it drops
  is decided when the script is read, so `DropInv` says of every one that is left that it
  is about an index that is there and that the target does not have in this form.
  `DropStays` is the step: the statements before it make no index of that name. It takes
  that no index of the target is named like a second key that MariaDB gives to a
  UNIQUE column, `x_2` (`SecondKeysFree`), which TLC evaluates in run `migrate`; for such a
  name the database could have another index than the script thinks.

* `NeverRefused == Spec => [](dialect = "sqlite" => NoStatementRefused)`. That the database
  accepts the next statement is not inductive, as it says nothing of those behind it.
  `ReadyInv` says of each statement of the script that it is `Ready`: what it names is in the
  database or comes with a statement before it (`Comes`), and whoever holds the name that it
  gives goes with one before it (`NameFreed`). With no statement before it, that is what the
  database asks (`SqliteAccepts`). A statement that is executed leaves this true of the
  others (`ReadyStays`): it has done what they waited for, or something about other names,
  since no two of a script are about the same (`Singles`, `Differ`).

  That a script starts like this is a fact about its order. `ScriptPlaced` says of every
  place in it which of its statements come before: the drops of a table before its columns,
  those before its indexes, a removed table before the late indexes, and new tables last
  (`Placed`, from the offsets of the parts of a script). `ScriptReady` concludes from that,
  whatever order the tables are reported in. The hypothesis is `SqliteMigrations`: no index
  name passes from one table to another (`NamesStay`), which the script cannot express, and no
  column is added that SQLite adds only by a rebuild (`Addable`). TLC evaluates it in run `migrate`.

* `SqliteMigrated == Spec => [](dialect = "sqlite" => Migrated)`, without a hypothesis: where a
  statement is refused, a migration does not end. That a finished migration has reached its
  target says nothing of the steps before; `EndInv` joins to `SharedInv`, by which the target's
  part of the database stays, that the statements that are left lead from the database to the
  target (`LeadsTo`): for every table to be removed there is a drop left, and likewise for every
  index to be dropped, and every column, table or index to be made. `DueInv` keeps this:
  - the script has all that is needed when it is read, whatever order the tables are reported
    in (`ReportedLeads`);
  - a statement that runs does its own (`Gone`, `Made`) and takes away nothing that the target
    has (`SharedStays`), so that the others still lead there (`LeadsStep`);
  - a run that is cut off is followed by a script written anew.

  With no statement left the target is `Reached`. Then every statement of a further script is a
  comment (`ReachedComments`, `NothingLeft`), and the database agrees with one made from the
  target, which has the target's tables with their columns and indexes (`CreatedTyped`,
  `MadeFrom`, by the shortest part of the target that it fails for).

`MigrateInv`, `DropInv`, `ReadyInv` and `EndInv` were checked by TLC on the instance of run
`migrate`, the last two with two runs that are cut off, before they were proved. Assumptions: `MigrationsAssumption`
and `InterruptAssumption`, which TLC evaluates there.

`LspServerProofs`, for every set of documents and texts, every number of messages and
every size of the pipe:

* `Invariance == Spec => []Inv` with `Inv` the conjunction of `TypeOK`,
  `DocsFollow`, `MadeFromItsText`, `OneForOne` and `ShownBehind` (what is shown was
  received before). `TypeCorrect`, `DocumentsFollow`, `MessagesMatch`, `InOrder`
  follow. The properties need each other: that an answer is made from the right
  text follows from `DocsFollow` at the moment it is written, and that it stays so
  from the fact that messages are only appended (`TextBeforeExtends`,
  `AnswerExtends`).
* `ExitIsLast == Spec => NothingAfterExit`, an action property.
* `ShownUpToDate == Spec => []ShownIsCurrent`. The property speaks of empty pipes only. Its
  strengthening `Shown` says it of every state: each message that changes a text, once
  read, has its diagnostics written (`Diagnosed`), and what is shown is the newest of those
  received (`ShownNewest`). With both pipes empty, written is received and read is sent.
* `Implements == Spec => ServiceSpec`: the server implements `LanguageService` under
  the mapping `log <- sent`, `answers <- Answers`, `shown <- shown`. A step of the
  server that answers is `Answer`, a reception of diagnostics is `Refresh`, all others
  stutter. That diagnostics never go back, which the abstract specification
  promises, rests on `OneForOne` and `ShownBehind`.

`IntrospectProofs`, for every set of databases, command lines and forms that other clients
give a table, and every number of their statements:

* `Invariance == Spec => []IInv`. `UntouchedReported` speaks of the end only. `IInv` says at
  every step what there is of a table that nobody touched: `Partial`, the composition of
  the queries that were asked so far, for each engine (`TablesSoFar`), and behind the filter
  the whole (`AtOnce`) with the rows of the tables that are no longer pending
  (`TablesFiltered`). `QueriesKeepTables` has a step for each query, `TablesStay` and
  `RefsStay` say that statements of others disturb nothing of it, since a change of a table
  is a touch of it (`ChangeTouches`).
* That a ref is kept by the filter exactly if both of its tables are (`RefsFiltered`) needs
  that the table it refers to was read, hence `RefsSound`: at any time a foreign key leads
  to a table that is there. This is what a database guarantees, at first
  (`DatabasesAssumption`) and after each statement (`Sound`, in `Statement`).
* That the rows go to a table without taking anything else from it rests on the shape of
  the tables that the queries build: `Unread` and the lemmas on it, one per query.
* `TypeCorrect == Spec => []TypeOK` and `UntouchedCorrect == Spec => []UntouchedReported`.
* `NothingIsInvented == Spec => []NothingInvented`: what is reported of a table that others
  do touch was in some form of it. `FoundInv` says, of whatever was read so far, which form
  it is from; the forms that were seen only grow (`SeenGrows`). It takes that every form is
  `Reportable`: in SQLite a UNIQUE of one column, in PostgreSQL a foreign key of one (finding 4
  and section 6 have what becomes of the others). TLC evaluates it in run `load`.

Assumptions: `StatementsAssumption` and `DatabasesAssumption`, which TLC evaluates in run
`load`.

`RenameProofs`, for documents of any size and any number of renames:

* `BindingsStay == Spec => []BindingsKept`. One rename of a well-formed document keeps it
  well-formed and every binding as it was, so any number of them does. A name is looked up
  by the last declaration of a kind that has it, and a rename edits one declaration only,
  so what is found changes for two names: the new one, which now finds that declaration,
  and its old one, which no longer does (`Lookup`). `TableKept`, `EnumKept`, `ColumnKept`
  and `TypeKept` draw this conclusion for each way in which a reference is resolved, aliases
  and the fallback of a type included; `RefsKept` says that no other place becomes a
  reference, `DeclaredKept` that no declaration loses its name to another.

* `MeaningStays == Spec => []MeaningKept`, for documents whose uses the server reads as the
  language does (`Understood`): no index lists a column (finding 2), no group member and no
  type has a schema. What a use stands for (`Denoted`) is what the rest of the program
  takes it for; `MeaningInv` keeps that the lookups of the server and of the
  language agree, so the uses that are edited are those of the renamed declaration. TLC
  evaluates `Understood` in run `rename`.

Assumptions: `DocumentsAssumption`, of which the one that matters is that no table is declared
twice in a document (the code keeps the last, and section 6 has what becomes of the others),
and `NewNamesAssumption`, that the new name is not one of a pseudo-column (section 6, too).
TLC evaluates both in run `rename`.

`LexerProofs`, for every set of texts, of any length:

* `InvariantHolds == Spec => []LInv`, with `LInv` the types of all but the result, `Counted`
  (line and column are the place of the offset), `Tiles`, `AgreesWithOffsets` and
  `CleanCuts`, a form of `Delimited`. All tokens are cut by `Emit`: `EmitKeeps` says that a
  token that is not empty, ends in the text and is delimited unless an error is reported
  keeps the invariant, and one lemma for each branch of `next` shows that this is what it
  cuts. `UntilStops` and `WhileStops` say where a scan function stops.
* `TextTiled == Spec => []Tiles` and `TokensDelimited == Spec => []Delimited`.
* `PlacesCounted == Spec => []AgreesWithOffsets`: the lexer's counting, rune by rune, and the
  analysis's, from the offsets of the lines, agree. `ForwardAgrees` is the step: the line
  feeds that are passed are the lines that start in between, one for one.
  In run `lexer` the property is a part of `PlacesAgree`.
* `TypeCorrect == Spec => []TypeOK`. For the result it takes that there is a k-th token
  (`NthThere`) and that the split lies within the trivia (`SplitWithin`).

* `TriviaKept == Spec => []TriviaAttached`. The trivia between two tokens are split at one
  edge (`Edges`, `SplitIs`): what is before it trails the first token, the rest leads the
  second, so that all slices put one behind the other are the tokens of the text
  (`PartsMakeAll`). `TriviaInv` keeps what the split rests on: spaces and line comments lie
  on one line (`OnOneLine`), and the trivia are hung up once, at the end of the text
  (`HangOnce`). `TrailsOn` concludes that what trails a token starts on the token's line.
* `PlacesAreOne == Spec => []PlacesAgree`. The line of an offset is the number of line starts
  up to it (`Rank`), for the analysis and for the editor's conversion; within a line,
  UTF-16 units are counted from the line's start (`UnitsGrow`), so that a place and its
  position lead to each other (`ThereAndBack`), and a position past the end of a line, or
  inside a wide rune, to the nearest place of that line (`PositionIsNearest`, `StaysOnLine`). Of the lexer it takes `PlacesCounted` only.

Assumption: `TextsAssumption`, that a text is a sequence of the runes of the model.

`BasicLemmas` proves what several of these need. The provers cannot instantiate an induction
theorem that takes an operator, but a set of numbers has a least element (`HasLeast`), and
a fact about all prefixes of a list can be proved by the shortest one that it fails for.
In this way `FlattenSeq`, by which the scripts and the trivia are put together, is
described without its recursion: by the offset at which each part starts (`FlattenOffsets`,
`OffsetsCover`, `FlattenOrder`).

Only model-checked:

* liveness (`Terminates`, `EveryRequestAnswered`, `CatchesUp`, `LoopEnds`), as ENABLED is out of
  the prover's reach;
* `NoStatementRefused` and `Migrated` of `Migrate` in PostgreSQL and MariaDB, which hold for the
  pairs of schemas that `CanMigrate` of `MCMigrate` describes;
* `Parser`, `SyntaxTree`, `Completion` and `LoadSchema`, which have recursive operators or reach
  them.

## 6. Findings and known limits

Findings, each a run in which TLC shows the disagreement:

1. `migrate_serial_key`: `README.md:243-244` of the repository says that a database
   created from a DBML file compares equal to it. With a `serial` key it does not in
   PostgreSQL: the database reports an integer with a sequence, and migrate writes
   a change of type to SERIAL that PostgreSQL refuses.
2. `rename_index`: a renamed column keeps its old name in an `indexes` block, and
   in `records`, as these are not collected as references (`analysis/refs.go:263`).
3. `parser_ranges`: `analysis/analysis.go:17` says that a range is half-open,
   `[Start, End)`. In a text that is cut short a declaration can end at offset 0,
   before it starts, because `cur` makes up a token without a position behind the
   end of the text (`parser/parser.go:366`).

4. `load_composite`: `README.md:272` lists foreign keys as introspected from PostgreSQL, and
   `README.md:243-244` has a database compare equal to its file. The query pairs each column
   of a foreign key with each column it refers to (`sql/postgresql/foreign_keys.sql:18`), so
   a key of two columns is written with four on each side.

Limits met while modelling, which the instances exclude by a condition or by
their choice of schemas and documents, and which would make the property fail (of
Dump they are not excluded but named in the property, as causes in `KnownRefusal`):

| Where | What | Excluded by |
|---|---|---|
| `generator.go:717` | an index name that moves to an earlier common table is created before it is dropped (PostgreSQL, SQLite) | `NamesStay` |
| `generator.go:854` | of a change of type and of nullability only the first is written (PostgreSQL) | `OneChange` |
| `generator.go:839` | a change of type without an assignment cast is refused, as no USING is written (PostgreSQL) | `Convertible` |
| `generator.go:746` | removed tables are dropped in declared order, a parent before its child | order of tables, `KeepsForeignKeys` |
| `generator.go:810` | a column of a foreign key cannot be dropped in MariaDB; the comment at 711 expects the key to go along | `KeepsForeignKeys` |
| `generator.go:762` | refs are not migrated, but a new SQLite table has its own | `Migrated` leaves foreign keys out |
| `generator.go:798` | ADD COLUMN with UNIQUE or NOT NULL is refused by SQLite | `Addable` |
| `generator.go:867` | MODIFY COLUMN of a unique column adds a second key (MariaDB) | `KeepsForeignKeys` |
| `indexes.go:328` | DROP PRIMARY KEY of an auto-increment column is refused (MariaDB) | choice of schemas |
| `indexes.go:310` | a key column added in front of others keeps comparing as different | choice of schemas |
| `generator.go:313` | of a column of a composite primary key UNIQUE is left out, as the comment says "since pk already implies unique", which holds of a key of one column only: a foreign key to that column is refused (PostgreSQL, MariaDB), in SQLite the rows of both tables are | `Migrated` leaves foreign keys out; for Dump a cause in `KnownRefusal` (`ToNoKey`) |
| `generator.go:867` | MariaDB names the second key of a UNIQUE column `x` that is modified `x_2`: an index that the target gives this name is not told from it | `SecondKeysFree` |
| `generator.go:490` | two refs of one column get one foreign key name, in MariaDB also refs of tables and columns whose joined names are equal | a cause in `KnownRefusal` (`NamedTwice`); names that are cut at the identifier limit are not modelled |
| `indexes.go:103`-`113` | indexNames keeps the names of tables from the indexes, but not those of keys, UNIQUE columns and sequences in PostgreSQL (`<table>_pkey`, `<table>_<column>_key`, `<table>_<column>_seq`, declared keys) | a cause in `KnownRefusal` (`NameOfKey`, `KeyNamedTwice`); a key that finds its name taken gets `<table>_pkey1`, further numbers, and numbers of UNIQUE columns and sequences, are not followed |
| `generator.go:617` | an enum and a table of one name are refused in PostgreSQL, where a table is also a type | a cause in `KnownRefusal` |
| `generator.go:340`-`379` | a column that counts up and is not the first of a key, or a second one, is refused by MariaDB | a cause in `KnownRefusal` (`FreeIncrement`) |
| `generator.go:694` | changed values of an enum are not migrated in PostgreSQL | choice of schemas |
| `mariadb.go:137` | a unique index named after its only column is read as the column's UNIQUE | `MCMariaKinds` |
| `introspect.go:174`, `engine.go:97` | rows are asked for without the schema, which was cut off the connection string: they are those of the table that the search path leads to | `OwnRows` |
| `foreign_keys.sql:18` | a constraint name that two PostgreSQL tables use mixes their columns | names of foreign keys |
| `postgres.go:30`-`88` | of an array type the brackets are lost | choice of types |
| `mariadb.go:90` | `a_b`.`c` and `a`.`b_c` give one enum name | choice of tables |
| `sqlite.go:110` | each column of a UNIQUE constraint of several is marked unique | no such key in SQLite |
| `sqlite.go:179` | a foreign key that names no columns is read without them | choice of refs |
| `dbml.go:60`-`105` | the type of an index, and the order of the columns of a key that is also the order of the table, are not written | left out of `Form` |
| `dbml.go:126`-`152`, `302`-`317` | quotes and backslashes in names and values, a comma in a value, and an enum value with a space do not come back | plain names and values |
| `dbml.go:326` | RESTRICT is written like NO ACTION | `Action` |
| `dbml.go:167` | normalised types are not those of the catalogue (unsigned, float8, timestamptz) | `Native` |
| `interpreter.go:237` | columns named note, indexes or records are read as those items | choice of columns |
| `main.go:236` | the filters of migrate apply to connection strings only; `README.md:257-258` has them apply to both sides | one file or database at a time |
| `symbols.go:170`, `refs.go:285`, `refs.go:358` | schemas are no part of a symbol's name: tables of one name share a symbol | choice of documents |
| `rename.go:99` | a column can be renamed to `note`, `indexes` or `records` | `NewNames` |
| `lexer.go:433`, `lexer.go:445` | `#`, `1.` and `1e` are tokens, which the grammar in the documentation does not have | no property on the form of numbers and colours |
| `parser.go:785` | a settings list takes any token, a closing bracket of another kind too | no property on brackets |
| `completion.go:152`, `355` | the value of a `database_type` on the line of its `Project` is offered nothing, as the key is taken to be `Project` | `AllSlots` |
| `completion.go:264`, `269` | from the second line of a `Ref` block on, relations are offered where a table belongs, as no token is a line break | `GoesOn` |
| `completion.go:269` | at a partly typed name of a table or column in a `Ref`, relations are offered, which the filter by prefix then removes | slots are of whole words |
| `completion.go:291` | behind an endpoint of several columns tables are offered in place of relations | `LinkSlots` |
| `completion.go:260`, `499` | of an endpoint with a schema the table is taken for a column, and inline refs take the schema for the table | `EndpointSlots` |
| `parser.go:382`, `785` | a word that is missing before a bracket or at the end of a line is made up from the token behind it: in `[ref: > ]` the tables declared further down are not offered | `FollowedOnLine` |

## 7. Not modelled, and why

* `generator/dot.go`, the parsing of connection strings, query parameters, flags, usage:
  pure functions of their input, without order or state. What becomes of the schema in a
  connection string is in `Introspect`.
* Of completion and hover: the filter by what is typed already, snippets, and how an item or
  a hover is rendered. Definition, references and outline as look-ups of their own: what
  they look things up in (spans, symbols, references) is modelled.
* In `Migrate` and `Dump`: defaults, comments, checks and notes, which are written with a
  new table and never compared.
* The SQL of the catalogue queries, which the database runs: `Introspect` has what a query
  reports of a table. The names, identities and row formats of the drivers.
* `check` and `todot`, which load a file as `LoadSchema` does and print.
* Build and release scripts.

## 8. Plan

Modelled first, as the most important behaviour: the resolver and Migrate, on which
data depends; then Dump and the language server; then rename; then lexer, parser and
positions, on which all the rest stands; then introspection, writer and interpreter, which
close the loop *write script → run → introspect → compare*.

Done: all modules of section 2, with the proofs of section 5.

Next, in this order:

1. Theorems: `NoStatementRefused` and `Migrated` in PostgreSQL and MariaDB, from what
   `CanMigrate` asks, on the lemmas that `MigrateProofs` has for each statement.
2. `Migrate` on schemas as `LoadSchema` loads them, in place of `Read`.
