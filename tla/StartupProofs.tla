--------------------------- MODULE StartupProofs ---------------------------
(***************************************************************************)
(* Whatever tables and columns a release left, and wherever earlier starts *)
(* were stopped: a start fails never, overwrites nothing and serves only   *)
(* with all tables and columns and all indexes that were not cut off, and  *)
(* each of its steps brings it closer to serving.                          *)
(*                                                                         *)
(* The invariant says how far a start has come: the columns before at are  *)
(* there, and of those still to come what was read of their table is true. *)
(* Every index of a table that is there is created, pending or lost.       *)
(***************************************************************************)
EXTENDS Startup, TLAPS, FiniteSetTheorems

Position == 1..7

(* Without a table there is nothing in its columns. *)
NoColumnsWithoutTable == \A c \in Column : TableOf[c] \notin tables => cell[c] = "absent"

(* A start begins with nothing done and nothing read. *)
NothingReadYet == phase = "creating" => at = 1 /\ looked = "none"

TablesComeFirst == phase \in {"migrating", "serving"} => tables = Tables

DoneBefore == phase = "migrating" => \A i \in Position : i < at => cell[Columns[i]] # "absent"

(* An index shares the fate of its table, in one of three ways. *)
IndexesAccountedFor ==
  \A i \in Index :
    /\ i \in indexes \cup pending \cup lost <=> IndexedTable[i] \in tables
    /\ i \in indexes => i \notin pending \cup lost
    /\ i \in pending => i \notin lost

PendingWhileCreating == phase # "creating" => pending = {}

(* What was read is true of the columns that are still to come. *)
ReadIsTrue ==
  phase = "migrating" =>
    \A i \in Position : i >= at /\ TableOf[Columns[i]] = looked =>
      (Columns[i] \in found <=> cell[Columns[i]] # "absent")

(* What a serving server has. *)
Served == ServesTablesAndColumns /\ OnlyCutOffIndexesAreMissing

StartupInv ==
  /\ TypeOK
  /\ NoColumnsWithoutTable
  /\ NothingReadYet
  /\ TablesComeFirst
  /\ DoneBefore
  /\ ReadIsTrue
  /\ IndexesAccountedFor
  /\ PendingWhileCreating
  /\ Served
  /\ NoStartFails

---------------------------------------------------------------------------

LEMMA ColumnNames ==
  /\ Len(Columns) = 7
  /\ Column = {"rename", "write_permission", "view_count", "is_private", "nickname",
               "session_version", "github_url"}
  /\ \A i \in Position : Columns[i] \in Column
  /\ \A c \in Column : \E i \in Position : c = Columns[i]
  /\ \A i, j \in Position : Columns[i] = Columns[j] => i = j
<1>1. Len(Columns) = 7
  BY DEF Columns
<1>2. Column = {"rename", "write_permission", "view_count", "is_private", "nickname",
                "session_version", "github_url"}
  BY DEF Column, TableOf
<1>3. /\ Columns[1] = "rename" /\ Columns[2] = "write_permission" /\ Columns[3] = "view_count"
      /\ Columns[4] = "is_private" /\ Columns[5] = "nickname" /\ Columns[6] = "session_version"
      /\ Columns[7] = "github_url"
  BY DEF Columns
<1>4. \A i \in Position : i = 1 \/ i = 2 \/ i = 3 \/ i = 4 \/ i = 5 \/ i = 6 \/ i = 7
  BY DEF Position
<1>5. \A i \in Position : Columns[i] \in Column
  BY <1>2, <1>3, <1>4
<1>6. \A c \in Column : \E i \in Position : c = Columns[i]
  BY <1>2, <1>3 DEF Position
<1>7. \A i, j \in Position : Columns[i] = Columns[j] => i = j
  BY <1>3, <1>4
<1>8. QED
  BY <1>1, <1>2, <1>5, <1>6, <1>7

LEMMA TablesOfColumns ==
  \A c \in Column : TableOf[c] \in Migrated /\ TableOf[c] \in Tables /\ TableOf[c] # "none"
BY DEF Column, TableOf, Migrated, Tables

LEMMA TablesOfIndexes == \A i \in Index : IndexedTable[i] \in Tables
BY DEF Index, IndexedTable, Tables, Migrated

(* at is the position of a column, or just past the last. *)
LEMMA Positions ==
  ASSUME TypeOK
  PROVE  /\ at \in Nat /\ at \in 1..8
         /\ \A c : Migrating(c) => at \in Position /\ c = Columns[at] /\ c \in Column
         /\ AllColumns <=> at = 8
<1>1. at \in 1..8
  BY ColumnNames DEF TypeOK
<1>2. \A c : Migrating(c) => at \in Position /\ c = Columns[at]
  BY <1>1, ColumnNames DEF Migrating, Position
<1>3. AllColumns <=> at = 8
  BY <1>1, ColumnNames DEF AllColumns
<1>4. QED
  BY <1>1, <1>2, <1>3, ColumnNames

LEMMA StartupBegins == Init => StartupInv
<1>1. Init => TypeOK
  BY ColumnNames DEF Init, TypeOK, Phase
<1>2. Init => phase = "stopped" /\ NoColumnsWithoutTable
  BY DEF Init, NoColumnsWithoutTable
<1>3. Init => IndexesAccountedFor /\ PendingWhileCreating
  BY DEF Init, IndexesAccountedFor, PendingWhileCreating
<1>4. QED
  BY <1>1, <1>2, <1>3 DEF StartupInv, NothingReadYet, TablesComeFirst, DoneBefore, ReadIsTrue,
     Served, ServesTablesAndColumns, OnlyCutOffIndexesAreMissing, NoStartFails

---------------------------------------------------------------------------
(* Steps. *)

LEMMA StartKeeps ==
  ASSUME StartupInv, Start
  PROVE  StartupInv'
<1>1. TypeOK'
  BY Positions, ColumnNames DEF StartupInv, TypeOK, Start, Phase
<1>2. NoColumnsWithoutTable'
  BY DEF StartupInv, NoColumnsWithoutTable, Start
<1>3. QED
  BY <1>1, <1>2 DEF StartupInv, Start, NothingReadYet, TablesComeFirst, DoneBefore, ReadIsTrue,
     IndexesAccountedFor, PendingWhileCreating, Served,
     ServesTablesAndColumns, OnlyCutOffIndexesAreMissing, NoStartFails

(* A new table brings its indexes as pending ones; none of them was there. *)
LEMMA CreateTableKeeps ==
  ASSUME StartupInv, CreateTable
  PROVE  StartupInv'
<1>1. PICK t \in Tables \ tables :
        /\ tables' = tables \cup {t}
        /\ pending' = IndexesOf(t)
        /\ cell' = [c \in Column |-> IF TableOf[c] = t THEN "default" ELSE cell[c]]
  BY DEF CreateTable, MissingTables
<1>2. phase = "creating" /\ pending = {} /\ UNCHANGED <<phase, indexes, lost, at, looked, found>>
  BY DEF CreateTable
<1>3. TypeOK'
  BY <1>1, <1>2 DEF StartupInv, TypeOK, Cell, IndexesOf
<1>4. NoColumnsWithoutTable'
  BY <1>1 DEF StartupInv, NoColumnsWithoutTable
<1>5. IndexesAccountedFor'
  BY <1>1, <1>2 DEF StartupInv, IndexesAccountedFor, IndexesOf
<1>6. QED
  BY <1>2, <1>3, <1>4, <1>5 DEF StartupInv, NothingReadYet, TablesComeFirst, DoneBefore, ReadIsTrue,
     PendingWhileCreating, Served, ServesTablesAndColumns, OnlyCutOffIndexesAreMissing, NoStartFails

LEMMA CreateIndexKeeps ==
  ASSUME StartupInv, CreateIndex
  PROVE  StartupInv'
<1>1. PICK i \in pending : indexes' = indexes \cup {i} /\ pending' = pending \ {i}
  BY DEF CreateIndex
<1>2. phase = "creating" /\ UNCHANGED <<phase, tables, lost, cell, at, looked, found>>
  BY DEF CreateIndex
<1>3. TypeOK'
  BY <1>1, <1>2 DEF StartupInv, TypeOK
<1>4. IndexesAccountedFor'
  BY <1>1, <1>2 DEF StartupInv, IndexesAccountedFor
<1>5. QED
  BY <1>2, <1>3, <1>4 DEF StartupInv, NoColumnsWithoutTable, NothingReadYet, TablesComeFirst,
     DoneBefore, ReadIsTrue, PendingWhileCreating, Served,
     ServesTablesAndColumns, OnlyCutOffIndexesAreMissing, NoStartFails

LEMMA MigrationBegins ==
  ASSUME StartupInv, EndOfCreation
  PROVE  StartupInv'
<1>1. /\ phase = "creating" /\ phase' = "migrating" /\ Tables \subseteq tables /\ pending = {}
      /\ UNCHANGED <<tables, indexes, pending, lost, cell, at, looked, found>>
  BY DEF EndOfCreation
<1>2. at = 1 /\ looked = "none"
  BY <1>1 DEF StartupInv, NothingReadYet
<1>3. TypeOK' /\ tables' = Tables
  BY <1>1 DEF StartupInv, TypeOK, Phase
<1>4. NoColumnsWithoutTable'
  BY <1>1 DEF StartupInv, NoColumnsWithoutTable
<1>5. DoneBefore' /\ ReadIsTrue'
  BY <1>1, <1>2, TablesOfColumns, ColumnNames DEF DoneBefore, ReadIsTrue, Position
<1>6. QED
  BY <1>1, <1>3, <1>4, <1>5 DEF StartupInv, NothingReadYet, TablesComeFirst,
     IndexesAccountedFor, PendingWhileCreating, Served,
     ServesTablesAndColumns, OnlyCutOffIndexesAreMissing, NoStartFails

LEMMA ReadKeeps ==
  ASSUME StartupInv, NEW c \in Column, ReadColumns(c)
  PROVE  StartupInv'
<1>1. /\ phase = "migrating" /\ looked' = TableOf[c]
      /\ found' = {d \in Present : TableOf[d] = TableOf[c]}
      /\ UNCHANGED <<phase, tables, indexes, pending, lost, cell, at>>
  BY DEF ReadColumns, Migrating
<1>2. TypeOK'
  BY <1>1, TablesOfColumns DEF StartupInv, TypeOK, Present
<1>3. ReadIsTrue'
  BY <1>1, ColumnNames DEF ReadIsTrue, Present
<1>4. QED
  BY <1>1, <1>2, <1>3 DEF StartupInv, NoColumnsWithoutTable, NothingReadYet, TablesComeFirst,
     DoneBefore, IndexesAccountedFor, PendingWhileCreating, Served,
     ServesTablesAndColumns, OnlyCutOffIndexesAreMissing, NoStartFails

LEMMA SkipKeeps ==
  ASSUME StartupInv, NEW c \in Column, SkipColumn(c)
  PROVE  StartupInv'
<1>1. /\ phase = "migrating" /\ looked = TableOf[c] /\ c \in found /\ at' = at + 1
      /\ UNCHANGED <<phase, tables, indexes, pending, lost, cell, looked, found>>
  BY DEF SkipColumn, Migrating, ColumnsRead
<1>2. at \in Position /\ c = Columns[at] /\ at' \in 1..8
  BY <1>1, Positions DEF SkipColumn, StartupInv, Position
<1>3. cell[Columns[at]] # "absent"
  BY <1>1, <1>2 DEF StartupInv, ReadIsTrue, Position
<1>4. DoneBefore'
  <2>1. \A i \in Position : i < at' => i < at \/ i = at
    BY <1>1, <1>2 DEF Position
  <2>2. QED
    BY <1>1, <1>3, <2>1 DEF StartupInv, DoneBefore
<1>5. ReadIsTrue'
  <2>1. \A i \in Position : i >= at' => i >= at
    BY <1>1, <1>2 DEF Position
  <2>2. QED
    BY <1>1, <2>1 DEF StartupInv, ReadIsTrue
<1>6. TypeOK'
  BY <1>1, <1>2, ColumnNames DEF StartupInv, TypeOK
<1>7. QED
  BY <1>1, <1>4, <1>5, <1>6 DEF StartupInv, NoColumnsWithoutTable, NothingReadYet, TablesComeFirst,
     IndexesAccountedFor, PendingWhileCreating, Served,
     ServesTablesAndColumns, OnlyCutOffIndexesAreMissing, NoStartFails

(* The column is not there: what was read says so, and it is true. *)
LEMMA AddedIsAbsent ==
  ASSUME StartupInv, NEW c \in Column, AddColumn(c)
  PROVE  /\ phase = "migrating" /\ looked = TableOf[c]
         /\ at \in Position /\ c = Columns[at] /\ at' \in 1..8 /\ at' = at + 1
         /\ cell[c] = "absent"
         /\ cell' = [cell EXCEPT ![c] = "default"]
         /\ UNCHANGED <<phase, tables, indexes, pending, lost, looked, found>>
<1>1. /\ phase = "migrating" /\ looked = TableOf[c] /\ c \notin found
      /\ at \in Position /\ c = Columns[at]
  BY Positions DEF AddColumn, ColumnsRead, Migrating, StartupInv
<1>2. cell[c] = "absent"
  BY <1>1 DEF StartupInv, ReadIsTrue, Position
<1>3. QED
  BY <1>1, <1>2 DEF AddColumn, Added, Position

LEMMA AddKeeps ==
  ASSUME StartupInv, NEW c \in Column, AddColumn(c)
  PROVE  StartupInv'
<1>1. /\ phase = "migrating" /\ at \in Position /\ c = Columns[at] /\ at' \in 1..8
      /\ at' = at + 1
      /\ cell' = [cell EXCEPT ![c] = "default"]
      /\ UNCHANGED <<phase, tables, indexes, pending, lost, looked, found>>
  BY AddedIsAbsent
<1>2. cell'[c] = "default" /\ \A d \in Column \ {c} : cell'[d] = cell[d]
  BY <1>1 DEF StartupInv, TypeOK
<1>3. TypeOK'
  BY <1>1, ColumnNames DEF StartupInv, TypeOK, Cell
<1>4. DoneBefore'
  <2>1. \A i \in Position : i < at' => i < at \/ Columns[i] = c
    BY <1>1 DEF Position
  <2>2. QED
    BY <1>1, <1>2, <2>1, ColumnNames DEF StartupInv, DoneBefore
<1>5. ReadIsTrue'
  <2>1. \A i \in Position : i >= at' => i >= at /\ Columns[i] # c
    BY <1>1, ColumnNames DEF Position
  <2>2. QED
    BY <1>1, <1>2, <2>1, ColumnNames DEF StartupInv, ReadIsTrue
<1>6. NoColumnsWithoutTable'
  BY <1>1, TablesOfColumns DEF StartupInv, NoColumnsWithoutTable, TablesComeFirst
<1>7. QED
  BY <1>1, <1>3, <1>4, <1>5, <1>6 DEF StartupInv, NothingReadYet, TablesComeFirst,
     IndexesAccountedFor, PendingWhileCreating, Served,
     ServesTablesAndColumns, OnlyCutOffIndexesAreMissing, NoStartFails

LEMMA ServeKeeps ==
  ASSUME StartupInv, Serve
  PROVE  StartupInv'
<1>1. /\ phase = "migrating" /\ phase' = "serving"
      /\ UNCHANGED <<tables, indexes, pending, lost, cell, at, looked, found>>
  BY DEF Serve
<1>2. \A i \in Position : cell[Columns[i]] # "absent"
  <2>1. at = 8
    BY Positions DEF Serve, StartupInv
  <2>2. QED
    BY <1>1, <2>1 DEF StartupInv, DoneBefore, Position
<1>3. Present = Column
  BY <1>2, ColumnNames DEF Present
<1>4. Index \ indexes = lost
  <2>1. \A i \in Index : IndexedTable[i] \in tables
    BY <1>1, TablesOfIndexes DEF StartupInv, TablesComeFirst
  <2>2. pending = {} /\ lost \subseteq Index
    BY <1>1 DEF StartupInv, PendingWhileCreating, TypeOK
  <2>3. QED
    BY <2>1, <2>2 DEF StartupInv, IndexesAccountedFor
<1>5. Served'
  BY <1>1, <1>3, <1>4 DEF Served, ServesTablesAndColumns, OnlyCutOffIndexesAreMissing, StartupInv,
     TablesComeFirst, Present
<1>6. TypeOK' /\ NoColumnsWithoutTable'
  BY <1>1 DEF StartupInv, TypeOK, Phase, NoColumnsWithoutTable
<1>7. QED
  BY <1>1, <1>5, <1>6 DEF StartupInv, NothingReadYet, TablesComeFirst, DoneBefore, ReadIsTrue,
     IndexesAccountedFor, PendingWhileCreating, NoStartFails

LEMMA RequestKeeps ==
  ASSUME StartupInv, NEW c \in Column, Request(c)
  PROVE  StartupInv'
<1>1. /\ phase = "serving" /\ cell[c] = "default" /\ cell' = [cell EXCEPT ![c] = "changed"]
      /\ UNCHANGED <<phase, tables, indexes, pending, lost, at, looked, found>>
  BY DEF Request
<1>2. TypeOK'
  BY <1>1 DEF StartupInv, TypeOK, Cell
<1>3. \A d \in Column : cell'[d] = "absent" <=> cell[d] = "absent"
  BY <1>1 DEF StartupInv, TypeOK
<1>4. QED
  BY <1>1, <1>2, <1>3 DEF StartupInv, NoColumnsWithoutTable, NothingReadYet, TablesComeFirst,
     DoneBefore, ReadIsTrue, IndexesAccountedFor, PendingWhileCreating, Served,
     ServesTablesAndColumns, OnlyCutOffIndexesAreMissing, NoStartFails, Present

LEMMA StopKeeps ==
  ASSUME StartupInv, Stop
  PROVE  StartupInv'
<1>1. TypeOK' /\ NoColumnsWithoutTable'
  BY DEF StartupInv, Stop, TypeOK, Phase, NoColumnsWithoutTable
<1>2. IndexesAccountedFor' /\ PendingWhileCreating'
  BY DEF StartupInv, Stop, IndexesAccountedFor, PendingWhileCreating
<1>3. QED
  BY <1>1, <1>2 DEF StartupInv, Stop, NothingReadYet, TablesComeFirst, DoneBefore, ReadIsTrue,
     Served, ServesTablesAndColumns, OnlyCutOffIndexesAreMissing, NoStartFails

LEMMA StartupStep ==
  ASSUME StartupInv, [Next]_vars
  PROVE  StartupInv'
<1>1. CASE UNCHANGED vars
  BY <1>1 DEF vars, StartupInv, TypeOK, NoColumnsWithoutTable, NothingReadYet, TablesComeFirst,
     DoneBefore, ReadIsTrue, IndexesAccountedFor, PendingWhileCreating, Served,
     ServesTablesAndColumns, OnlyCutOffIndexesAreMissing, NoStartFails, Present
<1>2. ASSUME NEW c \in Column, migrate_legacy_schema(c)
      PROVE  StartupInv'
  BY <1>2, ReadKeeps, SkipKeeps, AddKeeps DEF migrate_legacy_schema
<1>3. CASE StartStep
  BY <1>2, <1>3, StartKeeps, CreateTableKeeps, CreateIndexKeeps, MigrationBegins, ServeKeeps
     DEF StartStep, create_all
<1>4. QED
  BY <1>1, <1>3, RequestKeeps, StopKeeps DEF Next

(* The schema's cells, tables and positions keep their types. *)
THEOREM StartupTypeCorrect == Spec => []TypeOK
<1>1. StartupInv => TypeOK
  BY DEF StartupInv
<1>2. StartupInv /\ [Next]_vars => StartupInv'
  BY StartupStep
<1>3. QED
  BY <1>1, <1>2, StartupBegins, PTL DEF Spec

(* From whatever release and however many stopped starts, the server       *)
(* serves only with all tables and columns (migrate_legacy_schema,         *)
(* database.py:29).                                                        *)
THEOREM TablesAndColumnsAreServed == Spec => []ServesTablesAndColumns
<1>1. StartupInv => ServesTablesAndColumns
  BY DEF StartupInv, Served
<1>2. StartupInv /\ [Next]_vars => StartupInv'
  BY StartupStep
<1>3. QED
  BY <1>1, <1>2, StartupBegins, PTL DEF Spec

(* A server lacks exactly the indexes that a stop cut off from their table *)
(* or that an old release never had (create_all, database.py:20): starts   *)
(* lose no other, and give back none.                                      *)
THEOREM OnlyStopsLoseIndexes == Spec => []OnlyCutOffIndexesAreMissing
<1>1. StartupInv => OnlyCutOffIndexesAreMissing
  BY DEF StartupInv, Served
<1>2. StartupInv /\ [Next]_vars => StartupInv'
  BY StartupStep
<1>3. QED
  BY <1>1, <1>2, StartupBegins, PTL DEF Spec

(* No start meets a column that it would add: what was read of a table is  *)
(* true until the last of its columns (database.py:55).                    *)
THEOREM EveryStartGoesThrough == Spec => []NoStartFails
<1>1. StartupInv => NoStartFails
  BY DEF StartupInv
<1>2. StartupInv /\ [Next]_vars => StartupInv'
  BY StartupStep
<1>3. QED
  BY <1>1, <1>2, StartupBegins, PTL DEF Spec

(* Neither create_all nor ALTER TABLE touches a column that is there: only *)
(* requests change what a column holds (README.md:381).                    *)
THEOREM StartsOverwriteNothing == Spec => StartsKeepWhatIsStored
<1>1. ASSUME StartupInv, create_all
      PROVE  \A c \in Present : cell'[c] = cell[c]
  <2>1. CASE CreateTable
    <3>1. PICK t \in Tables \ tables :
            cell' = [c \in Column |-> IF TableOf[c] = t THEN "default" ELSE cell[c]]
      BY <2>1 DEF CreateTable, MissingTables
    <3>2. QED
      BY <1>1, <3>1 DEF StartupInv, NoColumnsWithoutTable, Present
  <2>2. CASE CreateIndex
    BY <2>2 DEF CreateIndex
  <2>3. QED
    BY <1>1, <2>1, <2>2 DEF create_all
<1>2. ASSUME StartupInv, NEW d \in Column, migrate_legacy_schema(d)
      PROVE  \A c \in Present : cell'[c] = cell[c]
  <2>1. CASE ReadColumns(d) \/ SkipColumn(d)
    BY <2>1 DEF ReadColumns, SkipColumn
  <2>2. CASE AddColumn(d)
    BY <1>2, <2>2, AddedIsAbsent DEF StartupInv, TypeOK, Present
  <2>3. QED
    BY <1>2, <2>1, <2>2 DEF migrate_legacy_schema
<1>3. ASSUME StartupInv, StartStep
      PROVE  \A c \in Present : cell'[c] = cell[c]
  BY <1>1, <1>2, <1>3 DEF StartStep, Start, EndOfCreation, Serve
<1>4. StartupInv /\ [Next]_vars =>
        [phase # "serving" => \A c \in Present : cell'[c] = cell[c]]_vars
  <2>1. ASSUME StartupInv, Next, phase # "serving"
        PROVE  \A c \in Present : cell'[c] = cell[c]
    BY <1>3, <2>1 DEF Next, Request, Stop
  <2>2. QED
    BY <2>1
<1>5. StartupInv /\ [Next]_vars => StartupInv'
  BY StartupStep
<1>6. QED
  BY <1>4, <1>5, StartupBegins, PTL DEF Spec, StartsKeepWhatIsStored

---------------------------------------------------------------------------
(* How many steps a start may still need, at most. *)

(* The columns of the next column's table are still to be read. *)
MustRead == at <= Len(Columns) /\ looked # TableOf[Columns[at]]

Reads == IF MustRead THEN 1 ELSE 0

Distance ==
  CASE phase = "stopped" -> 100
    [] phase = "creating" -> 50 + 4 * Cardinality(MissingTables) + Cardinality(pending)
    [] phase = "migrating" -> 1 + 2 * (8 - at) + Reads
    [] OTHER -> 0

LEMMA MissingTablesAreFew ==
  /\ IsFiniteSet(MissingTables) /\ Cardinality(MissingTables) \in 0..5
  /\ \A t \in MissingTables :
       Cardinality(MissingTables \ {t}) = Cardinality(MissingTables) - 1
<1>1. IsFiniteSet(Tables) /\ Cardinality(Tables) = 5
  <2>1. PICK two, three : /\ two = {"permissions"} \cup {"wikicategory"}
                          /\ three = two \cup {"wikidoc"}
    OBVIOUS
  <2>2. /\ "wikicategory" \notin {"permissions"} /\ "wikidoc" \notin two
        /\ "wikiuser" \notin three /\ "documentevent" \notin three \cup {"wikiuser"}
        /\ Tables = (three \cup {"wikiuser"}) \cup {"documentevent"}
    BY <2>1 DEF Tables, Migrated
  <2>3. IsFiniteSet({"permissions"}) /\ Cardinality({"permissions"}) = 1
    BY FS_Singleton
  <2>4. IsFiniteSet(two) /\ Cardinality(two) = 2
    BY <2>1, <2>2, <2>3, FS_AddElement
  <2>5. IsFiniteSet(three) /\ Cardinality(three) = 3
    BY <2>1, <2>2, <2>4, FS_AddElement
  <2>6. IsFiniteSet(three \cup {"wikiuser"}) /\ Cardinality(three \cup {"wikiuser"}) = 4
    BY <2>2, <2>5, FS_AddElement
  <2>7. QED
    BY <2>2, <2>6, FS_AddElement
<1>2. MissingTables \subseteq Tables
  BY DEF MissingTables
<1>3. IsFiniteSet(MissingTables) /\ Cardinality(MissingTables) <= Cardinality(Tables)
  BY <1>1, <1>2, FS_Subset
<1>4. Cardinality(MissingTables) \in Nat /\ Cardinality(Tables) \in Nat
  BY <1>1, <1>3, FS_CardinalityType
<1>5. \A t \in MissingTables :
        Cardinality(MissingTables \ {t}) = Cardinality(MissingTables) - 1
  BY <1>3, FS_RemoveElement
<1>6. QED
  BY <1>1, <1>3, <1>4, <1>5

LEMMA IndexesAreFew ==
  ASSUME NEW S, S \subseteq Index
  PROVE  /\ IsFiniteSet(S) /\ Cardinality(S) \in 0..3
         /\ \A i \in S : Cardinality(S \ {i}) = Cardinality(S) - 1
<1>1. IsFiniteSet(Index) /\ Cardinality(Index) = 3
  <2>1. PICK two : two = {"email"} \cup {"document_title"}
    OBVIOUS
  <2>2. /\ "document_title" \notin {"email"} /\ "updated_by" \notin two
        /\ Index = two \cup {"updated_by"}
    BY <2>1 DEF Index, IndexedTable
  <2>3. IsFiniteSet({"email"}) /\ Cardinality({"email"}) = 1
    BY FS_Singleton
  <2>4. IsFiniteSet(two) /\ Cardinality(two) = 2
    BY <2>1, <2>2, <2>3, FS_AddElement
  <2>5. QED
    BY <2>2, <2>4, FS_AddElement
<1>2. IsFiniteSet(S) /\ Cardinality(S) <= Cardinality(Index)
  BY <1>1, FS_Subset
<1>3. Cardinality(S) \in Nat
  BY <1>2, FS_CardinalityType
<1>4. \A i \in S : Cardinality(S \ {i}) = Cardinality(S) - 1
  BY <1>2, FS_RemoveElement
<1>5. QED
  BY <1>1, <1>2, <1>3, <1>4

(* A stopped server is furthest from serving, a serving one has arrived. *)
LEMMA DistanceIsNatural ==
  ASSUME StartupInv
  PROVE  Distance \in Nat
<1>1. at \in 1..8 /\ Reads \in 0..1
  BY Positions DEF StartupInv, Reads
<1>2. 1 + 2 * (8 - at) + Reads \in Nat
  BY <1>1
<1>3. 50 + 4 * Cardinality(MissingTables) + Cardinality(pending) \in Nat
  BY MissingTablesAreFew, IndexesAreFew DEF StartupInv, TypeOK
<1>4. QED
  BY <1>2, <1>3 DEF Distance

(* A table counts for more than its indexes. *)
LEMMA CreationNears ==
  ASSUME StartupInv, StartupInv', Start \/ create_all \/ EndOfCreation
  PROVE  Distance' < Distance
<1>1. /\ Cardinality(MissingTables) \in 0..5
      /\ Cardinality(pending) \in 0..3 /\ Cardinality(pending') \in 0..3
  BY MissingTablesAreFew, IndexesAreFew DEF StartupInv, TypeOK
<1>2. CASE Start
  <2>1. phase = "stopped" /\ phase' = "creating" /\ UNCHANGED <<tables, pending>>
    BY <1>2 DEF Start
  <2>2. /\ Distance = 100
        /\ Distance' = 50 + 4 * Cardinality(MissingTables) + Cardinality(pending)
    BY <2>1 DEF Distance, MissingTables
  <2>3. QED
    BY <1>1, <2>2
<1>3. CASE CreateTable
  <2>1. phase = "creating" /\ phase' = "creating" /\ pending = {}
    BY <1>3 DEF CreateTable
  <2>2. PICK t \in MissingTables : tables' = tables \cup {t}
    BY <1>3 DEF CreateTable
  <2>3. MissingTables' = MissingTables \ {t}
    BY <2>2 DEF MissingTables
  <2>4. /\ Distance = 50 + 4 * Cardinality(MissingTables) + Cardinality(pending)
        /\ Distance' = 50 + 4 * Cardinality(MissingTables \ {t}) + Cardinality(pending')
    BY <2>1, <2>3 DEF Distance
  <2>5. Cardinality(MissingTables \ {t}) = Cardinality(MissingTables) - 1
    BY <2>2, MissingTablesAreFew
  <2>6. QED
    BY <1>1, <2>4, <2>5
<1>4. CASE CreateIndex
  <2>1. phase = "creating" /\ phase' = "creating" /\ tables' = tables
    BY <1>4 DEF CreateIndex
  <2>2. PICK i \in pending : pending' = pending \ {i}
    BY <1>4 DEF CreateIndex
  <2>3. /\ Distance = 50 + 4 * Cardinality(MissingTables) + Cardinality(pending)
        /\ Distance' = 50 + 4 * Cardinality(MissingTables) + Cardinality(pending \ {i})
    BY <2>1, <2>2 DEF Distance, MissingTables
  <2>4. Cardinality(pending \ {i}) = Cardinality(pending) - 1
    BY <2>2, IndexesAreFew DEF StartupInv, TypeOK
  <2>5. QED
    BY <1>1, <2>3, <2>4
<1>5. CASE EndOfCreation
  <2>1. /\ phase = "creating" /\ phase' = "migrating" /\ at' = at
        /\ at \in 1..8 /\ Reads' \in 0..1
    BY <1>5, Positions DEF EndOfCreation, StartupInv, Reads
  <2>2. /\ Distance = 50 + 4 * Cardinality(MissingTables) + Cardinality(pending)
        /\ Distance' = 1 + 2 * (8 - at) + Reads'
    BY <2>1 DEF Distance
  <2>3. QED
    BY <1>1, <2>1, <2>2
<1>6. QED
  BY <1>2, <1>3, <1>4, <1>5 DEF create_all

LEMMA MigrationNears ==
  ASSUME StartupInv, NEW c \in Column, migrate_legacy_schema(c)
  PROVE  Distance' < Distance
<1>1. CASE ReadColumns(c)
  <2>1. /\ phase = "migrating" /\ phase' = "migrating" /\ at \in 1..8 /\ at' = at
        /\ c = Columns[at] /\ at <= Len(Columns)
        /\ looked # TableOf[c] /\ looked' = TableOf[c]
    BY <1>1, Positions DEF ReadColumns, Migrating, ColumnsRead, StartupInv
  <2>2. Reads = 1 /\ Reads' = 0
    BY <2>1 DEF Reads, MustRead
  <2>3. Distance = 1 + 2 * (8 - at) + 1 /\ Distance' = 1 + 2 * (8 - at) + 0
    BY <2>1, <2>2 DEF Distance
  <2>4. QED
    BY <2>1, <2>3
<1>2. CASE SkipColumn(c) \/ AddColumn(c)
  <2>1. phase = "migrating" /\ phase' = "migrating" /\ at \in 1..7 /\ at' = at + 1
    BY <1>2, AddedIsAbsent, Positions DEF SkipColumn, Migrating, StartupInv, Position
  <2>2. Reads \in 0..1 /\ Reads' \in 0..1
    BY DEF Reads
  <2>3. Distance = 1 + 2 * (8 - at) + Reads /\ Distance' = 1 + 2 * (8 - (at + 1)) + Reads'
    BY <2>1 DEF Distance
  <2>4. \A i \in 1..7 : \A m, n \in 0..1 : 1 + 2 * (8 - (i + 1)) + n < 1 + 2 * (8 - i) + m
    OBVIOUS
  <2>5. QED
    BY <2>1, <2>2, <2>3, <2>4
<1>3. QED
  BY <1>1, <1>2 DEF migrate_legacy_schema

(* Each step of a start brings the server closer to serving, by a measure  *)
(* that cannot fall for ever: a start that is left alone comes to its end, *)
(* at a database of any release (migrate_legacy_schema).                   *)
THEOREM StartsDrawNearer ==
  Spec => [](Distance \in Nat) /\ [][StartStep => Distance' < Distance]_vars
<1>1. StartupInv => Distance \in Nat
  BY DistanceIsNatural
<1>2. StartupInv /\ [Next]_vars => [StartStep => Distance' < Distance]_vars
  <2>1. ASSUME StartupInv, Serve
        PROVE  Distance' < Distance
    <3>1. phase = "migrating" /\ phase' = "serving" /\ at \in 1..8 /\ Reads \in 0..1
      BY <2>1, Positions DEF Serve, StartupInv, Reads
    <3>2. Distance = 1 + 2 * (8 - at) + Reads /\ Distance' = 0
      BY <3>1 DEF Distance
    <3>3. QED
      BY <3>1, <3>2
  <2>2. QED
    BY <2>1, StartupStep, CreationNears, MigrationNears DEF StartStep
<1>3. StartupInv /\ [Next]_vars => StartupInv'
  BY StartupStep
<1>4. QED
  BY <1>1, <1>2, <1>3, StartupBegins, PTL DEF Spec

===========================================================================
