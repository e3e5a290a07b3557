------------------------------ MODULE Startup ------------------------------
(***************************************************************************)
(* The start of the server: create_all and migrate_legacy_schema of        *)
(* core/database.py bring a database of any older release up to the        *)
(* present schema, statement by statement.  SQLite keeps each statement by *)
(* itself, and the process may end between any two of them: between the    *)
(* CREATE TABLE and the CREATE INDEX of an indexed column as well, and no  *)
(* later start makes up for the index.                                     *)
(*                                                                         *)
(* Of each table one row stands for all; a cell is what the row holds in a *)
(* column that releases have added.                                        *)
(***************************************************************************)
EXTENDS Naturals, Sequences

VARIABLES
  phase,   \* what the process is doing
  tables,  \* the tables of the database
  indexes, \* the indexed columns that have their index
  pending, \* indexes of the table just created, still to be created
  lost,    \* indexes that no start will create, for their table is there
  cell,    \* what each added column holds
  at,      \* the number of the column that migrate_legacy_schema comes to
  looked,  \* the table whose columns it read last
  found    \* the columns it read

vars == <<phase, tables, indexes, pending, lost, cell, at, looked, found>>

---------------------------------------------------------------------------

(* The columns that migrate_legacy_schema adds, in its order. *)
Columns ==
  <<"rename", "write_permission", "view_count", "is_private", "nickname", "session_version",
    "github_url">>

TableOf ==
  [rename |-> "permissions", write_permission |-> "wikicategory", view_count |-> "wikidoc",
   is_private |-> "wikidoc", nickname |-> "wikiuser", session_version |-> "wikiuser",
   github_url |-> "wikiuser"]

Column == DOMAIN TableOf

Migrated == {"permissions", "wikicategory", "wikidoc", "wikiuser"}

(* documentevent stands for the six tables that never got another column. *)
Tables == Migrated \cup {"documentevent"}

(* The indexed columns of these tables; revokedtoken, one of the six, has  *)
(* one, which goes the way of documentevent's two.                         *)
IndexedTable ==
  [email |-> "wikiuser", document_title |-> "documentevent", updated_by |-> "documentevent"]

Index == DOMAIN IndexedTable

Cell == {"absent", "default", "changed"}

Phase == {"stopped", "creating", "migrating", "serving", "failed"}

TypeOK ==
  /\ phase \in Phase
  /\ tables \subseteq Tables
  /\ indexes \subseteq Index /\ pending \subseteq Index /\ lost \subseteq Index
  /\ cell \in [Column -> Cell]
  /\ at \in 1..Len(Columns) + 1
  /\ looked \in Migrated \cup {"none"}
  /\ found \subseteq Column

Present == {c \in Column : cell[c] # "absent"}

(* A database that some release left: a table that exists may lack any of  *)
(* the columns and indexes, and what it has may have been changed.  The    *)
(* columns that README.md:411-436 tells the operator to add are there.     *)
Init ==
  /\ phase = "stopped"
  /\ tables \in SUBSET Tables
  /\ indexes \in SUBSET {i \in Index : IndexedTable[i] \in tables}
  /\ lost = {i \in Index : IndexedTable[i] \in tables} \ indexes
  /\ pending = {}
  /\ cell \in [Column -> Cell]
  /\ \A c \in Column : TableOf[c] \notin tables => cell[c] = "absent"
  /\ at = 1
  /\ looked = "none" /\ found = {}

---------------------------------------------------------------------------

Start ==
  /\ phase = "stopped"
  /\ phase' = "creating"
  /\ at' = 1
  /\ looked' = "none" /\ found' = {}
  /\ UNCHANGED <<tables, indexes, pending, lost, cell>>

\* Mutant: all tables are created anew.
AllTables == Tables

(* create_all leaves a table that exists as it is. *)
MissingTables == Tables \ tables

\* Mutant: an index that is not unique is forgotten.
UniqueIndexesOf(t) == {"email"} \cap {i \in Index : IndexedTable[i] = t}

IndexesOf(t) == {i \in Index : IndexedTable[i] = t}

CreateTable ==
  /\ phase = "creating" /\ pending = {}
  /\ \E t \in MissingTables :
       /\ tables' = tables \cup {t}
       /\ pending' = IndexesOf(t)
       /\ cell' = [c \in Column |-> IF TableOf[c] = t THEN "default" ELSE cell[c]]
  /\ UNCHANGED <<phase, indexes, lost, at, looked, found>>

(* The indexes of a table follow it, in any order. *)
CreateIndex ==
  /\ phase = "creating"
  /\ \E i \in pending :
       /\ indexes' = indexes \cup {i}
       /\ pending' = pending \ {i}
  /\ UNCHANGED <<phase, tables, lost, cell, at, looked, found>>

create_all == CreateTable \/ CreateIndex

EndOfCreation ==
  /\ phase = "creating" /\ Tables \subseteq tables /\ pending = {}
  /\ phase' = "migrating"
  /\ UNCHANGED <<tables, indexes, pending, lost, cell, at, looked, found>>

\* Mutant: the columns of the first table are taken for those of all.
ColumnsReadOnce(t) == looked # "none"

ColumnsRead(t) == looked = t

Migrating(c) == phase = "migrating" /\ at <= Len(Columns) /\ c = Columns[at]

\* PRAGMA table_info
ReadColumns(c) ==
  /\ Migrating(c) /\ ~ColumnsRead(TableOf[c])
  /\ looked' = TableOf[c]
  /\ found' = {d \in Present : TableOf[d] = TableOf[c]}
  /\ UNCHANGED <<phase, tables, indexes, pending, lost, cell, at>>

SkipColumn(c) ==
  /\ Migrating(c) /\ ColumnsRead(TableOf[c]) /\ c \in found
  /\ at' = at + 1
  /\ UNCHANGED <<phase, tables, indexes, pending, lost, cell, looked, found>>

\* Mutant: a column without DEFAULT.
AddedEmpty == "null"

(* NOT NULL DEFAULT fills the rows that are there. *)
Added == "default"

(* SQLite refuses a column that the table has. *)
AddColumn(c) ==
  /\ Migrating(c) /\ ColumnsRead(TableOf[c]) /\ c \notin found
  /\ IF cell[c] = "absent"
       THEN /\ cell' = [cell EXCEPT ![c] = Added]
            /\ at' = at + 1
            /\ UNCHANGED phase
       ELSE /\ phase' = "failed"
            /\ UNCHANGED <<cell, at>>
  /\ UNCHANGED <<tables, indexes, pending, lost, looked, found>>

\* Mutant: the server serves although the last table was not looked at.
MostColumns == at > Len(Columns) - 3

AllColumns == at > Len(Columns)

Serve ==
  /\ phase = "migrating" /\ AllColumns
  /\ phase' = "serving"
  /\ UNCHANGED <<tables, indexes, pending, lost, cell, at, looked, found>>

(* A request changes what a column holds. *)
Request(c) ==
  /\ phase = "serving"
  /\ cell[c] = "default"
  /\ cell' = [cell EXCEPT ![c] = "changed"]
  /\ UNCHANGED <<phase, tables, indexes, pending, lost, at, looked, found>>

(* The process is stopped or dies, at any moment.  create_all leaves out   *)
(* the tables that are there, with their indexes: what was pending is lost. *)
Stop ==
  /\ phase # "stopped"
  /\ phase' = "stopped"
  /\ pending' = {}
  /\ lost' = lost \cup pending
  /\ UNCHANGED <<tables, indexes, cell, at, looked, found>>

migrate_legacy_schema(c) == ReadColumns(c) \/ SkipColumn(c) \/ AddColumn(c)

StartStep ==
  \/ Start
  \/ create_all
  \/ EndOfCreation
  \/ \E c \in Column : migrate_legacy_schema(c)
  \/ Serve

Next ==
  \/ StartStep
  \/ \E c \in Column : Request(c)
  \/ Stop

(* A start goes on until it is stopped, and the service manager starts the *)
(* server again.  Nobody owes a request, and nobody a stop.                *)
Spec == Init /\ [][Next]_vars /\ WF_vars(StartStep)

---------------------------------------------------------------------------

(* Whatever release left the database, and wherever earlier starts were    *)
(* interrupted, the server serves only with all tables and columns         *)
(* (database.py:29).  Of indexes this is not so: see the next property.    *)
ServesTablesAndColumns == phase = "serving" => tables = Tables /\ Present = Column

(* The indexes that a serving database lacks, the unique one of wikiuser's *)
(* email among them, are those that an old release left out and those cut  *)
(* off by a stop between their table and them; all others are there, and   *)
(* no start creates one later (database.py:20, wiki_user.py:66).           *)
OnlyCutOffIndexesAreMissing == phase = "serving" => Index \ indexes = lost

(* No start meets a column that is already there: what a start reads of a  *)
(* table is still true when it adds the columns (database.py:56).          *)
NoStartFails == phase # "failed"

(* Starts never overwrite what requests have stored (README.md:381, 393,   *)
(* 401).                                                                   *)
StartsKeepWhatIsStored ==
  [][phase # "serving" => \A c \in Present : cell'[c] = cell[c]]_vars

(* A server that is left alone in the end serves in the end, however often *)
(* it was stopped before and wherever that left the schema.                *)
StartsEndServing == <>[](phase # "stopped") => <>[](phase = "serving")

===========================================================================
