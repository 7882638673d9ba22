---------------------------- MODULE PostgresLoad ----------------------------
(***************************************************************************)
(* The Postgres -> Bronze load: ingest/run_postgres.py with the source of    *)
(* ingest/postgres/source.py and the metrics of ingest/run_metrics.py.      *)
(*                                                                         *)
(* Every run reflects the schemas one by one, reads each table it found in   *)
(* a statement of its own and appends all of it to Bronze; the application   *)
(* and its migrations go on meanwhile.  What dlt writes becomes visible when *)
(* it writes the load's row in _dlt_loads.  How the runner reaches RDS is in *)
(* SgIngress, what is recorded of the job in RunLedger.                     *)
(*                                                                         *)
(* A table is <<schema, name>>, both as the sequences of words between       *)
(* their underscores.                                                       *)
(***************************************************************************)
EXTENDS Naturals, Sequences, FiniteSets

CONSTANTS
  Tables,        \* the tables there may ever be
  Seed,          \* those of the seed schema
  Schemas,       \* the --schemas argument, in its order
  Rows,          \* row versions, numbered along the column a cursor would watch
  MaxWrites,     \* bound: changes to the database
  MaxFaults,     \* bound: runs that break off or die
  TraceMayMove,  \* TRUE when a dlt other than the pinned one hides its row counts
  None           \* no metrics file, no exit code

\* Two schema names differ at some word both have: neither begins the other.
Diverge(s, u) == \E i \in 1..Len(s) : i <= Len(u) /\ s[i] # u[i]

ASSUME TablesAssumption ==
  /\ Tables \subseteq Seq(STRING) \X Seq(STRING)
  /\ Seed \subseteq Tables
  /\ Schemas \in Seq(Seq(STRING))
  /\ \A t, u \in Tables : t[1] # u[1] => Diverge(t[1], u[1])
ASSUME RowsAssumption == Rows \subseteq Nat /\ IsFiniteSet(Rows) /\ IsFiniteSet(Tables)
ASSUME BoundsAssumption == MaxWrites \in Nat /\ MaxFaults \in Nat
ASSUME FlagAssumption == TraceMayMove \in BOOLEAN
ASSUME NoneAssumption == None \notin Nat \cup {"green", "red"}

VARIABLES
  tables,     \* RDS: the tables there are
  rows,       \* RDS: what each of them holds
  writes,     \* bound counter
  pc,         \* where the run is
  left,       \* schemas still to be reflected
  resources,  \* tables reflected and not yet read
  copy,       \* rows read by this run: <<table, row>>
  committed,  \* this run's row is in _dlt_loads
  metrics,    \* rows_processed in the metrics file on the runner
  exit,       \* the exit code
  faults,     \* bound counter
  bronze,     \* committed rows, with the name of the Bronze table they are in
  standing,   \* history: selected rows there ever since this run started
  outlived    \* history: rows that stood through a whole load that committed

dbVars  == <<tables, rows, writes>>
runVars == <<left, resources, copy, committed, metrics, exit>>
vars == <<dbVars, pc, runVars, faults, bronze, standing, outlived>>

\* (mutant) Only the table's own name.
BronzeNameBare(t) == t[2]

\* bronze_table_name: the two names joined by one underscore.
BronzeName(t) == t[1] \o t[2]

BronzeRow == [name : Seq(STRING), table : Tables, row : Rows]

TypeOK ==
  /\ tables \subseteq Tables
  /\ rows \in [Tables -> SUBSET Rows]
  /\ writes \in 0..MaxWrites
  /\ pc \in {"idle", "reflect", "extract", "report", "exited", "dead"}
  /\ left \in Seq(Seq(STRING))
  /\ resources \subseteq Tables
  /\ copy \subseteq Tables \X Rows
  /\ committed \in BOOLEAN
  /\ metrics \in Nat \cup {None}
  /\ exit \in {"green", "red", None}
  /\ faults \in 0..MaxFaults
  /\ bronze \subseteq BronzeRow
  /\ standing \subseteq Tables \X Rows
  /\ outlived \subseteq Tables \X Rows

Init ==
  /\ tables = Seed
  /\ rows = [t \in Tables |-> {}]
  /\ writes = 0
  /\ pc = "idle"
  /\ left = <<>>
  /\ resources = {}
  /\ copy = {}
  /\ committed = FALSE
  /\ metrics = None
  /\ exit = None
  /\ faults = 0
  /\ bronze = {}
  /\ standing = {}
  /\ outlived = {}

-----------------------------------------------------------------------------
(* The database: the application writes rows, its migrations tables.  An     *)
(* update is a delete and an insert; a row may be back-dated.               *)

Write ==
  /\ writes < MaxWrites
  /\ writes' = writes + 1
  /\ UNCHANGED <<pc, runVars, faults, bronze, outlived>>

Insert(t, r) ==
  /\ Write
  /\ t \in tables /\ r \notin rows[t]
  /\ rows' = [rows EXCEPT ![t] = @ \cup {r}]
  /\ UNCHANGED <<tables, standing>>

Delete(t, r) ==
  /\ Write
  /\ r \in rows[t]
  /\ rows' = [rows EXCEPT ![t] = @ \ {r}]
  /\ standing' = standing \ {<<t, r>>}
  /\ UNCHANGED tables

CreateTable(t) ==
  /\ Write
  /\ t \notin tables
  /\ tables' = tables \cup {t}
  /\ UNCHANGED <<rows, standing>>

DropTable(t) ==
  /\ Write
  /\ t \in tables
  /\ tables' = tables \ {t}
  /\ rows' = [rows EXCEPT ![t] = {}]
  /\ standing' = standing \ ({t} \X Rows)

-----------------------------------------------------------------------------
(* The run.                                                                *)

Running == pc \in {"reflect", "extract", "report"}
Selected(t) == \E i \in 1..Len(Schemas) : Schemas[i] = t[1]

Exit(code) == pc' = "exited" /\ exit' = code

\* The next run, on a new runner: nothing of an earlier one is left there.
\* target_from_env has found everything it needs.
Start ==
  /\ ~Running
  /\ pc' = "reflect"
  /\ left' = Schemas
  /\ resources' = {}
  /\ copy' = {}
  /\ committed' = FALSE
  /\ metrics' = None
  /\ exit' = None
  /\ standing' = {x \in Tables \X Rows : x[2] \in rows[x[1]] /\ Selected(x[1])}
  /\ UNCHANGED <<dbVars, faults, bronze, outlived>>

\* (mutant) The tables of the seed schema are listed by name.
ReflectListed ==
  /\ pc = "reflect" /\ left # <<>>
  /\ resources' = resources \cup {t \in tables \cap Seed : t[1] = Head(left)}
  /\ left' = Tail(left)
  /\ UNCHANGED <<dbVars, pc, copy, committed, metrics, exit, faults, bronze, standing, outlived>>

\* (mutant) What is collected is the name in Bronze.
ReflectNames ==
  /\ pc = "reflect" /\ left # <<>>
  /\ resources' = resources \cup {BronzeName(t) : t \in {u \in tables : u[1] = Head(left)}}
  /\ left' = Tail(left)
  /\ UNCHANGED <<dbVars, pc, copy, committed, metrics, exit, faults, bronze, standing, outlived>>

\* reflect_resources for the next schema: every table it has by now.
Reflect ==
  /\ pc = "reflect" /\ left # <<>>
  /\ resources' = resources \cup {t \in tables : t[1] = Head(left)}
  /\ left' = Tail(left)
  /\ UNCHANGED <<dbVars, pc, copy, committed, metrics, exit, faults, bronze, standing, outlived>>

\* A dlt source keys its resources by the reflected name, not by the name
\* apply_hints gives the destination table.
Namesakes(s) == \E t, u \in s : t # u /\ t[2] = u[2]

\* External: two resources of one name are an error, or both kept.
SourceRefused ==
  /\ pc = "reflect" /\ left = <<>>
  /\ Namesakes(resources)
  /\ Exit("red")
  /\ UNCHANGED <<dbVars, left, resources, copy, committed, metrics, faults, bronze, standing,
                 outlived>>

\* The early return.  Its write of the metrics is not guarded as report's is:
\* a file that cannot be written raises.
NothingToLoad ==
  /\ pc = "reflect" /\ left = <<>>
  /\ resources = {}
  /\ \/ metrics' = 0 /\ Exit("green")
     \/ metrics' = None /\ Exit("red")
  /\ UNCHANGED <<dbVars, left, resources, copy, committed, faults, bronze, standing, outlived>>

SomethingToLoad ==
  /\ pc = "reflect" /\ left = <<>>
  /\ resources # {}
  /\ pc' = "extract"
  /\ UNCHANGED <<dbVars, runVars, faults, bronze, standing, outlived>>

\* (mutant) A high-water mark per table.
ReadNewer(t) == {r \in rows[t] : \A b \in bronze : b.table = t => b.row < r}

\* No incremental cursor: one statement reads the whole table.
ReadTable(t) == rows[t]

Extract(t) ==
  /\ pc = "extract"
  /\ t \in resources \cap tables
  /\ copy' = copy \cup ({t} \X ReadTable(t))
  /\ resources' = resources \ {t}
  /\ UNCHANGED <<dbVars, pc, left, committed, metrics, exit, faults, bronze, standing, outlived>>

\* A table dropped since it was reflected.
ExtractMissing(t) ==
  /\ pc = "extract"
  /\ t \in resources \ tables
  /\ Exit("red")
  /\ UNCHANGED <<dbVars, left, resources, copy, committed, metrics, faults, bronze, standing,
                 outlived>>

Landed == {[name |-> BronzeName(c[1]), table |-> c[1], row |-> c[2]] : c \in copy}

\* dlt's load: every resource is pinned to append.
CommitLoad ==
  /\ bronze' = bronze \cup Landed
  /\ committed' = TRUE
  /\ outlived' = outlived \cup standing

Commit ==
  /\ pc = "extract" /\ resources = {}
  /\ CommitLoad
  /\ pc' = "report"
  /\ UNCHANGED <<dbVars, left, resources, copy, metrics, exit, faults, standing>>

\* table_row_counts without dlt's own tables, summed by write; an unreadable
\* trace counts as no table.
RowsProcessed(c) == IF TraceMayMove THEN 0 ELSE Cardinality(c)

\* (mutant) An unwritable file fails the run.
ReportOrFail ==
  /\ pc = "report"
  /\ \/ metrics' = RowsProcessed(copy) /\ Exit("green")
     \/ UNCHANGED metrics /\ Exit("red")
  /\ UNCHANGED <<dbVars, left, resources, copy, committed, faults, bronze, standing, outlived>>

\* run_metrics.report: a file that cannot be written is only printed.
Report ==
  /\ pc = "report"
  /\ metrics' \in {RowsProcessed(copy), None}
  /\ Exit("green")
  /\ UNCHANGED <<dbVars, left, resources, copy, committed, faults, bronze, standing, outlived>>

Fault == faults < MaxFaults /\ faults' = faults + 1

\* target_from_env: an input is missing, before anything else happens.
Misconfigured ==
  /\ ~Running
  /\ Fault
  /\ Exit("red")
  /\ copy' = {} /\ committed' = FALSE /\ metrics' = None /\ standing' = {}
  /\ UNCHANGED <<dbVars, left, resources, bronze, outlived>>

\* The connection, the credential or the ingress fails, or dlt gives up.
BreakOff ==
  /\ pc \in {"reflect", "extract"}
  /\ Fault
  /\ Exit("red")
  /\ UNCHANGED <<dbVars, left, resources, copy, committed, metrics, bronze, standing, outlived>>

\* The process dies or loses the answer to its commit, which may have landed.
Die ==
  /\ Running
  /\ Fault
  /\ pc' = "dead"
  /\ \/ UNCHANGED <<bronze, committed, outlived>>
     \/ pc = "extract" /\ resources = {} /\ CommitLoad
  /\ UNCHANGED <<dbVars, left, resources, copy, metrics, exit, standing>>

DbNext ==
  \/ \E t \in Tables, r \in Rows : Insert(t, r) \/ Delete(t, r)
  \/ \E t \in Tables : CreateTable(t) \/ DropTable(t)

RunStep ==
  \/ Start \/ Reflect \/ SourceRefused \/ NothingToLoad \/ SomethingToLoad
  \/ \E t \in Tables : Extract(t) \/ ExtractMissing(t)
  \/ Commit \/ Report

Next == DbNext \/ RunStep \/ Misconfigured \/ BreakOff \/ Die

Spec == Init /\ [][Next]_vars

\* The cron recurs and a run that is not broken off gets on.
FairSpec == Spec /\ WF_vars(RunStep)

-----------------------------------------------------------------------------
(* Properties.                                                             *)

InBronze(t, r) == \E b \in bronze : b.table = t /\ b.row = r

\* Full snapshots, appended: a row that stood from the start of a load to its
\* commit is in Bronze and stays there, in whatever order rows were written and
\* whatever later becomes of the row.  (postgres_source, reflect_resources)
RowsThatOutliveALoadAreKept == \A x \in outlived : InBronze(x[1], x[2])

\* No Bronze table holds rows of two source tables, although dlt's names are
\* flat and two schemas may use the same table name.  (bronze_table_name)
BronzeTablesAreNotMixed == \A b, c \in bronze : b.name = c.name => b.table = c.table

\* What a run says of itself: a red one has committed nothing, a green one has
\* everything in Bronze that stood still while it ran, and a reported zero means
\* that there was no such row.  (run_postgres.main, run_metrics.report)
ReportTellsTheLoad ==
  pc = "exited" =>
    /\ exit = "red" => ~committed
    /\ exit = "green" => \A x \in standing : InBronze(x[1], x[2])
    /\ metrics = 0 => standing = {}

\* A row that stays reaches Bronze in the end, also in a table a migration
\* added, unless two schemas go on having a table of the same name.
StableRowsArrive ==
  \A t \in Tables, r \in Rows :
    Selected(t) /\ <>[](r \in rows[t] /\ ~Namesakes(tables))
      => <>InBronze(t, r)
=============================================================================
