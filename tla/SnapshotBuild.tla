---------------------------- MODULE SnapshotBuild ----------------------------
(* The transform side of the lake: daily FPL loads append to Bronze, and the
   transform-build workflow runs `dbt build` over what is there.

   An object store has no transactions.  A load writes the files of its tables
   one by one and becomes visible only when dlt adds its row to `_dlt_loads`;
   a load that dies leaves its files behind and never gets the row.  A build is
   not instantaneous either: four dbt threads run the models one by one in DAG
   order, every staging model lists the files of its table, then asks for "the
   latest completed load" on its own, and overwrites its Parquet in place, and the checks run as soon as the
   models they cover are built.  Loads and builds share nothing but the lake.

   What the rows say is abstracted to the load they came from: `rows[m]` is the
   set of loads whose rows the published file of model m holds.               *)
EXTENDS Integers, FiniteSets

CONSTANTS
    Staging,        \* the stg_fpl__* models that read one Bronze table each
    Gold,           \* the models under models/gold
    LedgerModel,    \* stg_fpl__loads, dlt's load ledger as a model
    Reads,          \* the ref()s of each Gold model
    Upstream,       \* every ancestor of a model in the DAG
    Checks,         \* the generic and singular tests
    Covers,         \* the models each check reads
    SnapshotCheck,  \* assert_silver_reads_one_committed_snapshot
    MayOmit,        \* tables whose collection the FPL API may fail to send
    MaxLoad,        \* bound: the loads that are ever begun
    MaxFaults       \* bound: failed models and checks, and killed builds

Models == Staging \cup Gold
Nodes  == Models \cup {LedgerModel}
Loads  == 1..MaxLoad

ASSUME NodesAssumption ==
    /\ Staging \cap Gold = {}
    /\ LedgerModel \notin Models
    /\ Reads \in [Gold -> SUBSET Models]
    /\ Upstream \in [Nodes -> SUBSET Models]
    /\ \A s \in Staging \cup {LedgerModel} : Upstream[s] = {}
    /\ \A g \in Gold : /\ Upstream[g] = Reads[g] \cup UNION {Upstream[r] : r \in Reads[g]}
                       /\ g \notin Upstream[g]

ASSUME ChecksAssumption ==
    /\ SnapshotCheck \in Checks
    /\ Covers \in [Checks -> SUBSET Nodes]
    /\ Covers[SnapshotCheck] = Staging \cup {LedgerModel}

ASSUME BoundsAssumption ==
    /\ MayOmit \subseteq Staging
    /\ MaxLoad \in Nat
    /\ MaxFaults \in Nat

VARIABLES
    loadState,   \* how far each load has come
    payload,     \* the tables the API had rows for when the load asked
    files,       \* the tables the load has written data files for
    resolved,    \* the load each published staging file was selected with
    rows,        \* the loads whose rows each published file holds
    ledgerRows,  \* the committed loads listed by the published stg_fpl__loads
    build,       \* whether a transform-build job is running
    outcome,     \* how the last one ended
    node,        \* dbt's result for each model of this build
    listed,      \* the loads whose file a running staging model found in its table
    verdict,     \* dbt's result for each check of this build
    atStart,     \* the loads committed when this build started
    faults       \* bound counter

bronzeVars == <<loadState, payload, files>>
lakeVars   == <<resolved, rows, ledgerRows>>
buildVars  == <<build, outcome, node, listed, verdict, atStart, faults>>
vars       == <<bronzeVars, lakeVars, buildVars>>

TypeOK ==
    /\ loadState \in [Loads -> {"absent", "running", "committed", "dead"}]
    /\ payload \in [Loads -> SUBSET Staging]
    /\ files \in [Loads -> SUBSET Staging]
    /\ resolved \in [Staging -> Loads \cup {0}]
    /\ rows \in [Models -> SUBSET Loads]
    /\ ledgerRows \subseteq Loads
    /\ build \in {"idle", "running"}
    /\ outcome \in {"none", "green", "red", "killed"}
    /\ node \in [Nodes -> {"waiting", "listed", "ok", "error"}]
    /\ listed \in [Staging -> SUBSET Loads]
    /\ verdict \in [Checks -> {"waiting", "pass", "fail"}]
    /\ atStart \subseteq Loads
    /\ faults \in 0..MaxFaults

Init ==
    /\ loadState = [l \in Loads |-> "absent"]
    /\ payload = [l \in Loads |-> {}]
    /\ files = [l \in Loads |-> {}]
    /\ resolved = [s \in Staging |-> 0]
    /\ rows = [m \in Models |-> {}]
    /\ ledgerRows = {}
    /\ build = "idle"
    /\ outcome = "none"
    /\ node = [n \in Nodes |-> "waiting"]
    /\ listed = [s \in Staging |-> {}]
    /\ verdict = [c \in Checks |-> "waiting"]
    /\ atStart = {}
    /\ faults = 0

-----------------------------------------------------------------------------
(* Bronze.  ingest-bronze's concurrency group serialises the loads, so load
   ids, epoch seconds taken at the start, grow in the order of the commits.   *)

Committed == {l \in Loads : loadState[l] = "committed"}

\* (mutant) Without the concurrency group: loads run beside each other.
BeginLoadBeside(l) ==
    /\ loadState[l] = "absent"
    /\ payload' = [payload EXCEPT ![l] = Staging]
    /\ loadState' = [loadState EXCEPT ![l] = "running"]
    /\ UNCHANGED <<files, lakeVars, buildVars>>

\* One bootstrap-static response feeds the whole load: a collection it lacks is
\* skipped without failing the run.
BeginLoad(l) ==
    /\ loadState[l] = "absent"
    /\ \A k \in Loads : /\ loadState[k] # "running"
                        /\ k < l => loadState[k] # "absent"
    /\ \E omitted \in SUBSET MayOmit :
          payload' = [payload EXCEPT ![l] = Staging \ omitted]
    /\ loadState' = [loadState EXCEPT ![l] = "running"]
    /\ UNCHANGED <<files, lakeVars, buildVars>>

WriteTable(l, s) ==
    /\ loadState[l] = "running"
    /\ s \in payload[l] \ files[l]
    /\ files' = [files EXCEPT ![l] = @ \cup {s}]
    /\ UNCHANGED <<loadState, payload, lakeVars, buildVars>>

\* dlt adds the status 0 row to _dlt_loads once every file is written.
CommitLoad(l) ==
    /\ loadState[l] = "running"
    /\ files[l] = payload[l]
    /\ loadState' = [loadState EXCEPT ![l] = "committed"]
    /\ UNCHANGED <<payload, files, lakeVars, buildVars>>

\* A failed or hard-killed ingest: the files it wrote stay where they are, and
\* the next run starts on a fresh runner with a load of its own.
KillLoad(l) ==
    /\ loadState[l] = "running"
    /\ loadState' = [loadState EXCEPT ![l] = "dead"]
    /\ UNCHANGED <<payload, files, lakeVars, buildVars>>

-----------------------------------------------------------------------------
(* dbt build. *)

StartBuild ==
    /\ build = "idle"
    /\ build' = "running"
    /\ atStart' = Committed
    /\ UNCHANGED <<bronzeVars, lakeVars, outcome, node, listed, verdict, faults>>

\* dbt's results are those of one invocation: the next one starts from nothing.
ForgetResults ==
    /\ node' = [n \in Nodes |-> "waiting"]
    /\ listed' = [s \in Staging |-> {}]
    /\ verdict' = [c \in Checks |-> "waiting"]
    /\ atStart' = {}

\* (mutant) Waits for the models but not for their checks.
GatesNothing(m) == {}

\* dbt adds an edge from a check to a model when every model the check reads is
\* an ancestor of that model; a check that also reads something else never
\* holds the model back.
Gates(m) == {c \in Checks : Covers[c] \subseteq Upstream[m]}

\* (mutant) Reads the published files by path instead of through ref().
NoParents(m) == {}

Parents(m) == IF m \in Gold THEN Reads[m] ELSE {}

Runnable(m) ==
    /\ build = "running"
    /\ node[m] = "waiting"
    /\ \A r \in Parents(m) : node[r] = "ok"
    /\ \A c \in Gates(m) : verdict[c] = "pass"

\* (mutant) Takes any load that has a ledger row or data files.
AnyLoad(l) == /\ loadState[l] # "absent"
              /\ \A k \in Loads : loadState[k] # "absent" => k <= l

\* (mutant) Orders committed loads the wrong way round.
OldestLoad(l) == l \in Committed /\ \A k \in Committed : l <= k

\* (mutant) Takes a committed load without ordering them.
CommittedLoad(l) == l \in Committed

\* The newest load that dlt's ledger lists with status 0.
LatestCompletedLoad(l) == l \in Committed /\ \A k \in Committed : k <= l

\* The query of a staging model is bound from its FROM on: the files of the table
\* are listed first.
ListFiles(s) ==
    /\ Runnable(s)
    /\ \E l \in Loads : s \in files[l]     \* a glob without a match is an error
    /\ listed' = [listed EXCEPT ![s] = {l \in Loads : s \in files[l]}]
    /\ node' = [node EXCEPT ![s] = "listed"]
    /\ UNCHANGED <<bronzeVars, lakeVars, build, outcome, verdict, atStart, faults>>

Listed(m) == build = "running" /\ node[m] = "listed"

\* The subquery lists dlt's ledger by itself, at a later moment, and the model
\* overwrites its file with the rows it finds of that load: none if the load
\* had no such collection, or its file was not listed.
RunStaging(s) ==
    /\ Listed(s)
    /\ \E l \in Loads :
          /\ LatestCompletedLoad(l)
          /\ resolved' = [resolved EXCEPT ![s] = l]
          /\ rows' = [rows EXCEPT ![s] = listed[s] \cap {l}]
    /\ node' = [node EXCEPT ![s] = "ok"]
    /\ listed' = [listed EXCEPT ![s] = {}]
    /\ UNCHANGED <<bronzeVars, ledgerRows, build, outcome, verdict, atStart, faults>>

RunLedgerModel ==
    /\ Runnable(LedgerModel)
    /\ Committed # {}
    /\ ledgerRows' = Committed
    /\ node' = [node EXCEPT ![LedgerModel] = "ok"]
    /\ UNCHANGED <<bronzeVars, resolved, rows, build, outcome, listed, verdict, atStart, faults>>

\* A Gold model joins the published files of its parents and overwrites its own.
RunGold(g) ==
    /\ Runnable(g)
    /\ rows' = [rows EXCEPT ![g] = UNION {rows[r] : r \in Reads[g]}]
    /\ node' = [node EXCEPT ![g] = "ok"]
    /\ UNCHANGED <<bronzeVars, resolved, ledgerRows, build, outcome, listed, verdict, atStart,
                   faults>>

\* A model with nothing to read: no file of its table, or no committed load.
NothingToRead(m) ==
    \/ m \in Staging /\ node[m] = "waiting" /\ \A l \in Loads : m \notin files[l]
    \/ (m = LedgerModel \/ node[m] = "listed") /\ Committed = {}

\* The SQL fails, or S3 does: the published file stays as it was.
ModelFails(m) ==
    /\ Runnable(m) \/ Listed(m)
    /\ \/ NothingToRead(m) /\ faults' = faults
       \/ faults < MaxFaults /\ faults' = faults + 1
    /\ node' = [node EXCEPT ![m] = "error"]
    /\ listed' = [s \in Staging |-> IF s = m THEN {} ELSE listed[s]]
    /\ UNCHANGED <<bronzeVars, lakeVars, build, outcome, verdict, atStart>>

\* (mutant) Drops the third condition, that all models agree.
EachModelOneCommittedLoad ==
    \A s \in Staging : /\ Cardinality(rows[s]) <= 1
                       /\ rows[s] \subseteq ledgerRows

\* The snapshot test groups the rows it finds by model, so a model without rows
\* is not in it: what it compares are the loads of the rows.
SilverIsOneCommittedSnapshot ==
    \A s, t \in Staging : \A l \in rows[s], k \in rows[t] : l = k /\ l \in ledgerRows

Checkable(c) ==
    /\ build = "running"
    /\ verdict[c] = "waiting"
    /\ \A m \in Covers[c] : node[m] = "ok"

\* The snapshot test reads what is published; what the other checks find is up
\* to the data.
RunCheck(c) ==
    /\ Checkable(c)
    /\ \E v \in {"pass", "fail"} :
          /\ c = SnapshotCheck => (v = "pass" <=> SilverIsOneCommittedSnapshot)
          /\ IF v = "fail" /\ c # SnapshotCheck
             THEN faults < MaxFaults /\ faults' = faults + 1
             ELSE faults' = faults
          /\ verdict' = [verdict EXCEPT ![c] = v]
    /\ UNCHANGED <<bronzeVars, lakeVars, build, outcome, node, listed, atStart>>

\* (mutant) Reports what dbt reports of a run that skipped everything.
EndBuildSkipped ==
    /\ build = "running"
    /\ \A n \in Nodes : ~Runnable(n) /\ ~Listed(n)
    /\ build' = "idle"
    /\ outcome' = "skipped"
    /\ ForgetResults
    /\ UNCHANGED <<bronzeVars, lakeVars, faults>>

\* dbt is done when nothing is left that may run; whatever it did not reach is
\* skipped, and the job is green when every model and every check succeeded.
EndBuild ==
    /\ build = "running"
    /\ \A n \in Nodes : ~Runnable(n) /\ ~Listed(n)
    /\ \A c \in Checks : ~Checkable(c)
    /\ build' = "idle"
    /\ outcome' = IF /\ \A n \in Nodes : node[n] = "ok"
                     /\ \A c \in Checks : verdict[c] = "pass"
                  THEN "green" ELSE "red"
    /\ ForgetResults
    /\ UNCHANGED <<bronzeVars, lakeVars, faults>>

\* A hard-killed runner: the models written so far stay written.
KillBuild ==
    /\ build = "running"
    /\ faults < MaxFaults
    /\ faults' = faults + 1
    /\ build' = "idle"
    /\ outcome' = "killed"
    /\ ForgetResults
    /\ UNCHANGED <<bronzeVars, lakeVars>>

LoadStep == \E l \in Loads :
    \/ BeginLoad(l)
    \/ \E s \in Staging : WriteTable(l, s)
    \/ CommitLoad(l)
    \/ KillLoad(l)

DbtStep ==
    \/ \E s \in Staging : ListFiles(s) \/ RunStaging(s)
    \/ RunLedgerModel
    \/ \E g \in Gold : RunGold(g)
    \/ \E n \in Nodes : ModelFails(n)
    \/ \E c \in Checks : RunCheck(c)
    \/ EndBuild

Next == LoadStep \/ StartBuild \/ DbtStep \/ KillBuild

Spec == Init /\ [][Next]_vars

\* The cron entry starts a build every day, and a job that runs gets somewhere
\* or is cut off by its timeout.  Nothing is assumed of the loads.
Fairness == WF_vars(StartBuild) /\ WF_vars(DbtStep)
FairSpec == Spec /\ Fairness

-----------------------------------------------------------------------------
(* Properties. *)

\* ADR-0023: partial loads are structurally unselectable.  Whatever a staging
\* model publishes, at any moment, are rows of a load that was committed, never
\* of one still running or one that died, even though their files lie under the
\* same glob; and of a load that was committed when the build started they are
\* all the rows there are.  (One that commits between the two listings of a query
\* may be selected with none of them.)
SilverIsNeverPartial ==
    \A s \in Staging : resolved[s] # 0 =>
        /\ resolved[s] \in Committed
        /\ rows[s] \subseteq {resolved[s]} \cap {l \in Loads : s \in payload[l]}
        /\ node[s] = "ok" /\ resolved[s] \in atStart /\ s \in payload[resolved[s]]
             => rows[s] = {resolved[s]}

\* The snapshot test's promise, kept across the race it exists for: when a
\* build ended green, the rows of every published model, Silver and Gold, come
\* from one and the same committed load, however many loads committed while it
\* ran and whichever models were written before them.
GreenIsOneSnapshot ==
    build = "idle" /\ outcome = "green" =>
        \A m, n \in Models : \A l \in rows[m], k \in rows[n] : l = k /\ l \in Committed

\* A build that runs early "simply models yesterday's snapshot", never an older
\* one (transform-build.yml): whatever this build has written so far, Silver or
\* Gold, holds no row of a load older than one that was already committed when
\* the build started, so no model is joined with what an earlier, killed or
\* failed build left behind.
FreshAsOfStart ==
    \A m \in Models : node[m] = "ok" =>
        \A l \in rows[m] : \A k \in atStart : k <= l

\* "A failing test halts everything downstream of it" (transform-build.yml): a
\* model written by this build has only ancestors that this build wrote, and
\* every check that reads nothing but its ancestors passed, at any distance.
NothingIsBuiltOnARejectedParent ==
    \A m \in Models : node[m] = "ok" =>
        /\ \A a \in Upstream[m] : node[a] = "ok"
        /\ \A c \in Checks : Covers[c] \subseteq Upstream[m] => verdict[c] = "pass"

\* The promise of AtomicLake: whoever reads the lake only while the last build is
\* green and no other has begun reads an atomic store of committed loads, that
\* shows one of them at a time, fresh as of the start of its build; although it
\* consists of files overwritten one by one, and loads commit while they are.
ReadersView ==
    IF build = "idle" /\ outcome = "green" THEN UNION {rows[m] : m \in Models} ELSE {}
Lake == INSTANCE AtomicLake
    WITH Load <- Loads, done <- Committed, updating <- build = "running",
         basis <- atStart, sound <- build = "idle" /\ outcome = "green",
         view <- ReadersView
ImplementsAtomicLake == Lake!LakeSpec

\* A published staging file never goes back to an older load, whatever is
\* killed, fails or dies in between.
SnapshotsNeverGoBack ==
    [][\A s \in Staging : resolved[s] <= resolved'[s]]_vars

\* ADR-0023 says a join across staging models cannot straddle two versions of
\* the world.  The code only detects that afterwards.
GoldIsOneSnapshot ==
    \A g \in Gold : Cardinality(rows[g]) <= 1

\* transform-build.yml says a failing test halts what is downstream of it
\* rather than publishing a mart that its own tests reject.
RejectedMartIsNotPublished ==
    \A c \in Checks : verdict[c] = "fail" =>
        \A g \in Gold \cap Covers[c] : node[g] # "ok"

\* "Self-correcting on the next run" (transform-build.yml): once failures and
\* commits stop, every published model comes to hold rows of the latest
\* committed load and no others, every staging model all that the load has, and
\* stays so, whatever mixture killed, failed or overtaken builds had left.
SelfCorrects ==
    <>[]( \A l \in Committed : (\A k \in Committed : k <= l) =>
             \/ \E s \in Staging : \A k \in Loads : s \notin files[k]
             \/ /\ \A m \in Models : rows[m] \subseteq {l}
                /\ \A s \in Staging : s \in payload[l] => rows[s] = {l} )
=============================================================================
