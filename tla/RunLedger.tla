----------------------------- MODULE RunLedger -----------------------------
(***************************************************************************)
(* The ledger of pipeline runs (ADR-0025): the jobs that write it, step by  *)
(* step, and the records .github/scripts/ops_ledger.py leaves in the lake.  *)
(*                                                                         *)
(* A job is [run, attempt, kind]: the fpl and postgres jobs of               *)
(* ingest-bronze.yml share their run id, a re-run reuses it.  Objects are    *)
(* named by run_key and event; the write date in front of them only adds to  *)
(* the name.                                                                *)
(***************************************************************************)
EXTENDS Naturals

CONSTANTS
  Jobs,       \* the job attempts there are: a set of records [run, attempt, kind]
  NoRecord,   \* no object under this name
  SkipLeavesResults  \* external: a dbt that skips every model still leaves run_results.json

ASSUME SkipAssumption == SkipLeavesResults \in BOOLEAN

ASSUME JobsAssumption ==
  \A j \in Jobs : /\ j = [run |-> j.run, attempt |-> j.attempt, kind |-> j.kind]
                  /\ j.attempt \in Nat \ {0}
                  /\ j.kind \in {"fpl", "postgres", "transform"}

\* What write_record puts into an object, as far as it matters.
Record == [attempt : Nat, status : {"running", "success", "failed"}, rows : BOOLEAN]

ASSUME NoRecordAssumption == NoRecord \notin Record

VARIABLES
  bucketSet,  \* the repository variable PITCH_CONTROL_LAKE_BUCKET is set
  pc,         \* the step each job is at
  jobStatus,  \* GitHub's job.status, accumulated over the steps
  creds,      \* the job holds AWS credentials
  landed,     \* all that the job has to load or build is committed in the lake
  report,     \* on the job's runner: nothing, run_results.json, the metrics file
  ruleOpen,   \* the postgres job's ephemeral rule is in the security group
  ledger,     \* the lake's ledger objects: <<run_key, event>> -> record
  unwritten   \* the job's finish record could not be written

vars == <<bucketSet, pc, jobStatus, creds, landed, report, ruleOpen, ledger, unwritten>>

Step == {"waiting", "setup", "start", "open", "load", "revoke", "summarise",
         "finish", "done", "vanished"}
Running == Step \ {"waiting", "done", "vanished"}

\* (mutant) The attempt is left out of the key.
RunKeyOnly(j) == <<j.run, j.kind>>

\* run_identity: the run id alone names up to two jobs and all their re-runs.
RunKey(j) == <<j.run, j.attempt, j.kind>>

Object == {RunKey(j) : j \in Jobs} \X {"start", "finish"}

TypeOK ==
  /\ bucketSet \in BOOLEAN
  /\ pc \in [Jobs -> Step]
  /\ jobStatus \in [Jobs -> {"success", "failure", "cancelled"}]
  /\ creds \in [Jobs -> BOOLEAN]
  /\ landed \in [Jobs -> BOOLEAN]
  /\ report \in [Jobs -> {"none", "results", "metrics"}]
  /\ ruleOpen \in [Jobs -> BOOLEAN]
  /\ ledger \in [Object -> Record \cup {NoRecord}]
  /\ unwritten \in [Jobs -> BOOLEAN]

Init ==
  /\ bucketSet \in BOOLEAN
  /\ pc = [j \in Jobs |-> "waiting"]
  /\ jobStatus = [j \in Jobs |-> "success"]
  /\ creds = [j \in Jobs |-> FALSE]
  /\ landed = [j \in Jobs |-> FALSE]
  /\ report = [j \in Jobs |-> "none"]
  /\ ruleOpen = [j \in Jobs |-> FALSE]
  /\ ledger = [o \in Object |-> NoRecord]
  /\ unwritten = [j \in Jobs |-> FALSE]

-----------------------------------------------------------------------------
(* ops_ledger.py                                                           *)

\* (mutant) The words are recorded as GitHub says them.
StatusUnmapped(word) == word

\* (mutant) Everything but a failure is a success.
StatusLenient(word) == IF word = "failure" THEN "failed" ELSE "success"

\* STATUS_MAP; a word it does not know is recorded as failed.
StatusMap(word) == IF word = "success" THEN "success" ELSE "failed"

\* write_record: one PutObject.  It needs credentials and the bucket variable;
\* it may fail, or land although the CLI reports an error.  The exit code is 0
\* in every case.
WriteOutcomes(j) == IF bucketSet /\ creds[j] THEN {"ok", "error", "lost"} ELSE {"error"}
Put(j, event, record, outcome) ==
  ledger' = IF outcome = "error" THEN ledger
            ELSE [ledger EXCEPT ![<<RunKey(j), event>>] = record]

StartRecord(j) == [attempt |-> j.attempt, status |-> "running", rows |-> FALSE]

\* load_metrics and build_record: the metrics file, if the job left one.
FinishRecord(j) ==
  [attempt |-> j.attempt, status |-> StatusMap(jobStatus[j]), rows |-> report[j] = "metrics"]

-----------------------------------------------------------------------------
(* The steps of the three jobs.                                            *)

\* Where a job goes on after a failed step: to its `if: always()` steps.
AlwaysSteps(j) == CASE j.kind = "fpl" -> "finish"
                    [] j.kind = "postgres" -> "revoke"
                    [] j.kind = "transform" -> "summarise"

\* The concurrency group, and a re-run only after the run has completed.
Begin(j) ==
  /\ pc[j] = "waiting"
  /\ \A k \in Jobs : k.run = j.run /\ k.attempt < j.attempt => pc[k] \in {"done", "vanished"}
  /\ pc' = [pc EXCEPT ![j] = "setup"]
  /\ UNCHANGED <<bucketSet, jobStatus, creds, landed, report, ruleOpen, ledger, unwritten>>

\* Dependencies, unit tests, credentials; transform-build.yml also asserts the
\* bucket variable before its first record.
Setup(j) ==
  /\ pc[j] = "setup"
  /\ j.kind = "transform" => bucketSet
  /\ creds' = [creds EXCEPT ![j] = TRUE]
  /\ pc' = [pc EXCEPT ![j] = "start"]
  /\ UNCHANGED <<bucketSet, jobStatus, landed, report, ruleOpen, ledger, unwritten>>

RecordStart(j) ==
  /\ pc[j] = "start"
  /\ \E outcome \in WriteOutcomes(j) : Put(j, "start", StartRecord(j), outcome)
  /\ pc' = [pc EXCEPT ![j] = IF j.kind = "postgres" THEN "open" ELSE "load"]
  /\ UNCHANGED <<bucketSet, jobStatus, creds, landed, report, ruleOpen, unwritten>>

OpenIngress(j) ==
  /\ pc[j] = "open"
  /\ ruleOpen' = [ruleOpen EXCEPT ![j] = TRUE]
  /\ pc' = [pc EXCEPT ![j] = "load"]
  /\ UNCHANGED <<bucketSet, jobStatus, creds, landed, report, ledger, unwritten>>

\* What a load that ended, the whole of it or not, leaves on the runner: dbt its
\* run_results.json, the ingest entrypoints their metrics, unless the file cannot
\* be written.
Reports(j, whole) ==
  IF j.kind # "transform" THEN {report, [report EXCEPT ![j] = "metrics"]}
  ELSE IF whole \/ SkipLeavesResults THEN {[report EXCEPT ![j] = "results"]}
  ELSE {report}

\* What exit code 0 stands for: dbt gives it to a run that skipped every model, too.
\* (transform-build.yml)
Exits(j) == IF j.kind = "transform" THEN BOOLEAN ELSE {TRUE}

\* The load exits 0, after the assertion on the bucket variable.  dlt and dbt
\* commit before the process ends; the ingest entrypoints then report, and a
\* report that cannot be written is only printed.  (run_metrics.report)
Load(j) ==
  /\ pc[j] = "load"
  /\ bucketSet
  /\ \E whole \in Exits(j) :
       /\ landed' = [landed EXCEPT ![j] = whole]
       /\ report' \in Reports(j, whole)
  /\ pc' = [pc EXCEPT ![j] = AlwaysSteps(j)]
  /\ UNCHANGED <<bucketSet, jobStatus, creds, ruleOpen, ledger, unwritten>>

\* (mutant) The closing steps are not `if: always()`.
StepFailsForGood(j, verdict) ==
  /\ pc[j] \in {"setup", "start", "open", "load"}
  /\ jobStatus' = [jobStatus EXCEPT ![j] = verdict]
  /\ pc' = [pc EXCEPT ![j] = "done"]
  /\ UNCHANGED <<bucketSet, creds, landed, report, ruleOpen, ledger, unwritten>>

\* A step fails, is cancelled or times out; a load may have committed by then.
StepFails(j, verdict) ==
  /\ pc[j] \in {"setup", "start", "open", "load"}
  /\ jobStatus' = [jobStatus EXCEPT ![j] = verdict]
  /\ landed' \in {landed} \cup
       (IF pc[j] = "load" /\ bucketSet THEN {[landed EXCEPT ![j] = TRUE]} ELSE {})
  /\ report' \in {report} \cup (IF pc[j] = "load" /\ bucketSet THEN Reports(j, TRUE) ELSE {})
  /\ ruleOpen' \in {ruleOpen} \cup
       (IF pc[j] = "open" THEN {[ruleOpen EXCEPT ![j] = TRUE]} ELSE {})
  /\ pc' = [pc EXCEPT ![j] = AlwaysSteps(j)]
  /\ UNCHANGED <<bucketSet, creds, ledger, unwritten>>

\* sg-ephemeral.sh close: a failed revoke is logged and the step succeeds; a
\* security group that cannot be resolved fails the step.
Revoke(j) ==
  /\ pc[j] = "revoke"
  /\ \/ /\ ruleOpen' = [ruleOpen EXCEPT ![j] = FALSE]
        /\ UNCHANGED jobStatus
     \/ UNCHANGED <<ruleOpen, jobStatus>>
     \/ /\ ruleOpen[j]
        /\ jobStatus' = [jobStatus EXCEPT ![j] = IF @ = "success" THEN "failure" ELSE @]
        /\ UNCHANGED ruleOpen
  /\ pc' = [pc EXCEPT ![j] = "finish"]
  /\ UNCHANGED <<bucketSet, creds, landed, report, ledger, unwritten>>

\* (mutant) The exit code of dbt is trusted: without an artifact there is nothing
\* to summarise, and that is all.
SummariseWhatIsThere(j) ==
  /\ pc[j] = "summarise"
  /\ report' = [report EXCEPT ![j] = IF @ = "results" THEN "metrics" ELSE @]
  /\ pc' = [pc EXCEPT ![j] = "finish"]
  /\ UNCHANGED <<bucketSet, jobStatus, creds, landed, ruleOpen, ledger, unwritten>>

\* transform-build.yml asserts run_results.json, which a dbt that built something
\* leaves behind, and turns it into the metrics file.
Summarise(j) ==
  /\ pc[j] = "summarise"
  /\ \/ /\ report[j] = "results"
        /\ report' = [report EXCEPT ![j] = "metrics"]
        /\ UNCHANGED jobStatus
     \/ /\ report[j] = "none"
        /\ jobStatus' = [jobStatus EXCEPT ![j] = IF @ = "success" THEN "failure" ELSE @]
        /\ UNCHANGED report
  /\ pc' = [pc EXCEPT ![j] = "finish"]
  /\ UNCHANGED <<bucketSet, creds, landed, ruleOpen, ledger, unwritten>>

\* What lived on the runner goes with it.
RunnerGone(j) ==
  /\ creds' = [creds EXCEPT ![j] = FALSE]
  /\ report' = [report EXCEPT ![j] = "none"]

RecordFinish(j) ==
  /\ pc[j] = "finish"
  /\ \E outcome \in WriteOutcomes(j) :
       /\ Put(j, "finish", FinishRecord(j), outcome)
       /\ unwritten' = [unwritten EXCEPT ![j] = outcome = "error"]
  /\ pc' = [pc EXCEPT ![j] = "done"]
  /\ RunnerGone(j)
  /\ UNCHANGED <<bucketSet, jobStatus, landed, ruleOpen>>

\* The runner vanishes; not even the always() steps run.
Vanish(j) ==
  /\ pc[j] \in Running
  /\ pc' = [pc EXCEPT ![j] = "vanished"]
  /\ RunnerGone(j)
  /\ UNCHANGED <<bucketSet, jobStatus, landed, ruleOpen, ledger, unwritten>>

JobNext(j) ==
  \/ Begin(j) \/ Setup(j) \/ RecordStart(j) \/ OpenIngress(j) \/ Load(j)
  \/ \E verdict \in {"failure", "cancelled"} : StepFails(j, verdict)
  \/ Revoke(j) \/ Summarise(j) \/ RecordFinish(j) \/ Vanish(j)

Next == \E j \in Jobs : JobNext(j)

Spec == Init /\ [][Next]_vars

-----------------------------------------------------------------------------
(* Properties.                                                             *)

Recorded(j, event) == ledger[<<RunKey(j), event>>] # NoRecord

\* The ledger is append-only: no record ever replaces another one, although two
\* jobs share a run id and a re-run reuses it.  (run_identity)
RecordsAreNeverRewritten ==
  [][\A o \in Object : ledger[o] # NoRecord => ledger'[o] = ledger[o]]_ledger

\* A finish record that says success is that of a job whose load is in the lake
\* and whose steps all succeeded; one that says failed is not.
FinishTellsTheOutcome ==
  \A j \in Jobs : Recorded(j, "finish") =>
    /\ pc[j] = "done"
    /\ ledger[<<RunKey(j), "finish">>].status = "success" <=> jobStatus[j] = "success"
    /\ ledger[<<RunKey(j), "finish">>].status = "success" => landed[j]

\* A job that ends green has landed its data in the lake: not on the runner's own
\* disk (the bucket assertions), and not nothing at all although the exit code was
\* 0 (the assertion on dbt's artifact, three steps later).
GreenMeansLanded ==
  \A j \in Jobs : pc[j] = "done" /\ jobStatus[j] = "success" => landed[j]

\* A start without a finish means the runner vanished, once the finish records
\* are set aside that could not be written.
UnpairedStartMeansVanished ==
  \A j \in Jobs : /\ Recorded(j, "start") /\ ~Recorded(j, "finish")
                  /\ pc[j] \notin Running /\ ~unwritten[j]
                  => pc[j] = "vanished"

\* ingest-bronze.yml: the finish step comes last so that a revoke that failed
\* is folded into the recorded status.
OpenRuleIsNotRecordedAsSuccess ==
  \A j \in Jobs : Recorded(j, "finish") /\ ledger[<<RunKey(j), "finish">>].status = "success"
                    => ~ruleOpen[j]
=============================================================================
