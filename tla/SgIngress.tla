----------------------------- MODULE SgIngress -----------------------------
(***************************************************************************)
(* The ephemeral security-group ingress of the Postgres -> Bronze job.     *)
(*                                                                         *)
(* The job of .github/workflows/ingest-bronze.yml opens 5432 to its own    *)
(* runner, loads, and closes it again; sg-janitor.yml sweeps what a dead   *)
(* runner left behind.  Both call .github/scripts/sg-ephemeral.sh.         *)
(*                                                                         *)
(* A job attempt authorizes at most one rule, so a rule is named by the    *)
(* job <<run, attempt>> that created it: the rule's id and its RunId stamp *)
(* in one value.  Rules without the ManagedBy stamp (the home /32) are     *)
(* filtered out by every call of the script and are not part of the state. *)
(***************************************************************************)
EXTENDS Naturals, FiniteSets

CONSTANTS
  Runs,         \* run ids of the ingest-bronze workflow
  MaxAttempt,   \* bound: how often one run id may be started (1 = never re-run)
  Cidr,         \* addresses the hosted runners get; Azure recycles them
  Janitor,      \* the sg-janitor workflow, as a sweeper beside the jobs
  None,         \* no rule, no sweep target
  GhMayFail,    \* TRUE when `gh run view` may fail to resolve a run
  MaxPreempt    \* bound: janitor runs cancelled by a newer janitor run

Job == Runs \X (1..MaxAttempt)
Sweeper == Job \cup {Janitor}

ASSUME BoundsAssumption == MaxAttempt \in Nat \ {0} /\ MaxPreempt \in Nat
ASSUME FlagAssumption == GhMayFail \in BOOLEAN
ASSUME NamesAssumption == Janitor \notin Job /\ None \notin Job \cup Cidr

VARIABLES
  status,     \* GitHub's view of each run
  attempt,    \* the run's latest attempt, 0 before the first
  pc,         \* where each job, and the janitor, stands
  ingress,    \* stamped rules in the security group: job -> its /32, or None
  ruleFile,   \* RULE_ID_FILE exists on the job's runner
  todo,       \* a sweep's remaining rows of its one describe call
  target,     \* the rule a sweep has judged orphaned and is about to revoke
  failed,     \* a sweep's failed counter is not zero
  preempted   \* janitor runs cancelled so far

runVars   == <<status, attempt>>
sweepVars == <<todo, target, failed>>
vars == <<status, attempt, pc, ingress, ruleFile, todo, target, failed, preempted>>

\* setup ... finish are the steps of the postgres job; a janitor run is
\* list or sweep, and "none" between two runs.
LivePhase == {"setup", "list", "sweep", "open", "load", "close", "finish"}
Phase == LivePhase \cup {"none", "done", "dead"}

TypeOK ==
  /\ status \in [Runs -> {"none", "blocked", "queued", "in_progress", "completed"}]
  /\ attempt \in [Runs -> 0..MaxAttempt]
  /\ pc \in [Sweeper -> Phase]
  /\ ingress \in [Job -> Cidr \cup {None}]
  /\ ruleFile \in [Job -> BOOLEAN]
  /\ todo \in [Sweeper -> SUBSET Job]
  /\ target \in [Sweeper -> Job \cup {None}]
  /\ failed \in [Sweeper -> BOOLEAN]
  /\ preempted \in 0..MaxPreempt

RunOf(j) == j[1]
Current(r) == <<r, attempt[r]>>
Live(j) == pc[j] \in LivePhase
Opened == {j \in Job : ingress[j] # None}

Init ==
  /\ status = [r \in Runs |-> "none"]
  /\ attempt = [r \in Runs |-> 0]
  /\ pc = [s \in Sweeper |-> "none"]
  /\ ingress = [j \in Job |-> None]
  /\ ruleFile = [j \in Job |-> FALSE]
  /\ todo = [s \in Sweeper |-> {}]
  /\ target = [s \in Sweeper |-> None]
  /\ failed = [s \in Sweeper |-> FALSE]
  /\ preempted = 0

-----------------------------------------------------------------------------
(* GitHub Actions: the concurrency group admits one run and holds one      *)
(* waiting run; a newer arrival replaces the waiting one.                  *)

\* The cron, a dispatch, or the re-run of a completed run: a new attempt
\* under the same run id.
Trigger(r) ==
  /\ status[r] \in {"none", "completed"}
  /\ attempt[r] < MaxAttempt
  /\ attempt' = [attempt EXCEPT ![r] = @ + 1]
  /\ status' = [q \in Runs |-> IF q = r THEN "blocked"
                               ELSE IF status[q] = "blocked" THEN "completed"
                               ELSE status[q]]
  /\ UNCHANGED <<pc, ingress, ruleFile, sweepVars, preempted>>

\* (mutant) No concurrency group.
AdmitAny(r) ==
  /\ status[r] = "blocked"
  /\ status' = [status EXCEPT ![r] = "queued"]
  /\ UNCHANGED <<attempt, pc, ingress, ruleFile, sweepVars, preempted>>

Admit(r) ==
  /\ status[r] = "blocked"
  /\ \A q \in Runs : status[q] \notin {"queued", "in_progress"}
  /\ status' = [status EXCEPT ![r] = "queued"]
  /\ UNCHANGED <<attempt, pc, ingress, ruleFile, sweepVars, preempted>>

PickUp(r) ==
  /\ status[r] = "queued"
  /\ status' = [status EXCEPT ![r] = "in_progress"]
  /\ pc' = [pc EXCEPT ![Current(r)] = "setup"]
  /\ UNCHANGED <<attempt, ingress, ruleFile, sweepVars, preempted>>

\* The run ends once its jobs have: also some time after its runner vanished,
\* and possibly long after the postgres job, while the fpl job still loads.
CompleteRun(r) ==
  /\ status[r] = "in_progress"
  /\ ~Live(Current(r))
  /\ status' = [status EXCEPT ![r] = "completed"]
  /\ UNCHANGED <<attempt, pc, ingress, ruleFile, sweepVars, preempted>>

-----------------------------------------------------------------------------
(* AWS: a revoke may succeed, fail (throttled, rule gone, group not        *)
(* resolvable), or take effect although the caller sees an error.          *)

RevokeOutcome == {"ok", "error", "lost"}
AfterRevoke(i, outcome) ==
  IF outcome = "error" THEN ingress ELSE [ingress EXCEPT ![i] = None]
ReportsSuccess(i, outcome) == outcome = "ok" /\ ingress[i] # None

-----------------------------------------------------------------------------
(* cmd_sweep, run by the postgres job and by the janitor.                  *)

\* Where a sweeper goes after its sweep, and when the sweep dies.
AfterSweep(s) == IF s = Janitor THEN "none" ELSE "open"
AfterDeath(s) == IF s = Janitor THEN "none" ELSE "close"

\* The one describe call: a snapshot of the stamped rules.
List(s) ==
  /\ pc[s] = "list"
  /\ todo' = [todo EXCEPT ![s] = Opened]
  /\ failed' = [failed EXCEPT ![s] = FALSE]
  /\ pc' = [pc EXCEPT ![s] = IF Opened = {} THEN AfterSweep(s) ELSE "sweep"]
  /\ UNCHANGED <<runVars, ingress, ruleFile, target, preempted>>

\* The group cannot be resolved, or describing it fails.
ListDies(s) ==
  /\ pc[s] = "list"
  /\ pc' = [pc EXCEPT ![s] = AfterDeath(s)]
  /\ UNCHANGED <<runVars, ingress, ruleFile, sweepVars, preempted>>

\* (mutant) The step has no GH_TOKEN.
GhUnauthenticated(r) == {"no answer"}

\* What `gh run view` may print.  A run held back by the concurrency group is
\* reported as pending, or as queued before GitHub has noticed the limit.
GhAnswers(r) ==
  (IF status[r] = "blocked" THEN {"pending", "queued"} ELSE {status[r]})
    \cup (IF GhMayFail THEN {"no answer"} ELSE {})

OwnRule(s, i) == s # Janitor /\ RunOf(s) = RunOf(i)

\* (mutant) Every rule but the sweeper's own is an orphan.
ExamineUnasked(s, i) ==
  /\ pc[s] = "sweep"
  /\ target[s] = None
  /\ i \in todo[s]
  /\ todo' = [todo EXCEPT ![s] = @ \ {i}]
  /\ target' = [target EXCEPT ![s] = IF OwnRule(s, i) THEN None ELSE i]
  /\ UNCHANGED <<runVars, pc, ingress, ruleFile, failed, preempted>>

\* One row of the loop: kept, or judged orphaned.
Examine(s, i) ==
  /\ pc[s] = "sweep"
  /\ target[s] = None
  /\ i \in todo[s]
  /\ todo' = [todo EXCEPT ![s] = @ \ {i}]
  /\ \/ /\ \/ OwnRule(s, i)
           \/ GhAnswers(RunOf(i)) \cap {"in_progress", "queued"} # {}
        /\ UNCHANGED target
     \/ /\ ~OwnRule(s, i)
        /\ GhAnswers(RunOf(i)) \ {"in_progress", "queued"} # {}
        /\ target' = [target EXCEPT ![s] = i]
  /\ UNCHANGED <<runVars, pc, ingress, ruleFile, failed, preempted>>

\* (mutant) A failed revoke is logged and not counted.
RevokeUncounted(s, outcome) ==
  /\ pc[s] = "sweep"
  /\ target[s] # None
  /\ ingress' = AfterRevoke(target[s], outcome)
  /\ target' = [target EXCEPT ![s] = None]
  /\ UNCHANGED <<runVars, pc, ruleFile, todo, failed, preempted>>

\* The revoke of that row.  A failure is counted and the loop goes on.
RevokeOrphan(s, outcome) ==
  /\ pc[s] = "sweep"
  /\ target[s] # None
  /\ ingress' = AfterRevoke(target[s], outcome)
  /\ failed' = [failed EXCEPT ![s] = @ \/ ~ReportsSuccess(target[s], outcome)]
  /\ target' = [target EXCEPT ![s] = None]
  /\ UNCHANGED <<runVars, pc, ruleFile, todo, preempted>>

\* (mutant) The sweep is best effort: the step succeeds whatever it counted.
EndSweepAnyway(s) ==
  /\ pc[s] = "sweep"
  /\ target[s] = None
  /\ todo[s] = {}
  /\ pc' = [pc EXCEPT ![s] = AfterSweep(s)]
  /\ failed' = [failed EXCEPT ![s] = FALSE]
  /\ UNCHANGED <<runVars, ingress, ruleFile, todo, target, preempted>>

\* The loop is done; the step fails if any revoke did.
EndSweep(s) ==
  /\ pc[s] = "sweep"
  /\ target[s] = None
  /\ todo[s] = {}
  /\ pc' = [pc EXCEPT ![s] = IF failed[s] THEN AfterDeath(s) ELSE AfterSweep(s)]
  /\ failed' = [failed EXCEPT ![s] = FALSE]
  /\ UNCHANGED <<runVars, ingress, ruleFile, todo, target, preempted>>

Sweep(s) ==
  \/ List(s)
  \/ ListDies(s)
  \/ \E i \in Job : Examine(s, i)
  \/ \E outcome \in RevokeOutcome : RevokeOrphan(s, outcome)
  \/ EndSweep(s)

-----------------------------------------------------------------------------
(* The postgres job.                                                       *)

\* Checkout, dependencies, unit tests, credentials and the ledger's start.
Setup(j) ==
  /\ pc[j] = "setup"
  /\ pc' = [pc EXCEPT ![j] = "list"]
  /\ UNCHANGED <<runVars, ingress, ruleFile, sweepVars, preempted>>

\* A failed step, a cancellation or the timeout: the job goes on with its
\* `if: always()` steps.
Abort(j) ==
  /\ pc[j] \in {"setup", "list", "sweep", "open", "load"}
  /\ pc' = [pc EXCEPT ![j] = "close"]
  /\ todo' = [todo EXCEPT ![j] = {}]
  /\ target' = [target EXCEPT ![j] = None]
  /\ failed' = [failed EXCEPT ![j] = FALSE]
  /\ UNCHANGED <<runVars, ingress, ruleFile, preempted>>

\* AWS refuses a second rule for the same address.
Duplicate(c) == \E i \in Job : ingress[i] = c

\* (mutant) The address service's answer is used unchecked.
OpenUnchecked(j, c) ==
  /\ pc[j] = "open"
  /\ ingress' = [ingress EXCEPT ![j] = "0.0.0.0/0"]
  /\ ruleFile' = [ruleFile EXCEPT ![j] = TRUE]
  /\ pc' = [pc EXCEPT ![j] = "load"]
  /\ UNCHANGED <<runVars, sweepVars, preempted>>

\* cmd_open: authorize the runner's address, then record the rule's id.
Open(j, c) ==
  /\ pc[j] = "open"
  /\ ~Duplicate(c)
  /\ ingress' = [ingress EXCEPT ![j] = c]
  /\ ruleFile' = [ruleFile EXCEPT ![j] = TRUE]
  /\ pc' = [pc EXCEPT ![j] = "load"]
  /\ UNCHANGED <<runVars, sweepVars, preempted>>

\* The rule is created but its id never recorded: the response is lost, holds
\* no id, or the step is cancelled between the two.
OpenUnrecorded(j, c) ==
  /\ pc[j] = "open"
  /\ ~Duplicate(c)
  /\ ingress' = [ingress EXCEPT ![j] = c]
  /\ pc' = [pc EXCEPT ![j] = "close"]
  /\ UNCHANGED <<runVars, ruleFile, sweepVars, preempted>>

\* The CA bundle and run_postgres.py.
Load(j) ==
  /\ pc[j] = "load"
  /\ pc' = [pc EXCEPT ![j] = "close"]
  /\ UNCHANGED <<runVars, ingress, ruleFile, sweepVars, preempted>>

\* cmd_close.  Nothing recorded: nothing to revoke.  A failed revoke leaves
\* the rule and the file behind and does not fail the step.
CloseNothing(j) ==
  /\ pc[j] = "close"
  /\ ~ruleFile[j]
  /\ pc' = [pc EXCEPT ![j] = "finish"]
  /\ UNCHANGED <<runVars, ingress, ruleFile, sweepVars, preempted>>

\* (mutant) Close revokes by stamp instead of by the recorded id.
CloseStamped(j, outcome) ==
  /\ pc[j] = "close"
  /\ ruleFile[j]
  /\ ingress' = [i \in Job |-> None]
  /\ ruleFile' = [ruleFile EXCEPT ![j] = FALSE]
  /\ pc' = [pc EXCEPT ![j] = "finish"]
  /\ UNCHANGED <<runVars, sweepVars, preempted>>

CloseRecorded(j, outcome) ==
  /\ pc[j] = "close"
  /\ ruleFile[j]
  /\ ingress' = AfterRevoke(j, outcome)
  /\ ruleFile' = [ruleFile EXCEPT ![j] = ~ReportsSuccess(j, outcome)]
  /\ pc' = [pc EXCEPT ![j] = "finish"]
  /\ UNCHANGED <<runVars, sweepVars, preempted>>

\* The ledger's finish record, and the end of the job.
Finish(j) ==
  /\ pc[j] = "finish"
  /\ pc' = [pc EXCEPT ![j] = "done"]
  /\ ruleFile' = [ruleFile EXCEPT ![j] = FALSE]
  /\ UNCHANGED <<runVars, ingress, sweepVars, preempted>>

\* The runner vanishes: no further step runs and its disk is gone.
Kill(j) ==
  /\ Live(j)
  /\ pc' = [pc EXCEPT ![j] = "dead"]
  /\ ruleFile' = [ruleFile EXCEPT ![j] = FALSE]
  /\ todo' = [todo EXCEPT ![j] = {}]
  /\ target' = [target EXCEPT ![j] = None]
  /\ failed' = [failed EXCEPT ![j] = FALSE]
  /\ UNCHANGED <<runVars, ingress, preempted>>

JobStep(j) ==
  \/ Setup(j)
  \/ Sweep(j)
  \/ Abort(j)
  \/ \E c \in Cidr : Open(j, c) \/ OpenUnrecorded(j, c)
  \/ Load(j)
  \/ CloseNothing(j)
  \/ \E outcome \in RevokeOutcome : CloseRecorded(j, outcome)
  \/ Finish(j)
  \/ Kill(j)

-----------------------------------------------------------------------------
(* The janitor: daily, or by hand; a newer run cancels the one in progress. *)

\* (mutant) The schedule is gone from sg-janitor.yml.
JanitorNever == FALSE /\ UNCHANGED vars

JanitorStart ==
  /\ pc[Janitor] = "none"
  /\ pc' = [pc EXCEPT ![Janitor] = "list"]
  /\ UNCHANGED <<runVars, ingress, ruleFile, sweepVars, preempted>>

JanitorPreempt ==
  /\ pc[Janitor] # "none"
  /\ preempted < MaxPreempt
  /\ preempted' = preempted + 1
  /\ pc' = [pc EXCEPT ![Janitor] = "list"]
  /\ todo' = [todo EXCEPT ![Janitor] = {}]
  /\ target' = [target EXCEPT ![Janitor] = None]
  /\ failed' = [failed EXCEPT ![Janitor] = FALSE]
  /\ UNCHANGED <<runVars, ingress, ruleFile>>

Next ==
  \/ \E r \in Runs : Trigger(r) \/ Admit(r) \/ PickUp(r) \/ CompleteRun(r)
  \/ \E j \in Job : JobStep(j)
  \/ Sweep(Janitor)
  \/ JanitorStart
  \/ JanitorPreempt

Spec == Init /\ [][Next]_vars

-----------------------------------------------------------------------------
(* Fairness.  timeout-minutes ends every job, GitHub ends every run and    *)
(* admits the next; the janitor's cron recurs; AWS errors are transient,   *)
(* so a call repeated for ever is answered some day.                       *)

Fairness ==
  /\ \A r \in Runs : WF_vars(Admit(r)) /\ WF_vars(PickUp(r)) /\ WF_vars(CompleteRun(r))
  /\ \A j \in Job : WF_vars(JobStep(j))
  /\ WF_vars(JanitorStart)
  /\ WF_vars(Sweep(Janitor))
  /\ SF_vars(List(Janitor))
  /\ \A i \in Job : SF_vars(target[Janitor] = i /\ RevokeOrphan(Janitor, "ok"))

FairSpec == Spec /\ Fairness

-----------------------------------------------------------------------------
(* The inductive strengthening of the properties below.                    *)

Superseded(j) == j[2] < attempt[RunOf(j)]
OpenedOnce == {"load", "close", "finish", "done", "dead"}

\* GitHub's side: a job that has not been picked up has not started, only the
\* latest attempt of a run in progress is live, and the group admits one run.
RunsInOrder ==
  /\ \A r \in Runs : status[r] \in {"blocked", "queued"} =>
       attempt[r] >= 1 /\ pc[Current(r)] = "none"
  /\ \A j \in Job : j[2] > attempt[RunOf(j)] => pc[j] = "none"
  /\ \A j \in Job : Live(j) => status[RunOf(j)] = "in_progress" /\ j = Current(RunOf(j))
  /\ \A q, r \in Runs : /\ status[q] \in {"queued", "in_progress"}
                        /\ status[r] \in {"queued", "in_progress"}
                        => q = r

\* Only a job that got as far as opening has a rule, or is on a sweep's list.
RulesHaveOpeners ==
  /\ \A j \in Opened : pc[j] \in OpenedOnce
  /\ \A j \in Job : ruleFile[j] => pc[j] \in {"load", "close", "finish"}
  /\ \A s \in Sweeper : \A i \in Job :
       i \in todo[s] \/ i = target[s] => pc[i] \in OpenedOnce

\* A job's sweep, until it fails, still has every rule in front of it that
\* could be the latest attempt's of some run; past the sweep there is none.
SweepCovers ==
  /\ \A j \in Job : pc[j] = "sweep" =>
       failed[j] \/ \A i \in Opened : i \in todo[j] \/ i = target[j] \/ Superseded(i)
  /\ \A j \in Job : pc[j] = "open" => \A i \in Opened : Superseded(i)

\* A verdict "orphaned" stays true until its revoke: a stopped job never resumes.
VerdictsLast ==
  \A s \in Sweeper : \A i \in Job : target[s] = i => pc[i] \in {"done", "dead"}

-----------------------------------------------------------------------------
(* Properties.                                                             *)

\* A load never loses its ingress: while a job loads, the rule it opened is in
\* the group, whatever the janitor and other sweeps do with their stale rows.
\* (run_is_in_progress, when gh answers.)
LoadKeepsItsIngress == \A j \in Job : pc[j] = "load" => ingress[j] # None

\* ADR-0021: the database is never open to more than one ephemeral address.
AtMostOneIngress == Cardinality(Opened) <= 1

\* The fail-stop sweep before every open, and the concurrency group, secure it
\* but for a re-run: of two rules open at once, one is the orphan of an attempt
\* whose run id has been started again, which a sweep takes for a rule in use.
OneIngressButForReruns ==
  \A i, j \in Opened : i = j \/ Superseded(i) \/ Superseded(j)

\* The mechanism keeps the promise of IngressLease: no sweep, however stale its
\* rows, revokes a rule from under the job that uses it, and two jobs never use
\* one each.  (When gh answers: GhMayFail = FALSE.)
leasePhase ==
  [j \in Job |-> IF pc[j] \in {"none", "setup", "list", "sweep", "open"} THEN "free"
                 ELSE IF pc[j] = "load" \/ (pc[j] = "close" /\ ruleFile[j]) THEN "held"
                 ELSE "ended"]
Lease == INSTANCE IngressLease WITH Holder <- Job, phase <- leasePhase, open <- Opened
ImplementsLease == Lease!LeaseSpec

\* A rule whose job has ended does not stay: a sweep revokes it some day.
OrphansAreRevoked ==
  \A j \in Job : (ingress[j] # None /\ ~Live(j)) ~> (ingress[j] = None)
=============================================================================
