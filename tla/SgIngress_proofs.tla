-------------------------- MODULE SgIngress_proofs --------------------------
(* Theorems about SgIngress, for every number of runs, attempts, addresses. *)
EXTENDS SgIngress, TLAPS

-----------------------------------------------------------------------------
(* Jobs are pairs.                                                          *)

\* A job is its run and its attempt.
LEMMA JobParts ==
  /\ \A j \in Job : RunOf(j) \in Runs /\ j[2] \in 1..MaxAttempt /\ j[2] \in Nat
  /\ \A i, j \in Job : RunOf(i) = RunOf(j) /\ i[2] = j[2] => i = j
  /\ Job \subseteq Sweeper /\ Janitor \in Sweeper
BY BoundsAssumption DEF Job, RunOf, Sweeper

\* The latest attempt of a run, once there is one, is a job.
LEMMA CurrentJob ==
  ASSUME TypeOK, NEW r \in Runs
  PROVE  /\ attempt[r] \in 0..MaxAttempt
         /\ attempt[r] >= 1 => Current(r) \in Job
         /\ RunOf(Current(r)) = r
         /\ Current(r)[2] = attempt[r]
BY BoundsAssumption DEF TypeOK, Current, Job, RunOf

-----------------------------------------------------------------------------
(* Types.                                                                   *)

\* A revoke leaves the rules a function from jobs to addresses or None.
LEMMA AfterRevokeType ==
  ASSUME ingress \in [Job -> Cidr \cup {None}], NEW i, NEW outcome
  PROVE  AfterRevoke(i, outcome) \in [Job -> Cidr \cup {None}]
BY DEF AfterRevoke

\* Every variable keeps its type.
THEOREM TypeCorrect == Spec => []TypeOK
<1>1. Init => TypeOK
  BY BoundsAssumption DEF Init, TypeOK, Phase, LivePhase
<1>2. TypeOK /\ [Next]_vars => TypeOK'
  <2> SUFFICES ASSUME TypeOK, [Next]_vars PROVE TypeOK'
    OBVIOUS
  <2> USE DEF TypeOK, Phase, LivePhase, runVars, sweepVars
  <2>1. ASSUME NEW r \in Runs, Trigger(r) PROVE TypeOK'
    BY <2>1, BoundsAssumption DEF Trigger
  <2>2. ASSUME NEW r \in Runs, Admit(r) PROVE TypeOK'
    BY <2>2 DEF Admit
  <2>3. ASSUME NEW r \in Runs, PickUp(r) PROVE TypeOK'
    BY <2>3 DEF PickUp
  <2>4. ASSUME NEW r \in Runs, CompleteRun(r) PROVE TypeOK'
    BY <2>4 DEF CompleteRun
  <2>5. ASSUME NEW s \in Sweeper, List(s) PROVE TypeOK'
    BY <2>5 DEF List, Opened, AfterSweep
  <2>6. ASSUME NEW s \in Sweeper, ListDies(s) PROVE TypeOK'
    BY <2>6 DEF ListDies, AfterDeath
  <2>7. ASSUME NEW s \in Sweeper, NEW i \in Job, Examine(s, i) PROVE TypeOK'
    BY <2>7 DEF Examine
  <2>8. ASSUME NEW s \in Sweeper, NEW o \in RevokeOutcome, RevokeOrphan(s, o) PROVE TypeOK'
    BY <2>8, AfterRevokeType DEF RevokeOrphan
  <2>9. ASSUME NEW s \in Sweeper, EndSweep(s) PROVE TypeOK'
    BY <2>9 DEF EndSweep, AfterSweep, AfterDeath
  <2>10. ASSUME NEW s \in Sweeper, Sweep(s) PROVE TypeOK'
    BY <2>10, <2>5, <2>6, <2>7, <2>8, <2>9 DEF Sweep
  <2>11. ASSUME NEW j \in Job, Setup(j) PROVE TypeOK'
    BY <2>11 DEF Setup
  <2>12. ASSUME NEW j \in Job, Abort(j) PROVE TypeOK'
    BY <2>12 DEF Abort
  <2>13. ASSUME NEW j \in Job, NEW c \in Cidr, Open(j, c) PROVE TypeOK'
    BY <2>13 DEF Open
  <2>14. ASSUME NEW j \in Job, NEW c \in Cidr, OpenUnrecorded(j, c) PROVE TypeOK'
    BY <2>14 DEF OpenUnrecorded
  <2>15. ASSUME NEW j \in Job, Load(j) PROVE TypeOK'
    BY <2>15 DEF Load
  <2>16. ASSUME NEW j \in Job, CloseNothing(j) PROVE TypeOK'
    BY <2>16 DEF CloseNothing
  <2>17. ASSUME NEW j \in Job, NEW o \in RevokeOutcome, CloseRecorded(j, o) PROVE TypeOK'
    BY <2>17, AfterRevokeType DEF CloseRecorded, ReportsSuccess
  <2>18. ASSUME NEW j \in Job, Finish(j) PROVE TypeOK'
    BY <2>18 DEF Finish
  <2>19. ASSUME NEW j \in Job, Kill(j) PROVE TypeOK'
    BY <2>19 DEF Kill
  <2>20. ASSUME NEW j \in Job, JobStep(j) PROVE TypeOK'
    BY <2>20, JobParts, <2>10, <2>11, <2>12, <2>13, <2>14, <2>15, <2>16, <2>17, <2>18, <2>19
       DEF JobStep
  <2>21. CASE JanitorStart
    BY <2>21 DEF JanitorStart
  <2>22. CASE JanitorPreempt
    <3>1. preempted' \in 0..MaxPreempt
      BY <2>22, BoundsAssumption DEF JanitorPreempt
    <3>2. QED
      BY <2>22, <3>1, JobParts DEF JanitorPreempt
  <2>23. CASE UNCHANGED vars
    BY <2>23 DEF vars
  <2>24. QED
    BY JobParts, <2>1, <2>2, <2>3, <2>4, <2>10, <2>20, <2>21, <2>22, <2>23 DEF Next
<1>3. QED
  BY <1>1, <1>2, PTL DEF Spec

-----------------------------------------------------------------------------
(* What the steps of a job and of the janitor do to the program counters.   *)

\* A step of a job is taken by a live job, moves only that job, never back to
\* "none", and leaves GitHub's run alone.
LEMMA JobStepPc ==
  ASSUME TypeOK, NEW j \in Job, JobStep(j)
  PROVE  /\ Live(j)
         /\ pc'[j] # "none"
         /\ \A s \in Sweeper : s # j => pc'[s] = pc[s]
         /\ UNCHANGED runVars
<1> USE JobParts DEF TypeOK, Live, LivePhase
<1>1. j \in Sweeper /\ j # Janitor
  BY NamesAssumption
<1>2. CASE Sweep(j)
  BY <1>1, <1>2 DEF Sweep, List, ListDies, Examine, RevokeOrphan, EndSweep,
                    AfterSweep, AfterDeath, runVars
<1>3. CASE Setup(j) \/ Abort(j)
  BY <1>1, <1>3 DEF Setup, Abort, runVars
<1>4. CASE \E c \in Cidr : Open(j, c) \/ OpenUnrecorded(j, c)
  BY <1>1, <1>4 DEF Open, OpenUnrecorded, runVars
<1>5. CASE \E outcome \in RevokeOutcome : CloseRecorded(j, outcome)
  BY <1>1, <1>5 DEF CloseRecorded, runVars
<1>6. CASE Load(j) \/ CloseNothing(j) \/ Finish(j) \/ Kill(j)
  BY <1>1, <1>6 DEF Load, CloseNothing, Finish, Kill, runVars
<1>7. QED
  BY <1>2, <1>3, <1>4, <1>5, <1>6 DEF JobStep

JanitorStep == Sweep(Janitor) \/ JanitorStart \/ JanitorPreempt

\* The janitor moves no job and no run.
LEMMA JanitorStepPc ==
  ASSUME TypeOK, JanitorStep
  PROVE  /\ \A j \in Job : pc'[j] = pc[j]
         /\ UNCHANGED <<runVars, ruleFile>>
<1> USE JobParts, NamesAssumption DEF TypeOK
<1>1. CASE Sweep(Janitor)
  BY <1>1 DEF Sweep, List, ListDies, Examine, RevokeOrphan, EndSweep
<1>2. CASE JanitorStart \/ JanitorPreempt
  BY <1>2 DEF JanitorStart, JanitorPreempt, sweepVars
<1>3. QED
  BY <1>1, <1>2 DEF JanitorStep

-----------------------------------------------------------------------------
(* GitHub's side.                                                           *)

\* The invariant RunsInOrder.
THEOREM RunsStayInOrder == Spec => []RunsInOrder
<1>1. Init => RunsInOrder
  BY JobParts DEF Init, RunsInOrder, Live, LivePhase
<1>2. TypeOK /\ RunsInOrder /\ [Next]_vars => RunsInOrder'
  <2> SUFFICES ASSUME TypeOK, RunsInOrder, [Next]_vars PROVE RunsInOrder'
    OBVIOUS
  <2> USE JobParts, BoundsAssumption, NamesAssumption
  <2>1. ASSUME NEW r \in Runs, Trigger(r) PROVE RunsInOrder'
    <3> USE <2>1 DEF Trigger, TypeOK
    <3>1. \A q \in Runs : status'[q] \in {"queued", "in_progress"} =>
             q # r /\ status[q] = status'[q] /\ attempt'[q] = attempt[q]
      OBVIOUS
    <3>2. \A j \in Job : Live(j) => RunOf(j) # r
      BY DEF RunsInOrder
    <3>3. (\A q \in Runs : status[q] \in {"blocked", "queued"} =>
             attempt[q] >= 1 /\ pc[Current(q)] = "none")'
      <4> SUFFICES ASSUME NEW q \in Runs, status'[q] \in {"blocked", "queued"}
                   PROVE  attempt'[q] >= 1 /\ pc[Current(q)'] = "none"
        OBVIOUS
      <4>1. CASE q = r
        <5>1. attempt'[r] = attempt[r] + 1 /\ attempt'[r] \in 1..MaxAttempt
          OBVIOUS
        <5>2. Current(r)' \in Job /\ RunOf(Current(r)') = r /\ Current(r)'[2] = attempt[r] + 1
          BY <5>1 DEF Current, Job, RunOf
        <5>3. QED
          BY <4>1, <5>1, <5>2 DEF RunsInOrder
      <4>2. CASE q # r
        BY <4>2 DEF RunsInOrder, Current
      <4>3. QED
        BY <4>1, <4>2
    <3>4. (\A j \in Job : j[2] > attempt[RunOf(j)] => pc[j] = "none")'
      BY DEF RunsInOrder, RunOf
    <3>5. (\A j \in Job : Live(j) => status[RunOf(j)] = "in_progress" /\ j = Current(RunOf(j)))'
      BY <3>2 DEF RunsInOrder, Live, LivePhase, Current
    <3>6. QED
      BY <3>1, <3>3, <3>4, <3>5 DEF RunsInOrder
  <2>2. ASSUME NEW r \in Runs, Admit(r) PROVE RunsInOrder'
    BY <2>2 DEF Admit, TypeOK, RunsInOrder, Live, LivePhase, Current
  <2>3. ASSUME NEW r \in Runs, PickUp(r) PROVE RunsInOrder'
    <3> USE <2>3 DEF PickUp, TypeOK
    <3>1. Current(r) \in Job /\ RunOf(Current(r)) = r /\ Current(r)[2] = attempt[r]
      BY CurrentJob DEF RunsInOrder
    <3>2. \A j \in Job : j # Current(r) => pc'[j] = pc[j]
      OBVIOUS
    <3>3. \A q \in Runs : status[q] \in {"blocked", "queued"} /\ q # r => Current(q) # Current(r)
      BY DEF Current
    <3>4. (\A q \in Runs : status[q] \in {"blocked", "queued"} =>
             attempt[q] >= 1 /\ pc[Current(q)] = "none")'
      BY <3>1, <3>3, CurrentJob DEF RunsInOrder, Current
    <3>5. (\A j \in Job : j[2] > attempt[RunOf(j)] => pc[j] = "none")'
      BY <3>1, <3>2 DEF RunsInOrder
    <3>6. (\A j \in Job : Live(j) => status[RunOf(j)] = "in_progress" /\ j = Current(RunOf(j)))'
      BY <3>1, <3>2 DEF RunsInOrder, Live, LivePhase, Current
    <3>7. QED
      BY <3>4, <3>5, <3>6 DEF RunsInOrder
  <2>4. ASSUME NEW r \in Runs, CompleteRun(r) PROVE RunsInOrder'
    <3>1. \A j \in Job : Live(j) => RunOf(j) # r
      BY <2>4 DEF CompleteRun, RunsInOrder
    <3>2. QED
      BY <2>4, <3>1 DEF CompleteRun, TypeOK, RunsInOrder, Live, LivePhase, Current
  <2>5. ASSUME NEW j \in Job, JobStep(j) PROVE RunsInOrder'
    <3>1. /\ Live(j) /\ pc'[j] # "none" /\ pc[j] # "none"
          /\ \A i \in Job : i # j => pc'[i] = pc[i]
          /\ status' = status /\ attempt' = attempt
      BY <2>5, JobStepPc DEF runVars, Live, LivePhase
    <3>2. \A r \in Runs : status[r] \in {"blocked", "queued"} => Current(r) # j
      BY <3>1 DEF RunsInOrder
    <3>3. \A r \in Runs : status[r] \in {"blocked", "queued"} => Current(r) \in Job
      BY CurrentJob DEF RunsInOrder
    <3>4. QED
      BY <3>1, <3>2, <3>3 DEF RunsInOrder, Live, Current
  <2>6. ASSUME JanitorStep PROVE RunsInOrder'
    <3>1. \A r \in Runs : status[r] \in {"blocked", "queued"} => Current(r) \in Job
      BY CurrentJob DEF RunsInOrder
    <3>2. QED
      BY <2>6, <3>1, JanitorStepPc DEF RunsInOrder, Live, Current, runVars
  <2>7. CASE UNCHANGED vars
    BY <2>7 DEF vars, RunsInOrder, Live, Current
  <2>8. QED
    BY <2>1, <2>2, <2>3, <2>4, <2>5, <2>6, <2>7 DEF Next, JanitorStep
<1>3. QED
  BY <1>1, <1>2, TypeCorrect, PTL DEF Spec

-----------------------------------------------------------------------------
(* Rules, rule files and sweep lists.                                       *)

\* The effect of a revoke: rules other than the revoked one stay, none appears,
\* and a revoke reported as a success has removed its rule.
LEMMA RevokeEffect ==
  ASSUME TypeOK, NEW i \in Job, NEW o \in RevokeOutcome
  PROVE  /\ \A k \in Job : AfterRevoke(i, o)[k] # None => ingress[k] # None
         /\ \A k \in Job : k # i => AfterRevoke(i, o)[k] = ingress[k]
         /\ ReportsSuccess(i, o) => AfterRevoke(i, o)[i] = None
BY DEF AfterRevoke, ReportsSuccess, TypeOK, RevokeOutcome

\* What a step of a sweep, of a job or of the janitor, changes beside its pc.
LEMMA SweepEffect ==
  ASSUME TypeOK, NEW s \in Sweeper, Sweep(s)
  PROVE  /\ \A k \in Job : ingress'[k] # None => ingress[k] # None
         /\ \A t \in Sweeper, i \in Job :
              i \in todo'[t] \/ i = target'[t] =>
                i \in todo[t] \/ i = target[t] \/ i \in Opened
         /\ UNCHANGED ruleFile
<1> USE NamesAssumption DEF TypeOK, Opened
<1>1. CASE List(s)
  BY <1>1 DEF List
<1>2. CASE ListDies(s)
  BY <1>2 DEF ListDies, sweepVars
<1>3. ASSUME NEW i \in Job, Examine(s, i)
      PROVE  /\ UNCHANGED <<ingress, ruleFile>>
             /\ \A t \in Sweeper, k \in Job :
                  k \in todo'[t] \/ k = target'[t] => k \in todo[t] \/ k = target[t]
  BY <1>3 DEF Examine
<1>4. ASSUME NEW o \in RevokeOutcome, RevokeOrphan(s, o)
      PROVE  /\ \A k \in Job : ingress'[k] # None => ingress[k] # None
             /\ \A t \in Sweeper, k \in Job :
                  k \in todo'[t] \/ k = target'[t] => k \in todo[t] \/ k = target[t]
             /\ UNCHANGED ruleFile
  <2>1. target[s] \in Job
    BY <1>4 DEF RevokeOrphan
  <2>2. QED
    BY <1>4, <2>1, RevokeEffect DEF RevokeOrphan
<1>5. CASE EndSweep(s)
  BY <1>5 DEF EndSweep
<1>6. QED
  BY <1>1, <1>2, <1>3, <1>4, <1>5 DEF Sweep

\* A step of a sweep never starts at, and never leads to, a phase past the open
\* step, but for the close step of a job whose sweep dies.
LEMMA SweepPc ==
  ASSUME TypeOK, NEW s \in Sweeper, Sweep(s)
  PROVE  /\ pc[s] \in {"list", "sweep"}
         /\ pc'[s] \in {"list", "sweep", "open", "close", "none"}
         /\ \A t \in Sweeper : t # s => pc'[t] = pc[t]
BY DEF Sweep, List, ListDies, Examine, RevokeOrphan, EndSweep, TypeOK, AfterSweep, AfterDeath

\* The invariant RulesHaveOpeners.
THEOREM RulesAlwaysHaveOpeners == Spec => []RulesHaveOpeners
<1>1. Init => RulesHaveOpeners
  BY NamesAssumption, JobParts DEF Init, RulesHaveOpeners, Opened
<1>2. TypeOK /\ RunsInOrder /\ RulesHaveOpeners /\ [Next]_vars => RulesHaveOpeners'
  <2> SUFFICES ASSUME TypeOK, RunsInOrder, RulesHaveOpeners, [Next]_vars
               PROVE RulesHaveOpeners'
    OBVIOUS
  <2> USE JobParts, NamesAssumption
  <2>1. ASSUME NEW r \in Runs, Trigger(r) \/ Admit(r) \/ CompleteRun(r)
        PROVE RulesHaveOpeners'
    BY <2>1 DEF Trigger, Admit, CompleteRun, sweepVars, RulesHaveOpeners, Opened
  <2>2. ASSUME NEW r \in Runs, PickUp(r) PROVE RulesHaveOpeners'
    <3>1. pc[Current(r)] = "none"
      BY <2>2 DEF PickUp, RunsInOrder
    <3>2. \A i \in Job : pc[i] \in OpenedOnce => pc'[i] = pc[i]
      BY <2>2, <3>1 DEF PickUp, OpenedOnce, TypeOK
    <3>3. QED
      BY <2>2, <3>2 DEF PickUp, sweepVars, RulesHaveOpeners, Opened, OpenedOnce
  <2>3. ASSUME NEW s \in Sweeper, Sweep(s) PROVE RulesHaveOpeners'
    <3>1. \A i \in Job : pc[i] \in OpenedOnce => pc'[i] = pc[i]
      BY <2>3, SweepPc DEF OpenedOnce
    <3>2. QED
      BY <2>3, <3>1, SweepEffect DEF RulesHaveOpeners, Opened, OpenedOnce
  <2>4. ASSUME NEW j \in Job, Setup(j) PROVE RulesHaveOpeners'
    BY <2>4 DEF Setup, sweepVars, RulesHaveOpeners, Opened, OpenedOnce, TypeOK
  <2>5. ASSUME NEW j \in Job, Abort(j) PROVE RulesHaveOpeners'
    BY <2>5 DEF Abort, RulesHaveOpeners, Opened, OpenedOnce, TypeOK
  <2>6. ASSUME NEW j \in Job, NEW c \in Cidr, Open(j, c) PROVE RulesHaveOpeners'
    BY <2>6 DEF Open, sweepVars, RulesHaveOpeners, Opened, OpenedOnce, TypeOK
  <2>7. ASSUME NEW j \in Job, NEW c \in Cidr, OpenUnrecorded(j, c) PROVE RulesHaveOpeners'
    BY <2>7 DEF OpenUnrecorded, sweepVars, RulesHaveOpeners, Opened, OpenedOnce, TypeOK
  <2>8. ASSUME NEW j \in Job, Load(j) \/ CloseNothing(j) PROVE RulesHaveOpeners'
    BY <2>8 DEF Load, CloseNothing, sweepVars, RulesHaveOpeners, Opened, OpenedOnce, TypeOK
  <2>9. ASSUME NEW j \in Job, NEW o \in RevokeOutcome, CloseRecorded(j, o)
        PROVE RulesHaveOpeners'
    BY <2>9, RevokeEffect
       DEF CloseRecorded, sweepVars, RulesHaveOpeners, Opened, OpenedOnce, TypeOK
  <2>10. ASSUME NEW j \in Job, Finish(j) \/ Kill(j) PROVE RulesHaveOpeners'
    BY <2>10 DEF Finish, Kill, sweepVars, RulesHaveOpeners, Opened, OpenedOnce, TypeOK
  <2>11. CASE JanitorStart \/ JanitorPreempt
    <3>1. \A i \in Job : pc'[i] = pc[i]
      BY <2>11, JanitorStepPc DEF JanitorStep
    <3>2. QED
      BY <2>11, <3>1 DEF JanitorStart, JanitorPreempt, sweepVars, RulesHaveOpeners, Opened, TypeOK
  <2>12. CASE UNCHANGED vars
    BY <2>12 DEF vars, RulesHaveOpeners, Opened
  <2>13. QED
    BY <2>1, <2>2, <2>3, <2>4, <2>5, <2>6, <2>7, <2>8, <2>9, <2>10, <2>11, <2>12 DEF Next, JobStep
<1>3. QED
  BY <1>1, <1>2, TypeCorrect, RunsStayInOrder, PTL DEF Spec

-----------------------------------------------------------------------------
(* The sweep before every open.                                             *)

\* One job at a time is live: the concurrency group.
LEMMA OneLiveJob ==
  ASSUME TypeOK, RunsInOrder, NEW i \in Job, NEW j \in Job, Live(i), Live(j)
  PROVE  i = j
BY JobParts DEF RunsInOrder

\* Whatever gh answers, the rule a job's sweep keeps is that of an attempt
\* whose run has been started again.
LEMMA KeptIsSuperseded ==
  ASSUME TypeOK, RunsInOrder, RulesHaveOpeners,
         NEW j \in Job, pc[j] = "sweep", NEW i \in Opened,
         OwnRule(j, i) \/ GhAnswers(RunOf(i)) \cap {"in_progress", "queued"} # {}
  PROVE  Superseded(i)
<1> USE JobParts DEF Opened
<1>1. i \in Job /\ RunOf(i) \in Runs /\ RunOf(j) \in Runs /\ i[2] \in Nat
  OBVIOUS
<1>2. pc[i] \in OpenedOnce /\ i # j
  BY DEF RulesHaveOpeners, OpenedOnce
<1>3. attempt[RunOf(i)] \in Nat /\ i[2] <= attempt[RunOf(i)]
  <2>1. attempt[RunOf(i)] \in Nat
    BY <1>1, BoundsAssumption DEF TypeOK
  <2>2. ~(i[2] > attempt[RunOf(i)])
    BY <1>1, <1>2 DEF RunsInOrder, OpenedOnce
  <2>3. QED
    BY <1>1, <2>1, <2>2
<1>4. SUFFICES i # Current(RunOf(i))
  <2>1. RunOf(Current(RunOf(i))) = RunOf(i) /\ Current(RunOf(i))[2] = attempt[RunOf(i)]
    BY DEF Current, RunOf
  <2>2. i[2] # attempt[RunOf(i)]
    <3>1. i = <<i[1], i[2]>>
      BY DEF Job
    <3>2. QED
      BY <1>4, <3>1 DEF Current, RunOf
  <2>3. QED
    BY <1>1, <1>3, <2>2 DEF Superseded
<1>5. Live(j) /\ status[RunOf(j)] = "in_progress" /\ j = Current(RunOf(j))
  BY DEF Live, LivePhase, RunsInOrder
<1>6. CASE RunOf(i) = RunOf(j)
  BY <1>2, <1>5, <1>6
<1>7. CASE RunOf(i) # RunOf(j)
  <2>1. status[RunOf(i)] \in {"blocked", "queued", "in_progress"}
    <3>1. GhAnswers(RunOf(i)) \cap {"in_progress", "queued"} # {}
      BY <1>7 DEF OwnRule
    <3>2. QED
      BY <1>1, <3>1 DEF GhAnswers, TypeOK
  <2>2. status[RunOf(i)] # "in_progress"
    BY <1>1, <1>5, <1>7 DEF RunsInOrder
  <2>3. pc[Current(RunOf(i))] = "none"
    BY <1>1, <2>1, <2>2 DEF RunsInOrder
  <2>4. QED
    BY <1>2, <2>3 DEF OpenedOnce
<1>8. QED
  BY <1>6, <1>7

\* A run's attempts only grow, so what is superseded stays so.
LEMMA SupersededStays ==
  ASSUME TypeOK, [Next]_vars, NEW i \in Job, Superseded(i)
  PROVE  Superseded(i)'
<1> USE JobParts DEF Superseded
<1>1. ASSUME NEW r \in Runs, Trigger(r) PROVE Superseded(i)'
  BY <1>1, BoundsAssumption DEF Trigger, TypeOK, RunOf
<1>2. ASSUME NEW r \in Runs, Admit(r) \/ PickUp(r) \/ CompleteRun(r) PROVE Superseded(i)'
  BY <1>2 DEF Admit, PickUp, CompleteRun
<1>3. ASSUME NEW j \in Job, JobStep(j) PROVE Superseded(i)'
  BY <1>3, JobStepPc DEF runVars
<1>4. CASE JanitorStep
  BY <1>4, JanitorStepPc DEF runVars
<1>5. CASE UNCHANGED vars
  BY <1>5 DEF vars
<1>6. QED
  BY <1>1, <1>2, <1>3, <1>4, <1>5 DEF Next, JanitorStep

\* The invariant SweepCovers.
THEOREM SweepsCover == Spec => []SweepCovers
<1>1. Init => SweepCovers
  BY JobParts DEF Init, SweepCovers
<1>2. TypeOK /\ RunsInOrder /\ RulesHaveOpeners /\ SweepCovers /\ [Next]_vars
        => SweepCovers'
  <2> SUFFICES ASSUME TypeOK, RunsInOrder, RulesHaveOpeners, SweepCovers, [Next]_vars
               PROVE SweepCovers'
    OBVIOUS
  <2> USE JobParts, NamesAssumption
  \* Steps that leave a job's sweep alone and add no rule keep what it covers.
  <2>1. ASSUME NEW j \in Job, pc'[j] = pc[j], Opened' \subseteq Opened,
               todo'[j] = todo[j], target'[j] = target[j], failed'[j] = failed[j]
        PROVE  /\ pc'[j] = "sweep" => failed'[j] \/ \A i \in Opened' :
                    i \in todo'[j] \/ i = target'[j] \/ Superseded(i)'
               /\ pc'[j] = "open" => \A i \in Opened' : Superseded(i)'
    BY <2>1, SupersededStays DEF SweepCovers, Opened
  <2>2. ASSUME NEW r \in Runs, Trigger(r) \/ Admit(r) \/ CompleteRun(r) PROVE SweepCovers'
    BY <2>1, <2>2 DEF Trigger, Admit, CompleteRun, sweepVars, SweepCovers, Opened
  <2>3. ASSUME NEW r \in Runs, PickUp(r) PROVE SweepCovers'
    <3>1. \A j \in Job : pc'[j] = pc[j] \/ pc'[j] = "setup"
      BY <2>3 DEF PickUp, TypeOK
    <3>2. QED
      BY <2>1, <2>3, <3>1 DEF PickUp, sweepVars, SweepCovers, Opened
  \* A sweep's step: it touches its own sweep only.
  <2>4. ASSUME NEW s \in Sweeper, Sweep(s), NEW j \in Job, j # s
        PROVE  /\ pc'[j] = pc[j] /\ Opened' \subseteq Opened
               /\ todo'[j] = todo[j] /\ target'[j] = target[j] /\ failed'[j] = failed[j]
    <3>1. Opened' \subseteq Opened
      BY <2>4, SweepEffect DEF Opened
    <3>2. QED
      BY <2>4, <3>1
         DEF Sweep, List, ListDies, Examine, RevokeOrphan, EndSweep, sweepVars, TypeOK
  <2>5. ASSUME NEW s \in Sweeper, Sweep(s) PROVE SweepCovers'
    <3>1. SUFFICES ASSUME s \in Job
          PROVE /\ pc'[s] = "sweep" => failed'[s] \/ \A i \in Opened' :
                     i \in todo'[s] \/ i = target'[s] \/ Superseded(i)'
                /\ pc'[s] = "open" => \A i \in Opened' : Superseded(i)'
      BY <2>1, <2>4, <2>5 DEF SweepCovers
    <3>2. CASE List(s)
      BY <3>2 DEF List, TypeOK, Opened, AfterSweep
    <3>3. CASE ListDies(s)
      BY <3>1, <3>3 DEF ListDies, TypeOK, AfterDeath
    <3>4. ASSUME NEW k \in Job, Examine(s, k)
          PROVE  failed'[s] \/ \A i \in Opened' :
                   i \in todo'[s] \/ i = target'[s] \/ Superseded(i)'
      <4>1. SUFFICES ASSUME ~failed[s], NEW i \in Opened, i \notin todo'[s], i # target'[s]
                     PROVE  Superseded(i)'
        BY <3>4 DEF Examine, Opened
      <4>2. i \in Job
        BY DEF Opened
      <4>3. SUFFICES Superseded(i)
        BY <4>2, SupersededStays
      <4>4. pc[s] = "sweep" /\ target[s] = None
        BY <3>4 DEF Examine
      <4>5. CASE i # k
        BY <3>1, <3>4, <4>1, <4>2, <4>4, <4>5 DEF Examine, SweepCovers, TypeOK
      <4>6. CASE i = k
        <5>1. OwnRule(s, k) \/ GhAnswers(RunOf(k)) \cap {"in_progress", "queued"} # {}
          BY <3>4, <4>1, <4>6 DEF Examine, TypeOK
        <5>2. QED
          BY <3>1, <4>1, <4>4, <4>6, <5>1, KeptIsSuperseded
      <4>7. QED
        BY <4>5, <4>6
    <3>5. ASSUME NEW o \in RevokeOutcome, RevokeOrphan(s, o)
          PROVE  failed'[s] \/ \A i \in Opened' :
                   i \in todo'[s] \/ i = target'[s] \/ Superseded(i)'
      <4>1. target[s] \in Job /\ pc[s] = "sweep"
        BY <3>5 DEF RevokeOrphan, TypeOK
      <4>2. SUFFICES ASSUME ~failed'[s], NEW i \in Opened'
                     PROVE  i \in todo'[s] \/ Superseded(i)'
        OBVIOUS
      <4>3. ~failed[s] /\ ReportsSuccess(target[s], o)
        BY <3>5, <4>2 DEF RevokeOrphan, TypeOK
      <4>4. i # target[s] /\ i \in Opened /\ i \in Job
        BY <3>5, <4>1, <4>3, RevokeEffect DEF RevokeOrphan, Opened
      <4>5. i \in todo[s] \/ Superseded(i)
        BY <3>1, <4>1, <4>3, <4>4 DEF SweepCovers
      <4>6. QED
        BY <3>5, <4>4, <4>5, SupersededStays DEF RevokeOrphan
    <3>6. CASE EndSweep(s)
      <4>1. pc'[s] = "open" => ~failed[s] /\ todo[s] = {} /\ target[s] = None /\ pc[s] = "sweep"
        BY <3>1, <3>6 DEF EndSweep, TypeOK, AfterSweep, AfterDeath
      <4>2. pc'[s] # "sweep"
        BY <3>1, <3>6 DEF EndSweep, TypeOK, AfterSweep, AfterDeath
      <4>3. \A i \in Opened' : i \in Opened /\ i \in Job
        BY <3>6 DEF EndSweep, Opened
      <4>4. QED
        BY <3>1, <4>1, <4>2, <4>3, SupersededStays DEF SweepCovers
    <3>7. QED
      <4>1. \A k \in Job : Examine(s, k) => pc'[s] # "open"
        BY DEF Examine
      <4>2. \A o \in RevokeOutcome : RevokeOrphan(s, o) => pc'[s] # "open"
        BY DEF RevokeOrphan
      <4>3. QED
        BY <2>5, <3>2, <3>3, <3>4, <3>5, <3>6, <4>1, <4>2 DEF Sweep
  \* A job's other steps leave its sweep behind; no other job is live.
  <2>6. ASSUME NEW j \in Job, JobStep(j), ~Sweep(j) PROVE SweepCovers'
    <3>1. Live(j) /\ \A k \in Job : k # j => pc'[k] = pc[k]
      BY <2>6, JobStepPc
    <3>2. \A k \in Job : k # j => pc'[k] \notin {"sweep", "open"}
      BY <3>1, OneLiveJob DEF Live, LivePhase
    <3>3. pc'[j] \notin {"sweep", "open"}
      BY <2>6 DEF JobStep, Setup, Abort, Open, OpenUnrecorded, Load, CloseNothing,
                  CloseRecorded, Finish, Kill, TypeOK
    <3>4. QED
      BY <3>2, <3>3 DEF SweepCovers
  <2>7. CASE JanitorStart \/ JanitorPreempt
    <3>1. \A j \in Job : pc'[j] = pc[j] /\ j # Janitor
      BY <2>7, JanitorStepPc DEF JanitorStep
    <3>2. \A j \in Job : todo'[j] = todo[j] /\ target'[j] = target[j] /\ failed'[j] = failed[j]
      BY <2>7, <3>1 DEF JanitorStart, JanitorPreempt, sweepVars, TypeOK
    <3>3. Opened' = Opened
      BY <2>7 DEF JanitorStart, JanitorPreempt, Opened
    <3>4. QED
      BY <2>1, <3>1, <3>2, <3>3 DEF SweepCovers
  <2>8. CASE UNCHANGED vars
    BY <2>1, <2>8 DEF vars, SweepCovers, Opened
  <2>9. QED
    BY <2>2, <2>3, <2>5, <2>6, <2>7, <2>8 DEF Next
<1>3. QED
  BY <1>1, <1>2, TypeCorrect, RunsStayInOrder, RulesAlwaysHaveOpeners, PTL DEF Spec

\* Two ephemeral rules at once need a re-run: otherwise the database is never
\* open to more than one runner, whatever is killed, lost, throttled or
\* misjudged.  (ADR-0021's bound on the exposure.)
THEOREM OneIngress == Spec => []OneIngressButForReruns
<1>1. Init => OneIngressButForReruns
  BY DEF Init, OneIngressButForReruns, Opened
<1>2. TypeOK /\ SweepCovers /\ OneIngressButForReruns /\ [Next]_vars
        => OneIngressButForReruns'
  <2> SUFFICES ASSUME TypeOK, SweepCovers, OneIngressButForReruns, [Next]_vars
               PROVE OneIngressButForReruns'
    OBVIOUS
  <2> USE JobParts, NamesAssumption
  <2>1. ASSUME Opened' \subseteq Opened PROVE OneIngressButForReruns'
    BY <2>1, SupersededStays DEF OneIngressButForReruns, Opened
  <2>2. ASSUME NEW j \in Job, NEW c \in Cidr, Open(j, c) \/ OpenUnrecorded(j, c)
        PROVE OneIngressButForReruns'
    <3>1. \A i \in Opened' : i = j \/ i \in Opened
      BY <2>2 DEF Open, OpenUnrecorded, Opened, TypeOK
    <3>2. \A i \in Opened : Superseded(i)
      BY <2>2 DEF Open, OpenUnrecorded, SweepCovers
    <3>3. \A i \in Opened : Superseded(i)'
      BY <3>2, SupersededStays DEF Opened
    <3>4. QED
      BY <3>1, <3>3 DEF OneIngressButForReruns
  <2>3. ASSUME NEW r \in Runs, Trigger(r) \/ Admit(r) \/ PickUp(r) \/ CompleteRun(r)
        PROVE Opened' \subseteq Opened
    BY <2>3 DEF Trigger, Admit, PickUp, CompleteRun, Opened
  <2>4. ASSUME NEW s \in Sweeper, Sweep(s) PROVE Opened' \subseteq Opened
    BY <2>4, SweepEffect DEF Opened
  <2>5. ASSUME NEW j \in Job, Setup(j) \/ Abort(j) \/ Load(j) \/ CloseNothing(j)
                              \/ Finish(j) \/ Kill(j)
        PROVE Opened' \subseteq Opened
    BY <2>5 DEF Setup, Abort, Load, CloseNothing, Finish, Kill, Opened
  <2>6. ASSUME NEW j \in Job, NEW o \in RevokeOutcome, CloseRecorded(j, o)
        PROVE Opened' \subseteq Opened
    BY <2>6, RevokeEffect DEF CloseRecorded, Opened
  <2>7. CASE JanitorStart \/ JanitorPreempt
    BY <2>1, <2>7 DEF JanitorStart, JanitorPreempt, Opened
  <2>8. CASE UNCHANGED vars
    BY <2>1, <2>8 DEF vars, Opened
  <2>9. QED
    BY <2>1, <2>2, <2>3, <2>4, <2>5, <2>6, <2>7, <2>8 DEF Next, JobStep
<1>3. QED
  BY <1>1, <1>2, TypeCorrect, SweepsCover, PTL DEF Spec

-----------------------------------------------------------------------------
(* Sweeps against a load in progress, as long as gh answers.                *)

Stopped == {"done", "dead"}

\* A job that has stopped never runs again: a re-run is another job.
LEMMA StoppedStays ==
  ASSUME TypeOK, RunsInOrder, [Next]_vars, NEW i \in Job, pc[i] \in Stopped
  PROVE  pc'[i] = pc[i]
<1> USE JobParts DEF Stopped
<1>1. ASSUME NEW r \in Runs, Trigger(r) \/ Admit(r) \/ CompleteRun(r) PROVE pc'[i] = pc[i]
  BY <1>1 DEF Trigger, Admit, CompleteRun
<1>2. ASSUME NEW r \in Runs, PickUp(r) PROVE pc'[i] = pc[i]
  BY <1>2 DEF PickUp, RunsInOrder, TypeOK
<1>3. ASSUME NEW j \in Job, JobStep(j) PROVE pc'[i] = pc[i]
  BY <1>3, JobStepPc DEF Live, LivePhase
<1>4. CASE JanitorStep
  BY <1>4, JanitorStepPc
<1>5. CASE UNCHANGED vars
  BY <1>5 DEF vars
<1>6. QED
  BY <1>1, <1>2, <1>3, <1>4, <1>5 DEF Next, JanitorStep

\* Only a row found stopped becomes a sweep's target.
LEMMA TargetsAreStopped ==
  ASSUME TypeOK, RunsInOrder, RulesHaveOpeners, ~GhMayFail, [Next]_vars,
         NEW s \in Sweeper, NEW i \in Job, target'[s] = i, target[s] # i
  PROVE  pc[i] \in Stopped
<1> USE JobParts, NamesAssumption DEF TypeOK
<1>1. Examine(s, i)
  \* Within a sweep, only the row that is looked at becomes the target.
  <2>1. ASSUME NEW t \in Sweeper, Sweep(t) PROVE Examine(s, i)
    BY <2>1 DEF Sweep, List, ListDies, Examine, RevokeOrphan, EndSweep, sweepVars
  \* Outside of sweeps a target is kept or dropped.
  <2>2. ASSUME UNCHANGED vars \/ JanitorStart \/ JanitorPreempt
        PROVE  target'[s] \in {target[s], None}
    BY <2>2 DEF vars, JanitorStart, JanitorPreempt, sweepVars
  <2>3. ASSUME NEW j \in Job, JobStep(j), ~Sweep(j)
        PROVE  target'[s] \in {target[s], None}
    BY <2>3 DEF JobStep, Setup, Abort, Open, OpenUnrecorded, Load, CloseNothing,
                CloseRecorded, Finish, Kill, sweepVars
  <2>4. ASSUME NEW r \in Runs, Trigger(r) \/ Admit(r) \/ PickUp(r) \/ CompleteRun(r)
        PROVE  target'[s] = target[s]
    BY <2>4 DEF Trigger, Admit, PickUp, CompleteRun, sweepVars
  <2> QED
    BY <2>1, <2>2, <2>3, <2>4 DEF Next
<1>2. status[RunOf(i)] # "in_progress"
  BY <1>1 DEF Examine, GhAnswers
<1>3. pc[i] \in OpenedOnce
  BY <1>1 DEF Examine, RulesHaveOpeners
<1>4. QED
  BY <1>2, <1>3 DEF RunsInOrder, Live, LivePhase, OpenedOnce, Stopped

\* The invariants VerdictsLast and LoadKeepsItsIngress together: no sweep ever
\* revokes the rule of a load in progress, though its rows may be stale and its
\* verdict is reached several calls before the revoke.
THEOREM LoadsKeepTheirIngress ==
  ASSUME ~GhMayFail
  PROVE  Spec => [](VerdictsLast /\ LoadKeepsItsIngress)
<1> DEFINE Inv == VerdictsLast /\ LoadKeepsItsIngress
<1>1. Init => Inv
  BY JobParts, NamesAssumption DEF Init, VerdictsLast, LoadKeepsItsIngress
<1>2. TypeOK /\ RunsInOrder /\ RulesHaveOpeners /\ Inv /\ [Next]_vars => Inv'
  <2> SUFFICES ASSUME TypeOK, RunsInOrder, RulesHaveOpeners, Inv, [Next]_vars
               PROVE Inv'
    OBVIOUS
  <2> USE ~GhMayFail, JobParts, NamesAssumption
  <2>1. VerdictsLast'
    <3>1. SUFFICES ASSUME NEW s \in Sweeper, NEW i \in Job, target'[s] = i
                   PROVE  pc'[i] \in Stopped
      BY DEF VerdictsLast, Stopped
    <3>2. pc[i] \in Stopped
      <4>1. CASE target[s] = i
        BY <4>1 DEF VerdictsLast, Stopped
      <4>2. CASE target[s] # i
        BY <3>1, <4>2, TargetsAreStopped
      <4>3. QED
        BY <4>1, <4>2
    <3>3. QED
      BY <3>2, StoppedStays
  <2>2. LoadKeepsItsIngress'
    <3>1. ASSUME NEW k \in Job, pc'[k] = "load", pc[k] = "load", ingress'[k] = ingress[k]
          PROVE  ingress'[k] # None
      BY <3>1 DEF LoadKeepsItsIngress
    <3>2. ASSUME NEW r \in Runs, Trigger(r) \/ Admit(r) \/ CompleteRun(r)
          PROVE  LoadKeepsItsIngress'
      BY <3>2 DEF Trigger, Admit, CompleteRun, LoadKeepsItsIngress
    <3>3. ASSUME NEW r \in Runs, PickUp(r) PROVE LoadKeepsItsIngress'
      BY <3>3 DEF PickUp, LoadKeepsItsIngress, TypeOK
    <3>4. ASSUME NEW s \in Sweeper, Sweep(s) PROVE LoadKeepsItsIngress'
      <4>1. ASSUME NEW k \in Job, pc'[k] = "load" PROVE pc[k] = "load"
        BY <3>4, <4>1, SweepPc
      <4>2. ASSUME NEW k \in Job, pc[k] = "load" PROVE ingress'[k] = ingress[k]
        <5>1. ASSUME NEW o \in RevokeOutcome, RevokeOrphan(s, o)
              PROVE  ingress'[k] = ingress[k]
          <6>1. target[s] \in Job /\ pc[target[s]] \in Stopped
            BY <5>1 DEF RevokeOrphan, TypeOK, VerdictsLast, Stopped
          <6>2. k # target[s]
            BY <4>2, <6>1 DEF Stopped
          <6>3. QED
            BY <5>1, <6>1, <6>2, RevokeEffect DEF RevokeOrphan
        <5>2. QED
          BY <3>4, <5>1 DEF Sweep, List, ListDies, Examine, EndSweep
      <4>3. QED
        BY <3>1, <4>1, <4>2 DEF LoadKeepsItsIngress
    <3>5. ASSUME NEW j \in Job, Setup(j) \/ Abort(j) \/ Load(j) \/ CloseNothing(j)
                                \/ Finish(j) \/ Kill(j)
          PROVE  LoadKeepsItsIngress'
      BY <3>5 DEF Setup, Abort, Load, CloseNothing, Finish, Kill, LoadKeepsItsIngress, TypeOK
    <3>6. ASSUME NEW j \in Job, NEW c \in Cidr, Open(j, c) \/ OpenUnrecorded(j, c)
          PROVE  LoadKeepsItsIngress'
      BY <3>6 DEF Open, OpenUnrecorded, LoadKeepsItsIngress, TypeOK
    <3>7. ASSUME NEW j \in Job, NEW o \in RevokeOutcome, CloseRecorded(j, o)
          PROVE  LoadKeepsItsIngress'
      <4>1. \A k \in Job : pc'[k] = "load" => k # j /\ pc[k] = "load"
        BY <3>7 DEF CloseRecorded, TypeOK
      <4>2. QED
        BY <3>7, <4>1, RevokeEffect DEF CloseRecorded, LoadKeepsItsIngress
    <3>8. CASE JanitorStart \/ JanitorPreempt
      <4>1. \A k \in Job : pc'[k] = pc[k]
        BY <3>8, JanitorStepPc DEF JanitorStep
      <4>2. QED
        BY <3>8, <4>1 DEF JanitorStart, JanitorPreempt, LoadKeepsItsIngress
    <3>9. CASE UNCHANGED vars
      BY <3>9 DEF vars, LoadKeepsItsIngress
    <3>10. QED
      BY <3>2, <3>3, <3>4, <3>5, <3>6, <3>7, <3>8, <3>9 DEF Next, JobStep
  <2>3. QED
    BY <2>1, <2>2
<1>3. QED
  BY <1>1, <1>2, TypeCorrect, RunsStayInOrder, RulesAlwaysHaveOpeners, PTL DEF Spec

\* The invariant VerdictsLast on its own: what a sweep has judged an orphan stays
\* one, for as long as the sweep may take to revoke it.
THEOREM VerdictsStay ==
  ASSUME ~GhMayFail
  PROVE  Spec => []VerdictsLast
<1>1. Spec => [](VerdictsLast /\ LoadKeepsItsIngress) BY LoadsKeepTheirIngress
<1>2. QED BY <1>1, PTL

-----------------------------------------------------------------------------
(* The mechanism implements the lease.                                      *)

\* Where only job j moves, only its phase of the lease does.
LEMMA LeasePhaseMoves ==
  ASSUME NEW j \in Job,
         \A k \in Job : k # j => pc'[k] = pc[k] /\ ruleFile'[k] = ruleFile[k],
         NEW p, leasePhase'[j] = p
  PROVE  leasePhase' = [leasePhase EXCEPT ![j] = p]
BY DEF leasePhase

\* A step of SgIngress is a step of IngressLease or leaves it unchanged.
LEMMA StepIsLeaseStep ==
  ASSUME ~GhMayFail, TypeOK, RunsInOrder, RulesHaveOpeners, VerdictsLast, [Next]_vars
  PROVE  Lease!LeaseNext \/ UNCHANGED <<leasePhase, Opened>>
<1> USE JobParts, NamesAssumption
<1>1. ASSUME NEW r \in Runs, Trigger(r) \/ Admit(r) \/ CompleteRun(r)
      PROVE  UNCHANGED <<leasePhase, Opened>>
  BY <1>1 DEF Trigger, Admit, CompleteRun, leasePhase, Opened
<1>2. ASSUME NEW r \in Runs, PickUp(r) PROVE UNCHANGED <<leasePhase, Opened>>
  <2>1. pc[Current(r)] = "none"
    BY <1>2 DEF PickUp, RunsInOrder
  <2>2. \A j \in Job : pc'[j] = pc[j] \/ (pc[j] = "none" /\ pc'[j] = "setup")
    BY <1>2, <2>1 DEF PickUp, TypeOK
  <2>3. UNCHANGED leasePhase
    BY <1>2, <2>2 DEF PickUp, leasePhase
  <2>4. QED
    BY <1>2, <2>3 DEF PickUp, Opened
\* A sweep reclaims what its holder has left, or dies with its own job.
<1>3. ASSUME NEW s \in Sweeper, Sweep(s)
      PROVE  Lease!LeaseNext \/ UNCHANGED <<leasePhase, Opened>>
  <2>1. ASSUME NEW o \in RevokeOutcome, RevokeOrphan(s, o)
        PROVE  Lease!LeaseNext \/ UNCHANGED <<leasePhase, Opened>>
    <3>1. target[s] \in Job /\ pc[target[s]] \in Stopped
      BY <2>1 DEF RevokeOrphan, TypeOK, VerdictsLast, Stopped
    <3>2. UNCHANGED leasePhase /\ leasePhase[target[s]] = "ended"
      BY <2>1, <3>1 DEF RevokeOrphan, leasePhase, Stopped
    <3>3. Opened' = Opened \/ (target[s] \in Opened /\ Opened' = Opened \ {target[s]})
      BY <2>1, <3>1 DEF RevokeOrphan, AfterRevoke, Opened, TypeOK
    <3>4. QED
      BY <3>1, <3>2, <3>3 DEF Lease!LeaseNext, Lease!Reclaim
  <2>2. ASSUME List(s) \/ ListDies(s) \/ EndSweep(s) \/ \E i \in Job : Examine(s, i)
        PROVE  Lease!LeaseNext \/ UNCHANGED <<leasePhase, Opened>>
    <3>1. UNCHANGED <<ruleFile, Opened>>
      BY <2>2 DEF List, ListDies, EndSweep, Examine, Opened
    <3>2. CASE s \in Job /\ pc'[s] = "close"
      <4>1. pc[s] \in {"list", "sweep"} /\ ~ruleFile[s] /\ \A k \in Job : k # s => pc'[k] = pc[k]
        BY <1>3, <3>2, SweepPc DEF RulesHaveOpeners
      <4>2. leasePhase[s] = "free" /\ leasePhase'[s] = "ended"
        BY <3>1, <3>2, <4>1 DEF leasePhase
      <4>3. leasePhase' = [leasePhase EXCEPT ![s] = "ended"]
        BY <3>1, <3>2, <4>1, <4>2, LeasePhaseMoves
      <4>4. QED
        BY <3>1, <3>2, <4>2, <4>3 DEF Lease!LeaseNext, Lease!Forgo
    <3>3. CASE ~(s \in Job /\ pc'[s] = "close")
      <4>1. \A k \in Job : \/ pc'[k] = pc[k]
                           \/ pc[k] \in {"list", "sweep"} /\ pc'[k] \in {"list", "sweep", "open"}
        <5>1. s \in Job => pc'[s] # "none"
          BY <1>3, JobStepPc DEF JobStep
        <5>2. QED
          BY <1>3, <3>3, <5>1, SweepPc
      <4>2. UNCHANGED leasePhase
        BY <3>1, <4>1 DEF leasePhase
      <4>3. QED
        BY <3>1, <4>2
    <3>4. QED
      BY <3>2, <3>3
  <2>3. QED
    BY <1>3, <2>1, <2>2 DEF Sweep
<1>4. ASSUME NEW j \in Job, NEW c \in Cidr, Open(j, c)
      PROVE  Lease!LeaseNext
  <2>1. leasePhase[j] = "free" /\ leasePhase'[j] = "held"
    BY <1>4 DEF Open, leasePhase, TypeOK
  <2>2. leasePhase' = [leasePhase EXCEPT ![j] = "held"]
    BY <1>4, <2>1, LeasePhaseMoves DEF Open, TypeOK
  <2>3. Opened' = Opened \cup {j}
    BY <1>4 DEF Open, Opened, TypeOK
  <2>4. \A g \in Job : leasePhase[g] # "held"
    <3>1. \A g \in Job : leasePhase[g] = "held" => pc[g] \in {"load", "close"}
      BY DEF leasePhase
    <3>2. Live(j) /\ pc[j] = "open"
      BY <1>4 DEF Open, Live, LivePhase
    <3>3. QED
      BY <3>1, <3>2, OneLiveJob DEF Live, LivePhase
  <2>5. QED
    BY <2>1, <2>2, <2>3, <2>4 DEF Lease!LeaseNext, Lease!Grant
<1>5. ASSUME NEW j \in Job, NEW c \in Cidr, OpenUnrecorded(j, c)
      PROVE  Lease!LeaseNext
  <2>1. ~ruleFile[j]
    BY <1>5 DEF OpenUnrecorded, RulesHaveOpeners
  <2>2. leasePhase[j] = "free" /\ leasePhase'[j] = "ended"
    BY <1>5, <2>1 DEF OpenUnrecorded, leasePhase, TypeOK
  <2>3. leasePhase' = [leasePhase EXCEPT ![j] = "ended"]
    BY <1>5, <2>2, LeasePhaseMoves DEF OpenUnrecorded, TypeOK
  <2>4. Opened' = Opened \cup {j}
    BY <1>5 DEF OpenUnrecorded, Opened, TypeOK
  <2>5. QED
    BY <2>2, <2>3, <2>4 DEF Lease!LeaseNext, Lease!GrantUnseen
\* Steps of a job that leave the security group alone.
<1>6. ASSUME NEW j \in Job, Setup(j) \/ Abort(j) \/ Load(j) \/ CloseNothing(j)
                            \/ Finish(j) \/ Kill(j)
      PROVE  Lease!LeaseNext \/ UNCHANGED <<leasePhase, Opened>>
  <2>1. Opened' = Opened
    BY <1>6 DEF Setup, Abort, Load, CloseNothing, Finish, Kill, Opened
  <2>2. \A k \in Job : k # j => pc'[k] = pc[k] /\ ruleFile'[k] = ruleFile[k]
    BY <1>6 DEF Setup, Abort, Load, CloseNothing, Finish, Kill, TypeOK
  <2>3. \/ leasePhase'[j] = leasePhase[j]
        \/ leasePhase[j] \in {"free", "held"} /\ leasePhase'[j] = "ended"
    <3>1. CASE Setup(j)
      BY <3>1 DEF Setup, leasePhase, TypeOK
    <3>2. CASE Abort(j)
      BY <3>2 DEF Abort, leasePhase, TypeOK, RulesHaveOpeners
    <3>3. CASE Load(j)
      BY <3>3 DEF Load, leasePhase, TypeOK
    <3>4. CASE CloseNothing(j)
      BY <3>4 DEF CloseNothing, leasePhase, TypeOK
    <3>5. CASE Finish(j)
      BY <3>5 DEF Finish, leasePhase, TypeOK
    <3>6. CASE Kill(j)
      BY <3>6 DEF Kill, leasePhase, TypeOK, Live, LivePhase
    <3>7. QED
      BY <1>6, <3>1, <3>2, <3>3, <3>4, <3>5, <3>6
  <2>4. CASE leasePhase'[j] = leasePhase[j]
    <3>1. leasePhase' = [leasePhase EXCEPT ![j] = leasePhase[j]]
      BY <2>2, <2>4, LeasePhaseMoves
    <3>2. leasePhase' = leasePhase
      BY <3>1 DEF leasePhase
    <3>3. QED
      BY <2>1, <3>2
  <2>5. CASE leasePhase[j] \in {"free", "held"} /\ leasePhase'[j] = "ended"
    <3>1. leasePhase' = [leasePhase EXCEPT ![j] = "ended"]
      BY <2>2, <2>5, LeasePhaseMoves
    <3>2. QED
      BY <2>1, <2>5, <3>1 DEF Lease!LeaseNext, Lease!Forgo, Lease!Orphan
  <2>6. QED
    BY <2>3, <2>4, <2>5
<1>7. ASSUME NEW j \in Job, NEW o \in RevokeOutcome, CloseRecorded(j, o)
      PROVE  Lease!LeaseNext
  <2>1. leasePhase[j] = "held" /\ leasePhase'[j] = "ended"
    BY <1>7 DEF CloseRecorded, leasePhase, TypeOK
  <2>2. leasePhase' = [leasePhase EXCEPT ![j] = "ended"]
    BY <1>7, <2>1, LeasePhaseMoves DEF CloseRecorded, TypeOK
  <2>3. Opened' = Opened \/ Opened' = Opened \ {j}
    BY <1>7 DEF CloseRecorded, AfterRevoke, Opened, TypeOK
  <2>4. QED
    BY <2>1, <2>2, <2>3 DEF Lease!LeaseNext, Lease!Release, Lease!Orphan
<1>8. CASE JanitorStart \/ JanitorPreempt
  <2>1. \A j \in Job : pc'[j] = pc[j] /\ ruleFile'[j] = ruleFile[j]
    BY <1>8, JanitorStepPc DEF JanitorStep
  <2>2. UNCHANGED leasePhase
    BY <2>1 DEF leasePhase
  <2>3. QED
    BY <1>8, <2>2 DEF JanitorStart, JanitorPreempt, Opened
<1>9. CASE UNCHANGED vars
  BY <1>9 DEF vars, leasePhase, Opened
<1>10. QED
  BY <1>1, <1>2, <1>3, <1>4, <1>5, <1>6, <1>7, <1>8, <1>9 DEF Next, JobStep

\* The ephemeral ingress implements IngressLease: no lease is ever taken from
\* under its holder, and only what a holder left behind is reclaimed.
THEOREM IngressImplementsLease ==
  ASSUME ~GhMayFail
  PROVE  Spec => ImplementsLease
<1>1. Init => Lease!LeaseInit
  BY JobParts DEF Init, Lease!LeaseInit, leasePhase, Opened
<1>2. TypeOK /\ RunsInOrder /\ RulesHaveOpeners /\ VerdictsLast /\ [Next]_vars
        => [Lease!LeaseNext]_(Lease!leaseVars)
  BY StepIsLeaseStep DEF Lease!leaseVars
<1>3. Spec => [](VerdictsLast /\ LoadKeepsItsIngress)
  BY LoadsKeepTheirIngress
<1>4. QED
  BY <1>1, <1>2, <1>3, TypeCorrect, RunsStayInOrder, RulesAlwaysHaveOpeners, PTL
     DEF Spec, ImplementsLease, Lease!LeaseSpec
=============================================================================
