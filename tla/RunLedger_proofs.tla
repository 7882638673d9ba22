-------------------------- MODULE RunLedger_proofs --------------------------
(* Theorems about RunLedger, for every set of runs, attempts and jobs.      *)
EXTENDS RunLedger, TLAPS

-----------------------------------------------------------------------------
(* Run keys.                                                                *)

\* Two job attempts never share a run key: the run id alone would not do.
LEMMA RunKeyIsUnique == \A j, k \in Jobs : RunKey(j) = RunKey(k) => j = k
BY JobsAssumption DEF RunKey

\* An object's name is that of one event of one job attempt.
LEMMA ObjectOfJob ==
  /\ \A j \in Jobs : \A e \in {"start", "finish"} : <<RunKey(j), e>> \in Object
  /\ \A o \in Object : \E j \in Jobs : \E e \in {"start", "finish"} : o = <<RunKey(j), e>>
BY DEF Object

\* A failed step is followed by the job's first `if: always()` step.
LEMMA AlwaysStepsExist ==
  \A j \in Jobs : AlwaysSteps(j) \in {"finish", "revoke", "summarise"}
BY JobsAssumption DEF AlwaysSteps

\* What the records say is what a record can say.
LEMMA RecordTypes ==
  ASSUME NEW j \in Jobs
  PROVE  StartRecord(j) \in Record /\ FinishRecord(j) \in Record
BY JobsAssumption DEF StartRecord, FinishRecord, StatusMap, Record

\* A put names one object, and is the only change to the ledger.
LEMMA PutLeavesTheRest ==
  ASSUME ledger \in [Object -> Record \cup {NoRecord}],
         NEW j \in Jobs, NEW e \in {"start", "finish"}, NEW rec \in Record, NEW outcome,
         Put(j, e, rec, outcome)
  PROVE  /\ ledger' \in [Object -> Record \cup {NoRecord}]
         /\ \A o \in Object : o # <<RunKey(j), e>> => ledger'[o] = ledger[o]
         /\ outcome = "error" => ledger' = ledger
         /\ outcome # "error" => ledger'[<<RunKey(j), e>>] = rec
BY ObjectOfJob DEF Put

-----------------------------------------------------------------------------
(* Types.                                                                   *)

\* Every variable keeps its type.
THEOREM TypeCorrect == Spec => []TypeOK
<1>1. Init => TypeOK
  BY DEF Init, TypeOK, Step
<1>2. TypeOK /\ [Next]_vars => TypeOK'
  <2> SUFFICES ASSUME TypeOK, [Next]_vars PROVE TypeOK'
    OBVIOUS
  <2> USE DEF TypeOK, Step
  <2>1. ASSUME NEW j \in Jobs, Begin(j) PROVE TypeOK'
    BY <2>1 DEF Begin
  <2>2. ASSUME NEW j \in Jobs, Setup(j) PROVE TypeOK'
    BY <2>2 DEF Setup
  <2>3. ASSUME NEW j \in Jobs, RecordStart(j) PROVE TypeOK'
    <3>1. PICK outcome \in WriteOutcomes(j) : Put(j, "start", StartRecord(j), outcome)
      BY <2>3 DEF RecordStart
    <3>2. ledger' \in [Object -> Record \cup {NoRecord}]
      BY <3>1, RecordTypes, PutLeavesTheRest
    <3> QED
      BY <2>3, <3>2 DEF RecordStart
  <2>4. ASSUME NEW j \in Jobs, OpenIngress(j) PROVE TypeOK'
    BY <2>4 DEF OpenIngress
  <2>5. ASSUME NEW j \in Jobs, Load(j) PROVE TypeOK'
    <3>1. PICK whole \in Exits(j) : /\ landed' = [landed EXCEPT ![j] = whole]
                                    /\ report' \in Reports(j, whole)
      BY <2>5 DEF Load
    <3>2. whole \in BOOLEAN
      BY DEF Exits
    <3>3. report' \in [Jobs -> {"none", "results", "metrics"}]
      BY <3>1 DEF Reports
    <3> QED
      BY <2>5, <3>1, <3>2, <3>3, AlwaysStepsExist DEF Load
  <2>6. ASSUME NEW j \in Jobs, NEW v \in {"failure", "cancelled"}, StepFails(j, v)
        PROVE TypeOK'
    <3>1. report' \in [Jobs -> {"none", "results", "metrics"}]
      BY <2>6 DEF StepFails, Reports
    <3>2. landed' \in [Jobs -> BOOLEAN] /\ ruleOpen' \in [Jobs -> BOOLEAN]
      BY <2>6 DEF StepFails
    <3>3. pc' \in [Jobs -> Step] /\ jobStatus' \in [Jobs -> {"success", "failure", "cancelled"}]
      BY <2>6, AlwaysStepsExist DEF StepFails
    <3> QED
      BY <2>6, <3>1, <3>2, <3>3 DEF StepFails
  <2>7. ASSUME NEW j \in Jobs, Revoke(j) PROVE TypeOK'
    BY <2>7 DEF Revoke
  <2>8. ASSUME NEW j \in Jobs, Summarise(j) PROVE TypeOK'
    BY <2>8 DEF Summarise
  <2>9. ASSUME NEW j \in Jobs, RecordFinish(j) PROVE TypeOK'
    <3>1. PICK outcome \in WriteOutcomes(j) :
             /\ Put(j, "finish", FinishRecord(j), outcome)
             /\ unwritten' = [unwritten EXCEPT ![j] = outcome = "error"]
      BY <2>9 DEF RecordFinish
    <3>2. ledger' \in [Object -> Record \cup {NoRecord}]
      BY <3>1, RecordTypes, PutLeavesTheRest
    <3>3. unwritten' \in [Jobs -> BOOLEAN]
      BY <3>1
    <3> QED
      BY <2>9, <3>2, <3>3 DEF RecordFinish, RunnerGone
  <2>10. ASSUME NEW j \in Jobs, Vanish(j) PROVE TypeOK'
    BY <2>10 DEF Vanish, RunnerGone
  <2>11. CASE UNCHANGED vars
    BY <2>11 DEF vars
  <2> QED
    BY <2>1, <2>2, <2>3, <2>4, <2>5, <2>6, <2>7, <2>8, <2>9, <2>10, <2>11 DEF Next, JobNext
<1> QED
  BY <1>1, <1>2, PTL DEF Spec

-----------------------------------------------------------------------------
(* The inductive invariant.                                                 *)

\* A record is not written before its step has run, and only once.
NotYetRecorded ==
  \A j \in Jobs : /\ pc[j] \in {"waiting", "setup", "start"} => ~Recorded(j, "start")
                  /\ pc[j] # "done" => ~Recorded(j, "finish")

\* The job's status is final by the time it is written down.
FinishIsFinal ==
  \A j \in Jobs : Recorded(j, "finish") =>
    ledger[<<RunKey(j), "finish">>].status = StatusMap(jobStatus[j])

\* What is known of a job past its load that is still successful: its data has
\* landed, or it is a build that skipped everything and left no artifact, and
\* the summary that asserts the artifact is still to come.
LandedOrCaught(j) ==
  \/ landed[j]
  \/ j.kind = "transform" /\ pc[j] = "summarise" /\ report[j] = "none"
  \/ j.kind = "transform" /\ SkipLeavesResults

\* Past the load, only a job that landed its data, or will yet be caught, is
\* still successful.
SuccessHasLanded ==
  \A j \in Jobs :
    /\ pc[j] \in {"revoke", "summarise", "finish", "done"}
    /\ jobStatus[j] = "success"
    => LandedOrCaught(j)

\* Until the load there is nothing on the runner that a summary could find.
NoEarlyReport ==
  \A j \in Jobs : pc[j] \in {"waiting", "setup", "start", "open", "load"} => report[j] = "none"

\* The last step writes the finish record or notes that it could not.
DoneHasTried == \A j \in Jobs : pc[j] = "done" => unwritten[j] \/ Recorded(j, "finish")

IInv == /\ TypeOK /\ NotYetRecorded /\ FinishIsFinal /\ SuccessHasLanded
        /\ NoEarlyReport /\ DoneHasTried

\* No job has started, and nothing is recorded.
LEMMA InitIInv == Init => IInv
<1> SUFFICES ASSUME Init PROVE IInv
  OBVIOUS
<1>1. TypeOK
  BY DEF Init, TypeOK, Step
<1>2. \A j \in Jobs : pc[j] = "waiting"
  BY DEF Init
<1>3. \A j \in Jobs : \A e \in {"start", "finish"} : ~Recorded(j, e)
  BY ObjectOfJob DEF Init, Recorded
<1> QED
  BY <1>1, <1>2, <1>3
     DEF Init, IInv, NotYetRecorded, FinishIsFinal, SuccessHasLanded, NoEarlyReport, DoneHasTried

\* A step that leaves the ledger alone, moves one job from one step to a later
\* one, and is neither the start, the load nor the finish step.
LEMMA QuietStep ==
  ASSUME IInv, TypeOK', NEW j \in Jobs,
         UNCHANGED <<ledger, unwritten>>,
         pc[j] # "done", pc'[j] # "done", pc'[j] \notin {"waiting", "setup", "start"}
           \/ pc[j] \in {"waiting", "setup", "start"},
         \A k \in Jobs \ {j} : /\ pc'[k] = pc[k] /\ jobStatus'[k] = jobStatus[k]
                              /\ landed'[k] = landed[k] /\ report'[k] = report[k],
         pc'[j] \in {"revoke", "summarise", "finish"} /\ jobStatus'[j] = "success"
           => LandedOrCaught(j)',
         pc'[j] \in {"waiting", "setup", "start", "open", "load"} => report'[j] = "none"
  PROVE  IInv'
<1>1. \A k \in Jobs : \A e \in {"start", "finish"} : Recorded(k, e)' <=> Recorded(k, e)
  BY DEF Recorded
<1>2. NotYetRecorded'
  BY <1>1 DEF IInv, NotYetRecorded
<1>3. FinishIsFinal'
  BY <1>1 DEF IInv, NotYetRecorded, FinishIsFinal
<1>4. SuccessHasLanded'
  BY DEF IInv, SuccessHasLanded, LandedOrCaught
<1>6. NoEarlyReport'
  BY DEF IInv, NoEarlyReport
<1>5. DoneHasTried'
  BY <1>1 DEF IInv, DoneHasTried
<1> QED
  BY <1>2, <1>3, <1>4, <1>5, <1>6 DEF IInv

\* Every step preserves the invariant.
LEMMA NextIInv == IInv /\ TypeOK' /\ [Next]_vars => IInv'
<1> SUFFICES ASSUME IInv, TypeOK', [Next]_vars PROVE IInv'
  OBVIOUS
<1> USE DEF IInv, TypeOK
<1>1. ASSUME NEW j \in Jobs, Begin(j) PROVE IInv'
  BY <1>1, QuietStep DEF Begin, NoEarlyReport
<1>2. ASSUME NEW j \in Jobs, Setup(j) PROVE IInv'
  BY <1>2, QuietStep DEF Setup, NoEarlyReport
<1>3. ASSUME NEW j \in Jobs, RecordStart(j) PROVE IInv'
  <2>1. PICK outcome \in WriteOutcomes(j) : Put(j, "start", StartRecord(j), outcome)
    BY <1>3 DEF RecordStart
  <2>2. \A o \in Object : o # <<RunKey(j), "start">> => ledger'[o] = ledger[o]
    BY <2>1, RecordTypes, PutLeavesTheRest
  <2>3. \A k \in Jobs : /\ ledger'[<<RunKey(k), "finish">>] = ledger[<<RunKey(k), "finish">>]
                        /\ k # j => ledger'[<<RunKey(k), "start">>] = ledger[<<RunKey(k), "start">>]
    BY <2>2, ObjectOfJob, RunKeyIsUnique
  <2>4. /\ pc[j] = "start" /\ pc'[j] \in {"open", "load"}
        /\ \A k \in Jobs : k # j => pc'[k] = pc[k]
        /\ UNCHANGED <<jobStatus, landed, report, unwritten>>
    BY <1>3 DEF RecordStart
  <2>5. NotYetRecorded' /\ FinishIsFinal' /\ DoneHasTried'
    BY <2>3, <2>4 DEF NotYetRecorded, FinishIsFinal, DoneHasTried, Recorded
  <2>6. SuccessHasLanded' /\ NoEarlyReport'
    BY <2>4 DEF SuccessHasLanded, LandedOrCaught, NoEarlyReport
  <2> QED
    BY <2>5, <2>6
<1>4. ASSUME NEW j \in Jobs, OpenIngress(j) PROVE IInv'
  BY <1>4, QuietStep DEF OpenIngress, NoEarlyReport
<1>5. ASSUME NEW j \in Jobs, Load(j) PROVE IInv'
  <2>1. PICK whole \in Exits(j) : /\ landed' = [landed EXCEPT ![j] = whole]
                                  /\ report' \in Reports(j, whole)
    BY <1>5 DEF Load
  <2>2. \A k \in Jobs \ {j} : /\ pc'[k] = pc[k] /\ jobStatus'[k] = jobStatus[k]
                              /\ landed'[k] = landed[k] /\ report'[k] = report[k]
    BY <1>5, <2>1 DEF Load, Reports
  <2>3. /\ pc[j] = "load" /\ pc'[j] = AlwaysSteps(j)
        /\ UNCHANGED <<ledger, unwritten>>
    BY <1>5 DEF Load
  <2>4. LandedOrCaught(j)'
    <3>1. CASE whole = TRUE
      BY <3>1, <2>1 DEF LandedOrCaught
    <3>2. CASE whole # TRUE
      <4>1. j.kind = "transform" /\ pc'[j] = "summarise"
        BY <3>2, <2>3 DEF Exits, AlwaysSteps
      <4>2. report[j] = "none"
        BY <2>3 DEF NoEarlyReport
      <4>3. SkipLeavesResults \/ report'[j] = "none"
        BY <3>2, <4>1, <4>2, <2>1, SkipAssumption DEF Reports, Exits
      <4> QED
        BY <4>1, <4>3 DEF LandedOrCaught
    <3> QED
      BY <3>1, <3>2
  <2> QED
    BY <2>2, <2>3, <2>4, AlwaysStepsExist, QuietStep
<1>6. ASSUME NEW j \in Jobs, NEW v \in {"failure", "cancelled"}, StepFails(j, v) PROVE IInv'
  <2>1. \A k \in Jobs : k # j =>
           /\ pc'[k] = pc[k] /\ jobStatus'[k] = jobStatus[k]
           /\ landed'[k] = landed[k] /\ report'[k] = report[k]
    BY <1>6 DEF StepFails, Reports
  <2>2. /\ pc[j] \in {"setup", "start", "open", "load"}
        /\ pc'[j] \in {"finish", "revoke", "summarise"}
        /\ jobStatus'[j] # "success"
        /\ UNCHANGED <<ledger, unwritten>>
    BY <1>6, AlwaysStepsExist DEF StepFails
  <2> QED
    BY <2>1, <2>2, QuietStep
<1>7. ASSUME NEW j \in Jobs, Revoke(j) PROVE IInv'
  <2>1. jobStatus'[j] = "success" => jobStatus[j] = "success"
    BY <1>7 DEF Revoke
  <2>2. \A k \in Jobs : k # j => pc'[k] = pc[k] /\ jobStatus'[k] = jobStatus[k]
    BY <1>7 DEF Revoke
  <2>3. /\ pc[j] = "revoke" /\ pc'[j] = "finish"
        /\ UNCHANGED <<ledger, unwritten, landed, report>>
    BY <1>7 DEF Revoke
  <2>4. jobStatus'[j] = "success" => LandedOrCaught(j)'
    BY <2>1, <2>3 DEF SuccessHasLanded, LandedOrCaught
  <2> QED
    BY <2>2, <2>3, <2>4, QuietStep
<1>8. ASSUME NEW j \in Jobs, Summarise(j) PROVE IInv'
  <2>1. jobStatus'[j] = "success" => jobStatus[j] = "success"
    BY <1>8 DEF Summarise
  <2>2. \A k \in Jobs : k # j => /\ pc'[k] = pc[k] /\ jobStatus'[k] = jobStatus[k]
                                 /\ report'[k] = report[k]
    BY <1>8 DEF Summarise
  <2>3. pc[j] = "summarise" /\ pc'[j] = "finish" /\ UNCHANGED <<ledger, unwritten, landed>>
    BY <1>8 DEF Summarise
  <2>4. jobStatus'[j] = "success" => report[j] = "results"
    BY <1>8 DEF Summarise
  <2>5. jobStatus'[j] = "success" => LandedOrCaught(j)'
    BY <2>1, <2>3, <2>4 DEF SuccessHasLanded, LandedOrCaught
  <2> QED
    BY <2>2, <2>3, <2>5, QuietStep
<1>9. ASSUME NEW j \in Jobs, RecordFinish(j) PROVE IInv'
  <2>1. PICK outcome \in WriteOutcomes(j) :
           /\ Put(j, "finish", FinishRecord(j), outcome)
           /\ unwritten' = [unwritten EXCEPT ![j] = outcome = "error"]
    BY <1>9 DEF RecordFinish
  <2>2. /\ \A o \in Object : o # <<RunKey(j), "finish">> => ledger'[o] = ledger[o]
        /\ outcome = "error" => ledger' = ledger
        /\ outcome # "error" => ledger'[<<RunKey(j), "finish">>] = FinishRecord(j)
    <3>1. FinishRecord(j) \in Record
      BY RecordTypes
    <3> HIDE DEF IInv, TypeOK
    <3>2. ledger \in [Object -> Record \cup {NoRecord}]
      BY DEF IInv, TypeOK
    <3>3. Put(j, "finish", FinishRecord(j), outcome)
      BY <2>1
    <3>4. \A o \in Object : o # <<RunKey(j), "finish">> => ledger'[o] = ledger[o]
      BY <3>1, <3>2, <3>3, PutLeavesTheRest
    <3>5. outcome = "error" => ledger' = ledger
      BY <3>1, <3>2, <3>3, PutLeavesTheRest
    <3>6. outcome # "error" => ledger'[<<RunKey(j), "finish">>] = FinishRecord(j)
      BY <3>2, <3>3, ObjectOfJob DEF Put
    <3> QED
      BY <3>4, <3>5, <3>6
  <2>3. \A k \in Jobs : /\ ledger'[<<RunKey(k), "start">>] = ledger[<<RunKey(k), "start">>]
                        /\ k # j => ledger'[<<RunKey(k), "finish">>] = ledger[<<RunKey(k), "finish">>]
    BY <2>2, ObjectOfJob, RunKeyIsUnique
  <2>4. /\ pc[j] = "finish" /\ pc'[j] = "done"
        /\ \A k \in Jobs : k # j => pc'[k] = pc[k]
        /\ UNCHANGED <<jobStatus, landed>>
    BY <1>9 DEF RecordFinish
  <2>5. /\ outcome = "error" => unwritten'[j] /\ ~Recorded(j, "finish")'
        /\ outcome # "error" => /\ Recorded(j, "finish")'
                                /\ ledger'[<<RunKey(j), "finish">>] = FinishRecord(j)
    <3>1. FinishRecord(j) # NoRecord
      BY RecordTypes, NoRecordAssumption
    <3>2. outcome = "error" => unwritten'[j]
      BY <2>1
    <3>3. ~Recorded(j, "finish")
      BY <2>4 DEF NotYetRecorded
    <3> QED
      BY <2>2, <3>1, <3>2, <3>3 DEF Recorded
  <2>6. \A k \in Jobs : k # j => unwritten'[k] = unwritten[k]
    BY <2>1
  <2>7. NotYetRecorded'
    BY <2>3, <2>4 DEF NotYetRecorded, Recorded
  <2>8. FinishIsFinal'
    <3>1. ASSUME NEW k \in Jobs, Recorded(k, "finish")'
          PROVE  ledger'[<<RunKey(k), "finish">>].status = StatusMap(jobStatus[k])
      <4>1. CASE k = j
        BY <3>1, <4>1, <2>5 DEF FinishRecord
      <4>2. CASE k # j
        BY <3>1, <4>2, <2>3 DEF FinishIsFinal, Recorded
      <4> QED
        BY <4>1, <4>2
    <3>2. \A k \in Jobs : StatusMap(jobStatus[k])' = StatusMap(jobStatus[k])
      BY <2>4 DEF StatusMap
    <3> QED
      BY <3>1, <3>2 DEF FinishIsFinal
  <2>9. DoneHasTried'
    BY <2>3, <2>4, <2>5, <2>6 DEF DoneHasTried, Recorded
  <2>10. SuccessHasLanded' /\ NoEarlyReport'
    <3>1. \A k \in Jobs : k # j => report'[k] = report[k]
      BY <1>9 DEF RecordFinish, RunnerGone
    <3> QED
      BY <2>4, <3>1 DEF SuccessHasLanded, LandedOrCaught, NoEarlyReport
  <2> QED
    BY <2>7, <2>8, <2>9, <2>10
<1>10. ASSUME NEW j \in Jobs, Vanish(j) PROVE IInv'
  BY <1>10, QuietStep DEF Vanish, Running, Step, RunnerGone
<1>11. CASE UNCHANGED vars
  BY <1>11 DEF vars, NotYetRecorded, FinishIsFinal, SuccessHasLanded, LandedOrCaught,
             NoEarlyReport, DoneHasTried, Recorded
<1> QED
  BY <1>1, <1>2, <1>3, <1>4, <1>5, <1>6, <1>7, <1>8, <1>9, <1>10, <1>11 DEF Next, JobNext

\* The invariant holds in every reachable state.
THEOREM IInvHolds == Spec => []IInv
BY TypeCorrect, InitIInv, NextIInv, PTL DEF Spec

-----------------------------------------------------------------------------
(* What the ledger is relied on for.                                        *)

\* A finish record that says success is that of a job whose load is in the lake
\* and whose steps all succeeded; one that says failed is not.  This rests on a
\* dbt that leaves no artifact of a run it skipped, as transform-build.yml does.
THEOREM FinishIsTruthful ==
  ASSUME ~SkipLeavesResults PROVE Spec => []FinishTellsTheOutcome
<1>1. IInv => FinishTellsTheOutcome
  BY DEF IInv, FinishTellsTheOutcome, NotYetRecorded, FinishIsFinal, SuccessHasLanded,
         LandedOrCaught, StatusMap
<1> QED
  BY <1>1, IInvHolds, PTL

\* A green job has landed its data in the lake, although exit code 0 alone does
\* not show it; on the same assumption about dbt's artifact.
THEOREM GreenHasLanded == ASSUME ~SkipLeavesResults PROVE Spec => []GreenMeansLanded
<1>1. IInv => GreenMeansLanded
  BY DEF IInv, GreenMeansLanded, SuccessHasLanded, LandedOrCaught
<1> QED
  BY <1>1, IInvHolds, PTL

\* An unpaired start record, unless its finish could not be written, is that of
\* a vanished runner.
THEOREM UnpairedStarts == Spec => []UnpairedStartMeansVanished
<1>1. IInv => UnpairedStartMeansVanished
  BY DEF IInv, TypeOK, Step, Running, UnpairedStartMeansVanished, NotYetRecorded, DoneHasTried
<1> QED
  BY <1>1, IInvHolds, PTL

\* A put goes to an object that does not exist.
LEMMA PutIsNew ==
  ASSUME IInv, [Next]_vars, NEW o \in Object, ledger[o] # NoRecord
  PROVE  ledger'[o] = ledger[o]
<1> USE DEF IInv, TypeOK
<1>1. ASSUME NEW j \in Jobs, RecordStart(j) PROVE ledger'[o] = ledger[o]
  <2>1. PICK outcome \in WriteOutcomes(j) : Put(j, "start", StartRecord(j), outcome)
    BY <1>1 DEF RecordStart
  <2>2. o # <<RunKey(j), "start">>
    BY <1>1 DEF RecordStart, NotYetRecorded, Recorded
  <2> QED
    BY <2>1, <2>2, RecordTypes, PutLeavesTheRest
<1>2. ASSUME NEW j \in Jobs, RecordFinish(j) PROVE ledger'[o] = ledger[o]
  <2>1. PICK outcome \in WriteOutcomes(j) : Put(j, "finish", FinishRecord(j), outcome)
    BY <1>2 DEF RecordFinish
  <2>2. o # <<RunKey(j), "finish">>
    BY <1>2 DEF RecordFinish, NotYetRecorded, Recorded
  <2> QED
    BY <2>1, <2>2, RecordTypes, PutLeavesTheRest
<1>3. CASE UNCHANGED ledger
  BY <1>3
<1> QED
  BY <1>1, <1>2, <1>3
     DEF Next, JobNext, vars, Begin, Setup, OpenIngress, Load, StepFails, Revoke, Summarise, Vanish

\* The ledger is append-only, although two jobs share a run id and a re-run
\* reuses it.
THEOREM LedgerIsAppendOnly == Spec => RecordsAreNeverRewritten
<1>1. IInv /\ [Next]_vars
        => [\A o \in Object : ledger[o] # NoRecord => ledger'[o] = ledger[o]]_ledger
  BY PutIsNew
<1> QED
  BY <1>1, IInvHolds, PTL DEF Spec, RecordsAreNeverRewritten
=============================================================================
