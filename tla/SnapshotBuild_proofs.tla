------------------------ MODULE SnapshotBuild_proofs ------------------------
(* Theorems about SnapshotBuild, for every set of models and checks, every DAG
   and any number of loads, failures and killed builds.                       *)
EXTENDS SnapshotBuild, TLAPS

-----------------------------------------------------------------------------
(* The DAG.                                                                   *)

\* Staging models, Gold models and the ledger model are nodes of three kinds.
LEMMA NodeKinds ==
  /\ Models \subseteq Nodes /\ LedgerModel \in Nodes /\ LedgerModel \notin Models
  /\ Staging \subseteq Models /\ Gold \subseteq Models
  /\ \A s \in Staging : s \notin Gold
  /\ \A m \in Models : m \in Staging \/ m \in Gold
BY NodesAssumption DEF Models, Nodes

\* What a model reads is upstream of it, and so is what is upstream of that.
LEMMA UpstreamOf ==
  /\ \A m \in Models : Upstream[m] \subseteq Models
  /\ \A s \in Staging : Upstream[s] = {}
  /\ \A g \in Gold : /\ Reads[g] \subseteq Models
                     /\ g \notin Upstream[g]
                     /\ \A a \in Upstream[g] : a \in Reads[g] \/ \E r \in Reads[g] : a \in Upstream[r]
BY NodesAssumption DEF Models, Nodes

-----------------------------------------------------------------------------
(* Types.                                                                     *)


\* Every variable keeps its type.
THEOREM TypeCorrect == Spec => []TypeOK
<1>1. Init => TypeOK
  BY BoundsAssumption DEF Init, TypeOK
<1>2. TypeOK /\ [Next]_vars => TypeOK'
  <2> SUFFICES ASSUME TypeOK, [Next]_vars PROVE TypeOK'
    OBVIOUS
  <2> USE DEF TypeOK, bronzeVars, lakeVars, buildVars
  <2>1. ASSUME NEW l \in Loads, BeginLoad(l) PROVE TypeOK'
    BY <2>1 DEF BeginLoad
  <2>2. ASSUME NEW l \in Loads, NEW s \in Staging, WriteTable(l, s) PROVE TypeOK'
    BY <2>2 DEF WriteTable
  <2>3. ASSUME NEW l \in Loads, CommitLoad(l) \/ KillLoad(l) PROVE TypeOK'
    BY <2>3 DEF CommitLoad, KillLoad
  <2>4. CASE StartBuild
    BY <2>4 DEF StartBuild, Committed
  <2>5. ASSUME NEW s \in Staging, RunStaging(s) PROVE TypeOK'
    <3>1. PICK l \in Loads :
             /\ resolved' = [resolved EXCEPT ![s] = l]
             /\ rows' = [rows EXCEPT ![s] = listed[s] \cap {l}]
      BY <2>5 DEF RunStaging
    <3>2. resolved' \in [Staging -> Loads \cup {0}] /\ rows' \in [Models -> SUBSET Loads]
      BY <3>1
    <3>3. /\ node' \in [Nodes -> {"waiting", "listed", "ok", "error"}]
          /\ listed' \in [Staging -> SUBSET Loads]
      BY <2>5 DEF RunStaging
    <3> QED
      BY <2>5, <3>2, <3>3 DEF RunStaging
  <2>6. CASE RunLedgerModel
    BY <2>6 DEF RunLedgerModel, Committed
  <2>7. ASSUME NEW g \in Gold, RunGold(g) PROVE TypeOK'
    <3>1. UNION {rows[r] : r \in Reads[g]} \in SUBSET Loads
      BY UpstreamOf
    <3> QED
      BY <2>7, <3>1 DEF RunGold
  <2>8. ASSUME NEW n \in Nodes, ModelFails(n) PROVE TypeOK'
    <3>1. listed' \in [Staging -> SUBSET Loads] /\ faults' \in 0..MaxFaults
      BY <2>8, BoundsAssumption DEF ModelFails
    <3> QED
      BY <2>8, <3>1 DEF ModelFails
  <2>13. ASSUME NEW s \in Staging, ListFiles(s) PROVE TypeOK'
    BY <2>13 DEF ListFiles
  <2>9. ASSUME NEW c \in Checks, RunCheck(c) PROVE TypeOK'
    <3>1. PICK v \in {"pass", "fail"} :
             /\ faults' = faults \/ (faults < MaxFaults /\ faults' = faults + 1)
             /\ verdict' = [verdict EXCEPT ![c] = v]
      BY <2>9 DEF RunCheck
    <3>2. faults' \in 0..MaxFaults /\ verdict' \in [Checks -> {"waiting", "pass", "fail"}]
      BY <3>1, BoundsAssumption
    <3> QED
      BY <2>9, <3>2 DEF RunCheck
  <2>10. CASE EndBuild
    BY <2>10 DEF EndBuild, ForgetResults
  <2>11. CASE KillBuild
    BY <2>11, BoundsAssumption DEF KillBuild, ForgetResults
  <2>12. CASE UNCHANGED vars
    BY <2>12 DEF vars
  <2> QED
    BY <2>1, <2>2, <2>3, <2>4, <2>5, <2>6, <2>7, <2>8, <2>9, <2>10, <2>11, <2>12, <2>13
       DEF Next, LoadStep, DbtStep
<1> QED
  BY <1>1, <1>2, PTL DEF Spec

-----------------------------------------------------------------------------
(* The inductive invariant.                                                   *)

\* A committed load has written every table it had rows for.
CommittedIsWhole == \A l \in Committed : files[l] = payload[l]

\* What is published was resolved from loads that are still committed; nothing
\* has been published for a model that never resolved one.
LakeIsCommitted ==
  /\ ledgerRows \subseteq Committed
  /\ \A s \in Staging : resolved[s] = 0 => rows[s] = {}

\* Between builds there are no results.
NoResultsBetweenBuilds ==
  /\ build = "idle" => /\ \A n \in Nodes : node[n] = "waiting"
                       /\ \A c \in Checks : verdict[c] = "waiting"
  /\ atStart \subseteq Committed

\* A Gold model of this build holds rows of staging models of this build only.
GoldFromSilver ==
  \A m \in Models : node[m] = "ok" =>
    \A l \in rows[m] : \E s \in Staging : node[s] = "ok" /\ l \in rows[s]

\* The snapshot test passes on what is published until the build ends: every
\* model it compares is of this build.
SnapshotVerdict ==
  verdict[SnapshotCheck] = "pass" =>
    /\ \A n \in Staging \cup {LedgerModel} : node[n] = "ok"
    /\ SilverIsOneCommittedSnapshot

\* What a staging model has listed was written, files of loads that had committed
\* when the build began are not missing from it, and it was free to run.
ListingsStand ==
  \A s \in Staging :
    /\ \A l \in listed[s] : s \in files[l]
    /\ node[s] = "listed" => /\ \A l \in atStart : s \in files[l] => l \in listed[s]
                             /\ \A c \in Gates(s) : verdict[c] = "pass"

IInv ==
  /\ TypeOK
  /\ CommittedIsWhole
  /\ SilverIsNeverPartial
  /\ LakeIsCommitted
  /\ NoResultsBetweenBuilds
  /\ GoldFromSilver
  /\ SnapshotVerdict
  /\ ListingsStand
  /\ NothingIsBuiltOnARejectedParent
  /\ FreshAsOfStart
  /\ GreenIsOneSnapshot

\* An empty lake and no build.
LEMMA InitIInv == Init => IInv
<1> SUFFICES ASSUME Init PROVE IInv
  OBVIOUS
<1>1. TypeOK
  BY BoundsAssumption DEF Init, TypeOK
<1>2. Committed = {}
  BY DEF Init, Committed
<1>3. /\ \A n \in Nodes : node[n] = "waiting"
      /\ \A c \in Checks : verdict[c] = "waiting"
      /\ \A s \in Staging : resolved[s] = 0
      /\ \A m \in Models : rows[m] = {}
      /\ outcome = "none" /\ build = "idle" /\ atStart = {} /\ ledgerRows = {}
      /\ \A s \in Staging : listed[s] = {}
  BY DEF Init
<1>4. verdict[SnapshotCheck] = "waiting"
  BY <1>3, ChecksAssumption
<1> QED
  BY <1>1, <1>2, <1>3, <1>4, NodeKinds
     DEF IInv, CommittedIsWhole, SilverIsNeverPartial, LakeIsCommitted, NoResultsBetweenBuilds,
         GoldFromSilver, SnapshotVerdict, ListingsStand, NothingIsBuiltOnARejectedParent,
         FreshAsOfStart, GreenIsOneSnapshot

\* A step of a load changes no published file and no result, leaves the loads
\* that are committed committed and whole, and may add one to them.
LEMMA LoadStepEffect ==
  ASSUME TypeOK, CommittedIsWhole, LoadStep
  PROVE  /\ UNCHANGED <<lakeVars, buildVars>>
         /\ Committed \subseteq Committed'
         /\ CommittedIsWhole'
         /\ \A l \in Committed : payload'[l] = payload[l] /\ files'[l] = files[l]
         /\ \A l \in Loads : files[l] \subseteq files'[l]
<1> USE DEF TypeOK, CommittedIsWhole, Committed
<1>1. ASSUME NEW l \in Loads, BeginLoad(l)
      PROVE  /\ UNCHANGED <<lakeVars, buildVars>> /\ Committed \subseteq Committed'
             /\ CommittedIsWhole'
             /\ \A k \in Committed : payload'[k] = payload[k] /\ files'[k] = files[k]
             /\ \A k \in Loads : files[k] \subseteq files'[k]
  BY <1>1 DEF BeginLoad
<1>2. ASSUME NEW l \in Loads, NEW s \in Staging, WriteTable(l, s)
      PROVE  /\ UNCHANGED <<lakeVars, buildVars>> /\ Committed \subseteq Committed'
             /\ CommittedIsWhole'
             /\ \A k \in Committed : payload'[k] = payload[k] /\ files'[k] = files[k]
             /\ \A k \in Loads : files[k] \subseteq files'[k]
  BY <1>2 DEF WriteTable
<1>3. ASSUME NEW l \in Loads, CommitLoad(l)
      PROVE  /\ UNCHANGED <<lakeVars, buildVars>> /\ Committed \subseteq Committed'
             /\ CommittedIsWhole'
             /\ \A k \in Committed : payload'[k] = payload[k] /\ files'[k] = files[k]
             /\ \A k \in Loads : files[k] \subseteq files'[k]
  BY <1>3 DEF CommitLoad
<1>4. ASSUME NEW l \in Loads, KillLoad(l)
      PROVE  /\ UNCHANGED <<lakeVars, buildVars>> /\ Committed \subseteq Committed'
             /\ CommittedIsWhole'
             /\ \A k \in Committed : payload'[k] = payload[k] /\ files'[k] = files[k]
             /\ \A k \in Loads : files[k] \subseteq files'[k]
  BY <1>4 DEF KillLoad
<1> QED
  BY <1>1, <1>2, <1>3, <1>4 DEF LoadStep

\* A load neither takes rows away from what is published nor results.
LEMMA LoadIInv == IInv /\ TypeOK' /\ LoadStep => IInv'
<1> SUFFICES ASSUME IInv, TypeOK', LoadStep PROVE IInv'
  OBVIOUS
<1>1. /\ UNCHANGED <<lakeVars, buildVars>>
      /\ Committed \subseteq Committed'
      /\ CommittedIsWhole'
      /\ \A l \in Committed : payload'[l] = payload[l] /\ files'[l] = files[l]
      /\ \A l \in Loads : files[l] \subseteq files'[l]
  BY LoadStepEffect DEF IInv
<1> USE DEF lakeVars, buildVars
<1>2. SilverIsNeverPartial'
  <2> SUFFICES ASSUME NEW s \in Staging, resolved[s] # 0
               PROVE  /\ resolved[s] \in Committed'
                      /\ rows[s] \subseteq {resolved[s]} \cap {l \in Loads : s \in payload'[l]}
                      /\ node[s] = "ok" /\ resolved[s] \in atStart /\ s \in payload'[resolved[s]]
                           => rows[s] = {resolved[s]}
    BY <1>1 DEF SilverIsNeverPartial
  <2>1. /\ resolved[s] \in Committed
        /\ rows[s] \subseteq {resolved[s]} \cap {l \in Loads : s \in payload[l]}
        /\ node[s] = "ok" /\ resolved[s] \in atStart /\ s \in payload[resolved[s]]
             => rows[s] = {resolved[s]}
    BY DEF IInv, SilverIsNeverPartial
  <2> QED
    BY <1>1, <2>1
<1>3. LakeIsCommitted' /\ NoResultsBetweenBuilds'
  BY <1>1 DEF IInv, LakeIsCommitted, NoResultsBetweenBuilds
<1>4. GoldFromSilver' /\ NothingIsBuiltOnARejectedParent' /\ FreshAsOfStart'
  BY <1>1 DEF IInv, GoldFromSilver, NothingIsBuiltOnARejectedParent, FreshAsOfStart
<1>5. SnapshotVerdict'
  BY <1>1 DEF IInv, SnapshotVerdict, SilverIsOneCommittedSnapshot
<1>6. GreenIsOneSnapshot'
  BY <1>1 DEF IInv, GreenIsOneSnapshot
<1>7. ListingsStand'
  <2>1. atStart \subseteq Committed /\ \A s \in Staging : listed[s] \subseteq Loads
    BY DEF IInv, NoResultsBetweenBuilds, TypeOK
  <2>2. \A s \in Staging : Gates(s)' = Gates(s)
    BY DEF Gates
  <2> QED
    BY <1>1, <2>1, <2>2 DEF IInv, ListingsStand
<1> QED
  BY <1>1, <1>2, <1>3, <1>4, <1>5, <1>6, <1>7 DEF IInv

\* A build starts without results, at the loads committed by then.
LEMMA StartIInv == IInv /\ TypeOK' /\ StartBuild => IInv'
<1> SUFFICES ASSUME IInv, TypeOK', StartBuild PROVE IInv'
  OBVIOUS
<1>1. /\ build = "idle" /\ build' = "running" /\ atStart' = Committed
      /\ UNCHANGED <<bronzeVars, lakeVars, outcome, node, listed, verdict, faults>>
  BY DEF StartBuild
<1>2. Committed' = Committed
  BY <1>1 DEF bronzeVars, Committed
<1>3. \A n \in Nodes : node'[n] = "waiting"
  BY <1>1 DEF IInv, NoResultsBetweenBuilds
<1> USE DEF bronzeVars, lakeVars
<1>4. CommittedIsWhole' /\ LakeIsCommitted' /\ SilverIsNeverPartial'
  BY <1>1, <1>2, <1>3, NodeKinds DEF IInv, CommittedIsWhole, LakeIsCommitted, SilverIsNeverPartial
<1>8. ListingsStand'
  BY <1>1, <1>3, NodeKinds DEF IInv, ListingsStand
<1>5. NoResultsBetweenBuilds' /\ GreenIsOneSnapshot'
  BY <1>1, <1>2 DEF NoResultsBetweenBuilds, GreenIsOneSnapshot
<1>6. GoldFromSilver' /\ NothingIsBuiltOnARejectedParent' /\ FreshAsOfStart'
  BY <1>3, NodeKinds DEF GoldFromSilver, NothingIsBuiltOnARejectedParent, FreshAsOfStart
<1>7. SnapshotVerdict'
  BY <1>1 DEF IInv, SnapshotVerdict, SilverIsOneCommittedSnapshot
<1> QED
  BY <1>4, <1>5, <1>6, <1>7, <1>8 DEF IInv

\* A model yet to be built is not covered by a check that has passed the snapshot test.
LEMMA StagingWaits ==
  ASSUME IInv, NEW n \in Staging \cup {LedgerModel}, node[n] # "ok"
  PROVE  verdict[SnapshotCheck] # "pass"
BY DEF IInv, SnapshotVerdict

\* No check has been held against a model that runs but by the checks it waited
\* for, so no result already there says anything about it.
LEMMA RunIInv ==
  ASSUME IInv, TypeOK', NEW m \in Models,
         build = "running", node[m] \in {"waiting", "listed"},
         \A r \in Parents(m) : node[r] = "ok",
         \A c \in Gates(m) : verdict[c] = "pass",
         node' = [node EXCEPT ![m] = "ok"],
         UNCHANGED <<bronzeVars, ledgerRows, build, outcome, verdict, atStart, faults>>,
         \A k \in Models \ {m} : rows'[k] = rows[k],
         \A l \in rows'[m] : /\ \A k \in atStart : k <= l
                             /\ \E s \in Staging : node'[s] = "ok" /\ l \in rows'[s],
         \A s \in Staging : listed'[s] = IF s = m THEN {} ELSE listed[s],
         SilverIsNeverPartial', LakeIsCommitted',
         verdict[SnapshotCheck] = "pass" => m \in Gold
  PROVE  IInv'
<1> USE DEF bronzeVars
<1>1. build = "running" /\ node[m] \in {"waiting", "listed"} /\ node'[m] = "ok"
  BY NodeKinds DEF IInv, TypeOK
<1>2. \A n \in Nodes : n # m => node'[n] = node[n]
  BY DEF IInv, TypeOK
<1>3. Committed' = Committed
  BY DEF Committed
<1>4. CommittedIsWhole' /\ NoResultsBetweenBuilds' /\ GreenIsOneSnapshot'
  BY <1>1, <1>3 DEF IInv, CommittedIsWhole, NoResultsBetweenBuilds, GreenIsOneSnapshot
<1>5. GoldFromSilver'
  <2> SUFFICES ASSUME NEW k \in Models, node'[k] = "ok", NEW l \in rows'[k]
               PROVE  \E s \in Staging : node'[s] = "ok" /\ l \in rows'[s]
    BY DEF GoldFromSilver
  <2>1. CASE k = m
    BY <2>1
  <2>2. CASE k # m
    <3>1. PICK s \in Staging : node[s] = "ok" /\ l \in rows[s]
      BY <2>2, <1>2, NodeKinds DEF IInv, GoldFromSilver
    <3>2. s # m /\ s \in Models /\ s \in Nodes
      BY <3>1, <1>1, NodeKinds
    <3> QED
      BY <3>1, <3>2, <1>2
  <2> QED
    BY <2>1, <2>2
<1>6. FreshAsOfStart'
  BY <1>2, NodeKinds DEF IInv, FreshAsOfStart
<1>7. NothingIsBuiltOnARejectedParent'
  <2> SUFFICES ASSUME NEW k \in Models, node'[k] = "ok"
               PROVE  /\ \A a \in Upstream[k] : node'[a] = "ok"
                      /\ \A c \in Checks : Covers[c] \subseteq Upstream[k] => verdict[c] = "pass"
    BY DEF NothingIsBuiltOnARejectedParent
  <2>1. CASE k # m
    <3>1. /\ \A a \in Upstream[k] : node[a] = "ok"
          /\ \A c \in Checks : Covers[c] \subseteq Upstream[k] => verdict[c] = "pass"
      BY <2>1, <1>2, NodeKinds DEF IInv, NothingIsBuiltOnARejectedParent
    <3>2. \A a \in Upstream[k] : a \in Nodes /\ a # m
      BY <3>1, <1>1, UpstreamOf, NodeKinds
    <3> QED
      BY <3>1, <3>2, <1>2
  <2>2. CASE k = m
    <3>1. \A c \in Checks : Covers[c] \subseteq Upstream[m] => verdict[c] = "pass"
      BY DEF Gates
    <3>2. ASSUME NEW a \in Upstream[m] PROVE node'[a] = "ok"
      <4>1. m \in Gold /\ \A r \in Reads[m] : r \in Models /\ node[r] = "ok"
        BY <3>2, UpstreamOf, NodeKinds DEF Parents
      <4>2. node[a] = "ok"
        BY <4>1, <3>2, UpstreamOf DEF IInv, NothingIsBuiltOnARejectedParent
      <4>3. a \in Nodes /\ a # m
        BY <4>1, <3>2, UpstreamOf, NodeKinds
      <4> QED
        BY <4>2, <4>3, <1>2
    <3> QED
      BY <2>2, <3>1, <3>2
  <2> QED
    BY <2>1, <2>2
<1>8. SnapshotVerdict'
  <2> SUFFICES ASSUME verdict[SnapshotCheck] = "pass" PROVE SnapshotVerdict'
    BY DEF SnapshotVerdict
  <2>1. m \in Gold /\ m \notin Staging /\ m # LedgerModel
    BY NodeKinds
  <2>2. \A s \in Staging : rows'[s] = rows[s]
    BY <2>1, NodeKinds
  <2>3. \A n \in Staging \cup {LedgerModel} : node'[n] = node[n]
    BY <2>1, <1>2, NodeKinds
  <2> QED
    BY <2>2, <2>3 DEF IInv, SnapshotVerdict, SilverIsOneCommittedSnapshot
<1>9. ListingsStand'
  <2>1. \A s \in Staging : node'[s] = "listed" => s # m /\ node[s] = "listed"
    BY <1>1, <1>2, NodeKinds
  <2> QED
    BY <2>1 DEF IInv, ListingsStand, Gates
<1> QED
  BY <1>4, <1>5, <1>6, <1>7, <1>8, <1>9 DEF IInv

\* A staging model resolves the latest of the loads committed by now.
LEMMA StagingIInv ==
  ASSUME IInv, TypeOK', NEW s \in Staging, RunStaging(s)
  PROVE  IInv'
<1>1. PICK l \in Loads :
         /\ LatestCompletedLoad(l)
         /\ resolved' = [resolved EXCEPT ![s] = l]
         /\ rows' = [rows EXCEPT ![s] = listed[s] \cap {l}]
  BY DEF RunStaging
<1>2. /\ build = "running" /\ node[s] = "listed" /\ node' = [node EXCEPT ![s] = "ok"]
      /\ listed' = [listed EXCEPT ![s] = {}]
      /\ UNCHANGED <<bronzeVars, ledgerRows, build, outcome, verdict, atStart, faults>>
  BY DEF RunStaging, Listed
<1>3. s \in Models /\ s \in Nodes
  BY NodeKinds
<1>4. /\ \A t \in Models \ {s} : rows'[t] = rows[t]
      /\ \A t \in Staging \ {s} : resolved'[t] = resolved[t]
      /\ resolved'[s] = l
      /\ rows'[s] = listed[s] \cap {l}
      /\ node'[s] = "ok"
      /\ \A t \in Staging \ {s} : node'[t] = node[t]
      /\ \A t \in Staging : listed'[t] = IF t = s THEN {} ELSE listed[t]
  BY <1>1, <1>2, <1>3 DEF IInv, TypeOK
<1>5. l \in Committed /\ \A k \in Committed : k <= l
  BY <1>1 DEF LatestCompletedLoad
<1>6. Committed' = Committed
  BY <1>2 DEF bronzeVars, Committed
<1>7. SilverIsNeverPartial'
  <2> SUFFICES ASSUME NEW t \in Staging, resolved'[t] # 0
               PROVE  /\ resolved'[t] \in Committed
                      /\ rows'[t] \subseteq {resolved'[t]} \cap {k \in Loads : t \in payload[k]}
                      /\ node'[t] = "ok" /\ resolved'[t] \in atStart /\ t \in payload[resolved'[t]]
                           => rows'[t] = {resolved'[t]}
    BY <1>2, <1>6 DEF SilverIsNeverPartial, bronzeVars
  <2>1. CASE t = s
    <3>1. files[l] = payload[l]
      BY <1>5 DEF IInv, CommittedIsWhole
    <3>2. /\ l \in listed[s] => s \in payload[l]
          /\ l \in atStart /\ s \in payload[l] => l \in listed[s]
      BY <1>2, <3>1 DEF IInv, ListingsStand
    <3> QED
      BY <2>1, <3>2, <1>4, <1>5
  <2>2. CASE t # s
    BY <2>2, <1>4, NodeKinds DEF IInv, SilverIsNeverPartial
  <2> QED
    BY <2>1, <2>2
<1>8. LakeIsCommitted'
  <2>1. l # 0
    BY BoundsAssumption DEF Loads
  <2> QED
    BY <2>1, <1>2, <1>4, <1>6, NodeKinds DEF IInv, LakeIsCommitted
<1>9. \A k \in rows'[s] : /\ \A i \in atStart : i <= k
                          /\ \E t \in Staging : node'[t] = "ok" /\ k \in rows'[t]
  <2>1. atStart \subseteq Committed
    BY DEF IInv, NoResultsBetweenBuilds
  <2> QED
    BY <2>1, <1>4, <1>5
<1>10. verdict[SnapshotCheck] # "pass"
  BY <1>2, StagingWaits
<1>11. Parents(s) = {} /\ \A c \in Gates(s) : verdict[c] = "pass"
  BY <1>2, NodeKinds DEF Parents, IInv, ListingsStand
<1> QED
  BY <1>2, <1>3, <1>4, <1>7, <1>8, <1>9, <1>10, <1>11, RunIInv

\* A Gold model takes over the rows of parents of this build.
LEMMA GoldIInv ==
  ASSUME IInv, TypeOK', NEW g \in Gold, RunGold(g)
  PROVE  IInv'
<1>1. /\ Runnable(g) /\ node' = [node EXCEPT ![g] = "ok"]
      /\ rows' = [rows EXCEPT ![g] = UNION {rows[r] : r \in Reads[g]}]
      /\ UNCHANGED <<bronzeVars, resolved, ledgerRows, build, outcome, listed, verdict, atStart,
                     faults>>
  BY DEF RunGold
<1>2. g \in Models /\ g \in Nodes /\ g \notin Staging
  BY NodeKinds
<1>3. /\ \A k \in Models \ {g} : rows'[k] = rows[k]
      /\ rows'[g] = UNION {rows[r] : r \in Reads[g]}
      /\ \A s \in Staging : rows'[s] = rows[s] /\ node'[s] = node[s]
  BY <1>1, <1>2, NodeKinds DEF IInv, TypeOK
<1>4. \A r \in Reads[g] : r \in Models /\ node[r] = "ok"
  BY <1>1, UpstreamOf DEF Runnable, Parents
<1>5. \A l \in rows'[g] : /\ \A k \in atStart : k <= l
                          /\ \E s \in Staging : node'[s] = "ok" /\ l \in rows'[s]
  <2> SUFFICES ASSUME NEW l \in rows'[g]
               PROVE  /\ \A k \in atStart : k <= l
                      /\ \E s \in Staging : node'[s] = "ok" /\ l \in rows'[s]
    OBVIOUS
  <2>1. PICK r \in Reads[g] : l \in rows[r]
    BY <1>3
  <2>2. \A k \in atStart : k <= l
    BY <2>1, <1>4 DEF IInv, FreshAsOfStart
  <2>3. PICK s \in Staging : node[s] = "ok" /\ l \in rows[s]
    BY <2>1, <1>4 DEF IInv, GoldFromSilver
  <2> QED
    BY <2>2, <2>3, <1>3
<1>6. Committed' = Committed
  BY <1>1 DEF bronzeVars, Committed
<1>7. SilverIsNeverPartial' /\ LakeIsCommitted'
  <2>1. payload' = payload /\ resolved' = resolved /\ ledgerRows' = ledgerRows
    BY <1>1 DEF bronzeVars
  <2>2. SilverIsNeverPartial'
    BY <1>1, <1>3, <1>6, <2>1 DEF IInv, SilverIsNeverPartial
  <2>3. LakeIsCommitted'
    BY <1>3, <1>6, <2>1 DEF IInv, LakeIsCommitted
  <2> QED
    BY <2>2, <2>3
<1>8. /\ build = "running" /\ node[g] = "waiting"
      /\ \A r \in Parents(g) : node[r] = "ok"
      /\ \A c \in Gates(g) : verdict[c] = "pass"
      /\ \A s \in Staging : listed'[s] = IF s = g THEN {} ELSE listed[s]
  BY <1>1, <1>2 DEF Runnable
<1> QED
  BY <1>1, <1>2, <1>3, <1>5, <1>7, <1>8, RunIInv

\* The ledger model lists what is committed, before the snapshot test runs.
LEMMA LedgerIInv == IInv /\ TypeOK' /\ RunLedgerModel => IInv'
<1> SUFFICES ASSUME IInv, TypeOK', RunLedgerModel PROVE IInv'
  OBVIOUS
<1>1. /\ Runnable(LedgerModel) /\ node' = [node EXCEPT ![LedgerModel] = "ok"]
      /\ ledgerRows' = Committed
      /\ UNCHANGED <<bronzeVars, resolved, rows, build, outcome, listed, verdict, atStart, faults>>
  BY DEF RunLedgerModel
<1>2. Committed' = Committed
  BY <1>1 DEF bronzeVars, Committed
<1>3. build = "running" /\ verdict[SnapshotCheck] # "pass"
  BY <1>1, StagingWaits DEF Runnable
<1>4. \A m \in Models : node'[m] = node[m]
  BY <1>1, NodeKinds DEF IInv, TypeOK
<1> USE DEF bronzeVars
<1>5. CommittedIsWhole' /\ SilverIsNeverPartial' /\ LakeIsCommitted' /\ ListingsStand'
  BY <1>1, <1>2, <1>4, NodeKinds
     DEF IInv, CommittedIsWhole, SilverIsNeverPartial, LakeIsCommitted, ListingsStand, Gates
<1>6. NoResultsBetweenBuilds' /\ GreenIsOneSnapshot' /\ SnapshotVerdict'
  BY <1>1, <1>2, <1>3 DEF IInv, NoResultsBetweenBuilds, GreenIsOneSnapshot, SnapshotVerdict
<1>7. GoldFromSilver' /\ FreshAsOfStart'
  BY <1>1, <1>4, NodeKinds DEF IInv, GoldFromSilver, FreshAsOfStart
<1>8. NothingIsBuiltOnARejectedParent'
  BY <1>1, <1>4, UpstreamOf DEF IInv, NothingIsBuiltOnARejectedParent
<1> QED
  BY <1>5, <1>6, <1>7, <1>8 DEF IInv

\* A step of a model that publishes nothing and says nothing of another one.
LEMMA QuietIInv ==
  ASSUME IInv, TypeOK', build = "running",
         UNCHANGED <<bronzeVars, lakeVars, build, outcome, verdict, atStart>>,
         \A k \in Nodes : node'[k] = "ok" <=> node[k] = "ok",
         ListingsStand'
  PROVE  IInv'
<1>1. UNCHANGED <<bronzeVars, lakeVars, build, outcome, verdict, atStart>>
  OBVIOUS
<1> USE DEF bronzeVars, lakeVars
<1>2. Committed' = Committed
  BY <1>1 DEF Committed
<1>3. build = "running"
  OBVIOUS
<1>4. \A k \in Nodes : /\ node'[k] = "ok" => node[k] = "ok"
                       /\ node[k] = "ok" => node'[k] = "ok"
  OBVIOUS
<1>5. CommittedIsWhole' /\ SilverIsNeverPartial' /\ LakeIsCommitted'
  BY <1>1, <1>2, <1>4, NodeKinds
     DEF IInv, CommittedIsWhole, SilverIsNeverPartial, LakeIsCommitted
<1>6. NoResultsBetweenBuilds' /\ GreenIsOneSnapshot'
  BY <1>1, <1>2, <1>3 DEF IInv, NoResultsBetweenBuilds, GreenIsOneSnapshot
<1>7. SnapshotVerdict'
  BY <1>1, <1>4, NodeKinds DEF IInv, SnapshotVerdict, SilverIsOneCommittedSnapshot
<1>8. GoldFromSilver' /\ FreshAsOfStart'
  BY <1>1, <1>4, NodeKinds DEF IInv, GoldFromSilver, FreshAsOfStart
<1>9. NothingIsBuiltOnARejectedParent'
  <2> SUFFICES ASSUME NEW m \in Models, node'[m] = "ok"
               PROVE  /\ \A a \in Upstream[m] : node'[a] = "ok"
                      /\ \A c \in Checks : Covers[c] \subseteq Upstream[m] => verdict[c] = "pass"
    BY <1>1 DEF NothingIsBuiltOnARejectedParent
  <2>1. /\ \A a \in Upstream[m] : node[a] = "ok"
        /\ \A c \in Checks : Covers[c] \subseteq Upstream[m] => verdict[c] = "pass"
    BY <1>4, NodeKinds DEF IInv, NothingIsBuiltOnARejectedParent
  <2> QED
    BY <2>1, <1>4, UpstreamOf, NodeKinds
<1> QED
  BY <1>5, <1>6, <1>7, <1>8, <1>9 DEF IInv

\* The files a model lists are all there are of its table.
LEMMA ListIInv ==
  ASSUME IInv, TypeOK', NEW s \in Staging, ListFiles(s)
  PROVE  IInv'
<1>1. /\ Runnable(s) /\ node' = [node EXCEPT ![s] = "listed"]
      /\ listed' = [listed EXCEPT ![s] = {l \in Loads : s \in files[l]}]
      /\ UNCHANGED <<bronzeVars, lakeVars, build, outcome, verdict, atStart>>
  BY DEF ListFiles
<1>2. \A k \in Nodes : node'[k] = "ok" <=> node[k] = "ok"
  BY <1>1, NodeKinds DEF IInv, TypeOK, Runnable
<1>3. atStart \subseteq Loads
  BY DEF IInv, TypeOK
<1>4. ListingsStand'
  <2> SUFFICES ASSUME NEW t \in Staging
               PROVE  /\ \A l \in listed'[t] : t \in files[l]
                      /\ node'[t] = "listed" =>
                           /\ \A l \in atStart : t \in files[l] => l \in listed'[t]
                           /\ \A c \in Gates(t) : verdict[c] = "pass"
    BY <1>1 DEF ListingsStand, Gates, bronzeVars
  <2>1. CASE t = s
    BY <2>1, <1>1, <1>3 DEF IInv, TypeOK, Runnable
  <2>2. CASE t # s
    BY <2>2, <1>1, NodeKinds DEF IInv, TypeOK, ListingsStand
  <2> QED
    BY <2>1, <2>2
<1> QED
  BY <1>1, <1>2, <1>4, QuietIInv DEF Runnable

\* A failed model publishes nothing.
LEMMA FailIInv ==
  ASSUME IInv, TypeOK', NEW n \in Nodes, ModelFails(n)
  PROVE  IInv'
<1>1. /\ Runnable(n) \/ Listed(n)
      /\ node' = [node EXCEPT ![n] = "error"]
      /\ listed' = [s \in Staging |-> IF s = n THEN {} ELSE listed[s]]
      /\ UNCHANGED <<bronzeVars, lakeVars, build, outcome, verdict, atStart>>
  BY DEF ModelFails
<1>2. build = "running" /\ node[n] # "ok"
  BY <1>1 DEF Runnable, Listed
<1>3. \A k \in Nodes : node'[k] = "ok" <=> node[k] = "ok"
  BY <1>1, <1>2 DEF IInv, TypeOK
<1>4. ListingsStand'
  BY <1>1, NodeKinds DEF IInv, TypeOK, ListingsStand, Gates, bronzeVars
<1> QED
  BY <1>1, <1>2, <1>3, <1>4, QuietIInv

\* A check adds its verdict; the snapshot test's is about what is published.
LEMMA CheckIInv ==
  ASSUME IInv, TypeOK', NEW c \in Checks, RunCheck(c)
  PROVE  IInv'
<1>1. /\ Checkable(c)
      /\ UNCHANGED <<bronzeVars, lakeVars, build, outcome, node, listed, atStart>>
  BY DEF RunCheck
<1>2. PICK v \in {"pass", "fail"} :
         /\ c = SnapshotCheck => (v = "pass" <=> SilverIsOneCommittedSnapshot)
         /\ verdict' = [verdict EXCEPT ![c] = v]
  BY DEF RunCheck
<1> USE DEF bronzeVars, lakeVars
<1>3. Committed' = Committed
  BY <1>1 DEF Committed
<1>4. build = "running" /\ verdict[c] = "waiting" /\ \A m \in Covers[c] : node[m] = "ok"
  BY <1>1 DEF Checkable
<1>5. \A d \in Checks : d # c => verdict'[d] = verdict[d]
  BY <1>2 DEF IInv, TypeOK
<1>6. CommittedIsWhole' /\ SilverIsNeverPartial' /\ LakeIsCommitted'
  BY <1>1, <1>3 DEF IInv, CommittedIsWhole, SilverIsNeverPartial, LakeIsCommitted
<1>7. NoResultsBetweenBuilds' /\ GreenIsOneSnapshot'
  BY <1>1, <1>3, <1>4 DEF IInv, NoResultsBetweenBuilds, GreenIsOneSnapshot
<1>8. GoldFromSilver' /\ FreshAsOfStart'
  BY <1>1 DEF IInv, GoldFromSilver, FreshAsOfStart
<1>9. SnapshotVerdict'
  <2>1. CASE c = SnapshotCheck
    <3>1. verdict'[c] = v
      BY <1>2 DEF IInv, TypeOK
    <3>2. SilverIsOneCommittedSnapshot' = SilverIsOneCommittedSnapshot
      BY <1>1 DEF SilverIsOneCommittedSnapshot
    <3> QED
      BY <2>1, <3>1, <3>2, <1>1, <1>2, <1>4, ChecksAssumption DEF SnapshotVerdict
  <2>2. CASE c # SnapshotCheck
    BY <2>2, <1>1, <1>5, ChecksAssumption DEF IInv, SnapshotVerdict, SilverIsOneCommittedSnapshot
  <2> QED
    BY <2>1, <2>2
<1>10. NothingIsBuiltOnARejectedParent'
  BY <1>1, <1>4, <1>5 DEF IInv, NothingIsBuiltOnARejectedParent
<1>11. ListingsStand'
  BY <1>1, <1>4, <1>5 DEF IInv, ListingsStand, Gates
<1> QED
  BY <1>6, <1>7, <1>8, <1>9, <1>10, <1>11 DEF IInv

\* The published files outlive the results of the build.
LEMMA OverIInv ==
  ASSUME IInv, TypeOK', build' = "idle", ForgetResults, UNCHANGED <<bronzeVars, lakeVars>>,
         GreenIsOneSnapshot'
  PROVE  IInv'
<1> USE DEF bronzeVars, lakeVars
<1>1. Committed' = Committed
  BY DEF Committed
<1>2. /\ \A n \in Nodes : node'[n] = "waiting"
      /\ \A c \in Checks : verdict'[c] = "waiting"
      /\ atStart' = {}
      /\ \A s \in Staging : listed'[s] = {}
  BY DEF ForgetResults
<1>3. CommittedIsWhole' /\ SilverIsNeverPartial' /\ LakeIsCommitted' /\ ListingsStand'
  BY <1>1, <1>2, NodeKinds
     DEF IInv, CommittedIsWhole, SilverIsNeverPartial, LakeIsCommitted, ListingsStand
<1>4. NoResultsBetweenBuilds'
  BY <1>2 DEF NoResultsBetweenBuilds
<1>5. GoldFromSilver' /\ FreshAsOfStart' /\ NothingIsBuiltOnARejectedParent'
  BY <1>2, NodeKinds DEF GoldFromSilver, FreshAsOfStart, NothingIsBuiltOnARejectedParent
<1>6. SnapshotVerdict'
  BY <1>2, ChecksAssumption DEF SnapshotVerdict
<1> QED
  BY <1>3, <1>4, <1>5, <1>6 DEF IInv

\* A green build has passed the snapshot test on everything it wrote.
LEMMA EndIInv == IInv /\ TypeOK' /\ (EndBuild \/ KillBuild) => IInv'
<1> SUFFICES ASSUME IInv, TypeOK', EndBuild \/ KillBuild PROVE IInv'
  OBVIOUS
<1>1. build' = "idle" /\ ForgetResults /\ UNCHANGED <<bronzeVars, lakeVars>>
  BY DEF EndBuild, KillBuild
<1>2. GreenIsOneSnapshot'
  <2> SUFFICES ASSUME outcome' = "green"
               PROVE  \A m, n \in Models : \A l \in rows[m], k \in rows[n] :
                         l = k /\ l \in Committed
    BY <1>1 DEF GreenIsOneSnapshot, bronzeVars, lakeVars, Committed
  <2>1. /\ \A n \in Nodes : node[n] = "ok"
        /\ \A c \in Checks : verdict[c] = "pass"
    BY DEF EndBuild, KillBuild
  <2>2. SilverIsOneCommittedSnapshot /\ ledgerRows \subseteq Committed
    BY <2>1, ChecksAssumption DEF IInv, SnapshotVerdict, LakeIsCommitted
  <2>3. \A m \in Models : \A l \in rows[m] : \E s \in Staging : l \in rows[s]
    BY <2>1, NodeKinds DEF IInv, GoldFromSilver
  <2> QED
    BY <2>2, <2>3 DEF SilverIsOneCommittedSnapshot
<1> QED
  BY <1>1, <1>2, OverIInv

\* Every step preserves the invariant.
LEMMA NextIInv == IInv /\ TypeOK' /\ [Next]_vars => IInv'
<1> SUFFICES ASSUME IInv, TypeOK', [Next]_vars PROVE IInv'
  OBVIOUS
<1>1. CASE UNCHANGED vars
  BY <1>1 DEF vars, bronzeVars, lakeVars, buildVars, IInv, Committed, CommittedIsWhole,
              SilverIsNeverPartial, LakeIsCommitted, NoResultsBetweenBuilds, GoldFromSilver,
              SnapshotVerdict, SilverIsOneCommittedSnapshot, ListingsStand, Gates,
              NothingIsBuiltOnARejectedParent, FreshAsOfStart, GreenIsOneSnapshot
<1>2. CASE DbtStep
  BY <1>2, ListIInv, StagingIInv, LedgerIInv, GoldIInv, FailIInv, CheckIInv, EndIInv DEF DbtStep
<1> QED
  BY <1>1, <1>2, LoadIInv, StartIInv, EndIInv DEF Next

\* The invariant holds in every reachable state.
THEOREM IInvHolds == Spec => []IInv
BY TypeCorrect, InitIInv, NextIInv, PTL DEF Spec

-----------------------------------------------------------------------------
(* What readers of the lake rely on.                                          *)

\* Partial loads are structurally unselectable (ADR-0023), and of a load that was
\* there when the build began nothing is left out.
THEOREM SilverIsWhole == Spec => []SilverIsNeverPartial
<1>1. IInv => SilverIsNeverPartial
  BY DEF IInv
<1> QED
  BY <1>1, IInvHolds, PTL

\* After a green build every published row is of one committed load.
THEOREM GreenIsSound == Spec => []GreenIsOneSnapshot
<1>1. IInv => GreenIsOneSnapshot
  BY DEF IInv
<1> QED
  BY <1>1, IInvHolds, PTL

\* A build writes nothing older than what was committed when it started.
THEOREM BuildIsFresh == Spec => []FreshAsOfStart
<1>1. IInv => FreshAsOfStart
  BY DEF IInv
<1> QED
  BY <1>1, IInvHolds, PTL

\* A failing model or test halts everything downstream of it, at any distance.
THEOREM FailureHaltsDownstream == Spec => []NothingIsBuiltOnARejectedParent
<1>1. IInv => NothingIsBuiltOnARejectedParent
  BY DEF IInv
<1> QED
  BY <1>1, IInvHolds, PTL

\* A published staging file never goes back to an older load.
THEOREM SnapshotsGoForward == Spec => SnapshotsNeverGoBack
<1>1. IInv /\ [Next]_vars => [\A s \in Staging : resolved[s] <= resolved'[s]]_vars
  <2> SUFFICES ASSUME IInv, Next, NEW s \in Staging PROVE resolved[s] <= resolved'[s]
    OBVIOUS
  <2>0. resolved[s] \in Int /\ resolved \in [Staging -> Loads \cup {0}]
    BY BoundsAssumption DEF IInv, TypeOK, Loads
  <2>1. CASE \E t \in Staging : RunStaging(t)
    <3>1. PICK t \in Staging : RunStaging(t)
      BY <2>1
    <3>2. PICK l \in Loads : LatestCompletedLoad(l) /\ resolved' = [resolved EXCEPT ![t] = l]
      BY <3>1 DEF RunStaging
    <3>3. resolved[s] # 0 => resolved[s] \in Committed
      BY DEF IInv, SilverIsNeverPartial
    <3>4. resolved[s] <= l
      BY <2>0, <3>2, <3>3, BoundsAssumption DEF LatestCompletedLoad, Loads
    <3> QED
      BY <2>0, <3>2, <3>4
  <2>2. CASE ~ \E t \in Staging : RunStaging(t)
    <3>1. resolved' = resolved
      BY <2>2 DEF Next, LoadStep, DbtStep, BeginLoad, WriteTable, CommitLoad, KillLoad, StartBuild,
                  ListFiles, RunLedgerModel, RunGold, ModelFails, RunCheck, EndBuild, KillBuild, lakeVars
    <3> QED
      BY <2>0, <3>1
  <2> QED
    BY <2>1, <2>2
<1> QED
  BY <1>1, IInvHolds, PTL DEF Spec, SnapshotsNeverGoBack

-----------------------------------------------------------------------------
(* Refinement of AtomicLake.                                                  *)

\* The loads run one after the other, in the order of their ids.
LoadsAreSerial ==
  \A l \in Loads : loadState[l] # "absent" =>
    \A k \in Loads : k < l => loadState[k] \in {"committed", "dead"}

\* No step begins a load before the earlier ones are over, or revives one.
LEMMA StepSerial == TypeOK /\ LoadsAreSerial /\ [Next]_vars => LoadsAreSerial'
<1> SUFFICES ASSUME TypeOK, LoadsAreSerial, [Next]_vars PROVE LoadsAreSerial'
  OBVIOUS
<1>1. ASSUME NEW l \in Loads, BeginLoad(l) PROVE LoadsAreSerial'
  <2>1. /\ loadState[l] = "absent" /\ loadState' = [loadState EXCEPT ![l] = "running"]
        /\ \A k \in Loads : loadState[k] # "running" /\ (k < l => loadState[k] # "absent")
    BY <1>1 DEF BeginLoad
  <2>2. \A k \in Loads : k < l => loadState[k] \in {"committed", "dead"}
    BY <2>1 DEF TypeOK
  <2>3. \A k \in Loads : k # l => loadState'[k] = loadState[k]
    BY <2>1 DEF TypeOK
  <2>4. \A k \in Loads : ~(k < k)
    BY BoundsAssumption DEF Loads
  <2> QED
    BY <2>1, <2>2, <2>3, <2>4 DEF LoadsAreSerial
<1>2. ASSUME NEW l \in Loads, CommitLoad(l) \/ KillLoad(l) PROVE LoadsAreSerial'
  <2>1. /\ loadState[l] = "running"
        /\ loadState'[l] \in {"committed", "dead"}
        /\ \A k \in Loads : k # l => loadState'[k] = loadState[k]
    BY <1>2 DEF CommitLoad, KillLoad, TypeOK
  <2> QED
    BY <2>1 DEF LoadsAreSerial
<1>3. CASE UNCHANGED loadState
  BY <1>3 DEF LoadsAreSerial
<1>4. (\E l \in Loads : BeginLoad(l) \/ CommitLoad(l) \/ KillLoad(l)) \/ UNCHANGED loadState
  BY DEF Next, LoadStep, DbtStep, WriteTable, StartBuild, ListFiles, RunStaging,
         RunLedgerModel, RunGold, ModelFails, RunCheck, EndBuild, KillBuild, bronzeVars, vars
<1> QED
  BY <1>1, <1>2, <1>3, <1>4

\* ingest-bronze's concurrency group: loads never run beside each other.
THEOREM LoadsRunInOrder == Spec => []LoadsAreSerial
<1>1. Init => LoadsAreSerial
  BY DEF Init, LoadsAreSerial
<1> QED
  BY <1>1, StepSerial, TypeCorrect, PTL DEF Spec

\* Whether readers may read.
Readable == build = "idle" /\ outcome = "green"

\* A step of a load commits the newest load, or is hidden from the readers.
LEMMA LoadStepIsLakeStep ==
  ASSUME IInv, LoadsAreSerial, LoadStep
  PROVE  (\E l \in Loads : Lake!Commit(l)) \/ UNCHANGED Lake!lakeStateVars
<1>1. UNCHANGED <<lakeVars, buildVars>>
  BY LoadStepEffect DEF IInv
<1>2. /\ UNCHANGED <<build, atStart, outcome, rows>>
      /\ ReadersView' = ReadersView
  BY <1>1 DEF lakeVars, buildVars, ReadersView
<1>3. ASSUME NEW l \in Loads, CommitLoad(l) PROVE Lake!Commit(l)
  <2>1. loadState[l] = "running" /\ loadState' = [loadState EXCEPT ![l] = "committed"]
    BY <1>3 DEF CommitLoad
  <2>2. Committed' = Committed \cup {l}
    BY <2>1 DEF IInv, TypeOK, Committed
  <2>3. ASSUME NEW k \in Committed PROVE k < l
    <3>1. k \in Loads /\ loadState[k] = "committed" /\ k \in Int /\ l \in Int
      BY BoundsAssumption DEF Committed, Loads
    <3>2. ~(l < k)
      BY <2>1, <3>1 DEF LoadsAreSerial
    <3>3. k # l
      BY <2>1, <3>1
    <3> QED
      BY <3>1, <3>2, <3>3
  <2> QED
    BY <1>2, <2>2, <2>3 DEF Lake!Commit
<1>4. ASSUME NEW l \in Loads, BeginLoad(l) \/ KillLoad(l) \/ \E s \in Staging : WriteTable(l, s)
      PROVE  UNCHANGED Lake!lakeStateVars
  <2>1. Committed' = Committed
    <3>1. CASE BeginLoad(l)
      BY <3>1 DEF BeginLoad, Committed, IInv, TypeOK
    <3>2. CASE KillLoad(l)
      BY <3>2 DEF KillLoad, Committed, IInv, TypeOK
    <3>3. CASE \E s \in Staging : WriteTable(l, s)
      BY <3>3 DEF WriteTable, Committed
    <3> QED
      BY <1>4, <3>1, <3>2, <3>3
  <2> QED
    BY <1>2, <2>1 DEF Lake!lakeStateVars
<1> QED
  BY <1>3, <1>4 DEF LoadStep

\* While a build runs its steps are hidden: readers wait for it to be green.
LEMMA BuildStepIsHidden ==
  ASSUME build = "running", UNCHANGED <<bronzeVars, build, atStart, outcome>>
  PROVE  UNCHANGED Lake!lakeStateVars
<1>1. Committed' = Committed
  BY DEF bronzeVars, Committed
<1>2. ReadersView = {} /\ ReadersView' = {}
  BY DEF ReadersView
<1> QED
  BY <1>1, <1>2 DEF Lake!lakeStateVars

\* A green build publishes one load, fresh as of its start.
LEMMA EndIsLakeStep ==
  ASSUME IInv, IInv', EndBuild \/ KillBuild
  PROVE  Lake!Publish \/ Lake!GiveUp
<1>1. /\ build = "running" /\ build' = "idle" /\ atStart' = {}
      /\ UNCHANGED <<bronzeVars, lakeVars>>
  BY DEF EndBuild, KillBuild, ForgetResults
<1>2. Committed' = Committed /\ rows' = rows
  BY <1>1 DEF bronzeVars, lakeVars, Committed
<1>3. ReadersView = {} /\ build' # "running" /\ ~Readable
  BY <1>1 DEF ReadersView, Readable
<1>4. CASE outcome' = "green"
  <2> DEFINE seen == UNION {rows[m] : m \in Models}
  <2>1. \A n \in Nodes : node[n] = "ok"
    BY <1>4 DEF EndBuild, KillBuild
  <2>2. ReadersView' = seen /\ Readable'
    BY <1>1, <1>2, <1>4 DEF ReadersView, Readable
  <2>3. seen \in SUBSET Committed /\ \A l, k \in seen : l = k
    BY <1>1, <1>2, <1>4 DEF IInv, GreenIsOneSnapshot
  <2>4. \A l \in seen, k \in atStart : k <= l
    BY <2>1, NodeKinds DEF IInv, FreshAsOfStart
  <2>5. seen \in SUBSET Loads
    BY <2>3 DEF Committed
  <2> HIDE DEF seen
  <2>6. Lake!OneFreshLoad(seen)
    BY <2>3, <2>4 DEF Lake!OneFreshLoad
  <2> QED
    BY <1>1, <1>2, <2>2, <2>5, <2>6 DEF Lake!Publish, Readable
<1>5. CASE outcome' # "green"
  <2>1. ReadersView' = {} /\ ~Readable'
    BY <1>5 DEF ReadersView, Readable
  <2> QED
    BY <1>1, <1>2, <1>3, <2>1 DEF Lake!GiveUp, Readable
<1> QED
  BY <1>4, <1>5

\* Every step of loads and builds is one of the atomic lake's, or hidden.
LEMMA StepIsLakeStep ==
  IInv /\ IInv' /\ LoadsAreSerial /\ [Next]_vars => [Lake!LakeNext]_(Lake!lakeStateVars)
<1> SUFFICES ASSUME IInv, IInv', LoadsAreSerial, [Next]_vars
             PROVE  Lake!LakeNext \/ UNCHANGED Lake!lakeStateVars
  OBVIOUS
<1>1. CASE LoadStep
  BY <1>1, LoadStepIsLakeStep DEF Lake!LakeNext
<1>2. CASE StartBuild
  <2>1. /\ build = "idle" /\ build' = "running" /\ atStart' = Committed
        /\ UNCHANGED <<bronzeVars, lakeVars, outcome>>
    BY <1>2 DEF StartBuild
  <2>2. Committed' = Committed /\ ReadersView' = {}
    BY <2>1 DEF bronzeVars, Committed, ReadersView
  <2>3. Lake!BeginUpdate
    BY <2>1, <2>2 DEF Lake!BeginUpdate
  <2> QED
    BY <2>3 DEF Lake!LakeNext
<1>3. CASE DbtStep /\ ~EndBuild
  <2>1. /\ build = "running"
        /\ UNCHANGED <<bronzeVars, build, atStart, outcome>>
    BY <1>3 DEF DbtStep, ListFiles, RunStaging, RunLedgerModel, RunGold, ModelFails, RunCheck,
                Runnable, Listed, Checkable
  <2> QED
    BY <2>1, BuildStepIsHidden
<1>4. CASE EndBuild \/ KillBuild
  BY <1>4, EndIsLakeStep DEF Lake!LakeNext
<1>5. CASE UNCHANGED vars
  BY <1>5 DEF vars, bronzeVars, lakeVars, buildVars, Lake!lakeStateVars, ReadersView, Committed
<1> QED
  BY <1>1, <1>2, <1>3, <1>4, <1>5 DEF Next

\* For readers who wait for a green build the lake is atomic: they see one committed
\* load at a time, fresh as of the start of its build, and loads commit in order.
THEOREM BuildImplementsAtomicLake == Spec => ImplementsAtomicLake
<1>1. Init => Lake!LakeInit
  BY DEF Init, Lake!LakeInit, Committed, ReadersView
<1> QED
  BY <1>1, StepIsLakeStep, IInvHolds, LoadsRunInOrder, PTL
     DEF Spec, ImplementsAtomicLake, Lake!LakeSpec

\* What such readers see is committed and of one load, and never an update under way.
THEOREM ReadersAreSafe == Spec => []Lake!LakeSafety
<1>1. Lake!LakeInit => Lake!LakeSafety
  BY DEF Lake!LakeInit, Lake!LakeSafety, Lake!LakeTypeOK
<1>2. Lake!LakeSafety /\ [Lake!LakeNext]_(Lake!lakeStateVars) => Lake!LakeSafety'
  <2> SUFFICES ASSUME Lake!LakeSafety, [Lake!LakeNext]_(Lake!lakeStateVars)
               PROVE  Lake!LakeSafety'
    OBVIOUS
  <2> USE DEF Lake!LakeSafety, Lake!LakeTypeOK
  <2>1. ASSUME NEW l \in Loads, Lake!Commit(l) PROVE Lake!LakeSafety'
    BY <2>1 DEF Lake!Commit
  <2>2. CASE Lake!BeginUpdate
    BY <2>2 DEF Lake!BeginUpdate
  <2>3. CASE Lake!Publish
    BY <2>3 DEF Lake!Publish, Lake!OneFreshLoad
  <2>4. CASE Lake!GiveUp
    BY <2>4 DEF Lake!GiveUp
  <2>5. CASE UNCHANGED Lake!lakeStateVars
    BY <2>5 DEF Lake!lakeStateVars
  <2> QED
    BY <2>1, <2>2, <2>3, <2>4, <2>5 DEF Lake!LakeNext
<1> QED
  BY <1>1, <1>2, BuildImplementsAtomicLake, PTL DEF ImplementsAtomicLake, Lake!LakeSpec
=============================================================================
