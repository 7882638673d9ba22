------------------------ MODULE PostgresLoad_proofs ------------------------
(***************************************************************************)
(* What holds of every Postgres load, for any tables, rows and bounds.      *)
(***************************************************************************)
EXTENDS PostgresLoad, SequenceTheorems, FiniteSetTheorems, TLAPS

-----------------------------------------------------------------------------
(* Names.                                                                  *)

\* Equal concatenations with the same front have the same rest.
LEMMA EqualRests ==
  ASSUME NEW s \in Seq(STRING), NEW a \in Seq(STRING), NEW b \in Seq(STRING),
         s \o a = s \o b
  PROVE  a = b
<1>1. Len(a) = Len(b)
  <2>1. Len(s \o a) = Len(s) + Len(a) /\ Len(s \o b) = Len(s) + Len(b)
    OBVIOUS
  <2> QED BY <2>1
<1>2. ASSUME NEW i \in 1..Len(a) PROVE a[i] = b[i]
  <2>1. (s \o a)[Len(s) + i] = a[i]
    OBVIOUS
  <2>2. (s \o b)[Len(s) + i] = b[i]
    BY <1>1
  <2> QED BY <2>1, <2>2
<1> QED BY <1>1, <1>2, SeqEqual

\* Sequences that begin with diverging ones are different.
LEMMA DivergingFronts ==
  ASSUME NEW s \in Seq(STRING), NEW u \in Seq(STRING), Diverge(s, u),
         NEW a \in Seq(STRING), NEW b \in Seq(STRING)
  PROVE  s \o a # u \o b
<1>1. PICK i \in 1..Len(s) : i <= Len(u) /\ s[i] # u[i]
  BY DEF Diverge
<1>2. (s \o a)[i] = s[i] /\ (u \o b)[i] = u[i]
  BY <1>1
<1> QED BY <1>1, <1>2

\* bronze_table_name gives different tables different names.
THEOREM BronzeNamesAreDistinct ==
  ASSUME NEW t \in Tables, NEW u \in Tables, BronzeName(t) = BronzeName(u)
  PROVE  t = u
<1>1. /\ t = <<t[1], t[2]>> /\ t[1] \in Seq(STRING) /\ t[2] \in Seq(STRING)
      /\ u = <<u[1], u[2]>> /\ u[1] \in Seq(STRING) /\ u[2] \in Seq(STRING)
  BY TablesAssumption
<1>2. t[1] = u[1]
  <2> SUFFICES ASSUME t[1] # u[1] PROVE FALSE
    OBVIOUS
  <2>1. Diverge(t[1], u[1])
    BY TablesAssumption
  <2> QED BY <1>1, <2>1, DivergingFronts DEF BronzeName
<1>3. t[2] = u[2]
  BY <1>1, <1>2, EqualRests DEF BronzeName
<1> QED BY <1>1, <1>2, <1>3

-----------------------------------------------------------------------------
(* Types.                                                                  *)

\* What a load puts into Bronze are Bronze rows.
LEMMA LandedType == TypeOK => Landed \subseteq BronzeRow
<1> SUFFICES ASSUME TypeOK, NEW c \in copy
             PROVE  [name |-> BronzeName(c[1]), table |-> c[1], row |-> c[2]] \in BronzeRow
  BY DEF Landed
<1>1. c[1] \in Tables /\ c[2] \in Rows
  BY DEF TypeOK
<1>2. c[1][1] \in Seq(STRING) /\ c[1][2] \in Seq(STRING)
  BY <1>1, TablesAssumption
<1>3. BronzeName(c[1]) \in Seq(STRING)
  BY <1>2 DEF BronzeName
<1> QED BY <1>1, <1>3 DEF BronzeRow

\* What a run has read is finite.
LEMMA CopyIsFinite == TypeOK => IsFiniteSet(copy)
BY RowsAssumption, FS_Product, FS_Subset DEF TypeOK

\* The number of rows reported is a number.
LEMMA RowsProcessedType == TypeOK => RowsProcessed(copy) \in Nat
BY CopyIsFinite, FS_CardinalityType DEF RowsProcessed

\* Every variable keeps its type.
THEOREM TypeCorrect == Spec => []TypeOK
<1>1. Init => TypeOK
  <2> SUFFICES ASSUME Init PROVE TypeOK
    OBVIOUS
  <2>1. left \in Seq(Seq(STRING))
    BY DEF Init
  <2>2. tables \subseteq Tables /\ rows \in [Tables -> SUBSET Rows] /\ bronze \subseteq BronzeRow
    BY TablesAssumption DEF Init
  <2>3. copy \subseteq Tables \X Rows /\ standing \subseteq Tables \X Rows
        /\ outlived \subseteq Tables \X Rows /\ resources \subseteq Tables
    BY DEF Init
  <2>4. writes \in 0..MaxWrites /\ faults \in 0..MaxFaults
    BY BoundsAssumption DEF Init
  <2>5. /\ pc \in {"idle", "reflect", "extract", "report", "exited", "dead"}
        /\ committed \in BOOLEAN /\ metrics \in Nat \cup {None} /\ exit \in {"green", "red", None}
    BY DEF Init
  <2> QED BY <2>1, <2>2, <2>3, <2>4, <2>5 DEF TypeOK
<1>2. TypeOK /\ [Next]_vars => TypeOK'
  <2> SUFFICES ASSUME TypeOK, [Next]_vars PROVE TypeOK'
    OBVIOUS
  <2> USE DEF dbVars, runVars, Write, Exit, Fault
  <2>1. ASSUME NEW t \in Tables, NEW r \in Rows, Insert(t, r) PROVE TypeOK'
    BY <2>1, BoundsAssumption DEF TypeOK, Insert
  <2>2. ASSUME NEW t \in Tables, NEW r \in Rows, Delete(t, r) PROVE TypeOK'
    BY <2>2, BoundsAssumption DEF TypeOK, Delete
  <2>3. ASSUME NEW t \in Tables, CreateTable(t) PROVE TypeOK'
    BY <2>3, BoundsAssumption DEF TypeOK, CreateTable
  <2>4. ASSUME NEW t \in Tables, DropTable(t) PROVE TypeOK'
    BY <2>4, BoundsAssumption DEF TypeOK, DropTable
  <2>5. CASE Start
    BY <2>5, TablesAssumption DEF TypeOK, Start
  <2>6. CASE Reflect
    <3>1. left' \in Seq(Seq(STRING))
      BY <2>6 DEF TypeOK, Reflect
    <3> QED BY <2>6, <3>1 DEF TypeOK, Reflect
  <2>7. CASE SourceRefused
    BY <2>7 DEF TypeOK, SourceRefused
  <2>8. CASE NothingToLoad
    BY <2>8 DEF TypeOK, NothingToLoad
  <2>9. CASE SomethingToLoad
    BY <2>9 DEF TypeOK, SomethingToLoad
  <2>10. ASSUME NEW t \in Tables, Extract(t) PROVE TypeOK'
    BY <2>10 DEF TypeOK, Extract, ReadTable
  <2>11. ASSUME NEW t \in Tables, ExtractMissing(t) PROVE TypeOK'
    BY <2>11 DEF TypeOK, ExtractMissing
  <2>12. CASE Commit
    <3>1. bronze' \subseteq BronzeRow
      BY <2>12, LandedType DEF TypeOK, Commit, CommitLoad
    <3>2. outlived' \subseteq Tables \X Rows
      BY <2>12 DEF TypeOK, Commit, CommitLoad
    <3> QED BY <2>12, <3>1, <3>2 DEF TypeOK, Commit, CommitLoad
  <2>13. CASE Report
    BY <2>13, RowsProcessedType DEF TypeOK, Report
  <2>14. CASE Misconfigured
    <3>1. copy' \subseteq Tables \X Rows /\ standing' \subseteq Tables \X Rows
      BY <2>14 DEF Misconfigured
    <3>2. faults' \in 0..MaxFaults /\ exit' \in {"green", "red", None}
      BY <2>14, BoundsAssumption DEF TypeOK, Misconfigured
    <3> QED BY <2>14, <3>1, <3>2 DEF TypeOK, Misconfigured
  <2>15. CASE BreakOff
    BY <2>15, BoundsAssumption DEF TypeOK, BreakOff
  <2>16. CASE Die
    <3>1. bronze' \subseteq BronzeRow
      BY <2>16, LandedType DEF TypeOK, Die, CommitLoad
    <3>2. outlived' \subseteq Tables \X Rows /\ committed' \in BOOLEAN
      BY <2>16 DEF TypeOK, Die, CommitLoad
    <3> QED BY <2>16, <3>1, <3>2, BoundsAssumption DEF TypeOK, Die
  <2>17. CASE UNCHANGED vars
    BY <2>17 DEF TypeOK, vars
  <2> QED
    BY <2>1, <2>2, <2>3, <2>4, <2>5, <2>6, <2>7, <2>8, <2>9, <2>10, <2>11, <2>12, <2>13,
       <2>14, <2>15, <2>16, <2>17 DEF Next, DbNext, RunStep
<1> QED BY <1>1, <1>2, PTL DEF Spec
-----------------------------------------------------------------------------
(* Names in Bronze.                                                        *)

\* Every row lies under the name of its own table.
RowsAreFiled == \A b \in bronze : b.name = BronzeName(b.table)

\* A load files its rows that way.
LEMMA LandedIsFiled == \A b \in Landed : b.name = BronzeName(b.table)
BY DEF Landed

\* Only a commit adds to Bronze.
LEMMA BronzeSteps ==
  [Next]_vars => bronze' = bronze \/ bronze' = bronze \cup Landed
BY DEF Next, DbNext, RunStep, vars, dbVars, runVars, Write, Insert, Delete, CreateTable, DropTable,
       Start, Reflect, SourceRefused, NothingToLoad, SomethingToLoad, Extract, ExtractMissing,
       Commit, CommitLoad, Report, Misconfigured, BreakOff, Die

\* Bronze never mixes two source tables, whatever the schemas hold.
THEOREM TablesStayApart == Spec => []BronzeTablesAreNotMixed
<1>1. Init => RowsAreFiled
  BY DEF Init, RowsAreFiled
<1>2. RowsAreFiled /\ [Next]_vars => RowsAreFiled'
  BY BronzeSteps, LandedIsFiled DEF RowsAreFiled, BronzeName
<1>3. TypeOK /\ RowsAreFiled => BronzeTablesAreNotMixed
  <2> SUFFICES ASSUME TypeOK, RowsAreFiled, NEW b \in bronze, NEW c \in bronze, b.name = c.name
               PROVE  b.table = c.table
    BY DEF BronzeTablesAreNotMixed
  <2>1. b.table \in Tables /\ c.table \in Tables
    BY DEF TypeOK, BronzeRow
  <2>2. BronzeName(b.table) = BronzeName(c.table)
    BY DEF RowsAreFiled
  <2> QED BY <2>1, <2>2, BronzeNamesAreDistinct
<1> QED BY <1>1, <1>2, <1>3, TypeCorrect, PTL DEF Spec
-----------------------------------------------------------------------------
(* What a run knows of the rows that stand.                                *)

\* A table that is not there holds nothing.
NoTableNoRows == \A t \in Tables : t \notin tables => rows[t] = {}

\* A standing row is there, in a table that is there and selected.
StandingRowsStand == \A x \in standing : x[2] \in rows[x[1]] /\ Selected(x[1])

\* A row that stands is never overlooked: its schema is still to be reflected,
\* its table still to be read, or the row has been read.
NothingIsOverlooked ==
  /\ pc = "reflect" => \A x \in standing : \/ x[1] \in resources
                                          \/ \E i \in 1..Len(left) : left[i] = x[1][1]
  /\ pc = "extract" => \A x \in standing : x[1] \in resources \/ x \in copy
  /\ pc = "report" => \A x \in standing : x \in copy /\ InBronze(x[1], x[2])

\* Until it ends a run has not reported, and until its commit not committed.
NothingSaidTooEarly ==
  /\ pc \in {"reflect", "extract", "report"} => metrics = None
  /\ pc \in {"reflect", "extract"} => ~committed

\* Bronze only grows.
LEMMA BronzeGrows ==
  ASSUME [Next]_vars, NEW t, NEW r, InBronze(t, r)
  PROVE  InBronze(t, r)'
BY BronzeSteps DEF InBronze

\* What has been read is in Bronze once it has landed.
LEMMA LandedRows ==
  ASSUME NEW x \in copy, bronze' = bronze \cup Landed
  PROVE  InBronze(x[1], x[2])'
<1> DEFINE b == [name |-> BronzeName(x[1]), table |-> x[1], row |-> x[2]]
<1>1. b \in Landed
  BY DEF Landed
<1>2. b \in bronze' /\ b.table = x[1] /\ b.row = x[2]
  BY <1>1
<1> QED BY <1>2 DEF InBronze

\* The database keeps its rows in tables, and a standing row stays there.
THEOREM StandingRows == Spec => [](NoTableNoRows /\ StandingRowsStand)
<1>1. Init => NoTableNoRows /\ StandingRowsStand
  BY DEF Init, NoTableNoRows, StandingRowsStand
<1>2. TypeOK /\ NoTableNoRows /\ StandingRowsStand /\ [Next]_vars
        => (NoTableNoRows /\ StandingRowsStand)'
  <2> SUFFICES ASSUME TypeOK, NoTableNoRows, StandingRowsStand, [Next]_vars
               PROVE  NoTableNoRows' /\ StandingRowsStand'
    OBVIOUS
  <2> USE DEF NoTableNoRows, StandingRowsStand
  <2>1. ASSUME NEW t \in Tables, NEW r \in Rows, Insert(t, r)
        PROVE  NoTableNoRows' /\ StandingRowsStand'
    BY <2>1 DEF TypeOK, Insert, Selected
  <2>2. ASSUME NEW t \in Tables, NEW r \in Rows, Delete(t, r)
        PROVE  NoTableNoRows' /\ StandingRowsStand'
    BY <2>2 DEF TypeOK, Delete, Selected
  <2>3. ASSUME NEW t \in Tables, CreateTable(t)
        PROVE  NoTableNoRows' /\ StandingRowsStand'
    BY <2>3 DEF TypeOK, CreateTable, Selected
  <2>4. ASSUME NEW t \in Tables, DropTable(t)
        PROVE  NoTableNoRows' /\ StandingRowsStand'
    BY <2>4 DEF TypeOK, DropTable, Selected
  <2>5. CASE Start
    BY <2>5 DEF Start, dbVars, Selected
  <2>6. CASE Misconfigured
    BY <2>6 DEF Misconfigured, dbVars
  <2>7. CASE UNCHANGED <<tables, rows, standing>>
    BY <2>7 DEF Selected
  <2> QED
    BY <2>1, <2>2, <2>3, <2>4, <2>5, <2>6, <2>7
       DEF Next, DbNext, RunStep, vars, dbVars, Reflect, SourceRefused, NothingToLoad,
           SomethingToLoad, Extract, ExtractMissing, Commit, Report, BreakOff, Die
<1> QED BY <1>1, <1>2, TypeCorrect, PTL DEF Spec
\* Nothing that stands is overlooked, and so nothing that stood is lost.
THEOREM FullSnapshots == Spec => [](NothingIsOverlooked /\ RowsThatOutliveALoadAreKept)
<1> DEFINE I == NothingIsOverlooked /\ RowsThatOutliveALoadAreKept
<1>1. Init => I
  BY DEF Init, NothingIsOverlooked, RowsThatOutliveALoadAreKept
<1>2. TypeOK /\ TypeOK' /\ NoTableNoRows /\ StandingRowsStand /\ I /\ [Next]_vars => I'
  <2> SUFFICES ASSUME TypeOK, TypeOK', NoTableNoRows, StandingRowsStand, I, [Next]_vars
               PROVE  I'
    OBVIOUS
  <2> USE DEF NothingIsOverlooked
  <2>1. ASSUME outlived' = outlived PROVE RowsThatOutliveALoadAreKept'
    BY <2>1, BronzeGrows DEF RowsThatOutliveALoadAreKept
  <2>2. ASSUME standing' \subseteq standing, UNCHANGED <<pc, runVars, outlived>> PROVE I'
    <3>1. NothingIsOverlooked'
      BY <2>2, BronzeGrows DEF runVars
    <3> QED BY <2>1, <2>2, <3>1
  <2>3. ASSUME pc' \in {"exited", "dead"}, UNCHANGED outlived PROVE I'
    BY <2>1, <2>3
  <2>4. CASE DbNext
    <3>1. standing' \subseteq standing /\ UNCHANGED <<pc, runVars, outlived>>
      BY <2>4 DEF DbNext, Insert, Delete, CreateTable, DropTable, Write, runVars
    <3> QED BY <2>2, <3>1
  <2>5. CASE Start
    <3>1. \A x \in standing' : \E i \in 1..Len(left') : left'[i] = x[1][1]
      BY <2>5 DEF Start, Selected
    <3>2. pc' = "reflect" /\ UNCHANGED outlived
      BY <2>5 DEF Start
    <3> QED BY <2>1, <3>1, <3>2
  <2>6. CASE Reflect
    <3>1. ASSUME NEW x \in standing
          PROVE  x[1] \in resources' \/ \E i \in 1..Len(left') : left'[i] = x[1][1]
      <4>1. x[1] \in Tables /\ x[1] \in tables
        BY DEF TypeOK, NoTableNoRows, StandingRowsStand
      <4>2. CASE x[1] \in resources \/ x[1][1] = Head(left)
        BY <2>6, <4>1, <4>2 DEF Reflect
      <4>3. CASE \E i \in 1..Len(left) : i # 1 /\ left[i] = x[1][1]
        <5>1. PICK i \in 1..Len(left) : i # 1 /\ left[i] = x[1][1]
          BY <4>3
        <5>2. i - 1 \in 1..Len(Tail(left)) /\ Tail(left)[i - 1] = x[1][1]
          BY <2>6, <5>1 DEF TypeOK, Reflect
        <5> QED BY <2>6, <5>2 DEF Reflect
      <4>4. left # <<>> => Head(left) = left[1]
        BY DEF TypeOK
      <4> QED BY <2>6, <4>2, <4>3, <4>4 DEF Reflect
    <3>2. pc' = "reflect" /\ UNCHANGED <<standing, outlived>>
      BY <2>6 DEF Reflect
    <3> QED BY <2>1, <3>1, <3>2
  <2>7. CASE SourceRefused \/ NothingToLoad
    BY <2>3, <2>7 DEF SourceRefused, NothingToLoad, Exit
  <2>8. CASE SomethingToLoad
    <3>1. pc' = "extract" /\ UNCHANGED <<standing, resources, copy, outlived>>
      BY <2>8 DEF SomethingToLoad, runVars
    <3>2. \A x \in standing : x[1] \in resources
      BY <2>8 DEF SomethingToLoad
    <3> QED BY <2>1, <3>1, <3>2
  <2>9. ASSUME NEW t \in Tables, Extract(t) PROVE I'
    <3>1. ASSUME NEW x \in standing PROVE x[1] \in resources' \/ x \in copy'
      <4>1. x = <<x[1], x[2]>> /\ x[2] \in rows[x[1]]
        BY DEF TypeOK, StandingRowsStand
      <4>2. CASE x[1] = t
        BY <2>9, <4>1, <4>2 DEF Extract, ReadTable
      <4>3. CASE x[1] # t
        BY <2>9, <4>3 DEF Extract
      <4> QED BY <4>2, <4>3
    <3>2. pc' = "extract" /\ UNCHANGED <<standing, outlived>>
      BY <2>9 DEF Extract
    <3> QED BY <2>1, <3>1, <3>2
  <2>10. ASSUME NEW t \in Tables, ExtractMissing(t) PROVE I'
    BY <2>3, <2>10 DEF ExtractMissing, Exit
  <2>11. ASSUME pc = "extract", resources = {}, CommitLoad, UNCHANGED standing
         PROVE  RowsThatOutliveALoadAreKept' /\ \A x \in standing : x \in copy /\ InBronze(x[1], x[2])'
    <3>1. \A x \in standing : x \in copy
      BY <2>11
    <3>2. \A x \in standing : InBronze(x[1], x[2])'
      BY <2>11, <3>1, LandedRows DEF CommitLoad
    <3>3. \A x \in outlived : InBronze(x[1], x[2])'
      BY BronzeGrows DEF RowsThatOutliveALoadAreKept
    <3> QED BY <2>11, <3>1, <3>2, <3>3 DEF CommitLoad, RowsThatOutliveALoadAreKept
  <2>12. CASE Commit
    <3>1. pc' = "report" /\ UNCHANGED <<standing, copy>>
      BY <2>12 DEF Commit
    <3>2. RowsThatOutliveALoadAreKept' /\ \A x \in standing : x \in copy /\ InBronze(x[1], x[2])'
      BY <2>11, <2>12 DEF Commit
    <3>3. NothingIsOverlooked'
      BY <3>1, <3>2 DEF InBronze
    <3> QED BY <3>2, <3>3
  <2>13. CASE Report \/ Misconfigured \/ BreakOff
    BY <2>3, <2>13 DEF Report, Misconfigured, BreakOff, Exit
  <2>14. CASE Die
    <3>1. CASE UNCHANGED outlived
      BY <2>3, <2>14, <3>1 DEF Die
    <3>2. CASE pc = "extract" /\ resources = {} /\ CommitLoad
      BY <2>11, <2>14, <3>2 DEF Die
    <3> QED BY <2>14, <3>1, <3>2 DEF Die
  <2>15. CASE UNCHANGED vars
    BY <2>2, <2>15 DEF vars, runVars
  <2> QED
    BY <2>4, <2>5, <2>6, <2>7, <2>8, <2>9, <2>10, <2>12, <2>13, <2>14, <2>15 DEF Next, RunStep
<1> QED BY <1>1, <1>2, TypeCorrect, StandingRows, PTL DEF Spec
\* Every row that stood through a load that committed is in Bronze for good.
THEOREM SnapshotsAreFull == Spec => []RowsThatOutliveALoadAreKept
BY FullSnapshots, PTL

-----------------------------------------------------------------------------
(* What a run reports.                                                     *)

\* With the pinned dlt a run that counts no rows has read none.
LEMMA ZeroMeansNone ==
  ASSUME TypeOK, ~TraceMayMove, RowsProcessed(copy) = 0
  PROVE  copy = {}
BY CopyIsFinite, FS_EmptySet DEF RowsProcessed

\* A red run has committed nothing, a green one everything that stood.
THEOREM ReportsAreTrue ==
  ASSUME ~TraceMayMove PROVE Spec => []ReportTellsTheLoad
<1> DEFINE I == NothingSaidTooEarly /\ ReportTellsTheLoad
<1>1. Init => I
  BY DEF Init, NothingSaidTooEarly, ReportTellsTheLoad
<1>2. TypeOK /\ NothingIsOverlooked /\ I /\ [Next]_vars => I'
  <2> SUFFICES ASSUME TypeOK, NothingIsOverlooked, I, [Next]_vars PROVE I'
    OBVIOUS
  <2> USE DEF NothingSaidTooEarly
  <2>1. ASSUME standing' \subseteq standing, UNCHANGED <<pc, committed, metrics, exit>> PROVE I'
    <3>1. NothingSaidTooEarly'
      BY <2>1
    <3>2. ReportTellsTheLoad'
      BY <2>1, BronzeGrows DEF ReportTellsTheLoad
    <3> QED BY <3>1, <3>2
  <2>2. CASE DbNext
    <3>1. standing' \subseteq standing /\ UNCHANGED <<pc, committed, metrics, exit>>
      BY <2>2 DEF DbNext, Insert, Delete, CreateTable, DropTable, Write, runVars
    <3> QED BY <2>1, <3>1
  <2>3. CASE Start
    BY <2>3 DEF Start, ReportTellsTheLoad
  <2>4. CASE Reflect
    BY <2>4 DEF Reflect, ReportTellsTheLoad
  <2>5. ASSUME pc \in {"reflect", "extract"}, Exit("red"), UNCHANGED <<committed, metrics>> PROVE I'
    BY <2>5, NoneAssumption DEF Exit, ReportTellsTheLoad
  <2>6. CASE SourceRefused
    BY <2>5, <2>6 DEF SourceRefused
  <2>7. CASE NothingToLoad
    <3>1. standing' = {}
      BY <2>7 DEF NothingToLoad, NothingIsOverlooked
    <3>2. pc' = "exited" /\ ~committed'
      BY <2>7 DEF NothingToLoad, Exit
    <3> QED BY <3>1, <3>2 DEF ReportTellsTheLoad
  <2>8. CASE SomethingToLoad
    BY <2>8 DEF SomethingToLoad, runVars, ReportTellsTheLoad
  <2>9. ASSUME NEW t \in Tables, Extract(t) PROVE I'
    BY <2>9 DEF Extract, ReportTellsTheLoad
  <2>10. ASSUME NEW t \in Tables, ExtractMissing(t) PROVE I'
    BY <2>5, <2>10 DEF ExtractMissing
  <2>11. CASE Commit
    BY <2>11 DEF Commit, ReportTellsTheLoad
  <2>12. CASE Report
    <3>1. \A x \in standing : x \in copy /\ InBronze(x[1], x[2])
      BY <2>12 DEF Report, NothingIsOverlooked
    <3>2. metrics' = 0 => standing = {}
      BY <2>12, <3>1, ZeroMeansNone, NoneAssumption DEF Report
    <3>3. pc' = "exited" /\ exit' = "green" /\ UNCHANGED <<standing, bronze>>
      BY <2>12 DEF Report, Exit
    <3> QED BY <3>1, <3>2, <3>3 DEF ReportTellsTheLoad, InBronze
  <2>13. CASE Misconfigured
    BY <2>13 DEF Misconfigured, Exit, ReportTellsTheLoad
  <2>14. CASE BreakOff
    BY <2>5, <2>14 DEF BreakOff
  <2>15. CASE Die
    BY <2>15 DEF Die, ReportTellsTheLoad
  <2>16. CASE UNCHANGED vars
    BY <2>1, <2>16 DEF vars, runVars
  <2> QED
    BY <2>2, <2>3, <2>4, <2>6, <2>7, <2>8, <2>9, <2>10, <2>11, <2>12, <2>13, <2>14, <2>15, <2>16
       DEF Next, RunStep
<1> QED BY <1>1, <1>2, TypeCorrect, FullSnapshots, PTL DEF Spec
=============================================================================
