------------------------- MODULE GameweekPoll_proofs -------------------------
(* Theorems about GameweekPoll, for a season of any length, any number of
   corrections and any number of runs that die.                               *)
EXTENDS GameweekPoll, TLAPS

-----------------------------------------------------------------------------
(* Types.                                                                     *)

\* What a run sees of FPL is a record of the right type.
LEMMA NowType == TypeOK => Now \in Fpl
BY DEF TypeOK, Now, Fpl

\* What a run selects are gameweeks.
LEMMA SelectionType == \A fpl \in Fpl : select_live_gameweeks(fpl) \subseteq Gameweeks
BY DEF Fpl, select_live_gameweeks, InPlay, Stragglers

\* Before the season nothing has happened.
LEMMA PreSeasonType == PreSeason \in Fpl
BY BoundsAssumption DEF PreSeason, Fpl, Versions

\* The end of a run leaves nothing of it.
LEMMA EndRunType ==
  EndRun => /\ pc' = "idle" /\ asOf' \in Fpl /\ selection' = {}
            /\ fetched' \in [Gameweeks -> Versions \cup {None}]
            /\ \A g \in Gameweeks : fetched'[g] = None
BY PreSeasonType DEF EndRun

\* Every variable keeps its type.
THEOREM TypeCorrect == Spec => []TypeOK
<1>1. Init => TypeOK
  BY BoundsAssumption, PreSeasonType DEF Init, TypeOK, Versions
<1>2. TypeOK /\ [Next]_vars => TypeOK'
  <2> SUFFICES ASSUME TypeOK, [Next]_vars PROVE TypeOK'
    OBVIOUS
  <2> USE DEF TypeOK, fplVars, runVars
  <2>1. CASE Advance
    BY <2>1, BoundsAssumption DEF Advance
  <2>2. ASSUME NEW g \in Gameweeks, Churn(g) PROVE TypeOK'
    BY <2>2, BoundsAssumption DEF Churn, Versions
  <2>3. CASE FinishGameweek
    BY <2>3 DEF FinishGameweek, Gameweeks
  <2>4. ASSUME NEW g \in Gameweeks, Settle(g) PROVE TypeOK'
    BY <2>4 DEF Settle
  <2>5. CASE ResolveGameweeks
    BY <2>5, NowType, SelectionType DEF ResolveGameweeks
  <2>6. CASE ResolveBlind
    BY <2>6, BoundsAssumption DEF ResolveBlind
  <2>7. ASSUME NEW g \in Gameweeks, FetchLive(g) PROVE TypeOK'
    BY <2>7 DEF FetchLive
  <2>8. CASE CommitRun
    <3>1. bronze' \in [Gameweeks -> Versions \cup {None}]
      BY <2>8 DEF CommitRun
    <3>2. straggled' \subseteq Gameweeks
      BY <2>8 DEF CommitRun, Stragglers, Fpl
    <3> QED
      BY <2>8, <3>1, <3>2, EndRunType DEF CommitRun
  <2>9. CASE RunDies
    BY <2>9, EndRunType, BoundsAssumption DEF RunDies
  <2>10. CASE UNCHANGED vars
    BY <2>10 DEF vars
  <2> QED
    BY <2>1, <2>2, <2>3, <2>4, <2>5, <2>6, <2>7, <2>8, <2>9, <2>10 DEF Next, FplStep, RunStep
<1> QED
  BY <1>1, <1>2, PTL DEF Spec

-----------------------------------------------------------------------------
(* The inductive invariant.                                                   *)

\* A deadline passes only after the matches of the gameweek before.
EarlierAreFinished == \A g \in Gameweeks : g < current => g \in finished

\* What the run fetches is what it selected from the flags it saw, and these
\* are of a season that can have been; since then FPL only moved on.
SelectionStands ==
  pc = "fetching" =>
    /\ selection = select_live_gameweeks(asOf)
    /\ \A g \in Gameweeks : g < asOf.current => g \in asOf.finished
    /\ \A g \in Gameweeks : asOf.version[g] <= version[g]
    /\ \A g \in Gameweeks : fetched[g] # None => asOf.version[g] <= fetched[g]

\* No observation is ahead of FPL, nor behind the committed one.
ObservationsAreOrdered ==
  \A g \in Gameweeks :
    /\ bronze[g] # None => bronze[g] <= version[g]
    /\ fetched[g] # None => fetched[g] <= version[g]
    /\ bronze[g] # None /\ fetched[g] # None => bronze[g] <= fetched[g]

\* Between runs nothing is fetched.
IdleRunHoldsNothing == pc = "idle" => \A g \in Gameweeks : fetched[g] = None

IInv ==
  TypeOK /\ EarlierAreFinished /\ SelectionStands /\ ObservationsAreOrdered /\ IdleRunHoldsNothing

\* The numbers in the state are integers.
LEMMA Numbers ==
  ASSUME TypeOK
  PROVE  /\ current \in Int /\ asOf.current \in Int
         /\ \A g \in Gameweeks :
              /\ g \in Int
              /\ version[g] \in Int /\ asOf.version[g] \in Int
              /\ bronze[g] # None => bronze[g] \in Int
              /\ fetched[g] # None => fetched[g] \in Int
BY BoundsAssumption DEF TypeOK, Fpl, Gameweeks, Versions

\* Points only ever move forward.
LEMMA VersionsGrow ==
  ASSUME TypeOK, FplStep
  PROVE  (\A g \in Gameweeks : version[g] <= version'[g]) /\ UNCHANGED runVars
<1> USE Numbers DEF TypeOK, fplVars, runVars
<1>1. CASE Advance \/ FinishGameweek
  BY <1>1 DEF Advance, FinishGameweek
<1>2. ASSUME NEW g \in Gameweeks, Churn(g)
      PROVE  (\A h \in Gameweeks : version[h] <= version'[h]) /\ UNCHANGED runVars
  BY <1>2 DEF Churn
<1>3. ASSUME NEW g \in Gameweeks, Settle(g)
      PROVE  (\A h \in Gameweeks : version[h] <= version'[h]) /\ UNCHANGED runVars
  BY <1>3 DEF Settle
<1> QED
  BY <1>1, <1>2, <1>3 DEF FplStep

\* A deadline passes only after the matches of the gameweek before it.
LEMMA DeadlinesAreInOrder ==
  ASSUME TypeOK, EarlierAreFinished, FplStep
  PROVE  EarlierAreFinished'
<1>1. CASE Advance
  <2>1. /\ current \in Nat /\ current' = current + 1 /\ finished' = finished
        /\ current # 0 => current \in finished
    BY <1>1 DEF Advance, TypeOK
  <2>2. \A g \in Gameweeks : g < current' => g < current \/ g = current
    BY <2>1 DEF Gameweeks
  <2>3. \A g \in Gameweeks : g # 0
    BY DEF Gameweeks
  <2> QED
    BY <2>1, <2>2, <2>3 DEF EarlierAreFinished
<1>2. CASE ~Advance
  <2>1. current' = current /\ finished \subseteq finished'
    BY <1>2 DEF FplStep, Churn, FinishGameweek, Settle
  <2> QED
    BY <2>1 DEF EarlierAreFinished
<1> QED
  BY <1>1, <1>2

\* The season has not begun and no run has.
LEMMA InitIInv == Init => IInv
<1> SUFFICES ASSUME Init PROVE IInv
  OBVIOUS
<1>1. TypeOK
  BY BoundsAssumption, PreSeasonType DEF Init, TypeOK, Versions
<1>2. /\ pc = "idle" /\ current = 0
      /\ \A g \in Gameweeks : bronze[g] = None /\ fetched[g] = None /\ ~(g < 0)
  BY DEF Init, Gameweeks
<1> QED
  BY <1>1, <1>2
     DEF IInv, EarlierAreFinished, SelectionStands, ObservationsAreOrdered, IdleRunHoldsNothing

\* FPL moving on leaves the run's picture of it older, never wrong.
LEMMA FplIInv == IInv /\ TypeOK' /\ FplStep => IInv'
<1> SUFFICES ASSUME IInv, TypeOK', FplStep PROVE IInv'
  OBVIOUS
<1> USE DEF IInv
<1>1. /\ \A g \in Gameweeks : version[g] <= version'[g]
      /\ UNCHANGED runVars
  BY VersionsGrow
<1>2. \A g \in Gameweeks : version[g] \in Int /\ version'[g] \in Int
  BY DEF TypeOK, Versions
<1>3. EarlierAreFinished'
  BY DeadlinesAreInOrder
<1>4. SelectionStands'
  BY <1>1, <1>2, Numbers DEF SelectionStands, runVars
<1>5. ObservationsAreOrdered'
  BY <1>1, <1>2, Numbers DEF ObservationsAreOrdered, runVars
<1> QED
  BY <1>1, <1>3, <1>4, <1>5 DEF IdleRunHoldsNothing, runVars

\* A run starts with nothing fetched, from what FPL is at that moment.
LEMMA ResolveIInv == IInv /\ TypeOK' /\ (ResolveGameweeks \/ ResolveBlind) => IInv'
<1> SUFFICES ASSUME IInv, TypeOK', ResolveGameweeks \/ ResolveBlind PROVE IInv'
  OBVIOUS
<1> USE DEF IInv, fplVars
<1>1. UNCHANGED <<fplVars, fetched, bronze>> /\ pc = "idle" /\ pc' # "idle"
  BY DEF ResolveGameweeks, ResolveBlind
<1>2. \A g \in Gameweeks : fetched[g] = None
  BY <1>1 DEF IdleRunHoldsNothing
<1>3. SelectionStands'
  <2> SUFFICES ASSUME pc' = "fetching" PROVE SelectionStands'
    BY DEF SelectionStands
  <2>1. asOf' = Now /\ selection' = select_live_gameweeks(Now)
    BY DEF ResolveGameweeks, ResolveBlind
  <2>2. /\ asOf'.current = current /\ asOf'.finished = finished /\ asOf'.version = version
        /\ selection' = select_live_gameweeks(asOf')
    BY <2>1 DEF Now
  <2> QED
    BY <1>1, <1>2, <2>2, Numbers DEF SelectionStands, EarlierAreFinished,
       select_live_gameweeks, InPlay, Stragglers
<1>4. EarlierAreFinished' /\ ObservationsAreOrdered' /\ IdleRunHoldsNothing'
  BY <1>1 DEF EarlierAreFinished, ObservationsAreOrdered, IdleRunHoldsNothing
<1> QED
  BY <1>3, <1>4

\* A fetch observes what FPL has now.
LEMMA FetchIInv ==
  ASSUME IInv, TypeOK', NEW g \in Gameweeks, FetchLive(g)
  PROVE  IInv'
<1> USE DEF IInv, fplVars
<1>1. /\ UNCHANGED <<fplVars, pc, asOf, selection, bronze>>
      /\ pc # "idle"
      /\ fetched' = [fetched EXCEPT ![g] = version[g]]
  BY DEF FetchLive
<1>2. /\ fetched'[g] = version[g]
      /\ \A h \in Gameweeks : h # g => fetched'[h] = fetched[h]
  BY <1>1 DEF TypeOK
<1>3. SelectionStands'
  BY <1>1, <1>2, Numbers DEF SelectionStands, select_live_gameweeks, InPlay, Stragglers
<1>4. ObservationsAreOrdered'
  BY <1>1, <1>2, Numbers DEF ObservationsAreOrdered
<1> QED
  BY <1>1, <1>3, <1>4 DEF EarlierAreFinished, IdleRunHoldsNothing

\* A commit publishes the observations, or the run dies without a trace.
LEMMA EndIInv == IInv /\ TypeOK' /\ (CommitRun \/ RunDies) => IInv'
<1> SUFFICES ASSUME IInv, TypeOK', CommitRun \/ RunDies PROVE IInv'
  OBVIOUS
<1> USE DEF IInv, fplVars
<1>1. /\ UNCHANGED fplVars
      /\ pc' = "idle" /\ \A g \in Gameweeks : fetched'[g] = None
  BY DEF CommitRun, RunDies, EndRun
<1>2. \A g \in Gameweeks : bronze'[g] \in {bronze[g], fetched[g]}
  BY DEF CommitRun, RunDies
<1>3. ObservationsAreOrdered'
  BY <1>1, <1>2 DEF ObservationsAreOrdered
<1> QED
  BY <1>1, <1>3 DEF EarlierAreFinished, SelectionStands, IdleRunHoldsNothing

\* Every step preserves the invariant.
LEMMA NextIInv == IInv /\ TypeOK' /\ [Next]_vars => IInv'
<1> SUFFICES ASSUME IInv, TypeOK', [Next]_vars PROVE IInv'
  OBVIOUS
<1>1. CASE UNCHANGED vars
  BY <1>1 DEF vars, fplVars, runVars, IInv, EarlierAreFinished, SelectionStands,
              ObservationsAreOrdered, IdleRunHoldsNothing, select_live_gameweeks, InPlay, Stragglers
<1> QED
  BY <1>1, FplIInv, ResolveIInv, FetchIInv, EndIInv DEF Next, RunStep

\* The invariant holds in every reachable state.
THEOREM IInvHolds == Spec => []IInv
BY TypeCorrect, InitIInv, NextIInv, PTL DEF Spec

-----------------------------------------------------------------------------
(* What Bronze is relied on for.                                              *)

\* Of everything that could still move when the run asked for the flags, Bronze
\* holds points at least as new once the run has committed.
THEOREM EverythingThatMovesIsFetched == Spec => NothingThatMovesIsLeftBehind
<1> DEFINE Kept ==
      CommitRun /\ pc = "fetching" =>
        \A g \in Gameweeks : g <= asOf.current =>
          \/ bronze'[g] # None /\ bronze'[g] >= asOf.version[g]
          \/ g \in asOf.checked /\ g < asOf.current - 1
<1>1. IInv => Kept
  <2> SUFFICES ASSUME IInv, CommitRun, pc = "fetching",
                      NEW g \in Gameweeks, g <= asOf.current
               PROVE  \/ bronze'[g] # None /\ bronze'[g] >= asOf.version[g]
                      \/ g \in asOf.checked /\ g < asOf.current - 1
    OBVIOUS
  <2> USE Numbers DEF IInv
  <2>1. CASE g \in selection
    <3>1. fetched[g] # None /\ bronze'[g] = fetched[g]
      BY <2>1 DEF CommitRun, Unfetched
    <3> QED
      BY <3>1 DEF SelectionStands
  <2>2. CASE g \notin selection
    <3>1. g \notin InPlay(asOf) /\ g \notin Stragglers(asOf)
      BY <2>2 DEF SelectionStands, select_live_gameweeks
    <3>2. g < asOf.current - 1
      BY <3>1 DEF InPlay
    <3>3. g \in asOf.finished
      BY <3>2 DEF SelectionStands
    <3> QED
      BY <3>1, <3>2, <3>3 DEF Stragglers
  <2> QED
    BY <2>1, <2>2
<1>2. IInv /\ [Next]_vars => [Kept]_vars
  BY <1>1
<1> QED
  BY <1>2, IInvHolds, PTL DEF Spec, NothingThatMovesIsLeftBehind

\* The newest committed observation of a gameweek never gets older.
THEOREM ObservationsGoForward == Spec => ObservationsNeverGoBack
<1> DEFINE Forward == \A g \in Gameweeks : bronze[g] # None =>
                         bronze'[g] # None /\ bronze[g] <= bronze'[g]
<1>1. IInv /\ Next => Forward
  <2> SUFFICES ASSUME IInv, Next, NEW g \in Gameweeks, bronze[g] # None
               PROVE  bronze'[g] # None /\ bronze[g] <= bronze'[g]
    OBVIOUS
  <2> USE Numbers DEF IInv
  <2>1. CASE CommitRun
    <3>1. \/ bronze'[g] = bronze[g]
          \/ fetched[g] # None /\ bronze'[g] = fetched[g]
      BY <2>1 DEF CommitRun, Unfetched
    <3> QED
      BY <3>1 DEF ObservationsAreOrdered
  <2>2. CASE ~CommitRun
    <3>1. bronze' = bronze
      BY <2>2 DEF Next, FplStep, RunStep, Advance, Churn, FinishGameweek, Settle,
                  ResolveGameweeks, ResolveBlind, FetchLive, RunDies, runVars
    <3> QED
      BY <3>1
  <2> QED
    BY <2>1, <2>2
<1>2. IInv /\ [Next]_vars => [Forward]_vars
  BY <1>1
<1> QED
  BY <1>2, IInvHolds, PTL DEF Spec, ObservationsNeverGoBack
=============================================================================
