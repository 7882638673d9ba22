---------------------------- MODULE GameweekPoll ----------------------------
(* Which gameweeks a load fetches live points for, and whether Bronze ends up
   with the final points of each.

   The endpoint event/{gw}/live/ is mutable: points churn while matches are
   played, and after the last whistle FPL still corrects them until it flags
   the gameweek data_checked, possibly together with one last correction.  A
   run asks bootstrap-static for the flags, selects gameweeks from them, and
   only then fetches these one by one; the game goes on meanwhile, runs are
   skipped, and a run that dies leaves nothing committed.

   The points of a gameweek are abstracted to a version number that every
   change increases: 0 before anything is known.  FPL itself is external and
   modelled from what gameweeks.py says of it.                               *)
EXTENDS Integers

CONSTANTS
    LastGameweek,  \* gameweeks of the season (38 in the code)
    MaxVersion,    \* bound: changes to the points of one gameweek
    MaxLost,       \* bound: runs that die or get no events
    None           \* no points

ASSUME BoundsAssumption ==
    /\ LastGameweek \in Nat \ {0}
    /\ MaxVersion \in Nat \ {0}
    /\ MaxLost \in Nat

Gameweeks == 1..LastGameweek
Versions  == 0..MaxVersion

VARIABLES
    current,    \* FPL: the gameweek whose deadline passed last, 0 in pre-season
    finished,   \* FPL: gameweeks whose matches are all played
    checked,    \* FPL: gameweeks flagged data_checked
    version,    \* FPL: the points of each gameweek
    pc,         \* where the ingest run is
    asOf,       \* what FPL looked like when the run asked for the flags
    selection,  \* the gameweeks the run fetches
    fetched,    \* the versions it has got so far
    bronze,     \* the newest committed observation of each gameweek
    straggled,  \* history: gameweeks a committed run fetched as stragglers
    lost        \* bound counter

fplVars == <<current, finished, checked, version>>
runVars == <<pc, asOf, selection, fetched, bronze, straggled, lost>>
vars    == <<fplVars, runVars>>

Fpl == [current : 0..LastGameweek, finished : SUBSET Gameweeks,
        checked : SUBSET Gameweeks, version : [Gameweeks -> Versions]]

TypeOK ==
    /\ current \in 0..LastGameweek
    /\ finished \subseteq Gameweeks
    /\ checked \subseteq Gameweeks
    /\ version \in [Gameweeks -> Versions]
    /\ pc \in {"idle", "fetching", "blind"}
    /\ asOf \in Fpl
    /\ selection \subseteq Gameweeks
    /\ fetched \in [Gameweeks -> Versions \cup {None}]
    /\ bronze \in [Gameweeks -> Versions \cup {None}]
    /\ straggled \subseteq Gameweeks
    /\ lost \in 0..MaxLost

PreSeason == [current |-> 0, finished |-> {}, checked |-> {},
              version |-> [g \in Gameweeks |-> 0]]

Init ==
    /\ current = 0
    /\ finished = {}
    /\ checked = {}
    /\ version = [g \in Gameweeks |-> 0]
    /\ pc = "idle"
    /\ asOf = PreSeason
    /\ selection = {}
    /\ fetched = [g \in Gameweeks |-> None]
    /\ bronze = [g \in Gameweeks |-> None]
    /\ straggled = {}
    /\ lost = 0

-----------------------------------------------------------------------------
(* The game, as gameweeks.py describes it. *)

\* The next deadline passes, after the matches of the gameweek before it.
Advance ==
    /\ current < LastGameweek
    /\ current # 0 => current \in finished
    /\ current' = current + 1
    /\ UNCHANGED <<finished, checked, version, runVars>>

Churn(g) ==
    /\ g <= current /\ g \notin checked
    /\ version[g] < MaxVersion
    /\ version' = [version EXCEPT ![g] = @ + 1]
    /\ UNCHANGED <<current, finished, checked, runVars>>

FinishGameweek ==
    /\ current # 0
    /\ finished' = finished \cup {current}
    /\ UNCHANGED <<current, checked, version, runVars>>

\* "FPL applies the final correction and flips the flag between two of our
\* polls": the points may move with the flag, and never after it.
Settle(g) ==
    /\ g \in finished \ checked
    /\ checked' = checked \cup {g}
    /\ \E v \in {version[g], version[g] + 1} \cap Versions :
          version' = [version EXCEPT ![g] = v]
    /\ UNCHANGED <<current, finished, runVars>>

-----------------------------------------------------------------------------
(* The run. *)

InPlay(fpl) == {g \in Gameweeks : g \in {fpl.current, fpl.current - 1}}

Stragglers(fpl) == (fpl.finished \ fpl.checked) \ InPlay(fpl)

\* (mutant) Drops is_previous once the gameweek is data_checked, as the rule
\* reads at first sight.
SelectUnsettled(fpl) ==
    ({fpl.current} \cap Gameweeks) \cup (fpl.finished \ fpl.checked)

\* (mutant) Leaves the straggler branch out.
SelectInPlay(fpl) == InPlay(fpl)

\* (mutant) Does not look for the gameweek before the first.
SelectTwo(fpl) == {fpl.current, fpl.current - 1} \cup Stragglers(fpl)

\* is_current and is_previous unconditionally, an earlier gameweek only while it
\* is finished and not data_checked.
select_live_gameweeks(fpl) == InPlay(fpl) \cup Stragglers(fpl)

Now == [current |-> current, finished |-> finished, checked |-> checked,
        version |-> version]

\* The run asks bootstrap-static for the flags, and the selection made from them
\* stands while the fetches happen.
ResolveGameweeks ==
    /\ pc = "idle"
    /\ pc' = "fetching"
    /\ asOf' = Now
    /\ selection' = select_live_gameweeks(Now)
    /\ UNCHANGED <<fplVars, fetched, bronze, straggled, lost>>

\* --backfill: the operator names the gameweeks and no flag is looked at; and
\* an answer without events selects nothing, which is not an error either.
ResolveBlind ==
    /\ pc = "idle"
    /\ lost < MaxLost
    /\ lost' = lost + 1
    /\ pc' = "blind"
    /\ \E named \in SUBSET Gameweeks : selection' = named
    /\ UNCHANGED <<fplVars, asOf, fetched, bronze, straggled>>

Unfetched == {g \in selection : fetched[g] = None}

\* The gameweeks are fetched in ascending order, each as it is by then; one
\* that has not begun answers with no rows, which is version 0 too.
FetchLive(g) ==
    /\ pc \in {"fetching", "blind"}
    /\ g \in Unfetched
    /\ \A h \in Unfetched : g <= h
    /\ fetched' = [fetched EXCEPT ![g] = version[g]]
    /\ UNCHANGED <<fplVars, pc, asOf, selection, bronze, straggled, lost>>

\* The process is gone, and all it knew with it.
EndRun ==
    /\ pc' = "idle"
    /\ asOf' = PreSeason
    /\ selection' = {}
    /\ fetched' = [g \in Gameweeks |-> None]

\* (mutant) Loads event_live with the replace disposition.
CommitReplacing ==
    /\ pc \in {"fetching", "blind"}
    /\ Unfetched = {}
    /\ bronze' = fetched
    /\ straggled' = straggled \cup (IF pc = "fetching" THEN Stragglers(asOf) ELSE {})
    /\ EndRun
    /\ UNCHANGED <<fplVars, lost>>

\* dlt appends all the rows of the load and commits them at once.
CommitRun ==
    /\ pc \in {"fetching", "blind"}
    /\ Unfetched = {}
    /\ EndRun
    /\ bronze' = [g \in Gameweeks |-> IF g \in selection THEN fetched[g] ELSE bronze[g]]
    /\ straggled' = straggled \cup (IF pc = "fetching" THEN Stragglers(asOf) ELSE {})
    /\ UNCHANGED <<fplVars, lost>>

\* A request that fails for good fails the run, and a killed run commits
\* nothing: the rows fetched so far are dropped with it.
RunDies ==
    /\ pc \in {"fetching", "blind"}
    /\ lost < MaxLost
    /\ lost' = lost + 1
    /\ EndRun
    /\ UNCHANGED <<fplVars, bronze, straggled>>

FplStep ==
    \/ Advance
    \/ FinishGameweek
    \/ \E g \in Gameweeks : Churn(g) \/ Settle(g)

RunStep ==
    \/ ResolveGameweeks
    \/ \E g \in Gameweeks : FetchLive(g)
    \/ CommitRun

Next == FplStep \/ RunStep \/ ResolveBlind \/ RunDies

Spec == Init /\ [][Next]_vars

\* The cron entry runs the ingest every day, and a run gets on.  Nothing is
\* assumed of the game: it may stop, or pass deadlines at any moment.
FairSpec == Spec /\ WF_vars(RunStep)

-----------------------------------------------------------------------------
(* Properties. *)

Holds(g, v) == bronze[g] # None /\ bronze[g] >= v

\* The rule's promise: re-fetch anything that can still move.  When a run that
\* selected by itself has committed, Bronze holds, of every gameweek that had
\* begun, points at least as new as those FPL had when the run asked for the
\* flags, unless the gameweek was settled and two deadlines back by then.
\* However the game went on while the run was fetching.
NothingThatMovesIsLeftBehind ==
    [][ CommitRun /\ pc = "fetching" =>
            \A g \in Gameweeks : g <= asOf.current =>
                \/ bronze'[g] # None /\ bronze'[g] >= asOf.version[g]
                \/ g \in asOf.checked /\ g < asOf.current - 1 ]_vars

\* Taking is_previous unconditionally "guarantees at least one post-settlement
\* fetch": once a gameweek is settled within the gameweek after it, Bronze comes
\* to hold its final points unless the next deadline passes first.  In
\* particular the last two gameweeks of the season always arrive.
SettledPointsArrive ==
    \A g \in Gameweeks :
        (g \in checked /\ g >= current - 1) ~> (Holds(g, version[g]) \/ g < current - 1)

\* Bronze never loses ground: whatever is skipped, dies or is fetched again, the
\* newest committed observation of a gameweek never gets older.
ObservationsNeverGoBack ==
    [][\A g \in Gameweeks : bronze[g] # None =>
          bronze'[g] # None /\ bronze[g] <= bronze'[g]]_vars

\* The straggler rule, as its test has it: "a later run recovers it instead of
\* leaving Bronze permanently stale for that week".
StragglersAreRecovered ==
    [][ CommitRun /\ pc = "fetching" =>
            \A g \in straggled \cap asOf.checked : bronze'[g] >= asOf.version[g] ]_vars
=============================================================================
