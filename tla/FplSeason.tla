----------------------------- MODULE FplSeason ------------------------------
(***************************************************************************)
(* The season as FPL's bootstrap-static and fixtures endpoints show it: what *)
(* one snapshot of the lake can hold.  FPL is external; every action here is *)
(* one that the comments of the Silver and Gold models rely on.             *)
(*                                                                         *)
(* The market (prices, players who leave) and the postponements are bounded  *)
(* together by MaxMoves; the rest ends by itself with the last gameweek.    *)
(***************************************************************************)
EXTENDS Integers, FiniteSets

CONSTANTS
  Teams,
  Fixtures,
  Card,          \* [fixture -> its two sides and the gameweek it starts in]
  LastGameweek,  \* 38 in FPL
  Results,       \* bound: the final scores matches may end with
  Players,       \* [1..n -> club, position and first price], by player_id
  MaxMoves,      \* bound: postponements, price changes and departures
  Null           \* SQL's NULL

Gameweeks == 1..LastGameweek
Sides     == {"home", "away"}
Score     == [Sides -> Nat]

ASSUME CardAssumption ==
  /\ LastGameweek \in Nat \ {0} /\ IsFiniteSet(Fixtures)
  /\ Card \in [Fixtures -> [home : [team : Teams, difficulty : 1..5],
                            away : [team : Teams, difficulty : 1..5],
                            gameweek : Gameweeks]]
  /\ \A f \in Fixtures : Card[f].home.team # Card[f].away.team
  /\ Results \subseteq Score
ASSUME MarketAssumption ==
  /\ IsFiniteSet(DOMAIN Players) /\ DOMAIN Players \subseteq Nat
  /\ \A p \in DOMAIN Players : Players[p].price \in Nat \ {0}
  /\ MaxMoves \in Nat
ASSUME NullAssumption ==
  Null \notin Gameweeks \cup Score \cup Nat \cup {"W", "D", "L"}

VARIABLES
  current,   \* the gameweek whose deadline passed last, 0 before the season
  finished,  \* gameweeks flagged finished
  slot,      \* the gameweek of each fixture, Null while it waits for one
  phase,     \* where each match is
  score,     \* its score, Null until it kicks off
  totals,    \* what the players' season totals describe
  price,     \* now_cost of each player
  pickable,  \* players who can be bought
  moves      \* bound counter

matchVars  == <<current, finished, slot, phase, score, totals>>
marketVars == <<price, pickable>>
vars       == <<matchVars, marketVars, moves>>

TypeOK ==
  /\ current \in 0..LastGameweek
  /\ finished \subseteq Gameweeks
  /\ slot \in [Fixtures -> Gameweeks \cup {Null}]
  /\ phase \in [Fixtures -> {"scheduled", "started", "finished"}]
  /\ score \in [Fixtures -> Score \cup {Null}]
  /\ totals \in {"prior", "zero", "this"}
  /\ price \in [DOMAIN Players -> Nat \ {0}]
  /\ pickable \subseteq DOMAIN Players
  /\ moves \in 0..MaxMoves

\* "Zero gameweeks are finished, and yet 400 of 568 players carry non-zero
\* total_points": the totals are still last season's.
Init ==
  /\ current = 0
  /\ finished = {}
  /\ slot = [f \in Fixtures |-> Card[f].gameweek]
  /\ phase = [f \in Fixtures |-> "scheduled"]
  /\ score = [f \in Fixtures |-> Null]
  /\ totals = "prior"
  /\ price = [p \in DOMAIN Players |-> Players[p].price]
  /\ pickable = DOMAIN Players
  /\ moves = 0

-----------------------------------------------------------------------------
(* The calendar. *)

\* "FPL zeroes the totals at some unannounced moment before GW1".
ResetTotals ==
  /\ current = 0 /\ totals = "prior"
  /\ totals' = "zero"
  /\ UNCHANGED <<current, finished, slot, phase, score, marketVars, moves>>

\* (mutant) A season without a last gameweek.
PassDeadlineForEver ==
  /\ IF current = 0 THEN totals = "zero" ELSE current \in finished
  /\ current' = current + 1
  /\ UNCHANGED <<finished, slot, phase, score, totals, marketVars, moves>>

\* The next deadline passes, after the matches of the gameweek before it.
PassDeadline ==
  /\ current < LastGameweek
  /\ IF current = 0 THEN totals = "zero" ELSE current \in finished
  /\ current' = current + 1
  /\ UNCHANGED <<finished, slot, phase, score, totals, marketVars, moves>>

EndGameweek ==
  /\ current # 0 /\ current \notin finished
  /\ \A f \in Fixtures : slot[f] = current => phase[f] = "finished"
  /\ finished' = finished \cup {current}
  /\ UNCHANGED <<current, slot, phase, score, totals, marketVars, moves>>

-----------------------------------------------------------------------------
(* The matches. *)

\* "A 0-0 that is still in progress has real scores and no result yet."  The
\* first minutes of a season may already be in the totals.
KickOff(f) ==
  /\ slot[f] = current /\ phase[f] = "scheduled"
  /\ phase' = [phase EXCEPT ![f] = "started"]
  /\ score' = [score EXCEPT ![f] = [s \in Sides |-> 0]]
  /\ totals' \in {totals, "this"}
  /\ UNCHANGED <<current, finished, slot, marketVars, moves>>

FinalWhistle(f) ==
  /\ phase[f] = "started"
  /\ phase' = [phase EXCEPT ![f] = "finished"]
  /\ \E r \in Results : score' = [score EXCEPT ![f] = r]
  /\ totals' = "this"
  /\ UNCHANGED <<current, finished, slot, marketVars, moves>>

\* "A postponement in November will null one out".
Postpone(f) ==
  /\ phase[f] = "scheduled" /\ slot[f] # Null
  /\ moves < MaxMoves /\ moves' = moves + 1
  /\ slot' = [slot EXCEPT ![f] = Null]
  /\ UNCHANGED <<current, finished, phase, score, totals, marketVars>>

\* It may become the second fixture of a team in its new gameweek.
Reschedule(f) ==
  /\ slot[f] = Null
  /\ \E g \in Gameweeks \ finished :
       /\ g >= current
       /\ slot' = [slot EXCEPT ![f] = g]
  /\ UNCHANGED <<current, finished, phase, score, totals, marketVars, moves>>

-----------------------------------------------------------------------------
(* The market: prices "rise all season", and a player who has left the league
   is "kept in the payload" with the last price. *)

PriceChange(p) ==
  /\ p \in pickable
  /\ moves < MaxMoves /\ moves' = moves + 1
  /\ \E c \in {price[p] - 1, price[p] + 1} \ {0} :
       price' = [price EXCEPT ![p] = c]
  /\ UNCHANGED <<matchVars, pickable>>

Depart(p) ==
  /\ p \in pickable
  /\ moves < MaxMoves /\ moves' = moves + 1
  /\ pickable' = pickable \ {p}
  /\ UNCHANGED <<matchVars, price>>

Next ==
  \/ ResetTotals \/ PassDeadline \/ EndGameweek
  \/ \E f \in Fixtures : KickOff(f) \/ FinalWhistle(f) \/ Postpone(f) \/ Reschedule(f)
  \/ \E p \in DOMAIN Players : PriceChange(p) \/ Depart(p)

Spec == Init /\ [][Next]_vars
=============================================================================
