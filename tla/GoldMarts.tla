----------------------------- MODULE GoldMarts ------------------------------
(***************************************************************************)
(* What the Gold models say of a snapshot of the season: fct_team_fixture,   *)
(* mart_team_fixture_run, mart_player_value and mart_position_scarcity, with *)
(* the singular tests that guard them.  Each is an operator on the state of  *)
(* FplSeason, so its properties are checked in every state of a season.     *)
(* That all of them read one snapshot is the subject of SnapshotBuild.      *)
(*                                                                         *)
(* The names are the models'; the averages and ranks, which add arithmetic   *)
(* and no case of their own, are left out.                                  *)
(***************************************************************************)
EXTENDS FplSeason, FiniteSetsExt, Functions

CONSTANTS
  Horizon,   \* fixture_horizon: gameweeks of the outlook, 5 in the project
  Required,  \* [position -> squad_required]
  ClubCap,   \* max_players_per_club
  Budget     \* in the unit of the prices

ASSUME RulesAssumption ==
  /\ Horizon \in Nat \ {0}
  /\ IsFiniteSet(DOMAIN Required) /\ Required \in [DOMAIN Required -> Nat \ {0}]
  /\ ClubCap \in Nat \ {0} /\ Budget \in Nat
  /\ \A p \in DOMAIN Players :
       Players[p].team \in Teams /\ Players[p].position \in DOMAIN Required

Other(s) == IF s = "home" THEN "away" ELSE "home"

-----------------------------------------------------------------------------
(* fct_team_fixture: a fixture seen from either dugout. *)

Goals(f, s) == IF score[f] = Null THEN Null ELSE score[f][s]

\* One branch of the union.
Columns(f, s) ==
  [is_home             |-> s = "home",
   team                |-> Card[f][s].team,
   opponent            |-> Card[f][Other(s)].team,
   difficulty          |-> Card[f][s].difficulty,
   opponent_difficulty |-> Card[f][Other(s)].difficulty,
   goals_for           |-> Goals(f, s),
   goals_against       |-> Goals(f, Other(s))]

\* (mutant) home_score left in place in the second branch.
HomeScoreLeft == [f \in Fixtures |-> [s \in Sides |->
  [Columns(f, s) EXCEPT !.goals_for = Goals(f, "home")]]]

\* "Once from each dugout": both branches of the union.
fct_team_fixture == [f \in Fixtures |-> [s \in Sides |-> Columns(f, s)]]

\* Gated on is_finished and not on the scores: 0-0 may still be in progress.
Result(f, s) ==
  LET row == fct_team_fixture[f][s]
  IN  CASE phase[f] # "finished" -> Null
        [] phase[f] = "finished" /\ row.goals_for > row.goals_against -> "W"
        [] phase[f] = "finished" /\ row.goals_for = row.goals_against -> "D"
        [] OTHER -> "L"

LeaguePoints(f, s) ==
  CASE Result(f, s) = Null -> Null
    [] Result(f, s) = "W" -> 3
    [] Result(f, s) = "D" -> 1
    [] Result(f, s) = "L" -> 0

\* The two rows of a fixture agree on its goals, and on its result once it is
\* finished: a win is a defeat for the other side, a draw is one for both.
BothDugoutsTellOneMatch ==
  \A f \in Fixtures :
    LET rows == fct_team_fixture[f]
    IN  /\ rows["home"].goals_for = rows["away"].goals_against
        /\ rows["away"].goals_for = rows["home"].goals_against
        /\ <<LeaguePoints(f, "home"), LeaguePoints(f, "away")>> \in
             IF phase[f] = "finished" THEN {<<3, 0>>, <<1, 1>>, <<0, 3>>}
                                      ELSE {<<Null, Null>>}

-----------------------------------------------------------------------------
(* assert_fixture_sides_balance, and the slips it is there for. *)

ColumnNames == {"is_home", "team", "opponent", "difficulty",
                "opponent_difficulty", "goals_for", "goals_against"}

\* The table with one column of one branch copied from the other branch.
Slipped(s, c) ==
  [f \in Fixtures |-> [fct_team_fixture[f] EXCEPT ![s][c] = Columns(f, Other(s))[c]]]

\* One row per side; the sides agree on who is playing whom; and on the
\* numbers, where NULL is not distinct from NULL.
assert_fixture_sides_balance(table) ==
  \A f \in Fixtures : \E h, a \in Sides :
    /\ table[f][h].is_home /\ ~table[f][a].is_home
    /\ table[f][h].opponent = table[f][a].team
    /\ table[f][a].opponent = table[f][h].team
    /\ table[f][h].difficulty = table[f][a].opponent_difficulty
    /\ table[f][a].difficulty = table[f][h].opponent_difficulty
    /\ table[f][h].goals_for = table[f][a].goals_against

-----------------------------------------------------------------------------
(* mart_team_fixture_run: the grid of gameweeks and the outlook over it. *)

\* The rows of fct_team_fixture that join a cell of the grid.
Matches(t, g) ==
  {f \in Fixtures : slot[f] = g /\ \E s \in Sides : fct_team_fixture[f][s].team = t}

\* The team's own row of one of its fixtures.
Row(t, f) == fct_team_fixture[f][CHOOSE s \in Sides : fct_team_fixture[f][s].team = t]

\* (mutant) No cross join: a gameweek without a match is no row.
RowsOfFixtures(t) == {g \in Gameweeks : Matches(t, g) # {}}

\* The cross join: every team has a row in every gameweek.
Grid(t) == Gameweeks

fixture_count(t, g)      == Cardinality(Matches(t, g))
home_fixture_count(t, g) == Cardinality({f \in Matches(t, g) : Row(t, f).is_home})

\* NULL on a blank: no difficulty is not zero difficulty.
total_difficulty(t, g) ==
  IF Matches(t, g) = {} THEN Null
  ELSE SumFunction([f \in Matches(t, g) |-> Row(t, f).difficulty])

\* rows between current row and Horizon - 1 following: it counts rows.
Frame(t, g) ==
  {h \in Grid(t) : h >= g /\ Cardinality({k \in Grid(t) : g < k /\ k <= h}) < Horizon}

\* sum(..) over horizon: NULLs are skipped, and nothing else is NULL.
SumOver(column) ==
  LET known == {h \in DOMAIN column : column[h] # Null}
  IN  IF known = {} THEN Null ELSE SumFunctionOnSet(column, known)

Outlook(t, g) ==
  [fixtures   |-> SumOver([h \in Frame(t, g) |-> fixture_count(t, h)]),
   difficulty |-> SumOver([h \in Frame(t, g) |-> total_difficulty(t, h)]),
   home       |-> SumOver([h \in Frame(t, g) |-> home_fixture_count(t, h)]),
   covered    |-> Cardinality(Frame(t, g)),
   is_partial |-> Cardinality(Frame(t, g)) < Horizon]

\* Read off the season: what a team has in the gameweeks g .. g + Horizon - 1.
Ahead(t, g) ==
  LET dates == {f \in Fixtures : slot[f] \in (g .. g + Horizon - 1) \cap Gameweeks}
      home  == {f \in dates : Card[f].home.team = t}
      away  == {f \in dates : Card[f].away.team = t}
  IN  [fixtures   |-> Cardinality(home \cup away),
       difficulty |-> IF home \cup away = {} THEN Null
                      ELSE SumFunction([f \in home |-> Card[f].home.difficulty])
                             + SumFunction([f \in away |-> Card[f].away.difficulty]),
       home       |-> Cardinality(home),
       covered    |-> IF g + Horizon - 1 > LastGameweek THEN LastGameweek - g + 1
                                                        ELSE Horizon,
       is_partial |-> g + Horizon - 1 > LastGameweek]

\* A frame of rows is the next gameweeks of the calendar, through blank and
\* double gameweeks, postponed matches and the end of the season.
HorizonIsTheNextGameweeks ==
  \A t \in Teams : \A g \in Grid(t) : Outlook(t, g) = Ahead(t, g)

-----------------------------------------------------------------------------
(* mart_player_value: the gameweek being planned, and whose points these are. *)

\* (mutant) The gameweek FPL flags is_current.
CurrentFlagged == IF current = 0 THEN Null ELSE current

\* The earliest gameweek that is not finished; min of nothing is NULL.
planning_gameweek ==
  LET open == Gameweeks \ finished IN IF open = {} THEN Null ELSE Min(open)

\* The left join of a club's outlook at the planning gameweek.
NextOutlook(t) ==
  IF planning_gameweek \in Grid(t) THEN Outlook(t, planning_gameweek) ELSE Null

\* Between gameweeks the outlook is about what is to come: it starts at the next
\* deadline and counts exactly the matches of the horizon not yet kicked off.
OutlookIsAhead ==
  current < LastGameweek /\ (current = 0 \/ current \in finished) =>
    /\ planning_gameweek = current + 1
    /\ \A t \in Teams : NextOutlook(t).fixtures =
         Cardinality({f \in Fixtures :
           /\ t \in {Card[f].home.team, Card[f].away.team}
           /\ phase[f] = "scheduled"
           /\ slot[f] # Null /\ slot[f] <= current + Horizon})

\* max(minutes) > 0 over the players.
SomebodyHasMinutes == totals # "zero"

\* (mutant) Keyed on is_current, which is false of every gameweek before the first.
PriorByFlag == current # 0 /\ finished = {} /\ SomebodyHasMinutes

\* "Players have minutes while no gameweek has been played."
points_are_prior_season == finished = {} /\ SomebodyHasMinutes

\* Last season's points are never shown without the label, for as long as FPL
\* leaves them there, and the label goes the moment FPL zeroes them: no flag of
\* FPL's and no date could tell these two states apart.  (points_provenance)
PriorTotalsAreFlagged ==
  /\ totals = "prior" => points_are_prior_season
  /\ totals = "zero" => ~points_are_prior_season

-----------------------------------------------------------------------------
(* mart_position_scarcity: the price floor of a squad. *)

\* (mutant) Players who have left keep their price.
EverybodyIn(pos) == {p \in DOMAIN Players : Players[p].position = pos}

\* is_pickable players of a position.
Pickable(pos) == {p \in pickable : Players[p].position = pos}

\* row_number() over (order by now_cost_gbp_m, player_id) <= squad_required
CheapestFill(pos) ==
  {p \in Pickable(pos) :
     Cardinality({q \in Pickable(pos) :
       price[q] < price[p] \/ (price[q] = price[p] /\ q < p)}) < Required[pos]}

Cost(squad) == SumFunctionOnSet(price, squad)

\* (mutant) A left join keeps its row.
LeftJoined == DOMAIN Required

\* The inner join: a position nobody can be bought in has no row.
MartPositions == {pos \in DOMAIN Required : CheapestFill(pos) # {}}

\* sum(cheapest_fill_gbp_m) over (): over all the rows.
minimum_squad == SumFunction([pos \in MartPositions |-> Cost(CheapestFill(pos))])

SquadSize == SumFunction(Required)

\* (mutant) A window over the row's own position.
WindowPerPosition ==
  [pos \in MartPositions |->
    [squad_required |-> Required[pos],
     cheapest_fill  |-> Cost(CheapestFill(pos)),
     minimum_squad  |-> Cost(CheapestFill(pos)),
     headroom       |-> Budget - Cost(CheapestFill(pos))]]

\* The rows of the mart, with the budget arithmetic on each of them.
mart_position_scarcity ==
  [pos \in MartPositions |->
    [squad_required |-> Required[pos],
     cheapest_fill  |-> Cost(CheapestFill(pos)),
     minimum_squad  |-> minimum_squad,
     headroom       |-> Budget - minimum_squad]]

\* a > b as DOUBLEs.  Prices are multiples of 0.1 and 85% of the budget is one of
\* 0.005, so a rounded sum is on the right side of anything but its equal; next to
\* that it may end up above.
Exceeds(a, b, above) == a > b \/ (a = b /\ above)

\* The floor fits the budget, with room to make choices; it is the sum of the fills
\* and the headroom is what it leaves; the slots of the rows add up to a squad.
\* Differences are held to 0.001, so to equality.  Over no rows at all every
\* aggregate is NULL, and a comparison with NULL fails nothing.
assert_minimum_squad_fits_budget(above) ==
  LET mart         == mart_position_scarcity
      floor        == Max({mart[pos].minimum_squad : pos \in DOMAIN mart})
      headroom     == Max({mart[pos].headroom : pos \in DOMAIN mart})
      summed_fill  == SumFunction([pos \in DOMAIN mart |-> mart[pos].cheapest_fill])
      squad_slots  == SumFunction([pos \in DOMAIN mart |-> mart[pos].squad_required])
  IN  DOMAIN mart # {} =>
        /\ ~Exceeds(floor, Budget, above)
        /\ ~Exceeds(floor * 100, Budget * 85, above)
        /\ floor = summed_fill
        /\ headroom = Budget - floor
        /\ squad_slots = SquadSize

\* Squads of buyable players with the required positions; the rules also cap
\* the players of one club.
Fills == {squad \in SUBSET pickable : \A pos \in DOMAIN Required :
            Cardinality({p \in squad : Players[p].position = pos}) = Required[pos]}
LegalSquads == {squad \in Fills : \A t \in Teams :
            Cardinality({p \in squad : Players[p].team = t}) <= ClubCap}

\* No legal squad is cheaper than minimum_squad, and where every position can
\* be filled a squad that ignores the clubs costs just that.
MinimumSquadIsTheFloor ==
  /\ \A squad \in LegalSquads : Cost(squad) >= minimum_squad
  /\ Fills # {} => \E squad \in Fills : Cost(squad) = minimum_squad

\* The build is not failed over the budget while a manager can still buy a legal
\* squad for less than 85% of it, whatever prices do, whoever leaves and however the
\* sums are rounded.  (assert_minimum_squad_fits_budget)
AffordableSquadsPassTheTest ==
  (\E squad \in LegalSquads : Cost(squad) * 100 < Budget * 85)
    => \A above \in BOOLEAN : assert_minimum_squad_fits_budget(above)

\* A mart that lost a position to the inner join never passes, however cheap the
\* positions it still has: the slots of its rows no longer make a squad.  Nothing
\* else about the supply is noticed: a position with too few players passes.
EmptiedPositionsAreNoticed ==
  MartPositions # {} =>
    \A above \in BOOLEAN :
      assert_minimum_squad_fits_budget(above)
        <=> /\ \A pos \in DOMAIN Required : Pickable(pos) # {}
            /\ ~Exceeds(minimum_squad * 100, Budget * 85, above)
=============================================================================
