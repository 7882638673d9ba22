-------------------------- MODULE GoldMarts_proofs --------------------------
(***************************************************************************)
(* What holds of the Gold models for every season, card, horizon and market. *)
(* The sums over frames and squads are folds; SumTheorems has their laws.    *)
(***************************************************************************)
EXTENDS GoldMarts, SumTheorems, TLAPS

-----------------------------------------------------------------------------
(* Types. *)

\* The state before the season has its types.
LEMMA InitTypes == Init => TypeOK
BY CardAssumption, MarketAssumption
DEF Init, TypeOK, Gameweeks, Sides

\* What the steps of a match write.
LEMMA MatchTypes ==
  ASSUME TypeOK, NEW f \in Fixtures,
         KickOff(f) \/ FinalWhistle(f) \/ Postpone(f) \/ Reschedule(f)
  PROVE  TypeOK'
<1>1. CASE KickOff(f)
  <2>1. [s \in Sides |-> 0] \in Score BY DEF Score
  <2>2. score' \in [Fixtures -> Score \cup {Null}] BY <1>1, <2>1 DEF TypeOK, KickOff
  <2>3. totals' \in {"prior", "zero", "this"} BY <1>1 DEF TypeOK, KickOff
  <2>4. phase' \in [Fixtures -> {"scheduled", "started", "finished"}]
        BY <1>1 DEF TypeOK, KickOff
  <2> QED BY <1>1, <2>2, <2>3, <2>4 DEF TypeOK, KickOff, marketVars
<1>2. CASE FinalWhistle(f)
  <2>1. score' \in [Fixtures -> Score \cup {Null}]
        BY <1>2, CardAssumption DEF TypeOK, FinalWhistle
  <2>2. phase' \in [Fixtures -> {"scheduled", "started", "finished"}]
        BY <1>2 DEF TypeOK, FinalWhistle
  <2>3. totals' \in {"prior", "zero", "this"} BY <1>2 DEF FinalWhistle
  <2> QED BY <1>2, <2>1, <2>2, <2>3 DEF TypeOK, FinalWhistle, marketVars
<1>3. CASE Postpone(f)
  <2>1. slot' \in [Fixtures -> Gameweeks \cup {Null}] BY <1>3 DEF TypeOK, Postpone
  <2>2. moves' \in 0..MaxMoves BY <1>3, MarketAssumption DEF TypeOK, Postpone
  <2> QED BY <1>3, <2>1, <2>2 DEF TypeOK, Postpone, marketVars
<1>4. CASE Reschedule(f)
  <2>1. slot' \in [Fixtures -> Gameweeks \cup {Null}] BY <1>4 DEF TypeOK, Reschedule
  <2> QED BY <1>4, <2>1 DEF TypeOK, Reschedule, marketVars
<1> QED BY <1>1, <1>2, <1>3, <1>4

\* What FPL may do next keeps them.
LEMMA StepTypes == TypeOK /\ [Next]_vars => TypeOK'
<1> SUFFICES ASSUME TypeOK, [Next]_vars PROVE TypeOK' OBVIOUS
<1>1. CASE ResetTotals BY <1>1 DEF TypeOK, ResetTotals, marketVars
<1>2. CASE PassDeadline
  <2>1. current' \in 0..LastGameweek
        BY <1>2, CardAssumption DEF TypeOK, PassDeadline
  <2> QED BY <1>2, <2>1 DEF TypeOK, PassDeadline, marketVars
<1>3. CASE EndGameweek
  <2>1. current \in Gameweeks BY <1>3, CardAssumption DEF TypeOK, EndGameweek, Gameweeks
  <2> QED BY <1>3, <2>1 DEF TypeOK, EndGameweek, marketVars
<1>4. ASSUME NEW f \in Fixtures,
             KickOff(f) \/ FinalWhistle(f) \/ Postpone(f) \/ Reschedule(f)
      PROVE  TypeOK'
      BY <1>4, MatchTypes
<1>5. ASSUME NEW p \in DOMAIN Players, PriceChange(p) PROVE TypeOK'
  <2>1. PICK c \in {price[p] - 1, price[p] + 1} \ {0} : price' = [price EXCEPT ![p] = c]
        BY <1>5 DEF PriceChange
  <2>2. price[p] \in Nat \ {0} BY DEF TypeOK
  <2>3. c \in Nat \ {0} BY <2>1, <2>2
  <2>4. price' \in [DOMAIN Players -> Nat \ {0}] BY <2>1, <2>3 DEF TypeOK
  <2>5. moves' \in 0..MaxMoves BY <1>5, MarketAssumption DEF TypeOK, PriceChange
  <2> QED BY <1>5, <2>4, <2>5 DEF TypeOK, PriceChange, matchVars
<1>6. ASSUME NEW p \in DOMAIN Players, Depart(p) PROVE TypeOK'
  <2>1. moves' \in 0..MaxMoves BY <1>6, MarketAssumption DEF TypeOK, Depart
  <2>2. pickable' \subseteq DOMAIN Players BY <1>6 DEF TypeOK, Depart
  <2> QED BY <1>6, <2>1, <2>2 DEF TypeOK, Depart, matchVars
<1>7. CASE UNCHANGED vars BY <1>7 DEF TypeOK, vars, matchVars, marketVars
<1> QED BY <1>1, <1>2, <1>3, <1>4, <1>5, <1>6, <1>7 DEF Next

\* The season stays in its types, whatever the card, the market and the bounds.
THEOREM TypeCorrect == Spec => []TypeOK
BY InitTypes, StepTypes, PTL DEF Spec

-----------------------------------------------------------------------------
(* The calendar: gameweeks finish in order, nothing kicks off before the first
   deadline, and last season's totals are gone by then. *)

Season ==
  /\ finished = 1..current \/ (current # 0 /\ finished = 1..(current - 1))
  /\ current = 0 => totals # "this" /\ \A f \in Fixtures : phase[f] = "scheduled"
  /\ totals = "prior" => current = 0
  /\ \A f \in Fixtures : phase[f] = "finished" => score[f] \in Score

\* Every move of FPL keeps the season in order.
LEMMA StepSeason == TypeOK /\ Season /\ [Next]_vars => Season'
<1> SUFFICES ASSUME TypeOK, Season, [Next]_vars PROVE Season' OBVIOUS
<1>1. CASE ResetTotals BY <1>1 DEF Season, ResetTotals
<1>2. CASE PassDeadline
  <2>1. current \in Nat BY DEF TypeOK
  <2>2. finished = 1..current BY <1>2, <2>1 DEF PassDeadline, Season
  <2>3. current' = current + 1 /\ finished' = 1..(current' - 1)
        BY <1>2, <2>1, <2>2 DEF PassDeadline
  <2>4. totals' # "prior" BY <1>2, <2>1 DEF PassDeadline, Season
  <2> QED BY <1>2, <2>1, <2>3, <2>4 DEF Season, PassDeadline
<1>3. CASE EndGameweek
  <2>1. current \in Nat \ {0} BY <1>3 DEF TypeOK, EndGameweek
  <2>2. finished' = 1..current BY <1>3, <2>1 DEF EndGameweek, Season
  <2> QED BY <1>3, <2>1, <2>2 DEF Season, EndGameweek
<1>4. ASSUME NEW f \in Fixtures, KickOff(f) PROVE Season'
  <2>1. slot[f] \in Gameweeks \cup {Null} BY DEF TypeOK
  <2>2. current # 0 BY <1>4, <2>1, NullAssumption DEF KickOff, Gameweeks
  <2>3. totals # "prior" BY <2>2 DEF Season
  <2>4. totals' # "prior" BY <1>4, <2>3 DEF KickOff
  <2>5. \A e \in Fixtures : phase'[e] = "finished" => score'[e] \in Score
        BY <1>4 DEF KickOff, Season, TypeOK
  <2> QED BY <1>4, <2>2, <2>4, <2>5 DEF Season, KickOff
<1>5. ASSUME NEW f \in Fixtures, FinalWhistle(f) PROVE Season'
  <2>1. current # 0 BY <1>5 DEF FinalWhistle, Season
  <2>2. \A e \in Fixtures : phase'[e] = "finished" => score'[e] \in Score
        BY <1>5, CardAssumption DEF FinalWhistle, Season, TypeOK
  <2> QED BY <1>5, <2>1, <2>2 DEF Season, FinalWhistle
<1>6. ASSUME NEW f \in Fixtures, Postpone(f) \/ Reschedule(f) PROVE Season'
      BY <1>6 DEF Season, Postpone, Reschedule
<1>7. ASSUME NEW p \in DOMAIN Players, PriceChange(p) \/ Depart(p) PROVE Season'
      BY <1>7 DEF Season, PriceChange, Depart, matchVars
<1>8. CASE UNCHANGED vars BY <1>8 DEF Season, vars, matchVars
<1> QED BY <1>1, <1>2, <1>3, <1>4, <1>5, <1>6, <1>7, <1>8 DEF Next

\* The season begins in order.
LEMMA InitSeason == Init => Season
BY DEF Init, Season

\* The calendar facts the marts rely on hold throughout.
THEOREM SeasonsRunInOrder == Spec => []Season
BY TypeCorrect, InitSeason, StepSeason, PTL DEF Spec

\* When the label is wrong: while the first gameweek is being played, this season's
\* minutes count as last season's.
FlagIsWrongInTheFirstGameweek ==
  /\ totals = "prior" => points_are_prior_season
  /\ points_are_prior_season /\ totals # "prior"
       <=> totals = "this" /\ current = 1 /\ 1 \notin finished

\* The label of mart_player_value, for every card, horizon and length of season:
\* it never misses last season's points, and it is given to this season's while the
\* first gameweek is being played, and only then.
THEOREM FlagsAreRightButForTheFirstGameweek == Spec => []FlagIsWrongInTheFirstGameweek
<1>1. TypeOK /\ Season => FlagIsWrongInTheFirstGameweek
  <2> SUFFICES ASSUME TypeOK, Season PROVE FlagIsWrongInTheFirstGameweek OBVIOUS
  <2>1. current \in Nat BY DEF TypeOK
  <2>2. finished = {} <=> current = 0 \/ (current = 1 /\ 1 \notin finished)
        BY <2>1 DEF Season
  <2>3. totals \in {"prior", "zero", "this"} BY DEF TypeOK
  <2>4. totals = "prior" => current = 0 BY DEF Season
  <2>5. totals = "this" => current # 0 BY DEF Season
  <2> QED BY <2>2, <2>3, <2>4, <2>5
       DEF FlagIsWrongInTheFirstGameweek, points_are_prior_season, SomebodyHasMinutes
<1> QED BY <1>1, TypeCorrect, SeasonsRunInOrder, PTL

\* Last season's totals are labelled for as long as they stand, and zeroed ones are
\* not, for every card and length of season.
THEOREM PriorTotalsAreAlwaysFlagged == Spec => []PriorTotalsAreFlagged
<1>1. FlagIsWrongInTheFirstGameweek => PriorTotalsAreFlagged
      BY DEF FlagIsWrongInTheFirstGameweek, PriorTotalsAreFlagged
<1> QED BY <1>1, FlagsAreRightButForTheFirstGameweek, PTL

-----------------------------------------------------------------------------
(* fct_team_fixture. *)

\* The two branches, column by column.
LEMMA BothBranches ==
  ASSUME NEW f \in Fixtures
  PROVE  /\ fct_team_fixture[f] = [s \in Sides |-> Columns(f, s)]
         /\ fct_team_fixture[f]["home"] = Columns(f, "home")
         /\ fct_team_fixture[f]["away"] = Columns(f, "away")
BY DEF fct_team_fixture, Sides

\* The two rows of a fixture agree on its goals and its result.
THEOREM DugoutsAgree == Spec => []BothDugoutsTellOneMatch
<1>1. TypeOK /\ Season => BothDugoutsTellOneMatch
  <2> SUFFICES ASSUME TypeOK, Season, NEW f \in Fixtures
               PROVE  /\ fct_team_fixture[f]["home"].goals_for
                           = fct_team_fixture[f]["away"].goals_against
                      /\ fct_team_fixture[f]["away"].goals_for
                           = fct_team_fixture[f]["home"].goals_against
                      /\ <<LeaguePoints(f, "home"), LeaguePoints(f, "away")>> \in
                           IF phase[f] = "finished" THEN {<<3, 0>>, <<1, 1>>, <<0, 3>>}
                                                    ELSE {<<Null, Null>>}
      BY DEF BothDugoutsTellOneMatch
  <2>1. /\ fct_team_fixture[f]["home"].goals_for = Goals(f, "home")
        /\ fct_team_fixture[f]["home"].goals_against = Goals(f, "away")
        /\ fct_team_fixture[f]["away"].goals_for = Goals(f, "away")
        /\ fct_team_fixture[f]["away"].goals_against = Goals(f, "home")
    <3>1. Other("home") = "away" /\ Other("away") = "home" BY DEF Other
    <3>2. /\ fct_team_fixture[f]["home"] = Columns(f, "home")
          /\ fct_team_fixture[f]["away"] = Columns(f, "away")
          BY BothBranches
    <3>3. /\ Columns(f, "home").goals_for = Goals(f, "home")
          /\ Columns(f, "home").goals_against = Goals(f, Other("home"))
          /\ Columns(f, "away").goals_for = Goals(f, "away")
          /\ Columns(f, "away").goals_against = Goals(f, Other("away"))
          BY DEF Columns
    <3> QED BY <3>1, <3>2, <3>3
  <2>2. CASE phase[f] # "finished"
    <3>1. Result(f, "home") = Null /\ Result(f, "away") = Null BY <2>2 DEF Result
    <3>2. LeaguePoints(f, "home") = Null /\ LeaguePoints(f, "away") = Null
          BY <3>1, NullAssumption DEF LeaguePoints
    <3> QED BY <2>1, <2>2, <3>2
  <2>3. CASE phase[f] = "finished"
    <3>1. score[f] \in Score /\ score[f] # Null
          BY <2>3, NullAssumption DEF Season
    <3>2. Goals(f, "home") \in Nat /\ Goals(f, "away") \in Nat
          BY <3>1 DEF Goals, Score, Sides
    <3>3. /\ Goals(f, "home") > Goals(f, "away")
               => Result(f, "home") = "W" /\ Result(f, "away") = "L"
          /\ Goals(f, "home") = Goals(f, "away")
               => Result(f, "home") = "D" /\ Result(f, "away") = "D"
          /\ Goals(f, "home") < Goals(f, "away")
               => Result(f, "home") = "L" /\ Result(f, "away") = "W"
          BY <2>1, <2>3, <3>2 DEF Result
    <3> QED BY <2>1, <2>3, <3>2, <3>3, NullAssumption DEF LeaguePoints
  <2> QED BY <2>2, <2>3
<1> QED BY <1>1, TypeCorrect, SeasonsRunInOrder, PTL

-----------------------------------------------------------------------------
(* assert_fixture_sides_balance. *)

\* The goals the test never reads.
Unread == {<<"away", "goals_for">>, <<"home", "goals_against">>}

\* Which slips pass: those that make no difference, and those in the goals nobody
\* reads.
OnlyUnreadSlipsPass ==
  /\ assert_fixture_sides_balance(fct_team_fixture)
  /\ \A s \in Sides, c \in ColumnNames :
       assert_fixture_sides_balance(Slipped(s, c))
         <=> Slipped(s, c) = fct_team_fixture \/ <<s, c>> \in Unread

\* What the test asks of one fixture.
Agrees(table, f) == \E h, a \in Sides :
    /\ table[f][h].is_home /\ ~table[f][a].is_home
    /\ table[f][h].opponent = table[f][a].team
    /\ table[f][a].opponent = table[f][h].team
    /\ table[f][h].difficulty = table[f][a].opponent_difficulty
    /\ table[f][a].difficulty = table[f][h].opponent_difficulty
    /\ table[f][h].goals_for = table[f][a].goals_against

\* The columns two rows share, for the fixture f and the branch s.
Same(f, s, c) == Columns(f, Other(s))[c] = Columns(f, s)[c]

\* A row is a function on the column names.
LEMMA ColumnRecords ==
  ASSUME NEW f \in Fixtures, NEW s \in Sides
  PROVE  Columns(f, s) = [c \in ColumnNames |-> Columns(f, s)[c]]
<1>1. DOMAIN Columns(f, s) = ColumnNames BY DEF Columns, ColumnNames
<1> QED BY <1>1 DEF Columns, ColumnNames

\* A slip changes one column of one row.
LEMMA SlippedRows ==
  ASSUME NEW f \in Fixtures, NEW s \in Sides, NEW c \in ColumnNames
  PROVE  /\ Slipped(s, c)[f][s] = [Columns(f, s) EXCEPT ![c] = Columns(f, Other(s))[c]]
         /\ Slipped(s, c)[f][Other(s)] = Columns(f, Other(s))
         /\ Slipped(s, c)[f] \in [Sides -> {Slipped(s, c)[f][x] : x \in Sides}]
<1>1. Slipped(s, c)[f]
        = [fct_team_fixture[f] EXCEPT ![s][c] = Columns(f, Other(s))[c]]
      BY DEF Slipped
<1>2. fct_team_fixture[f] = [x \in Sides |-> Columns(f, x)] BY BothBranches
<1>3. Other(s) \in Sides /\ Other(s) # s BY DEF Other, Sides
<1> QED BY <1>1, <1>2, <1>3

LEMMA SlipIsNone ==
  ASSUME NEW s \in Sides, NEW c \in ColumnNames
  PROVE  Slipped(s, c) = fct_team_fixture <=> \A f \in Fixtures : Same(f, s, c)
<1>1. ASSUME NEW f \in Fixtures
      PROVE  Slipped(s, c)[f] = fct_team_fixture[f] <=> Same(f, s, c)
  <2>1. fct_team_fixture[f] = [x \in Sides |-> Columns(f, x)] BY BothBranches
  <2>2. Slipped(s, c)[f]
          = [fct_team_fixture[f] EXCEPT ![s][c] = Columns(f, Other(s))[c]]
        BY DEF Slipped
  <2>3. ASSUME Slipped(s, c)[f] = fct_team_fixture[f] PROVE Same(f, s, c)
    <3>1. [Columns(f, s) EXCEPT ![c] = Columns(f, Other(s))[c]] = Columns(f, s)
      <4>1. Slipped(s, c)[f][s]
              = [Columns(f, s) EXCEPT ![c] = Columns(f, Other(s))[c]]
            BY SlippedRows
      <4>2. fct_team_fixture[f][s] = Columns(f, s) BY <2>1
      <4> QED BY <2>3, <4>1, <4>2
    <3>2. c \in DOMAIN Columns(f, s) BY ColumnRecords
    <3>3. [Columns(f, s) EXCEPT ![c] = Columns(f, Other(s))[c]][c]
            = Columns(f, Other(s))[c]
          BY <3>2
    <3> QED BY <3>1, <3>3 DEF Same
  <2>4. ASSUME Same(f, s, c) PROVE Slipped(s, c)[f] = fct_team_fixture[f]
    <3>0. Columns(f, s) = [d \in ColumnNames |-> Columns(f, s)[d]] BY ColumnRecords
    <3>1. [Columns(f, s) EXCEPT ![c] = Columns(f, Other(s))[c]] = Columns(f, s)
          BY <2>4, <3>0 DEF Same
    <3>2. [fct_team_fixture[f] EXCEPT ![s] = Columns(f, s)] = fct_team_fixture[f]
          BY <2>1
    <3> QED BY <2>1, <2>2, <3>1, <3>2
  <2> QED BY <2>3, <2>4
<1>2. /\ Slipped(s, c) = [f \in Fixtures |-> Slipped(s, c)[f]]
      /\ fct_team_fixture = [f \in Fixtures |-> fct_team_fixture[f]]
      BY DEF Slipped, fct_team_fixture
<1> QED BY <1>1, <1>2

\* What the test asks of a fixture whose is_home was not touched.
LEMMA HomeAndAway ==
  ASSUME NEW table, NEW f,
         table[f]["home"].is_home, ~table[f]["away"].is_home
  PROVE  Agrees(table, f) <=>
           /\ table[f]["home"].opponent = table[f]["away"].team
           /\ table[f]["away"].opponent = table[f]["home"].team
           /\ table[f]["home"].difficulty = table[f]["away"].opponent_difficulty
           /\ table[f]["away"].difficulty = table[f]["home"].opponent_difficulty
           /\ table[f]["home"].goals_for = table[f]["away"].goals_against
BY DEF Agrees, Sides

\* What the columns of a fixture say.
LEMMA ColumnValues ==
  ASSUME NEW f \in Fixtures
  PROVE  /\ Columns(f, "home") =
              [is_home |-> TRUE,
               team |-> Card[f].home.team, opponent |-> Card[f].away.team,
               difficulty |-> Card[f].home.difficulty,
               opponent_difficulty |-> Card[f].away.difficulty,
               goals_for |-> Goals(f, "home"), goals_against |-> Goals(f, "away")]
         /\ Columns(f, "away") =
              [is_home |-> FALSE,
               team |-> Card[f].away.team, opponent |-> Card[f].home.team,
               difficulty |-> Card[f].away.difficulty,
               opponent_difficulty |-> Card[f].home.difficulty,
               goals_for |-> Goals(f, "away"), goals_against |-> Goals(f, "home")]
         /\ Card[f].home.team # Card[f].away.team
<1>1. Other("home") = "away" /\ Other("away") = "home" BY DEF Other
<1>2. Columns(f, "home") =
        [is_home |-> TRUE,
         team |-> Card[f].home.team, opponent |-> Card[f].away.team,
         difficulty |-> Card[f].home.difficulty,
         opponent_difficulty |-> Card[f].away.difficulty,
         goals_for |-> Goals(f, "home"), goals_against |-> Goals(f, "away")]
      BY <1>1 DEF Columns
<1>3. Columns(f, "away") =
        [is_home |-> FALSE,
         team |-> Card[f].away.team, opponent |-> Card[f].home.team,
         difficulty |-> Card[f].away.difficulty,
         opponent_difficulty |-> Card[f].home.difficulty,
         goals_for |-> Goals(f, "away"), goals_against |-> Goals(f, "home")]
      BY <1>1 DEF Columns
<1> QED BY <1>2, <1>3, CardAssumption

\* One fixture passes with a slipped column only if the slip makes no difference
\* to it, or falls on the goals the test does not read.
LEMMA SlipOfOneFixture ==
  ASSUME NEW f \in Fixtures, NEW s \in Sides, NEW c \in ColumnNames
  PROVE  Agrees(Slipped(s, c), f) <=> Same(f, s, c) \/ <<s, c>> \in Unread
<1> DEFINE h == Slipped(s, c)[f]["home"]
           a == Slipped(s, c)[f]["away"]
<1>1. CASE s = "home"
  <2>1. Other(s) = "away" BY <1>1 DEF Other
  <2>2. /\ h = [Columns(f, "home") EXCEPT ![c] = Columns(f, "away")[c]]
        /\ a = Columns(f, "away")
        BY <1>1, <2>1, SlippedRows
  <2>3. <<s, c>> \in Unread <=> c = "goals_against" BY <1>1 DEF Unread
  <2>4. Same(f, s, c) <=> Columns(f, "away")[c] = Columns(f, "home")[c]
        BY <1>1, <2>1 DEF Same
  <2>5. CASE c = "is_home"
    <3>1. ~h.is_home /\ ~a.is_home BY <2>2, <2>5, ColumnValues
    <3>2. ~Agrees(Slipped(s, c), f) BY <3>1 DEF Agrees, Sides
    <3> QED BY <2>3, <2>4, <2>5, <3>2, ColumnValues
  <2>6. CASE c # "is_home"
    <3>1. h.is_home /\ ~a.is_home BY <2>2, <2>6, ColumnValues
    <3>2. Agrees(Slipped(s, c), f) <=>
            /\ h.opponent = a.team /\ a.opponent = h.team
            /\ h.difficulty = a.opponent_difficulty
            /\ a.difficulty = h.opponent_difficulty
            /\ h.goals_for = a.goals_against
          BY <3>1, HomeAndAway
    <3>3. CASE c = "team" BY <2>2, <2>3, <2>4, <3>2, <3>3, ColumnValues
    <3>4. CASE c = "opponent" BY <2>2, <2>3, <2>4, <3>2, <3>4, ColumnValues
    <3>5. CASE c = "difficulty" BY <2>2, <2>3, <2>4, <3>2, <3>5, ColumnValues
    <3>6. CASE c = "opponent_difficulty" BY <2>2, <2>3, <2>4, <3>2, <3>6, ColumnValues
    <3>7. CASE c = "goals_for" BY <2>2, <2>3, <2>4, <3>2, <3>7, ColumnValues
    <3>8. CASE c = "goals_against" BY <2>2, <2>3, <2>4, <3>2, <3>8, ColumnValues
    <3> QED BY <2>6, <3>3, <3>4, <3>5, <3>6, <3>7, <3>8 DEF ColumnNames
  <2> QED BY <2>5, <2>6
<1>2. CASE s = "away"
  <2>1. Other(s) = "home" BY <1>2 DEF Other
  <2>2. /\ a = [Columns(f, "away") EXCEPT ![c] = Columns(f, "home")[c]]
        /\ h = Columns(f, "home")
    <3>1. Slipped(s, c)[f][s] = [Columns(f, s) EXCEPT ![c] = Columns(f, Other(s))[c]]
          BY SlippedRows
    <3>2. Slipped(s, c)[f][Other(s)] = Columns(f, Other(s)) BY SlippedRows
    <3> QED BY <1>2, <2>1, <3>1, <3>2
  <2>3. <<s, c>> \in Unread <=> c = "goals_for" BY <1>2 DEF Unread
  <2>4. Same(f, s, c) <=> Columns(f, "home")[c] = Columns(f, "away")[c]
        BY <1>2, <2>1 DEF Same
  <2>5. CASE c = "is_home"
    <3>1. h.is_home /\ a.is_home BY <2>2, <2>5, ColumnValues
    <3>2. ~Agrees(Slipped(s, c), f) BY <3>1 DEF Agrees, Sides
    <3> QED BY <2>3, <2>4, <2>5, <3>2, ColumnValues
  <2>6. CASE c # "is_home"
    <3>1. h.is_home /\ ~a.is_home BY <2>2, <2>6, ColumnValues
    <3>2. Agrees(Slipped(s, c), f) <=>
            /\ h.opponent = a.team /\ a.opponent = h.team
            /\ h.difficulty = a.opponent_difficulty
            /\ a.difficulty = h.opponent_difficulty
            /\ h.goals_for = a.goals_against
          BY <3>1, HomeAndAway
    <3>3. CASE c = "team" BY <2>2, <2>3, <2>4, <3>2, <3>3, ColumnValues
    <3>4. CASE c = "opponent" BY <2>2, <2>3, <2>4, <3>2, <3>4, ColumnValues
    <3>5. CASE c = "difficulty" BY <2>2, <2>3, <2>4, <3>2, <3>5, ColumnValues
    <3>6. CASE c = "opponent_difficulty" BY <2>2, <2>3, <2>4, <3>2, <3>6, ColumnValues
    <3>7. CASE c = "goals_for" BY <2>2, <2>3, <2>4, <3>2, <3>7, ColumnValues
    <3>8. CASE c = "goals_against" BY <2>2, <2>3, <2>4, <3>2, <3>8, ColumnValues
    <3> QED BY <2>6, <3>3, <3>4, <3>5, <3>6, <3>7, <3>8 DEF ColumnNames
  <2> QED BY <2>5, <2>6
<1> QED BY <1>1, <1>2 DEF Sides

\* The balance test finds every copied column that makes a difference, but for
\* the goals it does not read, and accepts the table as it is written: on every
\* card and at every score.
THEOREM OnlyUnreadGoalsPass == Spec => []OnlyUnreadSlipsPass
<1>1. ASSUME NEW f \in Fixtures PROVE Agrees(fct_team_fixture, f)
  <2>1. /\ fct_team_fixture[f]["home"] = Columns(f, "home")
        /\ fct_team_fixture[f]["away"] = Columns(f, "away")
        BY BothBranches
  <2>2. fct_team_fixture[f]["home"].is_home /\ ~fct_team_fixture[f]["away"].is_home
        BY <2>1, ColumnValues
  <2> QED BY <2>1, <2>2, ColumnValues, HomeAndAway
<1>2. assert_fixture_sides_balance(fct_team_fixture)
      BY <1>1 DEF assert_fixture_sides_balance, Agrees
<1>3. ASSUME NEW s \in Sides, NEW c \in ColumnNames
      PROVE  assert_fixture_sides_balance(Slipped(s, c))
               <=> Slipped(s, c) = fct_team_fixture \/ <<s, c>> \in Unread
  <2>1. assert_fixture_sides_balance(Slipped(s, c))
          <=> \A f \in Fixtures : Agrees(Slipped(s, c), f)
        BY DEF assert_fixture_sides_balance, Agrees
  <2>2. assert_fixture_sides_balance(Slipped(s, c))
          <=> (\A f \in Fixtures : Same(f, s, c)) \/ <<s, c>> \in Unread
                \/ Fixtures = {}
        BY <2>1, SlipOfOneFixture
  <2> QED BY <2>2, SlipIsNone
<1>4. OnlyUnreadSlipsPass BY <1>2, <1>3 DEF OnlyUnreadSlipsPass
<1> QED BY <1>4, PTL

-----------------------------------------------------------------------------
(* mart_team_fixture_run. *)

\* The number of rows between two rows of the grid is the number of gameweeks.
LEMMA GridRows ==
  ASSUME NEW t \in Teams, NEW g \in Gameweeks, NEW h \in Gameweeks, h >= g
  PROVE  Cardinality({k \in Grid(t) : g < k /\ k <= h}) = h - g
<1>1. {k \in Grid(t) : g < k /\ k <= h} = (g + 1)..h
      BY CardAssumption DEF Grid, Gameweeks
<1>2. g + 1 \in Int /\ h \in Int BY CardAssumption DEF Gameweeks
<1>3. Cardinality((g + 1)..h) = IF g + 1 > h THEN 0 ELSE h - (g + 1) + 1
      BY <1>2, FS_Interval
<1>4. g \in Int BY DEF Gameweeks
<1>5. (IF g + 1 > h THEN 0 ELSE h - (g + 1) + 1) = h - g BY <1>2, <1>4
<1>6. Cardinality({k \in Grid(t) : g < k /\ k <= h}) = Cardinality((g + 1)..h) BY <1>1
<1> QED BY <1>3, <1>5, <1>6

\* The frame of mart_team_fixture_run, which counts rows, is the gameweek and the
\* Horizon - 1 after it, as far as the season goes: for every horizon and
\* length of season, whatever is postponed.
THEOREM FramesAreGameweeks ==
  \A t \in Teams, g \in Gameweeks :
    Frame(t, g) = (g .. (g + Horizon - 1)) \cap Gameweeks
<1> SUFFICES ASSUME NEW t \in Teams, NEW g \in Gameweeks
             PROVE  Frame(t, g) = (g .. (g + Horizon - 1)) \cap Gameweeks
    OBVIOUS
<1>1. Frame(t, g) = {h \in Gameweeks : h >= g /\ h - g < Horizon}
      BY GridRows DEF Frame, Grid
<1>2. Horizon \in Nat \ {0} /\ g \in Int BY RulesAssumption DEF Gameweeks
<1> QED BY <1>1, <1>2, CardAssumption DEF Gameweeks

-----------------------------------------------------------------------------
(* The sums over a frame. *)

\* The matches of a team.
Plays(t, f) == t \in {Card[f].home.team, Card[f].away.team}

\* The teams of a fixture's two rows, from the card.
LEMMA TeamOfRow ==
  ASSUME NEW f \in Fixtures
  PROVE  /\ fct_team_fixture[f]["home"].team = Card[f].home.team
         /\ fct_team_fixture[f]["away"].team = Card[f].away.team
         /\ Card[f].home.team # Card[f].away.team
<1>1. /\ Columns(f, "home").team = Card[f].home.team
      /\ Columns(f, "away").team = Card[f].away.team
      BY ColumnValues
<1> QED BY <1>1, BothBranches, CardAssumption

\* The rows that join a cell are the team's matches of that gameweek.
LEMMA MatchesOfTeam ==
  ASSUME NEW t, NEW g
  PROVE  /\ Matches(t, g) = {f \in Fixtures : slot[f] = g /\ Plays(t, f)}
         /\ IsFiniteSet(Matches(t, g))
<1>1. ASSUME NEW f \in Fixtures
      PROVE  (\E s \in Sides : fct_team_fixture[f][s].team = t) <=> Plays(t, f)
      BY TeamOfRow DEF Sides, Plays
<1>2. Matches(t, g) = {f \in Fixtures : slot[f] = g /\ Plays(t, f)}
      BY <1>1 DEF Matches
<1>3. Matches(t, g) \in SUBSET Fixtures BY <1>2
<1> QED BY <1>2, <1>3, CardAssumption, FS_Subset

\* A team's own row of a match is the one of its dugout.
LEMMA RowOfTeam ==
  ASSUME NEW t, NEW f \in Fixtures, Plays(t, f)
  PROVE  /\ Row(t, f).is_home <=> Card[f].home.team = t
         /\ Row(t, f).difficulty = IF Card[f].home.team = t
                                     THEN Card[f].home.difficulty
                                     ELSE Card[f].away.difficulty
         /\ Row(t, f).difficulty \in Nat
<1> DEFINE own(s) == s \in Sides /\ fct_team_fixture[f][s].team = t
<1>1. CASE Card[f].home.team = t
  <2>1. \A s : own(s) <=> s = "home"
        BY <1>1, TeamOfRow DEF Sides
  <2>2. (CHOOSE s \in Sides : fct_team_fixture[f][s].team = t) = "home" BY <2>1
  <2>3. Row(t, f) = Columns(f, "home") BY <2>2, BothBranches DEF Row
  <2> QED BY <1>1, <2>3, ColumnValues, CardAssumption
<1>2. CASE Card[f].home.team # t
  <2>1. \A s : own(s) <=> s = "away"
        BY <1>2, TeamOfRow DEF Sides, Plays
  <2>2. (CHOOSE s \in Sides : fct_team_fixture[f][s].team = t) = "away" BY <2>1
  <2>3. Row(t, f) = Columns(f, "away") BY <2>2, BothBranches DEF Row
  <2> QED BY <1>2, <2>3, ColumnValues, CardAssumption
<1> QED BY <1>1, <1>2

\* A frame is an interval of gameweeks that starts with its own.
LEMMA FrameOfGameweek ==
  ASSUME NEW t \in Teams, NEW g \in Gameweeks
  PROVE  /\ g \in Frame(t, g) /\ IsFiniteSet(Frame(t, g))
         /\ Frame(t, g) = (g .. g + Horizon - 1) \cap Gameweeks
         /\ Cardinality(Frame(t, g)) = IF g + Horizon - 1 > LastGameweek
                                         THEN LastGameweek - g + 1 ELSE Horizon
         /\ Cardinality(Frame(t, g)) < Horizon <=> g + Horizon - 1 > LastGameweek
<1> DEFINE last == IF g + Horizon - 1 > LastGameweek THEN LastGameweek ELSE g + Horizon - 1
<1>1. g \in Int /\ 1 <= g /\ g <= LastGameweek /\ LastGameweek \in Int
      BY CardAssumption DEF Gameweeks
<1>2. Horizon \in Int /\ Horizon >= 1 BY RulesAssumption
<1>3. Frame(t, g) = (g .. g + Horizon - 1) \cap Gameweeks BY FramesAreGameweeks
<1>4. (g .. g + Horizon - 1) \cap (1..LastGameweek) = g .. last BY <1>1, <1>2
<1>5. last \in Int /\ g <= last BY <1>1, <1>2
<1>6. IsFiniteSet(g .. last) /\ Cardinality(g .. last) = last - g + 1
      BY <1>1, <1>5, FS_Interval
<1>7. Frame(t, g) = g .. last BY <1>3, <1>4 DEF Gameweeks
<1>8. Cardinality(Frame(t, g)) = last - g + 1 BY <1>6, <1>7
<1>9. last - g + 1 = IF g + Horizon - 1 > LastGameweek
                       THEN LastGameweek - g + 1 ELSE Horizon
      BY <1>1, <1>2
<1>10. last - g + 1 < Horizon <=> g + Horizon - 1 > LastGameweek BY <1>1, <1>2
<1>11. g \in g .. last BY <1>1, <1>5
<1>12. g \in Frame(t, g) /\ IsFiniteSet(Frame(t, g)) BY <1>6, <1>7, <1>11
<1> HIDE DEF last
<1> QED BY <1>3, <1>8, <1>9, <1>10, <1>12

\* sum(..) of a column without NULLs, over a frame that is never empty.
LEMMA SumOverCounts ==
  ASSUME NEW column, DOMAIN column # {}, \A h \in DOMAIN column : column[h] \in Nat
  PROVE  SumOver(column) = SumFunctionOnSet(column, DOMAIN column)
<1>1. {h \in DOMAIN column : column[h] # Null} = DOMAIN column BY NullAssumption
<1> QED BY <1>1 DEF SumOver

\* The matches of a team in the gameweeks of a frame, on either side.
Dates(t, g) == {f \in Fixtures : slot[f] \in Frame(t, g) /\ Plays(t, f)}
HomeDates(t, g) == {f \in Dates(t, g) : Card[f].home.team = t}
AwayDates(t, g) == {f \in Dates(t, g) : Card[f].away.team = t}

\* They fall into home and away, and into the gameweeks of the frame.
LEMMA DatesOfTeam ==
  ASSUME NEW t, NEW g
  PROVE  /\ Dates(t, g) = HomeDates(t, g) \cup AwayDates(t, g)
         /\ HomeDates(t, g) \cap AwayDates(t, g) = {}
         /\ IsFiniteSet(Dates(t, g))
         /\ IsFiniteSet(HomeDates(t, g)) /\ IsFiniteSet(AwayDates(t, g))
         /\ Dates(t, g) = UNION {Matches(t, h) : h \in Frame(t, g)}
<1>1. Dates(t, g) = HomeDates(t, g) \cup AwayDates(t, g)
      BY DEF Dates, HomeDates, AwayDates, Plays
<1>2. HomeDates(t, g) \cap AwayDates(t, g) = {}
      BY TeamOfRow DEF Dates, HomeDates, AwayDates
<1>3. Dates(t, g) \in SUBSET Fixtures BY DEF Dates
<1>4. HomeDates(t, g) \in SUBSET Fixtures /\ AwayDates(t, g) \in SUBSET Fixtures
      BY DEF Dates, HomeDates, AwayDates
<1>5. Dates(t, g) = UNION {Matches(t, h) : h \in Frame(t, g)}
      BY MatchesOfTeam DEF Dates
<1> QED BY <1>1, <1>2, <1>3, <1>4, <1>5, CardAssumption, FS_Subset

\* sum(fixture_count) over horizon.
LEMMA FixturesOfFrame ==
  ASSUME NEW t \in Teams, NEW g \in Gameweeks
  PROVE  SumOver([h \in Frame(t, g) |-> fixture_count(t, h)]) = Cardinality(Dates(t, g))
<1>1. PICK count : count = [h \in Frame(t, g) |-> fixture_count(t, h)] OBVIOUS
<1>2. PICK A : A = [h \in Frame(t, g) |-> Matches(t, h)] OBVIOUS
<1>3. \A h \in Frame(t, g) : IsFiniteSet(A[h]) /\ count[h] = Cardinality(A[h])
      BY <1>1, <1>2, MatchesOfTeam DEF fixture_count
<1>4. \A h, k \in Frame(t, g) : h # k => A[h] \cap A[k] = {} BY <1>2, MatchesOfTeam
<1>5. IsFiniteSet(Frame(t, g)) /\ g \in Frame(t, g) BY FrameOfGameweek
<1>6. SumFunctionOnSet(count, Frame(t, g)) = Cardinality(UNION {A[h] : h \in Frame(t, g)})
      BY <1>3, <1>4, <1>5, SumOfCounts
<1>7. UNION {A[h] : h \in Frame(t, g)} = Dates(t, g) BY <1>2, DatesOfTeam
<1>8. DOMAIN count = Frame(t, g) /\ \A h \in DOMAIN count : count[h] \in Nat
      BY <1>1, <1>3, FS_CardinalityType
<1>9. SumOver(count) = SumFunctionOnSet(count, Frame(t, g))
      BY <1>5, <1>8, SumOverCounts
<1> QED BY <1>1, <1>6, <1>7, <1>9

\* sum(home_fixture_count) over horizon.
LEMMA HomeFixturesOfFrame ==
  ASSUME NEW t \in Teams, NEW g \in Gameweeks
  PROVE  SumOver([h \in Frame(t, g) |-> home_fixture_count(t, h)])
           = Cardinality(HomeDates(t, g))
<1> DEFINE Home(h) == {f \in Matches(t, h) : Row(t, f).is_home}
<1>1. PICK count : count = [h \in Frame(t, g) |-> home_fixture_count(t, h)] OBVIOUS
<1>2. PICK A : A = [h \in Frame(t, g) |-> Home(h)] OBVIOUS
<1>3. ASSUME NEW h \in Frame(t, g)
      PROVE  /\ A[h] = {f \in Fixtures : slot[f] = h /\ Card[f].home.team = t}
             /\ IsFiniteSet(A[h]) /\ count[h] = Cardinality(A[h])
  <2>1. A[h] = Home(h) BY <1>2
  <2>2. Home(h) = {f \in Fixtures : slot[f] = h /\ Card[f].home.team = t}
        BY MatchesOfTeam, RowOfTeam DEF Plays
  <2>3. Home(h) \in SUBSET Fixtures BY <2>2
  <2>4. IsFiniteSet(Home(h)) BY <2>3, CardAssumption, FS_Subset
  <2>5. count[h] = Cardinality(Home(h)) BY <1>1 DEF home_fixture_count
  <2> HIDE DEF Home
  <2> QED BY <2>1, <2>2, <2>4, <2>5
<1>4. \A h, k \in Frame(t, g) : h # k => A[h] \cap A[k] = {} BY <1>3
<1>5. IsFiniteSet(Frame(t, g)) /\ g \in Frame(t, g) BY FrameOfGameweek
<1>6. SumFunctionOnSet(count, Frame(t, g)) = Cardinality(UNION {A[h] : h \in Frame(t, g)})
      BY <1>3, <1>4, <1>5, SumOfCounts
<1>7. UNION {A[h] : h \in Frame(t, g)} = HomeDates(t, g)
      BY <1>3 DEF HomeDates, Dates, Plays
<1>8. DOMAIN count = Frame(t, g) /\ \A h \in DOMAIN count : count[h] \in Nat
      BY <1>1, <1>3, FS_CardinalityType
<1>9. SumOver(count) = SumFunctionOnSet(count, Frame(t, g))
      BY <1>5, <1>8, SumOverCounts
<1> QED BY <1>1, <1>6, <1>7, <1>9

\* sum(total_difficulty) over horizon: a blank adds nothing, and a frame of
\* blanks has no difficulty.
LEMMA DifficultyOfFrame ==
  ASSUME NEW t \in Teams, NEW g \in Gameweeks
  PROVE  SumOver([h \in Frame(t, g) |-> total_difficulty(t, h)])
           = IF Dates(t, g) = {} THEN Null
             ELSE SumFunction([f \in HomeDates(t, g) |-> Card[f].home.difficulty])
                    + SumFunction([f \in AwayDates(t, g) |-> Card[f].away.difficulty])
<1>1. PICK sum : sum = [h \in Frame(t, g) |-> total_difficulty(t, h)] OBVIOUS
<1>2. PICK A : A = [h \in Frame(t, g) |-> Matches(t, h)] OBVIOUS
<1>3. PICK d : d = [f \in Fixtures |-> Row(t, f).difficulty] OBVIOUS
<1> DEFINE known == {h \in DOMAIN sum : sum[h] # Null}
<1>4. \A f \in Dates(t, g) : d[f] \in Nat BY <1>3, RowOfTeam DEF Dates
<1>5. ASSUME NEW h \in Frame(t, g)
      PROVE  /\ A[h] = {} => sum[h] = Null
             /\ A[h] # {} => sum[h] = SumFunctionOnSet(d, A[h]) /\ sum[h] # Null
             /\ IsFiniteSet(A[h]) /\ A[h] \subseteq Dates(t, g)
  <2>1. A[h] = Matches(t, h) BY <1>2
  <2>2. IsFiniteSet(A[h]) /\ A[h] \subseteq Dates(t, g) BY <2>1, MatchesOfTeam, DatesOfTeam
  <2>3. CASE A[h] = {} BY <1>1, <2>1, <2>2, <2>3 DEF total_difficulty
  <2>4. CASE A[h] # {}
    <3>1. PICK e : e = [f \in A[h] |-> Row(t, f).difficulty] OBVIOUS
    <3>2. sum[h] = SumFunction(e) BY <1>1, <2>1, <2>4, <3>1 DEF total_difficulty
    <3>3. SumFunction(e) = SumFunctionOnSet(e, A[h]) BY <3>1 DEF SumFunction
    <3>4. A[h] \subseteq Fixtures BY <2>2 DEF Dates
    <3>5. ASSUME NEW f \in A[h] PROVE e[f] = d[f] /\ e[f] \in Int
      <4>1. f \in Fixtures /\ f \in Dates(t, g) BY <2>2, <3>4
      <4>2. e[f] = Row(t, f).difficulty BY <3>1
      <4>3. d[f] = Row(t, f).difficulty BY <1>3, <4>1
      <4> QED BY <1>4, <4>1, <4>2, <4>3
    <3>6. SumFunctionOnSet(e, A[h]) = SumFunctionOnSet(d, A[h])
          BY <2>2, <3>5, SumOfEquals
    <3>7. SumFunctionOnSet(d, A[h]) \in Nat BY <1>4, <2>2, SumIsNat
    <3> QED BY <2>2, <2>4, <3>2, <3>3, <3>6, <3>7, NullAssumption
  <2> QED BY <2>2, <2>3, <2>4
<1>6. known = {h \in Frame(t, g) : A[h] # {}} BY <1>1, <1>5
<1>7. UNION {A[h] : h \in known} = Dates(t, g) BY <1>2, <1>6, DatesOfTeam
<1>8. SumOver(sum) = IF known = {} THEN Null ELSE SumFunctionOnSet(sum, known)
      BY DEF SumOver
<1>9. CASE Dates(t, g) = {}
  <2>1. known = {} BY <1>6, <1>7, <1>9
  <2> QED BY <1>1, <1>8, <1>9, <2>1
<1>10. CASE Dates(t, g) # {}
  <2> HIDE DEF known
  <2>1. known # {} BY <1>7, <1>10
  <2>2. known \in SUBSET Frame(t, g) BY <1>6
  <2>3. IsFiniteSet(known) BY <2>2, FrameOfGameweek, FS_Subset
  <2>4. \A h \in known : IsFiniteSet(A[h]) /\ sum[h] = SumFunctionOnSet(d, A[h])
        BY <1>5, <1>6
  <2>5. \A h \in known : \A f \in A[h] : d[f] \in Int BY <1>4, <1>5, <2>2
  <2>6. \A h, k \in known : h # k => A[h] \cap A[k] = {} BY <1>2, <2>2, MatchesOfTeam
  <2>7. SumFunctionOnSet(d, UNION {A[h] : h \in known}) = SumFunctionOnSet(sum, known)
        BY <2>3, <2>4, <2>5, <2>6, SumOfParts
  <2>8. SumFunctionOnSet(d, Dates(t, g))
          = SumFunctionOnSet(d, HomeDates(t, g)) + SumFunctionOnSet(d, AwayDates(t, g))
    <3>1. \A f \in HomeDates(t, g) \cup AwayDates(t, g) : d[f] \in Int
          BY <1>4, DatesOfTeam
    <3> QED BY <3>1, DatesOfTeam, SumOfDisjoint
  <2>9. SumFunction([f \in HomeDates(t, g) |-> Card[f].home.difficulty])
          = SumFunctionOnSet(d, HomeDates(t, g))
    <3>1. PICK e : e = [f \in HomeDates(t, g) |-> Card[f].home.difficulty] OBVIOUS
    <3>2. \A f \in HomeDates(t, g) : e[f] = d[f] /\ e[f] \in Int
          BY <1>3, <1>4, <3>1, RowOfTeam DEF HomeDates, Dates
    <3>3. SumFunctionOnSet(e, HomeDates(t, g)) = SumFunctionOnSet(d, HomeDates(t, g))
          BY <3>2, DatesOfTeam, SumOfEquals
    <3> QED BY <3>1, <3>3 DEF SumFunction
  <2>10. SumFunction([f \in AwayDates(t, g) |-> Card[f].away.difficulty])
           = SumFunctionOnSet(d, AwayDates(t, g))
    <3>1. PICK e : e = [f \in AwayDates(t, g) |-> Card[f].away.difficulty] OBVIOUS
    <3>2. \A f \in AwayDates(t, g) : e[f] = d[f] /\ e[f] \in Int
          BY <1>3, <1>4, <3>1, RowOfTeam, TeamOfRow DEF AwayDates, Dates
    <3>3. SumFunctionOnSet(e, AwayDates(t, g)) = SumFunctionOnSet(d, AwayDates(t, g))
          BY <3>2, DatesOfTeam, SumOfEquals
    <3> QED BY <3>1, <3>3 DEF SumFunction
  <2> QED BY <1>1, <1>7, <1>8, <1>10, <2>1, <2>7, <2>8, <2>9, <2>10
<1> QED BY <1>9, <1>10

\* The outlook is read off the season.
LEMMA OutlookOfSeason ==
  ASSUME NEW t \in Teams, NEW g \in Gameweeks
  PROVE  Outlook(t, g) = Ahead(t, g) /\ Outlook(t, g).fixtures = Cardinality(Dates(t, g))
<1>1. Frame(t, g) = (g .. g + Horizon - 1) \cap Gameweeks BY FrameOfGameweek
<1>2. Dates(t, g) = {f \in Fixtures : slot[f] \in Frame(t, g) /\ Plays(t, f)} BY DEF Dates
<1> DEFINE dates == {f \in Fixtures : slot[f] \in (g .. g + Horizon - 1) \cap Gameweeks}
           home  == {f \in dates : Card[f].home.team = t}
           away  == {f \in dates : Card[f].away.team = t}
<1>3. home = HomeDates(t, g) /\ away = AwayDates(t, g)
      BY <1>1 DEF HomeDates, AwayDates, Dates, Plays
<1>4. Ahead(t, g) =
        [fixtures   |-> Cardinality(home \cup away),
         difficulty |-> IF home \cup away = {} THEN Null
                        ELSE SumFunction([f \in home |-> Card[f].home.difficulty])
                               + SumFunction([f \in away |-> Card[f].away.difficulty]),
         home       |-> Cardinality(home),
         covered    |-> IF g + Horizon - 1 > LastGameweek THEN LastGameweek - g + 1
                                                          ELSE Horizon,
         is_partial |-> g + Horizon - 1 > LastGameweek]
      BY DEF Ahead
<1> HIDE DEF home, away
<1>5. home \cup away = Dates(t, g) BY <1>3, DatesOfTeam
<1>6. Outlook(t, g) =
        [fixtures   |-> Cardinality(Dates(t, g)),
         difficulty |-> SumOver([h \in Frame(t, g) |-> total_difficulty(t, h)]),
         home       |-> Cardinality(HomeDates(t, g)),
         covered    |-> Cardinality(Frame(t, g)),
         is_partial |-> Cardinality(Frame(t, g)) < Horizon]
      BY FixturesOfFrame, HomeFixturesOfFrame DEF Outlook
<1>7. (IF home \cup away = {} THEN Null
       ELSE SumFunction([f \in home |-> Card[f].home.difficulty])
              + SumFunction([f \in away |-> Card[f].away.difficulty]))
        = SumOver([h \in Frame(t, g) |-> total_difficulty(t, h)])
      BY <1>3, <1>5, DifficultyOfFrame, Zenon
<1>8. Outlook(t, g) = Ahead(t, g)
  <2>1. Cardinality(home \cup away) = Cardinality(Dates(t, g)) BY <1>5
  <2>2. Cardinality(home) = Cardinality(HomeDates(t, g)) BY <1>3
  <2>3. Cardinality(Frame(t, g)) = IF g + Horizon - 1 > LastGameweek
                                     THEN LastGameweek - g + 1 ELSE Horizon
        BY FrameOfGameweek
  <2>4. (Cardinality(Frame(t, g)) < Horizon) = (g + Horizon - 1 > LastGameweek)
        BY FrameOfGameweek
  <2> QED BY <1>4, <1>6, <1>7, <2>1, <2>2, <2>3, <2>4, Zenon
<1> QED BY <1>6, <1>8

\* A frame of rows is the next gameweeks of the calendar, and what is summed over
\* it is what the team has to play in them: for every card, horizon and length of
\* season, through blanks, double gameweeks and postponements.
THEOREM HorizonsAreTheNextGameweeks == Spec => []HorizonIsTheNextGameweeks
<1>1. HorizonIsTheNextGameweeks
      BY OutlookOfSeason DEF HorizonIsTheNextGameweeks, Grid
<1> QED BY <1>1, PTL

-----------------------------------------------------------------------------
(* The planning gameweek of mart_player_value. *)

\* What is still to be played is never dated in a gameweek that is over.
NothingLeftBehind ==
  \A f \in Fixtures : phase[f] = "scheduled" => slot[f] \notin finished

\* Postponements and new dates leave nothing to be played in a gameweek that is over.
LEMMA StepNothingLeftBehind ==
  TypeOK /\ NothingLeftBehind /\ [Next]_vars => NothingLeftBehind'
<1> SUFFICES ASSUME TypeOK, NothingLeftBehind, [Next]_vars PROVE NothingLeftBehind'
    OBVIOUS
<1>1. CASE ResetTotals BY <1>1 DEF NothingLeftBehind, ResetTotals
<1>2. CASE PassDeadline BY <1>2 DEF NothingLeftBehind, PassDeadline
<1>3. CASE EndGameweek BY <1>3 DEF NothingLeftBehind, EndGameweek
<1>4. ASSUME NEW f \in Fixtures, KickOff(f) PROVE NothingLeftBehind'
      BY <1>4 DEF NothingLeftBehind, KickOff, TypeOK
<1>5. ASSUME NEW f \in Fixtures, FinalWhistle(f) PROVE NothingLeftBehind'
      BY <1>5 DEF NothingLeftBehind, FinalWhistle, TypeOK
<1>6. ASSUME NEW f \in Fixtures, Postpone(f) PROVE NothingLeftBehind'
  <2>1. Null \notin finished BY NullAssumption DEF TypeOK
  <2> QED BY <1>6, <2>1 DEF NothingLeftBehind, Postpone, TypeOK
<1>7. ASSUME NEW f \in Fixtures, Reschedule(f) PROVE NothingLeftBehind'
      BY <1>7 DEF NothingLeftBehind, Reschedule, TypeOK
<1>8. ASSUME NEW p \in DOMAIN Players, PriceChange(p) \/ Depart(p)
      PROVE  NothingLeftBehind'
      BY <1>8 DEF NothingLeftBehind, PriceChange, Depart, matchVars
<1>9. CASE UNCHANGED vars BY <1>9 DEF NothingLeftBehind, vars, matchVars
<1> QED BY <1>1, <1>2, <1>3, <1>4, <1>5, <1>6, <1>7, <1>8, <1>9 DEF Next

\* Between gameweeks the outlook of mart_player_value starts at the next deadline,
\* its frame is that gameweek and the Horizon - 1 after it, and no match still
\* to be played is dated before it.
OutlookStartsAtTheNextDeadline ==
  current < LastGameweek /\ (current = 0 \/ current \in finished) =>
    /\ planning_gameweek = current + 1
    /\ \A t \in Teams : Frame(t, planning_gameweek)
         = ((current + 1) .. (current + Horizon)) \cap Gameweeks
    /\ \A f \in Fixtures : phase[f] = "scheduled" /\ slot[f] # Null
         => slot[f] >= planning_gameweek

\* mart_player_value plans the coming gameweek and leaves no match before it, for
\* every card and horizon and whatever is postponed.
THEOREM OutlooksStartAtTheNextDeadline == Spec => []OutlookStartsAtTheNextDeadline
<1>1. Init => NothingLeftBehind BY DEF Init, NothingLeftBehind
<1>2. TypeOK /\ Season /\ NothingLeftBehind => OutlookStartsAtTheNextDeadline
  <2> SUFFICES ASSUME TypeOK, Season, NothingLeftBehind,
                      current < LastGameweek, current = 0 \/ current \in finished
               PROVE  /\ planning_gameweek = current + 1
                      /\ \A t \in Teams : Frame(t, planning_gameweek)
                           = ((current + 1) .. (current + Horizon)) \cap Gameweeks
                      /\ \A f \in Fixtures : phase[f] = "scheduled" /\ slot[f] # Null
                           => slot[f] >= planning_gameweek
      BY DEF OutlookStartsAtTheNextDeadline
  <2>1. current \in Nat BY DEF TypeOK
  <2>2. LastGameweek \in Nat BY CardAssumption
  <2>3. finished = 1..current BY <2>1 DEF Season
  <2>4. Gameweeks \ finished = (current + 1)..LastGameweek
        BY <2>1, <2>2, <2>3 DEF Gameweeks
  <2>5. current + 1 \in Gameweeks BY <2>1, <2>2 DEF Gameweeks
  <2>6. Min(Gameweeks \ finished) = current + 1
        BY <2>1, <2>2, <2>4 DEF Min
  <2>7. planning_gameweek = current + 1
        BY <2>1, <2>2, <2>4, <2>6 DEF planning_gameweek
  <2>8. ASSUME NEW t \in Teams
        PROVE  Frame(t, planning_gameweek)
                 = ((current + 1) .. (current + Horizon)) \cap Gameweeks
    <3>1. Frame(t, current + 1)
            = ((current + 1) .. ((current + 1) + Horizon - 1)) \cap Gameweeks
          BY <2>5, FramesAreGameweeks
    <3>2. (current + 1) + Horizon - 1 = current + Horizon BY <2>1, RulesAssumption
    <3> QED BY <2>7, <3>1, <3>2
  <2>9. ASSUME NEW f \in Fixtures, phase[f] = "scheduled", slot[f] # Null
        PROVE  slot[f] >= planning_gameweek
    <3>1. slot[f] \in Gameweeks \ finished BY <2>9 DEF TypeOK, NothingLeftBehind
    <3> QED BY <2>1, <2>2, <2>4, <2>7, <3>1
  <2> QED BY <2>7, <2>8, <2>9
<1> QED BY <1>1, <1>2, StepNothingLeftBehind, TypeCorrect, SeasonsRunInOrder, PTL DEF Spec

\* A match that has kicked off is dated in a gameweek whose deadline has passed.
PlayedIsPast ==
  \A f \in Fixtures : phase[f] # "scheduled" => slot[f] \in 1..current

\* What has kicked off stays in a gameweek whose deadline has passed.
LEMMA StepPlayedIsPast == TypeOK /\ PlayedIsPast /\ [Next]_vars => PlayedIsPast'
<1> SUFFICES ASSUME TypeOK, PlayedIsPast, [Next]_vars PROVE PlayedIsPast' OBVIOUS
<1>0. current \in Nat /\ Null \notin 1..current
      BY NullAssumption, CardAssumption DEF TypeOK, Gameweeks
<1>1. CASE ResetTotals BY <1>1 DEF PlayedIsPast, ResetTotals
<1>2. CASE PassDeadline BY <1>0, <1>2 DEF PlayedIsPast, PassDeadline
<1>3. CASE EndGameweek BY <1>3 DEF PlayedIsPast, EndGameweek
<1>4. ASSUME NEW f \in Fixtures, KickOff(f) PROVE PlayedIsPast'
  <2>1. current \in Gameweeks
        BY <1>0, <1>4, NullAssumption DEF KickOff, TypeOK
  <2>2. slot[f] \in 1..current BY <1>4, <2>1 DEF KickOff, Gameweeks
  <2> QED BY <1>4, <2>2 DEF PlayedIsPast, KickOff, TypeOK
<1>5. ASSUME NEW f \in Fixtures, FinalWhistle(f) PROVE PlayedIsPast'
      BY <1>5 DEF PlayedIsPast, FinalWhistle, TypeOK
<1>6. ASSUME NEW f \in Fixtures, Postpone(f) PROVE PlayedIsPast'
      BY <1>6 DEF PlayedIsPast, Postpone, TypeOK
<1>7. ASSUME NEW f \in Fixtures, Reschedule(f) PROVE PlayedIsPast'
  <2>1. phase[f] = "scheduled" BY <1>0, <1>7 DEF PlayedIsPast, Reschedule
  <2> QED BY <1>7, <2>1 DEF PlayedIsPast, Reschedule, TypeOK
<1>8. ASSUME NEW p \in DOMAIN Players, PriceChange(p) \/ Depart(p) PROVE PlayedIsPast'
      BY <1>8 DEF PlayedIsPast, PriceChange, Depart, matchVars
<1>9. CASE UNCHANGED vars BY <1>9 DEF PlayedIsPast, vars, matchVars
<1> QED BY <1>1, <1>2, <1>3, <1>4, <1>5, <1>6, <1>7, <1>8, <1>9 DEF Next

\* Between gameweeks the outlook of mart_player_value counts exactly the matches of
\* the coming Horizon gameweeks that are not yet kicked off, for every card.
THEOREM OutlooksAreAhead == Spec => []OutlookIsAhead
<1>1. Init => NothingLeftBehind /\ PlayedIsPast BY DEF Init, NothingLeftBehind, PlayedIsPast
<1>2. TypeOK /\ Season /\ NothingLeftBehind /\ PlayedIsPast
        /\ OutlookStartsAtTheNextDeadline => OutlookIsAhead
  <2> DEFINE ToPlay(t) == {f \in Fixtures :
                /\ t \in {Card[f].home.team, Card[f].away.team}
                /\ phase[f] = "scheduled"
                /\ slot[f] # Null /\ slot[f] <= current + Horizon}
  <2> SUFFICES ASSUME TypeOK, Season, NothingLeftBehind, PlayedIsPast,
                      OutlookStartsAtTheNextDeadline,
                      current < LastGameweek, current = 0 \/ current \in finished
               PROVE  /\ planning_gameweek = current + 1
                      /\ \A t \in Teams :
                           NextOutlook(t).fixtures = Cardinality(ToPlay(t))
      BY DEF OutlookIsAhead
  <2>1. /\ planning_gameweek = current + 1
        /\ \A t \in Teams : Frame(t, planning_gameweek)
             = ((current + 1) .. (current + Horizon)) \cap Gameweeks
        BY DEF OutlookStartsAtTheNextDeadline
  <2>2. current \in Nat /\ LastGameweek \in Nat /\ Horizon \in Nat \ {0}
        BY CardAssumption, RulesAssumption DEF TypeOK
  <2>3. planning_gameweek \in Gameweeks BY <2>1, <2>2 DEF Gameweeks
  <2>4. finished = 1..current BY <2>2 DEF Season
  <2>5. ASSUME NEW t \in Teams PROVE NextOutlook(t).fixtures = Cardinality(ToPlay(t))
    <3>1. NextOutlook(t).fixtures = Cardinality(Dates(t, planning_gameweek))
          BY <2>3, OutlookOfSeason DEF NextOutlook, Grid
    <3>2. ASSUME NEW f \in Fixtures
          PROVE  slot[f] \in Frame(t, planning_gameweek)
                   <=> /\ phase[f] = "scheduled"
                       /\ slot[f] # Null /\ slot[f] <= current + Horizon
      <4>1. slot[f] \in Frame(t, planning_gameweek)
              <=> slot[f] \in Gameweeks /\ slot[f] >= current + 1
                    /\ slot[f] <= current + Horizon
            BY <2>1, <2>2 DEF Gameweeks
      <4>2. slot[f] \in Gameweeks <=> slot[f] # Null BY NullAssumption DEF TypeOK
      <4>3. ASSUME slot[f] \in Gameweeks
            PROVE  phase[f] = "scheduled" <=> slot[f] >= current + 1
        <5>1. phase[f] = "scheduled" => slot[f] \notin 1..current
              BY <2>4 DEF NothingLeftBehind
        <5>2. phase[f] # "scheduled" => slot[f] \in 1..current BY DEF PlayedIsPast
        <5> QED BY <2>2, <4>3, <5>1, <5>2 DEF Gameweeks
      <4> QED BY <4>1, <4>2, <4>3
    <3>3. Dates(t, planning_gameweek) = ToPlay(t) BY <3>2 DEF Dates, Plays
    <3> QED BY <3>1, <3>3
  <2> QED BY <2>1, <2>5
<1> QED BY <1>1, <1>2, StepNothingLeftBehind, StepPlayedIsPast, TypeCorrect,
           SeasonsRunInOrder, OutlooksStartAtTheNextDeadline, PTL DEF Spec

-----------------------------------------------------------------------------
(* mart_position_scarcity: the cheapest players of a position. *)

\* The order of row_number(): the price, then the id.
Before(q, p) == price[q] < price[p] \/ (price[q] = price[p] /\ q < p)

\* The row number of p among the players P, from 0, and the first k rows.
Rank(P, p)  == Cardinality({q \in P : Before(q, p)})
First(P, k) == {p \in P : Rank(P, p) < k}

\* The ids break every tie: the order is total.
LEMMA OrderOfPlayers ==
  ASSUME TypeOK
  PROVE  \A p, q, r \in DOMAIN Players :
           /\ ~Before(p, p)
           /\ p # q => Before(p, q) \/ Before(q, p)
           /\ Before(p, q) /\ Before(q, r) => Before(p, r)
           /\ ~Before(q, p) => price[p] <= price[q]
<1> SUFFICES ASSUME NEW p \in DOMAIN Players, NEW q \in DOMAIN Players,
                    NEW r \in DOMAIN Players
             PROVE  /\ ~Before(p, p)
                    /\ p # q => Before(p, q) \/ Before(q, p)
                    /\ Before(p, q) /\ Before(q, r) => Before(p, r)
                    /\ ~Before(q, p) => price[p] <= price[q]
    OBVIOUS
<1>1. p \in Nat /\ q \in Nat /\ r \in Nat BY MarketAssumption
<1>2. price[p] \in Nat /\ price[q] \in Nat /\ price[r] \in Nat BY DEF TypeOK
<1> QED BY <1>1, <1>2 DEF Before

\* Row numbers grow along the order, and none reaches the number of players.
LEMMA RanksGrow ==
  ASSUME TypeOK, NEW P \in SUBSET DOMAIN Players
  PROVE  /\ IsFiniteSet(P) /\ Cardinality(P) \in Nat
         /\ \A p \in P : Rank(P, p) \in Nat /\ Rank(P, p) < Cardinality(P)
         /\ \A p, q \in P : Before(q, p) => Rank(P, q) < Rank(P, p)
<1>1. IsFiniteSet(P) /\ Cardinality(P) \in Nat
      BY MarketAssumption, FS_Subset, FS_CardinalityType
<1> DEFINE Earlier(p) == {q \in P : Before(q, p)}
<1>2. \A p \in P : IsFiniteSet(Earlier(p)) /\ Cardinality(Earlier(p)) \in Nat
      BY <1>1, FS_Subset, FS_CardinalityType
<1>3. ASSUME NEW p \in P PROVE Cardinality(Earlier(p)) < Cardinality(P)
  <2>1. p \notin Earlier(p) BY OrderOfPlayers
  <2>2. Earlier(p) \in SUBSET P /\ Earlier(p) # P BY <2>1
  <2>3. Cardinality(Earlier(p)) <= Cardinality(P) /\ Cardinality(Earlier(p)) # Cardinality(P)
        BY <1>1, <2>2, FS_Subset
  <2> QED BY <1>1, <1>2, <2>3
<1>4. ASSUME NEW p \in P, NEW q \in P, Before(q, p)
      PROVE  Cardinality(Earlier(q)) < Cardinality(Earlier(p))
  <2>1. Earlier(q) \subseteq Earlier(p) BY <1>4, OrderOfPlayers
  <2>2. q \in Earlier(p) /\ q \notin Earlier(q) BY <1>4, OrderOfPlayers
  <2>3. Earlier(q) \in SUBSET Earlier(p) /\ Earlier(q) # Earlier(p) BY <2>1, <2>2
  <2>4. /\ Cardinality(Earlier(q)) <= Cardinality(Earlier(p))
        /\ Cardinality(Earlier(q)) # Cardinality(Earlier(p))
    <3> HIDE DEF Earlier
    <3> QED BY <1>2, <2>3, FS_Subset
  <2> QED BY <1>2, <2>4
<1> QED BY <1>1, <1>2, <1>3, <1>4 DEF Rank

\* The first k of at least k players are k.
LEMMA FirstAreAsMany ==
  ASSUME TypeOK, NEW P \in SUBSET DOMAIN Players, NEW k \in Nat, k <= Cardinality(P)
  PROVE  IsFiniteSet(First(P, k)) /\ Cardinality(First(P, k)) = k
<1>1. PICK n \in Nat : n = Cardinality(P) BY RanksGrow
<1>2. PICK rank : rank = [p \in P |-> Rank(P, p)] OBVIOUS
<1>3. rank \in Injection(P, 0 .. n - 1)
  <2>1. \A p \in P : rank[p] \in 0 .. n - 1 BY <1>1, <1>2, RanksGrow
  <2>2. \A p, q \in P : rank[p] = rank[q] => p = q
    <3> SUFFICES ASSUME NEW p \in P, NEW q \in P, p # q PROVE rank[p] # rank[q] OBVIOUS
    <3>1. Before(p, q) \/ Before(q, p) BY OrderOfPlayers
    <3>2. rank[p] \in Nat /\ rank[q] \in Nat BY <1>2, RanksGrow
    <3>3. rank[p] < rank[q] \/ rank[q] < rank[p] BY <1>2, <3>1, RanksGrow
    <3> QED BY <3>2, <3>3
  <2>3. rank \in [P -> 0 .. n - 1] BY <1>2, <2>1
  <2> QED BY <1>2, <2>2, <2>3 DEF Injection, IsInjective
<1>4. IsFiniteSet(0 .. n - 1) /\ Cardinality(0 .. n - 1) = n BY FS_Interval
<1>5. rank \in Surjection(P, 0 .. n - 1) BY <1>1, <1>3, <1>4, FS_Injection
<1> DEFINE S == First(P, k)
<1>6. IsFiniteSet(S) BY RanksGrow, FS_Subset DEF First
<1>7. PICK row : row = [p \in S |-> rank[p]] OBVIOUS
<1>8. row \in Bijection(S, 0 .. k - 1)
  <2>1. \A p \in S : p \in P /\ rank[p] \in 0 .. k - 1
        BY <1>2, RanksGrow DEF First
  <2>2. row \in [S -> 0 .. k - 1] BY <1>7, <2>1
  <2>3. \A p, q \in S : row[p] = row[q] => p = q
        BY <1>2, <1>3, <1>7, <2>1 DEF Injection, IsInjective
  <2>4. ASSUME NEW j \in 0 .. k - 1 PROVE \E p \in S : row[p] = j
    <3>1. j \in 0 .. n - 1 BY <1>1
    <3>2. PICK p \in P : rank[p] = j BY <1>5, <3>1 DEF Surjection
    <3>3. p \in S BY <1>2, <3>2 DEF First
    <3> QED BY <1>7, <3>2, <3>3
  <2>5. row \in Injection(S, 0 .. k - 1)
        BY <1>7, <2>2, <2>3 DEF Injection, IsInjective
  <2>6. row \in Surjection(S, 0 .. k - 1) BY <2>2, <2>4 DEF Surjection
  <2> QED BY <2>5, <2>6 DEF Bijection
<1>9. Cardinality(0 .. k - 1) = Cardinality(S)
  <2>1. ExistsBijection(S, 0 .. k - 1) BY <1>8 DEF ExistsBijection
  <2> QED BY <1>6, <2>1, FS_Bijection
<1>10. Cardinality(0 .. k - 1) = k BY FS_Interval
<1> QED BY <1>6, <1>9, <1>10

\* No k players cost less than the first k.
LEMMA FirstAreCheapest ==
  ASSUME TypeOK, NEW P \in SUBSET DOMAIN Players, NEW T \in SUBSET P
  PROVE  Cost(First(P, Cardinality(T))) <= Cost(T)
<1> DEFINE k == Cardinality(T)
           C == First(P, k)
<1>1. IsFiniteSet(P) /\ IsFiniteSet(T) /\ k \in Nat /\ k <= Cardinality(P)
      BY RanksGrow, FS_Subset, FS_CardinalityType
<1>2. IsFiniteSet(C) /\ Cardinality(C) = k BY <1>1, FirstAreAsMany
<1>3. C \subseteq P BY DEF First
<1>4. \A p \in P : price[p] \in Nat BY DEF TypeOK
<1>5. ASSUME NEW c \in C \ T, NEW d \in T \ C PROVE price[c] <= price[d]
  <2>1. c \in P /\ d \in P /\ c \in DOMAIN Players /\ d \in DOMAIN Players BY <1>3
  <2>2. Rank(P, c) < k /\ ~(Rank(P, d) < k) BY <2>1 DEF First
  <2>3. ~Before(d, c) BY <1>1, <2>1, <2>2, RanksGrow
  <2> QED BY <2>1, <2>3, OrderOfPlayers
<1> HIDE DEF C, k
<1>6. IsFiniteSet(C \ T) /\ Cardinality(C \ T) = Cardinality(C) - Cardinality(C \cap T)
      BY <1>2, FS_Difference
<1>7. IsFiniteSet(T \ C) /\ Cardinality(T \ C) = Cardinality(T) - Cardinality(T \cap C)
      BY <1>1, FS_Difference
<1>8. C \cap T = T \cap C OBVIOUS
<1>9. IsFiniteSet(C \cap T) /\ Cardinality(C \cap T) \in Nat
      BY <1>2, FS_Intersection, FS_CardinalityType
<1>10. Cardinality(C) = Cardinality(T) BY <1>2 DEF k
<1>11. Cardinality(C \ T) <= Cardinality(T \ C)
       BY <1>1, <1>6, <1>7, <1>8, <1>9, <1>10 DEF k
<1>12. Cost(C \ T) <= Cost(T \ C)
  <2>1. \A x \in C \ T : price[x] \in Int BY <1>3, <1>4
  <2>2. \A y \in T \ C : price[y] \in Nat BY <1>4
  <2> QED BY <1>5, <1>6, <1>7, <1>11, <2>1, <2>2, SumOfFewerAndSmaller DEF Cost
<1>13. Cost((C \cap T) \cup (C \ T)) = Cost(C \cap T) + Cost(C \ T)
  <2>1. \A x \in (C \cap T) \cup (C \ T) : price[x] \in Int BY <1>3, <1>4
  <2>2. (C \cap T) \cap (C \ T) = {} OBVIOUS
  <2> QED BY <1>6, <1>9, <2>1, <2>2, SumOfDisjoint DEF Cost
<1>14. Cost((C \cap T) \cup (T \ C)) = Cost(C \cap T) + Cost(T \ C)
  <2>1. \A x \in (C \cap T) \cup (T \ C) : price[x] \in Int BY <1>4
  <2>2. (C \cap T) \cap (T \ C) = {} OBVIOUS
  <2> QED BY <1>7, <1>9, <2>1, <2>2, SumOfDisjoint DEF Cost
<1>15. (C \cap T) \cup (C \ T) = C /\ (C \cap T) \cup (T \ C) = T OBVIOUS
<1>16. /\ Cost(C \cap T) \in Int /\ Cost(C \ T) \in Int /\ Cost(T \ C) \in Int
  <2>1. \A x \in C : price[x] \in Int BY <1>3, <1>4
  <2>2. \A x \in T : price[x] \in Int BY <1>4
  <2> QED BY <1>6, <1>7, <1>9, <2>1, <2>2, SumIsInt DEF Cost
<1>17. Cost(C) = Cost(C \cap T) + Cost(C \ T) BY <1>13, <1>15
<1>18. Cost(T) = Cost(C \cap T) + Cost(T \ C) BY <1>14, <1>15
<1>19. Cost(C) <= Cost(T) BY <1>12, <1>16, <1>17, <1>18
<1> QED BY <1>19 DEF C, k

-----------------------------------------------------------------------------
(* The floor of a squad. *)

\* The players of a squad at a position.
At(squad, pos) == {p \in squad : Players[p].position = pos}

\* A squad costs what its positions cost.
LEMMA CostByPosition ==
  ASSUME TypeOK, NEW squad \in SUBSET DOMAIN Players
  PROVE  Cost(squad)
           = SumFunctionOnSet([pos \in DOMAIN Required |-> Cost(At(squad, pos))],
                              DOMAIN Required)
<1>1. PICK A : A = [pos \in DOMAIN Required |-> At(squad, pos)] OBVIOUS
<1>2. PICK F : F = [pos \in DOMAIN Required |-> Cost(At(squad, pos))] OBVIOUS
<1>3. \A pos \in DOMAIN Required : A[pos] \in SUBSET squad BY <1>1 DEF At
<1>4. IsFiniteSet(squad) BY MarketAssumption, FS_Subset
<1>5. \A pos \in DOMAIN Required :
        IsFiniteSet(A[pos]) /\ F[pos] = SumFunctionOnSet(price, A[pos])
      BY <1>1, <1>2, <1>3, <1>4, FS_Subset DEF Cost
<1>6. \A pos \in DOMAIN Required : \A p \in A[pos] : price[p] \in Int
      BY <1>3 DEF TypeOK
<1>7. \A i, j \in DOMAIN Required : i # j => A[i] \cap A[j] = {} BY <1>1 DEF At
<1>8. SumFunctionOnSet(price, UNION {A[pos] : pos \in DOMAIN Required})
        = SumFunctionOnSet(F, DOMAIN Required)
      BY <1>5, <1>6, <1>7, RulesAssumption, SumOfParts
<1>9. UNION {A[pos] : pos \in DOMAIN Required} = squad
      BY <1>1, RulesAssumption DEF At
<1> QED BY <1>2, <1>8, <1>9 DEF Cost

\* Where somebody can be fielded at every position, every position has its row.
LEMMA FillsLeaveNoPositionOut ==
  ASSUME TypeOK, NEW squad \in Fills
  PROVE  /\ \A pos \in DOMAIN Required :
              /\ At(squad, pos) \in SUBSET Pickable(pos)
              /\ Cardinality(At(squad, pos)) = Required[pos]
              /\ Required[pos] <= Cardinality(Pickable(pos))
              /\ CheapestFill(pos) = First(Pickable(pos), Required[pos])
              /\ Cardinality(CheapestFill(pos)) = Required[pos]
         /\ MartPositions = DOMAIN Required
<1>1. squad \in SUBSET pickable /\ pickable \in SUBSET DOMAIN Players BY DEF Fills, TypeOK
<1>2. ASSUME NEW pos \in DOMAIN Required
      PROVE  /\ At(squad, pos) \in SUBSET Pickable(pos)
             /\ Cardinality(At(squad, pos)) = Required[pos]
             /\ Required[pos] <= Cardinality(Pickable(pos))
             /\ CheapestFill(pos) = First(Pickable(pos), Required[pos])
             /\ Cardinality(CheapestFill(pos)) = Required[pos]
             /\ CheapestFill(pos) # {}
  <2>1. Pickable(pos) \in SUBSET DOMAIN Players BY <1>1 DEF Pickable
  <2>2. At(squad, pos) \in SUBSET Pickable(pos) BY <1>1 DEF At, Pickable
  <2>3. Cardinality(At(squad, pos)) = Required[pos] BY DEF Fills, At
  <2>4. Required[pos] <= Cardinality(Pickable(pos))
        BY <2>1, <2>2, <2>3, RanksGrow, FS_Subset
  <2>5. CheapestFill(pos) = First(Pickable(pos), Required[pos])
        BY DEF CheapestFill, First, Rank, Before
  <2>6. Required[pos] \in Nat \ {0} BY RulesAssumption
  <2>7. Cardinality(CheapestFill(pos)) = Required[pos]
        BY <2>1, <2>4, <2>5, <2>6, FirstAreAsMany
  <2>8. CheapestFill(pos) # {} BY <2>6, <2>7, FS_EmptySet
  <2> QED BY <2>2, <2>3, <2>4, <2>5, <2>7, <2>8
<1> QED BY <1>2 DEF MartPositions

\* minimum_squad, while every position can be filled.
LEMMA FloorOfFills ==
  ASSUME TypeOK, Fills # {}
  PROVE  /\ minimum_squad = SumFunctionOnSet(
                [pos \in DOMAIN Required |-> Cost(CheapestFill(pos))], DOMAIN Required)
         /\ \A pos \in DOMAIN Required : Cost(CheapestFill(pos)) \in Int
<1>1. MartPositions = DOMAIN Required BY FillsLeaveNoPositionOut
<1>2. ASSUME NEW pos \in DOMAIN Required PROVE Cost(CheapestFill(pos)) \in Int
  <2>1. CheapestFill(pos) \in SUBSET DOMAIN Players
        BY DEF CheapestFill, Pickable, TypeOK
  <2>2. IsFiniteSet(CheapestFill(pos)) BY <2>1, MarketAssumption, FS_Subset
  <2>3. \A p \in CheapestFill(pos) : price[p] \in Int BY <2>1 DEF TypeOK
  <2> QED BY <2>2, <2>3, SumIsInt DEF Cost
<1>3. PICK F : F = [pos \in DOMAIN Required |-> Cost(CheapestFill(pos))] OBVIOUS
<1>4. minimum_squad = SumFunction(F) BY <1>1, <1>3 DEF minimum_squad
<1>5. SumFunction(F) = SumFunctionOnSet(F, DOMAIN Required) BY <1>3 DEF SumFunction
<1> QED BY <1>2, <1>3, <1>4, <1>5

\* No squad that fills the positions is cheaper, and one costs just as much.
LEMMA FloorIsReached ==
  ASSUME TypeOK, Fills # {}
  PROVE  /\ \A squad \in Fills : Cost(squad) >= minimum_squad
         /\ \E squad \in Fills : Cost(squad) = minimum_squad
<1>1. PICK F : F = [pos \in DOMAIN Required |-> Cost(CheapestFill(pos))] OBVIOUS
<1>2. minimum_squad = SumFunctionOnSet(F, DOMAIN Required)
        /\ \A pos \in DOMAIN Required : F[pos] \in Int
      BY <1>1, FloorOfFills
<1>3. pickable \in SUBSET DOMAIN Players BY DEF TypeOK
<1>4. ASSUME NEW squad \in Fills PROVE minimum_squad <= Cost(squad)
  <2>1. squad \in SUBSET DOMAIN Players BY <1>3 DEF Fills
  <2>2. PICK G : G = [pos \in DOMAIN Required |-> Cost(At(squad, pos))] OBVIOUS
  <2>3. Cost(squad) = SumFunctionOnSet(G, DOMAIN Required) BY <2>1, <2>2, CostByPosition
  <2>4. ASSUME NEW pos \in DOMAIN Required PROVE G[pos] \in Int /\ F[pos] <= G[pos]
    <3>1. At(squad, pos) \in SUBSET DOMAIN Players BY <2>1 DEF At
    <3>2. IsFiniteSet(At(squad, pos)) BY <3>1, MarketAssumption, FS_Subset
    <3>3. \A p \in At(squad, pos) : price[p] \in Int BY <3>1 DEF TypeOK
    <3>4. Cost(At(squad, pos)) \in Int BY <3>2, <3>3, SumIsInt DEF Cost
    <3>5. /\ At(squad, pos) \in SUBSET Pickable(pos)
          /\ CheapestFill(pos) = First(Pickable(pos), Cardinality(At(squad, pos)))
          BY FillsLeaveNoPositionOut
    <3>6. Pickable(pos) \in SUBSET DOMAIN Players BY <1>3 DEF Pickable
    <3>7. Cost(CheapestFill(pos)) <= Cost(At(squad, pos))
          BY <3>5, <3>6, FirstAreCheapest
    <3> QED BY <1>1, <2>2, <3>4, <3>7
  <2>5. SumFunctionOnSet(F, DOMAIN Required) <= SumFunctionOnSet(G, DOMAIN Required)
        BY <1>2, <2>4, RulesAssumption, SumIsMonotonic
  <2> QED BY <1>2, <2>3, <2>5
<1>5. \E squad \in Fills : Cost(squad) = minimum_squad
  <2> DEFINE squad == UNION {CheapestFill(pos) : pos \in DOMAIN Required}
  <2>1. \A pos \in DOMAIN Required : CheapestFill(pos) \subseteq Pickable(pos)
        BY DEF CheapestFill
  <2>2. ASSUME NEW pos \in DOMAIN Required PROVE At(squad, pos) = CheapestFill(pos)
        BY <2>1 DEF At, Pickable
  <2>3. squad \in SUBSET pickable BY <2>1 DEF Pickable
  <2>4. \A pos \in DOMAIN Required : Cardinality(At(squad, pos)) = Required[pos]
        BY <2>2, FillsLeaveNoPositionOut
  <2> HIDE DEF squad
  <2>5. squad \in Fills BY <2>3, <2>4 DEF Fills, At
  <2>6. PICK G : G = [pos \in DOMAIN Required |-> Cost(At(squad, pos))] OBVIOUS
  <2>7. Cost(squad) = SumFunctionOnSet(G, DOMAIN Required)
        BY <1>3, <2>3, <2>6, CostByPosition
  <2>8. F = G BY <1>1, <2>2, <2>6
  <2> QED BY <1>2, <2>5, <2>7, <2>8
<1>6. minimum_squad \in Int BY <1>2, RulesAssumption, SumIsInt
<1>7. ASSUME NEW squad \in Fills PROVE Cost(squad) \in Int
  <2>1. squad \in SUBSET DOMAIN Players BY <1>3 DEF Fills
  <2>2. IsFiniteSet(squad) BY <2>1, MarketAssumption, FS_Subset
  <2>3. \A p \in squad : price[p] \in Int BY <2>1 DEF TypeOK
  <2> QED BY <2>2, <2>3, SumIsInt DEF Cost
<1> QED BY <1>4, <1>5, <1>6, <1>7

\* minimum_squad is the price floor: no legal squad is cheaper, and but for the
\* cap per club the cheapest one costs just that.  For every set of players,
\* whatever prices do and whoever leaves.
THEOREM FloorsAreRight == Spec => []MinimumSquadIsTheFloor
<1>1. TypeOK => MinimumSquadIsTheFloor
  <2> SUFFICES ASSUME TypeOK PROVE MinimumSquadIsTheFloor OBVIOUS
  <2>1. LegalSquads \subseteq Fills BY DEF LegalSquads
  <2>2. \A squad \in LegalSquads : Cost(squad) >= minimum_squad
        BY <2>1, FloorIsReached
  <2>3. Fills # {} => \E squad \in Fills : Cost(squad) = minimum_squad
        BY FloorIsReached
  <2> QED BY <2>2, <2>3 DEF MinimumSquadIsTheFloor
<1> QED BY <1>1, TypeCorrect, PTL

\* The types of the floor and of its parts.
LEMMA FloorTypes ==
  ASSUME TypeOK
  PROVE  /\ \A pos \in DOMAIN Required : Cost(CheapestFill(pos)) \in Nat
         /\ minimum_squad \in Nat
<1>1. ASSUME NEW pos \in DOMAIN Required PROVE Cost(CheapestFill(pos)) \in Nat
  <2>1. CheapestFill(pos) \in SUBSET DOMAIN Players
        BY DEF CheapestFill, Pickable, TypeOK
  <2>2. IsFiniteSet(CheapestFill(pos)) BY <2>1, MarketAssumption, FS_Subset
  <2>3. \A p \in CheapestFill(pos) : price[p] \in Nat BY <2>1 DEF TypeOK
  <2> QED BY <2>2, <2>3, SumIsNat DEF Cost
<1>2. PICK F : F = [pos \in MartPositions |-> Cost(CheapestFill(pos))] OBVIOUS
<1>3. IsFiniteSet(MartPositions) /\ MartPositions \in SUBSET DOMAIN Required
      BY RulesAssumption, FS_Subset DEF MartPositions
<1>4. \A pos \in MartPositions : F[pos] \in Nat BY <1>1, <1>2, <1>3
<1>5. minimum_squad = SumFunctionOnSet(F, MartPositions)
      BY <1>2 DEF minimum_squad, SumFunction
<1>6. minimum_squad \in Nat BY <1>3, <1>4, <1>5, SumIsNat
<1> QED BY <1>1, <1>6

\* Every row of the mart carries the sum over all of them, so the test compares the
\* floor with 85% of the budget and the slots with a squad; its other lines hold.
LEMMA WhatTheTestAsks ==
  ASSUME TypeOK, MartPositions # {}, NEW above \in BOOLEAN
  PROVE  assert_minimum_squad_fits_budget(above)
           <=> /\ ~Exceeds(minimum_squad * 100, Budget * 85, above)
               /\ SumFunctionOnSet(Required, MartPositions) = SquadSize
<1> DEFINE mart == mart_position_scarcity
<1>1. DOMAIN mart = MartPositions BY DEF mart_position_scarcity
<1>2. \A pos \in MartPositions :
        /\ mart[pos].minimum_squad = minimum_squad
        /\ mart[pos].headroom = Budget - minimum_squad
        /\ mart[pos].cheapest_fill = Cost(CheapestFill(pos))
        /\ mart[pos].squad_required = Required[pos]
      BY DEF mart_position_scarcity
<1>3. Max({mart[pos].minimum_squad : pos \in DOMAIN mart}) = minimum_squad
  <2>1. {mart[pos].minimum_squad : pos \in DOMAIN mart} = {minimum_squad}
        BY <1>1, <1>2
  <2> QED BY <2>1, FloorTypes DEF Max
<1>4. Max({mart[pos].headroom : pos \in DOMAIN mart}) = Budget - minimum_squad
  <2>1. {mart[pos].headroom : pos \in DOMAIN mart} = {Budget - minimum_squad}
        BY <1>1, <1>2
  <2>2. Budget - minimum_squad \in Int BY FloorTypes, RulesAssumption
  <2> QED BY <2>1, <2>2 DEF Max
<1>5. SumFunction([pos \in DOMAIN mart |-> mart[pos].cheapest_fill]) = minimum_squad
  <2>1. [pos \in DOMAIN mart |-> mart[pos].cheapest_fill]
          = [pos \in MartPositions |-> Cost(CheapestFill(pos))]
        BY <1>1, <1>2
  <2> QED BY <2>1 DEF minimum_squad
<1>6. SumFunction([pos \in DOMAIN mart |-> mart[pos].squad_required])
        = SumFunctionOnSet(Required, MartPositions)
  <2>1. [pos \in DOMAIN mart |-> mart[pos].squad_required]
          = [pos \in MartPositions |-> Required[pos]]
        BY <1>1, <1>2
  <2>2. PICK R : R = [pos \in MartPositions |-> Required[pos]] OBVIOUS
  <2>3. SumFunction(R) = SumFunctionOnSet(R, MartPositions)
        BY <2>2 DEF SumFunction
  <2>4. IsFiniteSet(MartPositions) /\ MartPositions \in SUBSET DOMAIN Required
        BY RulesAssumption, FS_Subset DEF MartPositions
  <2>5. \A pos \in MartPositions : R[pos] = Required[pos] /\ Required[pos] \in Int
        BY <2>2, <2>4, RulesAssumption
  <2>6. SumFunctionOnSet(R, MartPositions) = SumFunctionOnSet(Required, MartPositions)
        BY <2>4, <2>5, SumOfEquals
  <2> QED BY <2>1, <2>2, <2>3, <2>6
<1>7. ~Exceeds(minimum_squad * 100, Budget * 85, above)
        => ~Exceeds(minimum_squad, Budget, above)
      BY FloorTypes, RulesAssumption DEF Exceeds
<1> HIDE DEF mart
<1>8. assert_minimum_squad_fits_budget(above)
        <=> (DOMAIN mart # {} =>
               LET floor == Max({mart[pos].minimum_squad : pos \in DOMAIN mart})
               IN  /\ ~Exceeds(floor, Budget, above)
                   /\ ~Exceeds(floor * 100, Budget * 85, above)
                   /\ floor = SumFunction([pos \in DOMAIN mart |-> mart[pos].cheapest_fill])
                   /\ Max({mart[pos].headroom : pos \in DOMAIN mart}) = Budget - floor
                   /\ SumFunction([pos \in DOMAIN mart |-> mart[pos].squad_required])
                        = SquadSize)
      BY DEF assert_minimum_squad_fits_budget, mart
<1> QED BY <1>1, <1>3, <1>4, <1>5, <1>6, <1>7, <1>8

\* The budget test does not fail a build while a legal squad for less than 85% of the
\* budget can be bought, on either side the rounding may fall.
THEOREM AffordableSquadsAreAccepted == Spec => []AffordableSquadsPassTheTest
<1>1. TypeOK => AffordableSquadsPassTheTest
  <2> SUFFICES ASSUME TypeOK, NEW squad \in LegalSquads,
                      Cost(squad) * 100 < Budget * 85, NEW above \in BOOLEAN
               PROVE  assert_minimum_squad_fits_budget(above)
      BY DEF AffordableSquadsPassTheTest
  <2>1. squad \in Fills BY DEF LegalSquads
  <2>2. Cost(squad) >= minimum_squad BY <2>1, FloorIsReached
  <2>3. Cost(squad) \in Int
    <3>1. squad \in SUBSET DOMAIN Players BY <2>1 DEF Fills, TypeOK
    <3>2. IsFiniteSet(squad) BY <3>1, MarketAssumption, FS_Subset
    <3>3. \A p \in squad : price[p] \in Int BY <3>1 DEF TypeOK
    <3> QED BY <3>2, <3>3, SumIsInt DEF Cost
  <2>4. ~Exceeds(minimum_squad * 100, Budget * 85, above)
        BY <2>2, <2>3, FloorTypes, RulesAssumption DEF Exceeds
  <2>5. MartPositions = DOMAIN Required BY <2>1, FillsLeaveNoPositionOut
  <2>6. SumFunctionOnSet(Required, MartPositions) = SquadSize
        BY <2>5 DEF SquadSize, SumFunction
  <2>7. CASE MartPositions # {} BY <2>4, <2>6, <2>7, WhatTheTestAsks
  <2>8. CASE MartPositions = {}
        BY <2>8 DEF assert_minimum_squad_fits_budget, mart_position_scarcity
  <2> QED BY <2>7, <2>8
<1> QED BY <1>1, TypeCorrect, PTL

\* The rows of the mart are the positions somebody can be bought in.
LEMMA PositionsOfMart ==
  ASSUME TypeOK
  PROVE  MartPositions = {pos \in DOMAIN Required : Pickable(pos) # {}}
<1> SUFFICES ASSUME NEW pos \in DOMAIN Required
             PROVE  CheapestFill(pos) # {} <=> Pickable(pos) # {}
    BY DEF MartPositions
<1>1. CheapestFill(pos) = First(Pickable(pos), Required[pos])
      BY DEF CheapestFill, First, Rank, Before
<1>2. ASSUME Pickable(pos) # {} PROVE CheapestFill(pos) # {}
  <2>1. Pickable(pos) \in SUBSET DOMAIN Players BY DEF Pickable, TypeOK
  <2>2. IsFiniteSet(Pickable(pos)) /\ Cardinality(Pickable(pos)) \in Nat BY <2>1, RanksGrow
  <2>3. Cardinality(Pickable(pos)) # 0 BY <1>2, <2>2, FS_EmptySet
  <2>4. Cardinality(First(Pickable(pos), 1)) = 1 BY <2>1, <2>2, <2>3, FirstAreAsMany
  <2>5. PICK p : p \in First(Pickable(pos), 1) BY <2>4, FS_EmptySet
  <2>6. Required[pos] \in Nat \ {0} BY RulesAssumption
  <2>7. p \in Pickable(pos) /\ Rank(Pickable(pos), p) < 1 BY <2>5 DEF First
  <2>8. Rank(Pickable(pos), p) \in Nat BY <2>1, <2>7, RanksGrow
  <2>9. Rank(Pickable(pos), p) < Required[pos] BY <2>6, <2>7, <2>8
  <2> QED BY <1>1, <2>7, <2>9 DEF First
<1>3. CheapestFill(pos) \subseteq Pickable(pos) BY DEF CheapestFill
<1> QED BY <1>2, <1>3

\* Whatever position the inner join drops, the sum of the slots gives it away; and
\* it gives nothing else away.
THEOREM EmptiedPositionsFailTheTest == Spec => []EmptiedPositionsAreNoticed
<1>1. TypeOK => EmptiedPositionsAreNoticed
  <2> SUFFICES ASSUME TypeOK PROVE EmptiedPositionsAreNoticed OBVIOUS
  <2>1. MartPositions = DOMAIN Required
          <=> SumFunctionOnSet(Required, MartPositions) = SquadSize
    <3>1. MartPositions \in SUBSET DOMAIN Required BY DEF MartPositions
    <3>2. /\ IsFiniteSet(DOMAIN Required)
          /\ \A pos \in DOMAIN Required : Required[pos] \in Nat \ {0}
          BY RulesAssumption
    <3>3. SquadSize = SumFunctionOnSet(Required, DOMAIN Required)
          BY DEF SquadSize, SumFunction
    <3>4. IsFiniteSet(MartPositions) BY <3>1, <3>2, FS_Subset
    <3>5. /\ SumFunctionOnSet(Required, MartPositions) \in Nat
          /\ SumFunctionOnSet(Required, DOMAIN Required) \in Nat
      <4>1. /\ \A pos \in DOMAIN Required : Required[pos] \in Nat
            /\ \A pos \in MartPositions : Required[pos] \in Nat
            BY <3>1, <3>2
      <4> QED BY <3>2, <3>4, <4>1, SumIsNat
    <3>6. MartPositions # DOMAIN Required
            => SumFunctionOnSet(Required, MartPositions)
                 < SumFunctionOnSet(Required, DOMAIN Required)
          BY <3>1, <3>2, SumOfProperPart
    <3> QED BY <3>3, <3>5, <3>6
  <2>2. MartPositions = DOMAIN Required <=> \A pos \in DOMAIN Required : Pickable(pos) # {}
        BY PositionsOfMart
  <2> QED BY <2>1, <2>2, WhatTheTestAsks DEF EmptiedPositionsAreNoticed
<1> QED BY <1>1, TypeCorrect, PTL
=============================================================================
