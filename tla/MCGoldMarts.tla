---------------------------- MODULE MCGoldMarts -----------------------------
(* Three clubs and three gameweeks, each club without a match in one of them:
   a fixture that is postponed and given a new gameweek makes a double one, and
   two gameweeks of outlook run off the end of the season.  The cheapest squad
   of one goalkeeper and two forwards would take two players of one club, which
   one per club forbids; two departures can empty a position.               *)
EXTENDS GoldMarts

MCTeams == {"A", "B", "C"}

Fixture(home, hd, away, ad, g) ==
  [home |-> [team |-> home, difficulty |-> hd],
   away |-> [team |-> away, difficulty |-> ad], gameweek |-> g]

MCCard == <<Fixture("A", 2, "B", 4, 1), Fixture("C", 3, "A", 5, 2),
            Fixture("B", 1, "C", 4, 3)>>
MCFixtures == DOMAIN MCCard

MCResults == {[home |-> 0, away |-> 0], [home |-> 2, away |-> 1]}

Player(team, position, cost) == [team |-> team, position |-> position, price |-> cost]

MCPlayers == <<Player("A", "GKP", 5), Player("B", "GKP", 6), Player("A", "FWD", 5),
               Player("C", "FWD", 6), Player("B", "FWD", 6)>>

MCRequired == [pos \in {"GKP", "FWD"} |-> IF pos = "GKP" THEN 1 ELSE 2]
=============================================================================
