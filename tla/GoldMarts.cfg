SPECIFICATION Spec
CONSTANTS
  Teams <- MCTeams
  Fixtures <- MCFixtures
  Card <- MCCard
  LastGameweek = 3
  Results <- MCResults
  Players <- MCPlayers
  MaxMoves = 2
  Null = null
  Horizon = 2
  Required <- MCRequired
  ClubCap = 1
  Budget = 20
CHECK_DEADLOCK FALSE
INVARIANTS TypeOK BothDugoutsTellOneMatch HorizonIsTheNextGameweeks OutlookIsAhead PriorTotalsAreFlagged MinimumSquadIsTheFloor AffordableSquadsPassTheTest EmptiedPositionsAreNoticed
