SPECIFICATION FairSpec
CONSTANTS
    LastGameweek = 3
    MaxVersion = 1
    MaxLost = 1
    None = None
INVARIANTS TypeOK
PROPERTIES NothingThatMovesIsLeftBehind ObservationsNeverGoBack SettledPointsArrive
