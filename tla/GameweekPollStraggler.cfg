SPECIFICATION Spec
CONSTANTS
    LastGameweek = 3
    MaxVersion = 1
    MaxLost = 0
    None = None
PROPERTIES StragglersAreRecovered
