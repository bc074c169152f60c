CONSTANTS
    PosMod = 16
    Size = 4
    Tile = 2
    Columns = 8
    Addresses = 128
    MapBits = 72
    Walls <- MCWalls
    HomeX = 6
    HomeY = 2
    FinishY = 12
    BallHome = 2
    BallRow <- MCBallRow
    BallStep = 2
    ScreenX = 11
SPECIFICATION FairSpec
INVARIANTS TypeOK HitsAreReal
PROPERTIES RowIsSwept ArenaSpec
