SPECIFICATION HFairSpec
CONSTANTS
    Keys = {0, 16, 40, 41, 44}
    LastLevel = 3
    CountMod = 8
    LivesLimit = 1
    OnesWrap = 2
    TensMod = 4
    BounceMod = 4
    FrameGap = 7
INVARIANTS
    HTypeOK
    LevelBound
    LevelCountsExits
    TitleClearsScore
    ScoresAgree
PROPERTIES
    NoLevelSkipped
    DoomEndsGame
    FinishingEndsGame
