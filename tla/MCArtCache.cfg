SPECIFICATION FairSpec
CONSTANTS
    g1 = g1
    g2 = g2
    Cards <- MCCards
    Startups = {g1}
    BuiltIn = {g1, g2}
    NULL = NULL
    ShowLogo = TRUE
    MaxLoads = 2
    MaxEvents = 2
INVARIANTS OneLoader CoverIsForGame NoTextureIsLost
PROPERTIES LoadingEnds
