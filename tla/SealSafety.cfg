SPECIFICATION FairSpec
CONSTANTS
    Sealers = {s1, s2}
    Cron = {s1}
    Landings <- MCLandings
    Budget = 8
    PartSize = 4
    Window = 2
    Nothing = Nothing
    MaxFaults = 1
INVARIANTS
    PublishedStaysWhole
    CoverageIsExact
    OneObjectLateIsMerged
    CurrentIsCovered
PROPERTIES
    LandedIsSealed
