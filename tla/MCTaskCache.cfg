SPECIFICATION Spec
CONSTANTS
    k1 = k1  k2 = k2
    Key <- Keys
    Roots = 2
    Offers <- Offering
    Raws = {TRUE, FALSE}
    Starts <- Starting
    None = None
    MaxProcs = 2
    MaxFaults = 1
INVARIANTS
    TypeOK
    HitIsOneRun
    TreeIsOneArtifact
    ActivePartIsKept
    RemoteIsComplete
    RawMarkerIsHonest
PROPERTIES
    OutputsSurvive
