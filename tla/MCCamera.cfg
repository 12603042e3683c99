SPECIFICATION Spec
CONSTANTS
    ClientThreads = {t1, t2}
    t1 = t1
    t2 = t2
    MaxDeaths = 2
    MaxFrames = 1
    MaxStops = 1
    NumCameras = 2
    MaxTexts = 4
    VendorOps <- TagsOfVendors
    Boundary = 10
    NumTypes = 2
    Metas = {1, 2}
    NumBuffers = 4
    MaxMetaCalls = 4
    VendorTexts <- TextsOfVendors
    AppKeys <- KeysOfApp
    AppValues <- ValuesOfApp
    AppNumbers = {4, 6}
    MaxParamCalls = 3
SYMMETRY ThreadSymmetry
INVARIANTS
    CallsAreFaithful
    DeathsAreNoticed
    RacesAreSafe
    VendorIsServed
    TagsSurviveParcel
    MetadataIsKept
    ParametersAreKept
CHECK_DEADLOCK FALSE
