SPECIFICATION Spec
CONSTANTS
    Adapters = {"a1", "a2", "a3"}
    Events = {"POSITION", "NI"}
    ContextsOf <- AdapterContexts
    EvtMask <- AdapterMask
    BgExclMask = {"POSITION"}
    Toggled = {"NI"}
    ApiRequests = {"requestTime"}
    Takes <- AdapterTakes
    Platforms <- LocPlatforms
    MAX_ADAPTERS = 2
    MaxMsgs = 2
    Data = {"t1", "t2", "t3", "t4", "t5", "t6"}
    Rank <- TimerRank
    SvReports <- SatelliteReports
    Fixes <- NmeaFixes
    Updatable = {"SUPL_VER"}
    ReinitOnly = {"XTRA_VERSION_CHECK"}
    ConfigData <- UpdateData
    GpsConf <- FileConf
    Hosts = {"h1"}
    GnssType = "GNSS_QCA1530"
    VoteRight = TRUE
    HasMeasurements = TRUE
    MaxCalls = 4
    MaxRestarts = 1
    MaxPending = 1
    LightStates <- LightsSet
    Channels = {0, 128, 255}
INVARIANTS
    AdaptersAreServed
    ModemFollowsEngine
    LedIsRight
PROPERTIES
    RightAdaptersAreTold
    HeapIsSound
    SentencesAreRight
CHECK_DEADLOCK FALSE
