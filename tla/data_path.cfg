SPECIFICATION Spec
CHECK_DEADLOCK FALSE
CONSTANTS
    RLThread = {u1, u2}
    RLConfig <- QuotaFiles
    RLTokens = {1}
    RLHour = 2
    RLDay = 4
    RLMaxNow = 5
    SKLog <- LogNames
    SKConfs <- Accuracies
    SKReal <- Reals
    SKValue <- Values
    SKNan = 99
    SKTiny = 98
    SKKey <- Indices
    SKBatch <- Batches
    SKItem = {"x", "y"}
    SKColumn <- HashColumns
    SKRegister <- HashBits
    SKMaxInt = 2
    SKMaxUint = 5
    SKMaxBins = 2
    SKQuantile <- Quantiles
    SKMaxOps = 4
    NKMaxOps = 3
    GSSketch <- LogNames
    GSValue <- GoValues
    GSTop = 99
    GSKey <- GoKeys
    GSNanKeys = {0}
    GSItem = {"x", "y"}
    GSRow = {1, 2}
    GSCol = {1, 2}
    GSColumn <- HashColumns
    GSRegister <- HashBits
    GSDelta = {1, 2}
    GSQuantiles <- Quantiles
    GSWord = 5
    GSMaxOps = 4
    WLShape <- Shapes
    WLMaxNow = 9
    DSValue = {1, 3}
    DSWindow = 2
    DSBackfill = 2
    DSMaxNow = 7
    DSMaxAdds = 3
    DSMaxTold = 3
    AGTarget <- Targets
    AGConfig <- Agents
    AGGauge <- Gauges
    AGNaN <- NotANumber
    AGMaxSource = 1
    AGMaxCycles = 3
    OXWorker = {w1, w2}
    OXConfigs <- Exporters
    OXHistogram <- Histograms
    OXMaxValue = 1
    OXMaxPayload = 3
    RBThread = {t1, t2}
    RBTokens = {"a", "b"}
    RBSpaces = {"p"}
    RBGrants <- Grants
    RBMaxGrants = 1
    RBMaxChecks = 2
    SAClients = {c1, c2}
    SARequests <- Calls
    SAAuth <- Tokens
    SALimit = 2
    SAInt64 = 5
    SAUint64 = 11
    SAStart <- Stored
    SASettings <- Environments
    SRStreams = {"cur", "base"}
    SRReaders = {r1}
    SRPairs <- Pairs
    SRPeers <- AtPeers
    SRRoom = 1
    SRObjects = 3
    SRAdds = 2
    ANLatency <- Latencies
    ANConf <- Canaries
    ANMax = 3
    SQFragment <- Pieces
    SQPieces = 5
    SQPlan <- Plans
    SQThread = {"t1", "t2"}
    SQRow <- InputRows
    SQMaxRows = 3
    SQExpr <- Expressions
    SQResult <- Results
    CIFile <- Reports
    CIConf <- Thresholds
    CIMissing <- Missing
    CIBad <- Malformed
    DHConf <- Pools
    DHVersions <- Versions
    DHOutages = 2
    QSProcess = {"p", "q"}
    QSName = {"n"}
    QSHistory = 1
    QSMaxOps = 3
INVARIANTS
    
    SKSafe
    NKSafe
    
    
    DSSafe
    AGSafe
    
    
    
    SRSafe
    ANSafe
    
    
    QSDurable
