SPECIFICATION Spec
CHECK_DEADLOCK FALSE
CONSTANTS
    AMThread = {"t1", "t2"}
    AMAlert = {"a1", "a2", "bad"}
    AMSeverityOf <- Severities
    AMSilence <- Silences
    AMRoute <- Routes
    AMChannel <- Channels
    AMDefault <- DefaultChannels
    AMMaxRetry = 1
    AMMaxWork = 3
    AMMaxRoutes = 2
    AMMaxNow = 1
    AERule <- DriftRules
    AEReport <- DriftReports
    AELoop = {"l1", "l2"}
    AERefire = 2
    AEMaxPolls = 3
    AEMaxNow = 2
    CKLog = {"A", "B"}
    CKThread = {"t1", "t2"}
    CKBatch = {"x"}
    CKMaxOps = 3
    KOOrder <- ResourceOrder
    KOSpec <- Resources
    KOStart <- EarlyResources
    KODry = {TRUE, FALSE}
    KOMaxEdits = 2
    KOMaxFaults = 2
    CLCall = {"t1"}
    CLRetries = 2
    CLMaxErrors = 2
    CLMaxEvents = 2
    CLMaxPools = 2
    CLMaxPolls = 4
    EBSock = {s1}
    EBCpus = 2
    EBBounds <- Boundaries
    EBSteps = 2
    EBLatency = {2, 9}
    EBBatch = 2
    EBMaxRecord = 3
    EBMaxFaults = 1
INVARIANTS
    
    AESafe
    
    CLSafe
    EBSafe
PROPERTIES
    
    
    CallsEnd
