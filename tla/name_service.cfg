SPECIFICATION NameServiceSpec
CONSTANTS
    ResolverFamilies = {"ipv4", "ipv6"}
    LookupBound = 2
    ConnectionTimeout = 3
    NoFamily = NoFamily
    Names <- TwoNames
    Servers <- ThreeServers
    RetryServfail = FALSE
    Caching = TRUE
    Lifetime = 5
    QueryTimeout = 2
    FirstBackoff = 1
    MaxBackoff = 2
    Unset = Unset
    CacheKeys = {1, 2, 3}
    Sentinel = 0
    CacheSize = 2
    CleaningInterval = 1
    MaxAnswerTtl = 1
    MaxTime = 1
    Timeout = 3
    BodySize = 2
    Backlog = 2
    MaxSent = 3
    LateReads = FALSE
    OwnerNames <- TwoOwners
    Rdatas <- AddressAndServers
    MaxSize = 12
    MaxPointer = 6
    MaxLabels = 3
    MaxRRset = 2
    DomainNames <- SmallTree
    Aliases <- TwoAliases
    MaxChain = 2
    MaxTtl = 2
    SerialModulus = 8
    SerialCircle = 8
    Threads = {1, 2, 3}
    Owners = {"apex"}
    Origin = "apex"
    RecordTypes = {"SOA", "CNAME", "A"}
    RecordData <- DataOf
    Increments = {1}
    MaxVersions = {2}
    LastVersion = 3
    TxnOperations = 1
    Nobody = Nobody
    Serials = {1, 2, 3}
    ZoneRecords = {"a", "b"}
    HeldZones <- EmptyAndSmall
    NoSoa = 0
    MaxReceived = 7
    QuicQueries = {1, 2}
    ThreadQueries = {1}
    AnswerSize = 1
    QuicTimeout = TRUE
    TableNames <- SomeNames
    MaxSets = 3
    UpdateNames = {"a"}
    UpdateTypes = {"A", "TXT"}
    UpdateData = {1, 2}
    ZoneBefore <- TwoRecords
    MaxCalls = 2
    TextChars <- SomeChars
    MaxText = 4
    WrittenNames <- SpecialNames
    WrittenStrings <- SpecialStrings
    ReadOrigin <- TextOrigin
    FileLines <- SomeLines
    MaxLines = 4
    ZoneName <- ZoneOrigin
    Minimum = 3
    Unknown = Unknown
    ZoneKeys <- ThreeKeys
    DenySign = {"md5"}
    DenyValidate = {"md5"}
    KnownHash = {"md5", "rsa"}
    SignedOwner <- WildcardOwner
    ExpandedOwners <- TwoExpansions
    RRsetData = {1, 2}
    MaxSignatures = 2
    SignatureLifetime = 0
    MaxSecTime = 1
INVARIANTS
    OutboundUsesWhatWorks
    LookupsSound
    MessageSound
    UpdateMeansItsCalls
    NamesSound
    ZoneIsClosest
    ZoneTextSound
    ZoneReadRight
    TransferAllOrNothing
    ValidatedIsSigned
PROPERTIES
    LookupsEnd
    CachesSound
    QuicAnswersTaken
    VersionsSound
    WritersServed
\* Each part comes to an end, or waits for the network.
CHECK_DEADLOCK FALSE
