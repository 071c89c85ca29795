SPECIFICATION Spec
CONSTANTS
    en2 = en2
    pdp = pdp
    a = a
    b = b
    g = g
    None = None
    AUTO = AUTO
    Names = {en2}
    Kind <- KindOf
    Addresses <- IPv6Addresses
    PreferVpn = TRUE
    ProxySelection = en2
    OutboundSelection = en2
    MissingScans = 3
    Grace = 3
    CacheTTL = 4
    WarnAfter = 2
    Scans = 2
    MaxChanges = 2
    BackgroundLite = TRUE
    UiRefreshes = TRUE
INVARIANTS
    RegistryTruthful
