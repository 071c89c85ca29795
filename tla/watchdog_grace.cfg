SPECIFICATION FairSpec
CONSTANTS
    en2 = en2
    pdp = pdp
    a = a
    b = b
    g = g
    None = None
    AUTO = AUTO
    Names = {en2, pdp}
    Kind <- KindOf
    Addresses <- FewAddresses
    PreferVpn = TRUE
    ProxySelection = en2
    OutboundSelection = AUTO
    MissingScans = 2
    Grace = 3
    CacheTTL = 4
    WarnAfter = 1
    Scans = 1
    MaxChanges = 2
    BackgroundLite = FALSE
    UiRefreshes = FALSE
PROPERTIES
    RestartHasReason
    EventuallyBound
