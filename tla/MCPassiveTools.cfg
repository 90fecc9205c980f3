CONSTANTS
    u1 = u1
    u2 = u2
    u3 = u3
    u4 = u4
    u5 = u5
    u6 = u6
    u7 = u7
    u8 = u8
    u9 = u9
    u10 = u10
    u11 = u11
    h1 = h1
    h2 = h2
    NoAnswer = NoAnswer
    NoPage = NoPage
    MaxRetries = 1
    MaxFaults = 2
    Urls = {u1, u2, u3, u4, u5, u6, u7, u8, u9, u10, u11}
    Hosts = {h1, h2}
    Web <- MCWeb
    MaxCrossFetches = 4
    MaxCrossFetchesPerHost = 2
    MaxRedirects = 2
    MaxListings = 3
    MaxGrowth = 1
    Calls <- MCCalls
    Redeployed <- MCRedeployed
    Bazaars <- MCBazaars
    NewListings <- MCNewListings
    MaxReports = 2
SPECIFICATION ToolsSpec
INVARIANT AccusesOnlyTheGuilty
INVARIANT DefectsAreFound
INVARIANT DiscoveryAccusesRightly
INVARIANT CrossFetchIsBounded
INVARIANT CleanDiffKeepsTheVerdict
PROPERTY EveryCallAnswers
