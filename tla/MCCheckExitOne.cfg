CONSTANTS
    testA = testA
    testB = testB
    mainnet = mainnet
    Networks = {testA, testB, mainnet}
    SafeNets = {testA, testB}
    NoNet = NoNet
    Offers <- MCOffers
    Outcomes <- MCOutcomes
    MaxTargets = 3
    Findings <- MCFindings
SPECIFICATION CheckAloneSpec
INVARIANT ExitOneIsNonConformance
