SPECIFICATION FairSpec
CONSTANTS
    Configs <- MCConfigs
    Results <- MCResults
    Hashers = {"setup", "worker", "other"}
    Content <- MCContent
    Pin = "pinned"
    MaxVersion = 1
INVARIANTS
    CompleteIsEarned
    TimingAfterAgreement
    RunEndsReported
    VerdictsAreTrue
PROPERTIES
    CoordinatorEnds
