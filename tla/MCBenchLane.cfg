SPECIFICATION FairLaneSpec
CONSTANTS
    Setups <- MCSetups
    Kind <- MCKind
    Replies <- MCReplies
    Outputs <- MCOutputs
    UsualTime <- MCUsual
    MaxRounds = 3
    MaxCrashes = 1
INVARIANTS
    JournalHolds
    EndedIsFinal
    BarIsSound
PROPERTIES
    LaneEnds
