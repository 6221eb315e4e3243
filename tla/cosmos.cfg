SPECIFICATION FairSpec
CONSTANTS
    Packets <- MCPackets
    Outgoing <- MCOutgoing
    Incoming <- MCIncoming
    Acks <- MCAcks
    Requests <- RaceRequests
    Calls = {c1, c2}
    Signer = "remote"
    Adapter = "cosmos"
    FinalityOffset = 0
    NodeLag = 1
    MaxReorg = 0
    MaxHeight = 3
    TimeSteps = {1}
INVARIANTS
    RepliesAreSequential
    TimeoutsAreSound
PROPERTIES
    EveryCallEnds
    EveryStepAdvances
    UsesSigner
