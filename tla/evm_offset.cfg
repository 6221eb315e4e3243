SPECIFICATION Spec
CONSTANTS
    Packets <- MCPackets
    Outgoing <- MCOutgoing
    Incoming <- MCIncoming
    Acks <- MCAcks
    Requests <- OffsetRequests
    Calls = {c1, c2}
    Signer = "local"
    Adapter = "evm_offset"
    FinalityOffset = 1
    NodeLag = 1
    MaxReorg = 1
    MaxHeight = 3
    TimeSteps = {1}
INVARIANTS
    TypeOK
    SignedStatementsTrue
    TimeoutsAreSound
    SignsWhatWasAsked
    RepliesAreSequential
    MetricsAccountForReplies
    EveryFailureCountedOnce
    ReceiptFailuresCounted
    SignerCallsCounted
PROPERTIES
    ImplementsNotary
SYMMETRY CallSymmetry
