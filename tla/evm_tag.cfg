SPECIFICATION Spec
CONSTANTS
    Packets <- MCPackets
    Outgoing <- MCOutgoing
    Incoming <- MCIncoming
    Acks <- MCAcks
    Requests <- RaceRequests
    Calls = {c1, c2}
    Signer = "remote"
    Adapter = "evm_tag"
    FinalityOffset = 0
    NodeLag = 1
    MaxReorg = 1
    MaxHeight = 3
    TimeSteps = {1, 2}
INVARIANTS
    SignedStatementsTrue
SYMMETRY CallSymmetry
