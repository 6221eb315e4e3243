SPECIFICATION Spec
CONSTANTS
    Packets <- MCPackets
    Outgoing <- MCOutgoing
    Incoming <- MCIncoming
    Acks <- MCTwoAcks
    Requests <- RaceRequests
    Calls = {c1, c2}
    Signer = "remote"
    Adapter = "solana"
    FinalityOffset = 0
    NodeLag = 1
    MaxReorg = 1
    MaxHeight = 3
    TimeSteps = {1}
INVARIANTS
    SignedStatementsTrue
    SignaturesAgree
    TimeoutsAreSound
PROPERTIES
    ImplementsNotary
SYMMETRY CallSymmetry
