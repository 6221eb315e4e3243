SPECIFICATION Spec
CONSTANTS
    Packets <- MCPackets
    Outgoing <- MCOutgoing
    Incoming <- MCIncoming
    Acks <- MCAcks
    Requests <- RaceRequests
    Calls = {c1}
    Signer = "remote"
    Adapter = "evm_tag"
    FinalityOffset = 0
    NodeLag = 0
    MaxReorg = 1
    MaxHeight = 2
    TimeSteps = {1}
INVARIANTS
    SignerCallsCounted
