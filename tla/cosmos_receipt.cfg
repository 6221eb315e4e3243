SPECIFICATION Spec
CONSTANTS
    Packets <- MCPackets
    Outgoing <- MCOutgoing
    Incoming <- MCIncoming
    Acks <- MCAcks
    Requests <- RaceRequests
    Calls = {c1}
    Signer = "local"
    Adapter = "cosmos"
    FinalityOffset = 0
    NodeLag = 0
    MaxReorg = 0
    MaxHeight = 3
    TimeSteps = {1}
INVARIANTS
    ReceiptFailuresCounted
