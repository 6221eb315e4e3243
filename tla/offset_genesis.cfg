SPECIFICATION Spec
CONSTANTS
    Packets <- MCPackets
    Outgoing <- MCOutgoing
    Incoming <- MCIncoming
    Acks <- MCAcks
    Requests <- EarlyRequests
    Calls = {c1}
    Signer = "local"
    Adapter = "evm_offset"
    FinalityOffset = 1
    NodeLag = 0
    MaxReorg = 1
    MaxHeight = 2
    TimeSteps = {1}
PROPERTIES
    NoHeightBeforeFinality
