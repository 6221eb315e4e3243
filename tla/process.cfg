SPECIFICATION FairSpec
CONSTANTS
    p1 = p1
    p2 = p2
    o1 = o1
    o2 = o2
    Procs <- MCProcs
    KeyHolders <- MCKeyHolders
    Operators <- MCOperators
    MaxCalls = 2
INVARIANTS
    LifecycleTypeOK
    OneKeyPerKeystore
    CallsCutOnlyByFailure
    SuccessMeansServed
    NoShutdownIsStuck
PROPERTIES
    KeystoreIsFinal
    EveryProcessAdvances
    SignalledProcessExits
