SPECIFICATION Spec
CONSTANTS
    Second = 15
    SecondsMod = 4
    LowNs = 4
    Tick = 2
    PulseWidth = 8
    Period = 5
    NsOffsets <- MCNsOffsets
    SecondsOffsets <- MCSecondsOffsets
INVARIANTS
    CorrectionsKept
    ReceiptCompleted
    NanosecondsFit
PROPERTIES
    SecondsAnnounced
