SPECIFICATION Spec
CONSTANTS
    PACKET_SIZE = 232
    USER_DESCRIPTION_MAX = 128
    DataSets <- MCDataSets
    Options <- MCOptions
INVARIANTS
    ReadAsPacked
    FrameLegal
    OnlyItsOctets
    OneSignalEach
