SPECIFICATION RoundTripSpec
CONSTANTS
    Hardware <- MCHardware
    Config <- MCConfig
    Missing = Missing
INVARIANTS
    Restored
    SavedFileLoads
CHECK_DEADLOCK FALSE
