CONSTANTS
    Table <- MCTable
    CommandLine <- MCCommandLine
    NumberOf <- MCNumberOf
    Piece <- MCPiece
    MaxArgs = 3
SPECIFICATION FairSpec
INVARIANTS RunsIffRight OperandsKept SettingAsAsked
PROPERTY ParseEnds
CHECK_DEADLOCK FALSE
