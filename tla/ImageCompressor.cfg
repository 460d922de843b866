SPECIFICATION Spec
CONSTANTS
    Pairs <- MCPairs
    Garbage <- MCGarbage
    Factors = {0, 3000}
    NoFile = NoFile
    Outputs = {1}
    MaxCommands = 2
INVARIANTS TypeOK PackedIsATree DecompressionApproximates MirrorReflects OverlayAverages RepackingNeverGrows
CHECK_DEADLOCK FALSE
