SPECIFICATION BlockSpec
CONSTANTS
    Lines <- MCLines
    MaxLines = 5
    Swappers = {"swapper/0"}
    Rules <- MCRules
    NameOf <- MCNameOf
    Flinks = {"flink", "flinkish"}
    Proxies = {"proxy", "proxyx"}
    Decimals = {"7", "24567"}
    LongHex = {"5d4f8c", "decade"}
INVARIANTS
    RowsAreTheLines
    FrameRowsNest
    PodsShareName
CHECK_DEADLOCK FALSE
