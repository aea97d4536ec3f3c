\* cont of a loop through a break point.
CONSTANTS
    SegLo = 0  SegHi = 7
    Biases = {8, 16}
    Starts <- LoopStarts  Length <- LoopLen  Succ <- LoopSucc
    Entry = 1  Exits = {5}
    Faults = {}
    ShAddr = 1  ShOffset = 1  ShSize = 6
    Paths = {"plain"}
    BreakAddrs = {3}
    RipTargets <- NoAddrs
    LookAddrs <- NoAddrs
    MaxBP = 1
    MaxDrift = 0
    MaxLook = 1  MaxLines = 1
    Garbage = {0}
SPECIFICATION CarefulSpec
INVARIANT BreakpointsArmed
