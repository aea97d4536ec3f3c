\* A careful user, a loop, a PIE file at two load biases, signals.
CONSTANTS
    SegLo = 0  SegHi = 7
    Biases = {8, 16}
    Starts <- LoopStarts  Length <- LoopLen  Succ <- LoopSucc
    Entry = 1  Exits = {5}
    Faults = {"signal"}
    ShAddr = 1  ShOffset = 1  ShSize = 6
    Paths = {"plain"}
    BreakAddrs = {1, 3, 5}
    RipTargets <- NoAddrs
    LookAddrs = {5}
    MaxBP = 3
    MaxDrift = 0
    MaxLook = 1  MaxLines = 1
    Garbage = {0}
SPECIFICATION CarefulSpec
INVARIANTS TextIntegrity NoOrphanTrap ArmedUnlessMissed DisasmShows
PROPERTIES Relocates Transparent
