\* Every user, every fault, every spelling of the file name.
CONSTANTS
    SegLo = 4  SegHi = 8
    Biases = {0}
    Starts <- ShortStarts  Length <- ShortLen  Succ <- ShortSucc
    Entry = 5  Exits = {6}
    Faults = {"fork", "signal", "kill"}
    ShAddr = 5  ShOffset = 1  ShSize = 3
    Paths = {"plain", "dotted", "absolute"}
    BreakAddrs = {5, 8}
    RipTargets = {6}
    LookAddrs <- NoAddrs
    MaxBP = 2
    MaxDrift = 6
    MaxLook = 1  MaxLines = 1
    Garbage = {6}
SPECIFICATION Spec
INVARIANTS TypeOK RegsCoherent BpDistinct WaitsAnswered BaseAddrTrue
