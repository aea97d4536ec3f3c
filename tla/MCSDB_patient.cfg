\* A patient user and a program that ends.
CONSTANTS
    SegLo = 0  SegHi = 7
    Biases = {8, 16}
    Starts <- LoopStarts  Length <- LoopLen  Succ <- LineSucc
    Entry = 1  Exits = {5}
    Faults = {"fork"}
    ShAddr = 1  ShOffset = 1  ShSize = 6
    Paths = {"plain"}
    BreakAddrs = {1, 3, 5}
    RipTargets <- NoAddrs
    LookAddrs <- NoAddrs
    MaxBP = 2
    MaxDrift = 0
    MaxLook = 1  MaxLines = 1
    Garbage = {0}
SPECIFICATION PatientSpec
PROPERTIES CommandReturns Terminates
