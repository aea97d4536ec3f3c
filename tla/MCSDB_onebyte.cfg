\* A patient user and a break point on a one-byte instruction.
CONSTANTS
    SegLo = 4  SegHi = 8
    Biases = {0}
    Starts <- ShortStarts  Length <- ShortLen  Succ <- ShortSucc
    Entry = 5  Exits = {6}
    Faults = {}
    ShAddr = 5  ShOffset = 1  ShSize = 3
    Paths = {"plain"}
    BreakAddrs = {5}
    RipTargets <- NoAddrs
    LookAddrs <- NoAddrs
    MaxBP = 1
    MaxDrift = 0
    MaxLook = 1  MaxLines = 1
    Garbage = {0}
SPECIFICATION PatientSpec
PROPERTY Terminates
