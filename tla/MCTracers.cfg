\* The three tools, every fault, two signals.
CONSTANTS
    SegLo = 0  SegHi = 9
    Biases = {16}
    Starts <- BranchStarts  Length <- BranchLen  Succ <- BranchSucc
    Entry = 1  Exits = {7}
    Faults = {"fork", "signal", "kill"}
    Tools = {"counter", "count_syscall", "write_tracee"}
    Syscalls = {3, 7}
    Holes = {1, 5, 7}
    UsesRdx = {3}  SetsRdx = {1}
    Listed = 3  inject_byte <- BranchList
    ToolFaults = {"exec", "file", "interrupt"}
    MaxSignals = 2
SPECIFICATION Spec
INVARIANTS TypeOK CountAccounts ToggleAgrees PatchesRight NotLeftBehind
PROPERTIES RunsTheProgram ToolEnds
