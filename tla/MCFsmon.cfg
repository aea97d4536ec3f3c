\* Every call may fail but close, fclose and closedir.
CONSTANTS
    Thread = {t1, t2}
    Fd <- Fds
    File = {f}
    Dir = {a, b}
    Ptr = {p}
    Tty = tty  None = none  Done = done  LogFile = log
    CanFail = {"open", "creat", "fopen", "fdopen", "dup", "dup2", "use", "path",
               "opendir", "readdir"}
    Lowest = TRUE
    MaxOpen = 2
    Outputs = {"writable"}
SPECIFICATION MonitorSpec
INVARIANTS TypeOK NamesRight DirsKnown LogApart
PROPERTY AsUsualButNumbers
SYMMETRY Symmetry
