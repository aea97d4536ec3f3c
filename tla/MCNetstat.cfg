\* Two processes, three sockets, one change of the system, no table of UDP6.
CONSTANTS
    Sock = {1, 2, 3}  Family <- TwoTcpOneUdp
    Opens = {{1, 2}, {2, 3}}
    Pid = {1, 2}  Fd = {0, 1}
    Missing = {"UDP6"}  Nameless = {1}
    Visible = {1, 2}
    Requests <- Options
    Filters = {{2}}
    Tails = {TRUE, FALSE}
    MaxFiles = 9
    MaxChanges = 1
SPECIFICATION Spec
INVARIANTS TypeOK OwnersReal QuietScanComplete FailsForAReason
PROPERTIES PrintsOwners ToolEnds
