\* Two processes with one descriptor each, in a system that does not change.
CONSTANTS
    Sock = {1, 2, 3}  Family <- TwoTcpOneUdp
    Opens = {{1, 2}}
    Pid = {1, 2}  Fd = {0}
    Missing = {}  Nameless = {}
    Visible = {1, 2}
    Requests <- Options
    Filters = {{1, 2}}
    Tails = {TRUE}
    MaxFiles = 20
    MaxChanges = 0
SPECIFICATION Spec
PROPERTIES RowsTrue
