\* Every base and name, two options, two calls.
CONSTANTS
    Name <- Names  Hidden = {".rc", "~u"}  StartsWith <- Longer
    Pwd <- HomeDir  Home <- HomeDir
    Bases <- MCBases  Paths <- MCPaths
    MaxOptions = 2
    MaxCalls = 2
SPECIFICATION Spec
INVARIANTS TypeOK GrantedWorks NeverWithdrawn RefusalStands
