\* Two loads of eight files, every allocation and read may fail.
CONSTANTS
    MaxSections = 6
    Files <- SomeFiles
    Junk <- SomeJunk
    Breakdowns = {"open", "memory", "read"}
    MaxLoads = 2
SPECIFICATION Spec
INVARIANTS TypeOK PointersLive FreedOnce LostOnly LoadedOrClean
