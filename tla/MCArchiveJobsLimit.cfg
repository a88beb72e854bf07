\* Two extractions on a server that allows one at a time, and a user at work; no
\* symmetry, for liveness.
CONSTANTS
    Jobs = {j1, j2}
    Servers = {s}
    Dirs = {d}
    Names = {m}
    MaxCopies = 2
    MaxActive = 1
    MayExist = {}
    UserActs = TRUE
    None = None
SPECIFICATION FairSpec
INVARIANTS ArchiveInv
PROPERTIES JobsEnd
CHECK_DEADLOCK FALSE
