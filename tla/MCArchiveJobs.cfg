\* Two extractions to one folder of archives of up to two items.
CONSTANTS
    Jobs = {j1, j2}
    Servers = {s}
    Dirs = {d}
    Names = {m, n}
    MaxCopies = 2
    MaxActive = 2
    MayExist <- Plain
    UserActs = FALSE
    None = None
SYMMETRY Symmetry
SPECIFICATION Spec
PROPERTIES ShowsExtraction ReplacedOnRequest
CHECK_DEADLOCK FALSE
