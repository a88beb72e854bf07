\* Two servers, two extractions, two files, one failed call, one change of the server, two things asked for, two calls at once.
CONSTANTS
  Servers = {a, b}
  Jobs = {j1, j2}
  Files = {f, g}
  MaxFaults = 1
  MaxSwitch = 1
  MaxAsks = 2
  MaxCalls = 2
  None = None
SPECIFICATION TransfersFairSpec
INVARIANT BannerTrue
PROPERTIES EndShown DownloadsEnd
CHECK_DEADLOCK FALSE
