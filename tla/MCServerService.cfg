\* Any two requests on one server, any of which may be given up; no symmetry,
\* for liveness.
CONSTANTS
    Calls = {c1, c2}
    Ids = {a}
    None = None
    Addrs = {1, 2}
    Labels = {1, 2}
    Secrets <- MCSecrets
    Vers <- MCVers
    Inputs <- MCInputs
    Kinds = {"create", "update", "delete", "connect", "disconnect", "test", "use"}
    HangUps = TRUE
SPECIFICATION HistorySpec
INVARIANTS ServiceInv PoolFollowsWrites
PROPERTIES RequestsAnswered DeadForgotten
CHECK_DEADLOCK FALSE
