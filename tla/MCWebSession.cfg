\* Two servers, one request of the user with one fault, two lists at once, one
\* pull of one worker; no symmetry, for liveness.
CONSTANTS
    Ids = {a, b}
    Calls = {1}
    Lists = {1, 2}
    Pulls = {1}
    Workers = 1
    MaxOps = 1
    MaxFaults = 1
SPECIFICATION FairSpec
INVARIANTS SessionInv
PROPERTIES NumbersOnlyLive Converges
CHECK_DEADLOCK FALSE
