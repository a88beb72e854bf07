\* A page mounted twice, as React's strict mode does; no symmetry, for liveness.
CONSTANTS
    Views = {v1, v2}
SPECIFICATION FairSpec
INVARIANTS DesktopInv
PROPERTIES LossShown ViewSettles TokenRestored
CHECK_DEADLOCK FALSE
