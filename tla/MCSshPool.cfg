\* Three calls on two servers: a dial, a waiter and a removal can overlap, and
\* requests for different servers meet in the pool.
CONSTANTS
    Calls = {c1, c2, c3}
    Ids = {a, b}
    Vers = {v}
    None = None
SYMMETRY Symmetry
SPECIFICATION Spec
INVARIANTS IInv
PROPERTIES NeverReplaced HealthyNotKilled
CHECK_DEADLOCK FALSE
