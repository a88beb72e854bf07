\* One server, five contents of the form, two saves and two tests at once if
\* the buttons let them.
CONSTANTS
    ServerIds = {a}
    Forms <- MCForms
    Slots = {1, 2}
    MaxTests = 2
    None = None
SPECIFICATION ManagerSpec
INVARIANTS ManagerInv ShownTestMatches
CHECK_DEADLOCK FALSE
