\* Targets 1, 2 and 100 have a hub, 0 has none.  The object ends destroyed.
SPECIFICATION Spec
CONSTANTS
    N = 3
    IdOf <- MCIdOf
    Target = {0, 1, 2, 100}
    CM_MASTER_ID = 255
    CM_NORMAL = 100
INVARIANTS
    TypeOK
    OnlyTheOneOpen
    OpensTheTarget
    HandleTellsOpen
CHECK_DEADLOCK FALSE
