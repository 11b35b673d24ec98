SPECIFICATION BusFairSpec
CONSTANTS
    Emits = {e1, e2, e3}
    Targets = {t1, t2}
    Nobody = Nobody
CHECK_DEADLOCK FALSE
INVARIANTS
    InOrder
PROPERTIES
    NothingStuck
