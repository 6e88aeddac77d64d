CONSTANTS
    Tokens = 3
    Request = {r1, r2}
    Pool = 2
SYMMETRY Symmetry
SPECIFICATION Spec
INVARIANTS OneLivePerFamily NobodyStuck
PROPERTIES ImplementsSessions
CHECK_DEADLOCK FALSE
