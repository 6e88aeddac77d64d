CONSTANTS
    Tokens = 3
    Request = {r1, r2}
    Pool = 2
SPECIFICATION Spec
INVARIANTS EntireFamilyRevoked
CHECK_DEADLOCK FALSE
