CONSTANTS
    User = {u1, u2}
    Founders = {u1, u2}
    Invite = {i1}
    Request = {r1, r2}
    MaxJoins = 1
    NoUser = NoUser
    NoInvite = NoInvite
SYMMETRY Symmetry
SPECIFICATION Spec
INVARIANTS AnOwnerRemains
CHECK_DEADLOCK FALSE
