CONSTANTS
    User = {u1, u2}
    Founders = {u1}
    Invite = {i1, i2}
    Request = {r1, r2}
    MaxJoins = 1
    NoUser = NoUser
    NoInvite = NoInvite
SYMMETRY Symmetry
SPECIFICATION Spec
INVARIANTS OwnerRemainsWithoutClash SpentOnAMember
CHECK_DEADLOCK FALSE
