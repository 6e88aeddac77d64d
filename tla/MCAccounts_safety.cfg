CONSTANTS
    ResetLink = {l1, l2}
    VerifyLink = {v1}
    Password = {p1, p2}
    First = p1
    Request = {r1, r2}
    NoLink = NoLink
SYMMETRY Symmetry
SPECIFICATION Spec
INVARIANTS PasswordAsChosen SingleUse OneUsableLink
PROPERTIES StaysVerified
CHECK_DEADLOCK FALSE
