CONSTANTS
    z = z  a = a  b = b  c = c  d = d
    Address = {z, a, b, c, d}
    ZeroAddress = z
    Genesis = {a, b, c}
    Epoch = 5
    Gap = 2
    MaxNumber = 6
SYMMETRY Symmetry
SPECIFICATION Spec
CHECK_DEADLOCK FALSE
INVARIANT VotesCounted
PROPERTIES NoConsecutiveBlocks MembershipNeedsMajority
