CONSTANTS
    Users = {u1, u2}
    Ids = {i1, i2, i3}
    Requests = {r1, r2, r3}
    MaxLog = 2
    None = None
SPECIFICATION Spec
INVARIANTS TypeOK SuperRemains OneMembership
SYMMETRY Symmetry
\* The kit is deleted, and nothing follows: an end.
CHECK_DEADLOCK FALSE
