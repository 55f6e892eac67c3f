\* Two overlapping requests on one listing.
SPECIFICATION Spec
CONSTANTS
    Product = {p1}
    Admin = {a1, a2}
    Nobody = Nobody
    Value = {v1, v2}
    Reason = {bad}
    NoReason = NoReason
    Request = {r1, r2}
INVARIANTS TypeOK LifecycleKept
PROPERTIES DeletedStaysDeleted NoEditLost
SYMMETRY Symmetry
