\* Shows that EditClearsApproval does not hold.
SPECIFICATION Spec
CONSTANTS
    Product = {p1}
    Admin = {a1}
    Nobody = Nobody
    Value = {v1, v2}
    Reason = {bad}
    NoReason = NoReason
    Request = {r1, r2}
PROPERTIES EditClearsApproval
SYMMETRY Symmetry
