\* Three overlapping requests about one seller and its document.
SPECIFICATION Spec
CONSTANTS
    Seller = {s1}
    Document = {d1}
    Admin = {a1, a2}
    Nobody = Nobody
    Reason = {bad}
    NoReason = NoReason
    Request = {r1, r2, r3}
INVARIANTS TypeOK BytesHaveRow AnnouncedOnce DecisionStands OnlyVettedList
SYMMETRY Symmetry
