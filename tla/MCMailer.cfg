\* Two changes of a row, each of which may mail its owner or the admins; no symmetry, because of liveness.
SPECIFICATION FairSpec
CONSTANTS
    Row = {r1}
    Kind = {"rejection", "new_seller"}
    Worker = {w1, w2}
    MaxRetries = 2
    MaxLosses = 1
    MaxVersion = 2
INVARIANTS TypeOK TextMatchesCause
PROPERTIES QueueDrains RefinesQueue
CHECK_DEADLOCK FALSE
