CONSTANTS
    Sources = {s, t}
    First = s
    ElementType = {x, y}
    Overlap = TRUE
    MaxCalls = 2
SPECIFICATION Spec
CHECK_DEADLOCK FALSE
INVARIANT FollowsSources
