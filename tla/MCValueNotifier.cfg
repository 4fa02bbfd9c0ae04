CONSTANTS
    Listeners = {l1, l2, l3}
    Notifiers = {n1}
    Values = {v}
    Reuse = TRUE
    Outside = FALSE
    Nil = Nil
SPECIFICATION Spec
CHECK_DEADLOCK FALSE
INVARIANT WokenByNotify
