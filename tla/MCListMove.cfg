CONSTANTS
    Lists = {l1}
    Nodes = {n1, n2, n3}
    Values = {a}
    Nil = Nil
SPECIFICATION Spec
CHECK_DEADLOCK FALSE
INVARIANT MovesNextToPosition
