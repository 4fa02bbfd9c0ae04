CONSTANTS
    Processes = {p, q}
    ElementType = {a, b}
    Arguments = {{a}, {a, b}}
    Operations = {"DeleteAll", "Apply"}
SPECIFICATION Spec
CHECK_DEADLOCK FALSE
INVARIANT NeverStuck
