\* Four nodes: the fewest with which a removal leaves a wrong pointer.
SPECIFICATION Spec
CONSTANTS
    Keys = {1, 2, 3, 4}
    Nil = Nil
INVARIANT
    IterateExact
CHECK_DEADLOCK FALSE
