CONSTANT MaxStarts = 3
SPECIFICATION Spec
INVARIANT StartsAgain
CHECK_DEADLOCK FALSE
