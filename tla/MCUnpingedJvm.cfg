SPECIFICATION Spec
CONSTANT MaxNodes = 2
INVARIANT UniqueInEveryJvm
CHECK_DEADLOCK FALSE
