SPECIFICATION Spec
CONSTANTS
    Passwords = {"a", "b"}
    MaxCommands = 3
INVARIANT SetUpMeansRoot
CHECK_DEADLOCK FALSE
