SPECIFICATION FairSpec
CONSTANTS
    Passwords = {"a", "b"}
    MaxCommands = 3
INVARIANTS AtMostOneRoot PasswordConfirmed
PROPERTIES ExistingDataKept CommandEnds
CHECK_DEADLOCK FALSE
