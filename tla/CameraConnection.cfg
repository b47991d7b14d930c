SPECIFICATION FairSpec
CONSTANT Pollers = {p1, p2}
INVARIANTS OneCallAtATime LayersAgree ReleasedTouchedOnce
PROPERTIES IsACamera CallsReturn
CHECK_DEADLOCK FALSE
