SPECIFICATION Spec
CONSTANTS
    WeekLen = 3
    DayLen = 3
    MaxOffset = 1
    MaxDays = 1
INVARIANTS DecidingDayRules FollowedOnFirstDay
PROPERTY SwitchesOnlyAtEntries
CHECK_DEADLOCK FALSE
