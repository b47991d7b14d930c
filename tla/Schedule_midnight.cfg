SPECIFICATION Spec
CONSTANTS
    WeekLen = 3
    DayLen = 3
    MaxOffset = 1
    MaxDays = 1
INVARIANT FollowedAfterMidnight
CHECK_DEADLOCK FALSE
