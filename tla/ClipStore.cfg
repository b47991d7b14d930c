SPECIFICATION Spec
CONSTANTS
    DayLen = 2
    FramesPerClip = 2
    QueueLen = 1
    MaxAge = 2
    Behind = 1
    Interval = 0
    MaxRate = 1
    MaxTime = 5
    MaxClips = 2
INVARIANTS TypeOK SavedClipsKept SharedFilesAreShort
PROPERTY YoungFilesKept
CHECK_DEADLOCK FALSE
