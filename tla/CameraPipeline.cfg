SPECIFICATION Spec
CONSTANTS
    FramesCap = 1
    ClipsCap = 1
    FramesPerClip = 2
    MaxFrames = 3
INVARIANTS EveryFrameAccountedFor StreamFollowsMonitor SendNeverStrandsStop
PROPERTIES OffMeansNoFrames QuietWhenStopDone IsARecorder
CHECK_DEADLOCK FALSE
