SPECIFICATION FairSpec
CONSTANTS
    FramesCap = 1
    ClipsCap = 1
    FramesPerClip = 1
    MaxFrames = 1
PROPERTIES EventsDelivered ClipsPersisted ShutdownReturnsUnlessStuck CancelledWorkersEnd
CHECK_DEADLOCK FALSE
