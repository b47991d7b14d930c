SPECIFICATION FairSpec
CONSTANTS
    FramesCap = 1
    ClipsCap = 1
    FramesPerClip = 1
    MaxFrames = 1
PROPERTY ShutdownReturns
CHECK_DEADLOCK FALSE
