SPECIFICATION FairSpec
CONSTANT Cameras = {c1, c2}
INVARIANTS EveryCameraAnswered CaptureDroppedOnlyByCancel  AllClosedOrNone
PROPERTIES ShutdownEnds StatisticsEnd
CHECK_DEADLOCK FALSE
