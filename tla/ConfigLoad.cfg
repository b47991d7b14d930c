SPECIFICATION Spec
CONSTANTS
    Titles = {"Back2", "Front"}
    Locations = {"clips"}
    Formats = {"default"}
    Ages = {0, 30}
    Rates = {0, 30}
    Seconds = {2}
    MaxCameras = 3
INVARIANT FormatsComplete
CHECK_DEADLOCK FALSE
