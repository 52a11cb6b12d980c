CONSTANTS
    Openings = {o1, o2, o3}
    None = None
SPECIFICATION FairSpec
CHECK_DEADLOCK FALSE
INVARIANT CameraReleased
PROPERTIES HandsOverWhileOpen ClosedRunEnds
