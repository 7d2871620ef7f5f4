SPECIFICATION Spec
CONSTANT KeepListening = FALSE
CHECK_DEADLOCK FALSE
INVARIANTS
    SilentWhenOver
PROPERTIES
    MediaEnds
    IsHandshake
    NoCalleeLeft
    NoCallerLeft
