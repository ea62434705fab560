SPECIFICATION Spec
CONSTANTS
    Sources <- UncheckedSources
    INT_MAX = 7
    MaxCalls = 4
CHECK_DEADLOCK FALSE
INVARIANT AcceptedIsSound
