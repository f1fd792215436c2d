\* Two sessions, three events, one JR sample; no clock messages.
\* The model stops when its bounds are reached.
SPECIFICATION Spec
CONSTANTS
    SongPositions = {1}
    JitterBuffer = 1
    MaxFreshJrAge = 1
    FreqPpms = {0}
    MaxDelay = 1
    ServerOffset = 2
    SeqModulus = 4
    OutputLead = 1
    MaxTime = 3
    MaxEvents = 3
    MaxJrFrames = 1
    MaxClockMessages = 0
    MaxSessions = 2
INVARIANTS
    AtMostOneStale
    SleepsOnlyWithoutWork
    StalePlayTime
    PlaysOnlyWhileOpen
PROPERTIES
    ImplementsPlayoutBuffer
CHECK_DEADLOCK FALSE
