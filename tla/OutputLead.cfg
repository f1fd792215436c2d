\* One event is enough.
SPECIFICATION Spec
CONSTANTS
    SongPositions = {1}
    JitterBuffer = 1
    MaxFreshJrAge = 1
    FreqPpms = {0}
    MaxDelay = 1
    ServerOffset = 2
    SeqModulus = 3
    OutputLead = 1
    MaxTime = 4
    MaxEvents = 1
    MaxJrFrames = 0
    MaxClockMessages = 0
    MaxSessions = 1
INVARIANTS
    OutputLeadApplied
CHECK_DEADLOCK FALSE
