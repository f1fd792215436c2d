\* Two events, one JR sample, one clock message, one stop; time runs to MaxTime,
\* after every play time.  The model stops when its bounds are reached.
SPECIFICATION FairSpec
CONSTANTS
    SongPositions = {1}
    JitterBuffer = 1
    MaxFreshJrAge = 1
    FreqPpms = {0}
    MaxDelay = 0
    ServerOffset = 1
    SeqModulus = 3
    OutputLead = 1
    MaxTime = 2
    MaxEvents = 2
    MaxJrFrames = 1
    MaxClockMessages = 1
    MaxSessions = 1
PROPERTIES
    QueuedEventsLeave
    StopReturnsUnlessWakeupLost
CHECK_DEADLOCK FALSE
