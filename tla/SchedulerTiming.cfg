\* Two JR samples and three events with delays, long enough for a sample to
\* become stale; the third event wraps the sequence counter.
\* The model stops when its bounds are reached.
SPECIFICATION Spec
CONSTANTS
    SongPositions = {1}
    JitterBuffer = 1
    MaxFreshJrAge = 1
    FreqPpms = {0}
    MaxDelay = 1
    ServerOffset = 2
    SeqModulus = 3
    OutputLead = 1
    MaxTime = 5
    MaxEvents = 3
    MaxJrFrames = 2
    MaxClockMessages = 0
    MaxSessions = 1
INVARIANTS
    SyncEnvelope
    PlayoutEnvelope
PROPERTIES
    ImplementsPlayoutBuffer
CHECK_DEADLOCK FALSE
