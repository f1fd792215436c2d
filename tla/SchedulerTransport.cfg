\* Four clock messages and two song positions against two events, one session;
\* events are enqueued as soon as they are stamped (MaxDelay = 0).
\* The model stops when its bounds are reached.
SPECIFICATION Spec
CONSTANTS
    SongPositions = {1, 2}
    JitterBuffer = 1
    MaxFreshJrAge = 1
    FreqPpms = {0}
    MaxDelay = 0
    ServerOffset = 1
    SeqModulus = 4
    OutputLead = 1
    MaxTime = 2
    MaxEvents = 2
    MaxJrFrames = 0
    MaxClockMessages = 4
    MaxSessions = 1
INVARIANTS
    TypeOK
    QueueMatchesTransport
    PulseNeverBeforeSongPosition
    ClockAtRestBetweenSessions
PROPERTIES
    DroppedOnlyWhenMovedBack
CHECK_DEADLOCK FALSE
