\* The window, the ports and the callbacks: two Starts, one change of the devices.
SPECIFICATION Spec
CONSTANTS
    Lists <- SomeLists
    MaxLogEntries = 1
    MaxChanges = 1
    MaxMessages = 2
    MaxSends = 2
    MaxStarts = 2
INVARIANTS
    TypeOK
    QuietWhenStopped
    EmptyCallsOnlyWhileClearing
    SentLogIsExact
    ForwardedIsLogged
    ShownPortIsUsed
\* The program ends, by shutdown() or by an exception.
CHECK_DEADLOCK FALSE
