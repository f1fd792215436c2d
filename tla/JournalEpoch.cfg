\* The same journals.
SPECIFICATION Spec
CONSTANTS
    LengthModulus = 3
    SongModulus = 8
    EventEpochModulus = 2
    Epochs = {0, 1, 2}
    SequenceNumbers = {1, 2}
    CommandBytes <- SomeCommands
    ForeignJournals <- ReceivedJournals
INVARIANTS
    EventHasTheEpoch
CHECK_DEADLOCK FALSE
