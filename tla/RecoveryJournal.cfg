\* Epochs 2 and up do not fit into the event, three commands and more not
\* into the length.  The journal stops at the end of its way.
SPECIFICATION Spec
CONSTANTS
    LengthModulus = 3
    SongModulus = 8
    EventEpochModulus = 2
    Epochs = {0, 1, 2}
    SequenceNumbers = {1, 2}
    CommandBytes <- SomeCommands
    ForeignJournals <- ReceivedJournals
INVARIANTS
    ReadBackOrRejected
    CommandsAreWhole
    ExtractedAsApplied
    FieldsAgreeWithBytes
CHECK_DEADLOCK FALSE
