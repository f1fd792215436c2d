\* The first object and three replacements: two reconnects after the first
\* Connect.  The program may stop: shutdown(), or nobody does anything.
SPECIFICATION FairSpec
CONSTANTS
    MaxObjects = 4
INVARIANTS
    TypeOK
    StreamingIsConsistent
    CallbackUsesLiveObject
    ConnectionHasItsLoop
    ThreadsGoneBeforeTheirObjects
PROPERTIES
    
    ObjectsAreConnections
CHECK_DEADLOCK FALSE
