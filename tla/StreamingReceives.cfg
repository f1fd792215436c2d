\* One reconnect is enough.
SPECIFICATION Spec
CONSTANTS
    MaxObjects = 3
INVARIANTS
    StreamingClientReceives
CHECK_DEADLOCK FALSE
