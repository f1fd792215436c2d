\* Two connections with one of two streams each, two messages to send through a window
\* smaller than a message.  A server may stay silent, and the model stops when its
\* bounds are used up.
SPECIFICATION FairSpec
CONSTANTS
    Streams <- SomeStreams
    Window = 1
    MessageSize = 2
    MaxConnects = 2
    MaxSends = 2
INVARIANTS
    TypeOK
    SessionAliveWhileUsed
    FramesWholeAndInOrder
PROPERTIES
    
    ArrivedFramesDelivered
    ImplementsConnection
CHECK_DEADLOCK FALSE
