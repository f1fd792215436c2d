\* Payloads shorter and longer than a JR sample, lengths that fit, just fit
\* and do not fit.  The code stops after one frame.
SPECIFICATION Spec
CONSTANTS
    MaxPayload = 9
    LengthValues = {0, 1, 2, 3, 5, 9}
    JrSize = 6
INVARIANTS
    ReadsStayInside
    MidiIsQueued
CHECK_DEADLOCK FALSE
