SPECIFICATION Spec
CONSTANTS
    Stream <- TestMessage
    Wait = 11
CHECK_DEADLOCK FALSE
INVARIANTS
    MessageParsed
