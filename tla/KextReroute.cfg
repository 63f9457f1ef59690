CONSTANTS
    Kexts = {"HW"}
    Args <- SomeArgs
    Flavours = {"debug"}
SPECIFICATION Spec
INVARIANT OriginalReached
CHECK_DEADLOCK FALSE
