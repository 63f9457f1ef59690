CONSTANTS
    Kexts = {"AGDP", "Backlight", "MCCS", "FB", "HW"}
    Args <- SomeArgs
    Flavours = {"prod", "debug"}
SPECIFICATION Spec
INVARIANTS
    AllOrPanic
    PanicExplained
\* Every kext has been processed, or the machine panicked.
CHECK_DEADLOCK FALSE
