\* Every combination of properties and boot arguments, and the values of the
\* mode select at the edges of its encodings.
CONSTANTS
    Args <- EveryArgs
    GmsValues <- EdgeGms
    Reads = {"16@DeviceID", "32@VendorID", "32@DeviceID"}
SPECIFICATION Spec
INVARIANTS
    NeverUnpatched
    IdentityKept
    StolenNeverWraps
 
\* processPatcher comes to its end.
CHECK_DEADLOCK FALSE
