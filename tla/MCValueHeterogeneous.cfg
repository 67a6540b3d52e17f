CONSTANTS
    Raws <- MCRaws
    Locals <- MCLocals
    ByteSeqs <- MCByteSeqs
    Universe <- MCUniverse
    Networks <- MCNetworks
    Conversions = {"wire"}
    MaxSteps = 4
SPECIFICATION Spec
CHECK_DEADLOCK FALSE
INVARIANT EncodeRejectsHeterogeneous
