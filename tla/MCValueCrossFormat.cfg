CONSTANTS
    Raws <- MCRaws
    Locals <- MCLocals
    ByteSeqs <- MCByteSeqs
    Universe <- MCUniverse
    Networks <- MCNetworks
    Conversions = {"wire", "text"}
    MaxSteps = 5
SPECIFICATION Spec
CHECK_DEADLOCK FALSE
INVARIANT WireStable
