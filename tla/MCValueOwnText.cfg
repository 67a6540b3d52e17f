CONSTANTS
    Raws <- MCRaws
    Locals <- MCLocals
    ByteSeqs <- MCByteSeqs
    Universe <- MCUniverse
    Networks <- MCNetworks
    Conversions = {"text"}
    MaxSteps = 4
SPECIFICATION Spec
CHECK_DEADLOCK FALSE
INVARIANT FromAstTotal
