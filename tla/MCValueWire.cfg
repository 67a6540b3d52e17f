CONSTANTS
    Raws <- MCRaws
    Locals <- MCLocals
    ByteSeqs <- MCByteSeqs
    Universe <- MCUniverse
    Networks <- MCNetworks
    Conversions = {"wire", "text"}
    MaxSteps = 4
SPECIFICATION Spec
\* A caller may stop a chain at any point; a failed conversion ends it.
CHECK_DEADLOCK FALSE
INVARIANT TypeOK
INVARIANT WireStableWithoutText
INVARIANT TextStableWithoutWire
INVARIANT DecodedHomogeneous
