CONSTANTS
    d1 = d1
    d2 = d2
    d3 = d3
    d4 = d4
    d5 = d5
    b1 = b1
    b2 = b2
    b3 = b3
    b4 = b4
    b5 = b5
    Discs <- MCDiscs
    Disc <- MCDisc
    Bodies <- MCBodies
    WellFormed <- MCWellFormed

SPECIFICATION Spec

\* handle_request returns after its last branch: a state with a result
\* has no successor.
CHECK_DEADLOCK FALSE

INVARIANT TypeOK
PROPERTY AbstractSpec
