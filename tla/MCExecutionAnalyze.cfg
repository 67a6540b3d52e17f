CONSTANTS
    n1 = n1
    n2 = n2
    Nodes <- MCNodes
    Networks <- MCNetworks
    Analyses <- MCAnalyses
SPECIFICATION Spec
\* A call returns: its last state is an output or an error.
CHECK_DEADLOCK FALSE
INVARIANT TypeOK
INVARIANT OutputFaithful
INVARIANT ErrorNamesCause
