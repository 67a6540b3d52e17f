CONSTANTS
    Networks <- MCNetworks
    ComponentClasses <- MCComponentClasses
    ArgumentSets <- MCArgumentSets
    MaxInstructions = 2
SPECIFICATION Spec
\* A handler call returns: its last state is a result or an error.
CHECK_DEADLOCK FALSE
INVARIANT TypeOK
INVARIANT AnalysedOnItsNetwork
INVARIANT ErrorNamesCause
PROPERTY AbstractSpec
