CONSTANTS
    s1 = s1
    s2 = s2
    s3 = s3
    x1 = x1
    x2 = x2
    Strings <- MCStrings
    NodeIds <- MCNodeIds
    NodeIdText <- MCNodeIdText
    U32s <- MCU32s
    MaxSteps = 4

SPECIFICATION Spec

\* A caller may stop a conversion chain at any point, and a failed
\* conversion ends it: a state without successor is a finished chain.
CHECK_DEADLOCK FALSE

INVARIANT TypeOK
INVARIANT ReceiverStable
INVARIANT FailsOnlyOnForeignText
