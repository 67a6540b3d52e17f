CONSTANTS
    Vals <- MCVals
    Manifests <- MCManifests
    NumValueVisitors = 2
    NumInstrVisitors = 2
    Alias <- MCAlias
SPECIFICATION Spec
INVARIANT TypeOK
INVARIANT VisitOrder
INVARIANT SeesAliasedValues
PROPERTY AbstractSpec
CHECK_DEADLOCK FALSE
