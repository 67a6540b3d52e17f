CONSTANTS
    i1 = i1
    c1 = c1
    n1 = n1
    m1 = m1
    m2 = m2
    m3 = m3
    StaticAddrs = {i1, c1}
    NamedAddrs = {n1}
    Identities = {i1}
    NamedIdentities = {n1}
    Methods = {m1, m2, m3}
    IdentityMethods = {m1}
    RoleAssignmentMethods = {m2}
    MetadataMethods = {m2, m3}
    RoyaltyMethods = {m3}
    Manifests <- MCManifests

SPECIFICATION Spec

\* The traversal ends after the last instruction of the manifest.
CHECK_DEADLOCK FALSE

INVARIANT TypeOK
INVARIANT FoundIsAuthIdentities
