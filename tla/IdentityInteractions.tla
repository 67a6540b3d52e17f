------------------------- MODULE IdentityInteractions -------------------------
(***************************************************************************)
(* IdentityInteractionsVisitor (radix-engine-toolkit-core, instruction   *)
(* visitor): walked over a manifest, it collects the identity components *)
(* that some instruction calls with a method that requires auth.  The    *)
(* traversal hands each method call to the visit method of its module:   *)
(* visit_call_method (the identity's own methods), visit_call_role_      *)
(* assignment_method, visit_call_metadata_method, visit_call_royalty_    *)
(* method.  Each checks is_identity, returns early for a Named address   *)
(* (one reserved in this manifest, without a component address yet),    *)
(* and inserts the address when the method is in the auth list of that  *)
(* module.  Addresses and method names are model values.                 *)
(***************************************************************************)
EXTENDS Naturals, Sequences

CONSTANTS
    StaticAddrs,            \* the global addresses written in a manifest
    NamedAddrs,             \* the named addresses of address reservations
    Identities,             \* the static addresses is_identity accepts
    NamedIdentities,        \* the named addresses is_identity accepts
    Methods,                \* the method names
    IdentityMethods,        \* IDENTITY_METHODS_THAT_REQUIRE_AUTH
    RoleAssignmentMethods,  \* ROLE_ASSIGNMENT_METHODS_THAT_REQUIRE_AUTH
    MetadataMethods,        \* METADATA_METHODS_THAT_REQUIRE_AUTH
    RoyaltyMethods,         \* ROYALTY_METHODS_THAT_REQUIRE_AUTH
    Manifests               \* the manifests the visitor may be walked over

Modules == {"Main", "RoleAssignment", "Metadata", "Royalty"}

(* DynamicGlobalAddress: Static(address) or Named(name). *)
Addresses ==
    [kind : {"Static"}, a : StaticAddrs] \cup [kind : {"Named"}, n : NamedAddrs]

(* A method call instruction, by the module it is dispatched to. *)
Calls == [module : Modules, addr : Addresses, method : Methods]

ASSUME ListsAssumption ==
    /\ Identities \subseteq StaticAddrs
    /\ NamedIdentities \subseteq NamedAddrs
    /\ \A l \in {IdentityMethods, RoleAssignmentMethods, MetadataMethods,
                RoyaltyMethods} : l \subseteq Methods
ASSUME ManifestsAssumption == Manifests \subseteq Seq(Calls)

VARIABLES
    manifest,  \* the instructions walked over
    pos,       \* index of the instruction visited next
    found      \* the HashSet<ComponentAddress> the visitor holds

vars == <<manifest, pos, found>>

(* is_identity. *)
IsIdentity(addr) ==
    IF addr.kind = "Static" THEN addr.a \in Identities ELSE addr.n \in NamedIdentities

Init ==
    /\ manifest \in Manifests
    /\ pos = 1
    /\ found = {}

(* A faulty variant: the visit method does not check is_identity.        *)
VisitNoIdentityCheck(module, authList) ==
    /\ pos <= Len(manifest)
    /\ manifest[pos].module = module
    /\ LET c == manifest[pos]
       IN  found' = IF c.addr.kind = "Static" /\ c.method \in authList
                    THEN found \cup {c.addr.a}
                    ELSE found
    /\ pos' = pos + 1
    /\ UNCHANGED manifest

(* One visit method: the call at pos is dispatched to it when it is a   *)
(* call of the given module; a static identity address is inserted when  *)
(* the method is in the given auth list.                                 *)
Visit(module, authList) ==
    /\ pos <= Len(manifest)
    /\ manifest[pos].module = module
    /\ LET c == manifest[pos]
       IN  found' = IF /\ IsIdentity(c.addr)
                       /\ c.addr.kind = "Static"
                       /\ c.method \in authList
                    THEN found \cup {c.addr.a}
                    ELSE found
    /\ pos' = pos + 1
    /\ UNCHANGED manifest

VisitCallMethod == Visit("Main", IdentityMethods)
VisitCallRoleAssignmentMethod == Visit("RoleAssignment", RoleAssignmentMethods)

(* A faulty variant: the metadata arm, copied from the royalty arm, still *)
(* checks the royalty list.                                               *)
VisitCallMetadataMethodRoyaltyList == Visit("Metadata", RoyaltyMethods)

VisitCallMetadataMethod == Visit("Metadata", MetadataMethods)
VisitCallRoyaltyMethod == Visit("Royalty", RoyaltyMethods)

Next ==
    \/ VisitCallMethod
    \/ VisitCallRoleAssignmentMethod
    \/ VisitCallMetadataMethod
    \/ VisitCallRoyaltyMethod

Spec == Init /\ [][Next]_vars

-----------------------------------------------------------------------------
TypeOK ==
    /\ manifest \in Seq(Calls)
    /\ pos \in 1..Len(manifest) + 1
    /\ found \subseteq Identities

(* The auth list of each module, as the statics name them. *)
AuthMethods ==
    [m \in Modules |->
        CASE m = "Main" -> IdentityMethods
          [] m = "RoleAssignment" -> RoleAssignmentMethods
          [] m = "Metadata" -> MetadataMethods
          [] m = "Royalty" -> RoyaltyMethods]

(* After any prefix of the manifest, the visitor holds exactly the       *)
(* identity components some visited instruction called, by their static *)
(* address, with a method that requires auth in the module the call went *)
(* to: none is missed because its call went through another module's    *)
(* arm, and no named address or non-identity is taken in.                *)
FoundIsAuthIdentities ==
    found = {a \in Identities :
               \E i \in 1..(pos - 1) :
                  /\ manifest[i].addr = [kind |-> "Static", a |-> a]
                  /\ manifest[i].method \in AuthMethods[manifest[i].module]}

=============================================================================
