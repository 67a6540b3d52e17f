--------------------- MODULE IdentityInteractionsProofs ---------------------
(***************************************************************************)
(* Proof that the identity interactions visitor collects exactly the     *)
(* identities called with an auth-requiring method of their module, for  *)
(* every set of addresses, method names, auth lists and manifests.       *)
(***************************************************************************)
EXTENDS IdentityInteractions, TLAPS

USE ListsAssumption, ManifestsAssumption

Inv == TypeOK /\ FoundIsAuthIdentities

(* The instructions visited so far. *)
Visited(m, p) ==
    {a \in Identities :
        \E i \in 1..(p - 1) :
           /\ m[i].addr = [kind |-> "Static", a |-> a]
           /\ m[i].method \in AuthMethods[m[i].module]}

(* Visiting the next instruction through the arm of its own module, with *)
(* the auth list of that module, keeps the invariant.                     *)
LEMMA VisitKeepsInv ==
    ASSUME NEW mod \in Modules, Inv, Visit(mod, AuthMethods[mod])
    PROVE  Inv'
<1> DEFINE c == manifest[pos]
<1>1. /\ manifest \in Seq(Calls) /\ pos \in 1..Len(manifest)
      /\ manifest' = manifest /\ pos' = pos + 1 /\ c.module = mod
  BY DEF Inv, TypeOK, Visit
<1>2. c \in Calls
  BY <1>1
<1>3. found = Visited(manifest, pos)
  BY DEF Inv, FoundIsAuthIdentities, Visited
<1>4. Visited(manifest, pos + 1)
        = Visited(manifest, pos)
          \cup {a \in Identities :
                  c.addr = [kind |-> "Static", a |-> a]
                  /\ c.method \in AuthMethods[c.module]}
  BY <1>1 DEF Visited
<1>5. CASE IsIdentity(c.addr) /\ c.addr.kind = "Static"
           /\ c.method \in AuthMethods[mod]
  <2>1. found' = found \cup {c.addr.a}
    BY <1>5 DEF Visit
  <2>2. c.addr = [kind |-> "Static", a |-> c.addr.a] /\ c.addr.a \in Identities
    BY <1>2, <1>5 DEF Calls, Addresses, IsIdentity
  <2>3. {a \in Identities : c.addr = [kind |-> "Static", a |-> a]
                             /\ c.method \in AuthMethods[c.module]}
          = {c.addr.a}
    BY <1>1, <1>5, <2>2
  <2>. QED  BY <1>1, <1>3, <1>4, <2>1, <2>2, <2>3
            DEF Inv, TypeOK, FoundIsAuthIdentities, Visited
<1>6. CASE ~(IsIdentity(c.addr) /\ c.addr.kind = "Static"
             /\ c.method \in AuthMethods[mod])
  <2>1. found' = found
    BY <1>6 DEF Visit
  <2>2. {a \in Identities : c.addr = [kind |-> "Static", a |-> a]
                             /\ c.method \in AuthMethods[c.module]} = {}
    BY <1>1, <1>6 DEF IsIdentity
  <2>. QED  BY <1>1, <1>3, <1>4, <2>1, <2>2
            DEF Inv, TypeOK, FoundIsAuthIdentities, Visited
<1>. QED  BY <1>5, <1>6

LEMMA InvInit == Init => Inv
  BY DEF Init, Inv, TypeOK, FoundIsAuthIdentities

LEMMA InvNext == Inv /\ [Next]_vars => Inv'
<1> SUFFICES ASSUME Inv, [Next]_vars PROVE Inv'
  OBVIOUS
<1>1. /\ AuthMethods["Main"] = IdentityMethods
      /\ AuthMethods["RoleAssignment"] = RoleAssignmentMethods
      /\ AuthMethods["Metadata"] = MetadataMethods
      /\ AuthMethods["Royalty"] = RoyaltyMethods
  BY DEF AuthMethods, Modules
<1>2. CASE VisitCallMethod
  BY <1>1, <1>2, VisitKeepsInv DEF VisitCallMethod, Modules
<1>3. CASE VisitCallRoleAssignmentMethod
  BY <1>1, <1>3, VisitKeepsInv DEF VisitCallRoleAssignmentMethod, Modules
<1>4. CASE VisitCallMetadataMethod
  BY <1>1, <1>4, VisitKeepsInv DEF VisitCallMetadataMethod, Modules
<1>5. CASE VisitCallRoyaltyMethod
  BY <1>1, <1>5, VisitKeepsInv DEF VisitCallRoyaltyMethod, Modules
<1>6. CASE UNCHANGED vars
  BY <1>6 DEF vars, Inv, TypeOK, FoundIsAuthIdentities
<1>. QED  BY <1>2, <1>3, <1>4, <1>5, <1>6 DEF Next

(* The visitor's set is, after every instruction, exactly the identities *)
(* called so far with a method that requires auth in their module.       *)
THEOREM FoundIsAuthIdentitiesInvariant == Spec => []FoundIsAuthIdentities
<1>1. Spec => []Inv
  BY InvInit, InvNext, PTL DEF Spec
<1>. QED  BY <1>1, PTL DEF Inv

(* The state of the visitor is always well typed: the position stays     *)
(* within the manifest and one past it, and the set holds only identity   *)
(* component addresses.                                                   *)
THEOREM TypeCorrect == Spec => []TypeOK
<1>1. Spec => []Inv
  BY InvInit, InvNext, PTL DEF Spec
<1>. QED  BY <1>1, PTL DEF Inv

=============================================================================
