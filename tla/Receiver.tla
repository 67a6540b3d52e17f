------------------------------ MODULE Receiver ------------------------------
(***************************************************************************)
(* The Receiver model of src/src/models/receiver.rs and its conversions   *)
(* to and from the manifest AST (ast::Receiver and ast::RENode), and a     *)
(* caller that chains them.  A receiver is Owned or Ref, and names an RE   *)
(* node: a Bucket or Proof by identifier (a string or a u32), an auth zone *)
(* stack by u32, the Worktop, a Global by string, or one of seven node    *)
(* kinds by NodeId.  In the AST every payload is an ast::Value; a NodeId   *)
(* is written with to_string and read back with parse.                     *)
(***************************************************************************)
EXTENDS Naturals

CONSTANTS
    Strings,     \* the strings a payload may hold
    U32s,        \* the u32 values a payload may hold
    NodeIds,     \* the node ids
    NodeIdText,  \* NodeId::to_string, a function from NodeIds to Strings
    MaxSteps     \* bound on the length of a conversion chain

(* The conversions copy a u32 as it is: its width plays no part. *)
ASSUME U32sAssumption == U32s \subseteq Nat
(* to_string gives every node id a text of its own, which parse reads back. *)
ASSUME NodeIdTextAssumption ==
    /\ NodeIdText \in [NodeIds -> Strings]
    /\ \A x, y \in NodeIds : NodeIdText[x] = NodeIdText[y] => x = y
ASSUME MaxStepsAssumption == MaxSteps \in Nat

-----------------------------------------------------------------------------
(* The RENode variants that carry a NodeId. *)
NodeKinds ==
    {"KeyValueStore", "NonFungibleStore", "Component", "System", "Vault",
     "ResourceManager", "Package"}

(* Identifier: String(string) or U32(u32). *)
Identifiers == [tag : {"String"}, s : Strings] \cup [tag : {"U32"}, n : U32s]

(* enum RENode. *)
RENodes ==
    [kind : {"Bucket", "Proof"}, id : Identifiers]
      \cup [kind : {"AuthZoneStack"}, n : U32s]
      \cup {[kind |-> "Worktop"]}
      \cup [kind : {"Global"}, s : Strings]
      \cup [kind : NodeKinds, node : NodeIds]

(* enum Receiver. *)
Receivers == [own : {"Owned", "Ref"}, node : RENodes]

(* The ast::Value payloads: a string, a u32, or a value of another kind. *)
OtherAstKinds == {"Bool", "Decimal"}
AstValues ==
    [ak : {"String"}, s : Strings] \cup [ak : {"U32"}, n : U32s] \cup [ak : OtherAstKinds]

AstReNodes ==
    [kind : {"Bucket", "Proof", "AuthZoneStack", "Global"} \cup NodeKinds, val : AstValues]
      \cup {[kind |-> "Worktop"]}

AstReceivers == [own : {"Owned", "Ref"}, node : AstReNodes]

Ok(v) == [ok |-> TRUE, val |-> v]
Fail(e) == [ok |-> FALSE, err |-> e]

-----------------------------------------------------------------------------
(* A faulty variant: the Proof arm, copied from the Bucket arm, still    *)
(* builds a Bucket node.                                                   *)
AstReNodeOfProofAsBucket(r) ==
    CASE r.kind \in {"Bucket", "Proof"} ->
            [kind |-> "Bucket",
             val |-> IF r.id.tag = "String" THEN [ak |-> "String", s |-> r.id.s]
                     ELSE [ak |-> "U32", n |-> r.id.n]]
      [] r.kind = "AuthZoneStack" -> [kind |-> r.kind, val |-> [ak |-> "U32", n |-> r.n]]
      [] r.kind = "Worktop" -> r
      [] r.kind = "Global" -> [kind |-> r.kind, val |-> [ak |-> "String", s |-> r.s]]
      [] OTHER -> [kind |-> r.kind, val |-> [ak |-> "String", s |-> NodeIdText[r.node]]]

(* ast_re_node_from_re_node: an identifier keeps its kind, a u32 or a     *)
(* global name is written as is, a NodeId with to_string.                  *)
AstReNodeOf(r) ==
    CASE r.kind \in {"Bucket", "Proof"} ->
            [kind |-> r.kind,
             val |-> IF r.id.tag = "String" THEN [ak |-> "String", s |-> r.id.s]
                     ELSE [ak |-> "U32", n |-> r.id.n]]
      [] r.kind = "AuthZoneStack" -> [kind |-> r.kind, val |-> [ak |-> "U32", n |-> r.n]]
      [] r.kind = "Worktop" -> r
      [] r.kind = "Global" -> [kind |-> r.kind, val |-> [ak |-> "String", s |-> r.s]]
      [] OTHER -> [kind |-> r.kind, val |-> [ak |-> "String", s |-> NodeIdText[r.node]]]

(* The allowed_children_kinds of each arm of re_node_from_ast_re_node. *)
AllowedChildren(kind) ==
    CASE kind \in {"Bucket", "Proof"} -> {"U32", "String"}
      [] kind = "AuthZoneStack" -> {"U32"}
      [] OTHER -> {"String"}

(* The texts NodeId's parse accepts, and what it returns for them. *)
NodeIdTexts == {NodeIdText[x] : x \in NodeIds}
ParseNodeId(s) == CHOOSE x \in NodeIds : NodeIdText[x] = s

(* The arms of re_node_from_ast_re_node once the payload kind is allowed. *)
ReNodeOfAccepted(a) ==
    CASE a.kind \in {"Bucket", "Proof"} ->
            Ok([kind |-> a.kind,
                id |-> IF a.val.ak = "U32" THEN [tag |-> "U32", n |-> a.val.n]
                       ELSE [tag |-> "String", s |-> a.val.s]])
      [] a.kind = "AuthZoneStack" -> Ok([kind |-> a.kind, n |-> a.val.n])
      [] a.kind = "Global" -> Ok([kind |-> a.kind, s |-> a.val.s])
      [] OTHER -> IF a.val.s \in NodeIdTexts
                     THEN Ok([kind |-> a.kind, node |-> ParseNodeId(a.val.s)])
                     ELSE Fail([kind |-> "NodeIdParseError"])

(* A faulty variant: the error reports the node kind being parsed as the *)
(* kind of the child it found.                                             *)
ReNodeOfWrongFound(a) ==
    IF a.kind = "Worktop" THEN Ok(a)
    ELSE IF a.val.ak \notin AllowedChildren(a.kind)
         THEN Fail([kind |-> "UnexpectedReNodeContents", parsing |-> a.kind,
                    allowed |-> AllowedChildren(a.kind), found |-> a.kind])
    ELSE ReNodeOfAccepted(a)

(* A faulty variant: the Bucket and Proof arms only take a U32 payload,  *)
(* though an identifier may be a string.                                   *)
ReNodeOfU32Only(a) ==
    IF a.kind = "Worktop" THEN Ok(a)
    ELSE IF \/ a.val.ak \notin AllowedChildren(a.kind)
            \/ a.kind \in {"Bucket", "Proof"} /\ a.val.ak # "U32"
         THEN Fail([kind |-> "UnexpectedReNodeContents", parsing |-> a.kind,
                    allowed |-> AllowedChildren(a.kind), found |-> a.val.ak])
    ELSE ReNodeOfAccepted(a)

(* re_node_from_ast_re_node: each arm takes the payload kinds it allows   *)
(* (a Bucket or Proof tries U32 first, then String) and refuses any other *)
(* with UnexpectedReNodeContents; a NodeId arm parses the string, and its *)
(* parse error is returned by ?.                                          *)
ReNodeOf(a) ==
    IF a.kind = "Worktop" THEN Ok(a)
    ELSE IF a.val.ak \notin AllowedChildren(a.kind)
         THEN Fail([kind |-> "UnexpectedReNodeContents", parsing |-> a.kind,
                    allowed |-> AllowedChildren(a.kind), found |-> a.val.ak])
    ELSE ReNodeOfAccepted(a)

(* ast_receiver_from_receiver (and From<Receiver> for AstReceiver). *)
AstReceiverOf(rc) == [own |-> rc.own, node |-> AstReNodeOf(rc.node)]

(* receiver_from_ast_receiver (and TryFrom<AstReceiver> for Receiver). *)
ReceiverOf(a) ==
    LET n == ReNodeOf(a.node)
    IN  IF n.ok THEN Ok([own |-> a.own, node |-> n.val]) ELSE n

=============================================================================
