--------------------------- MODULE ReceiverProofs ---------------------------
(***************************************************************************)
(* Proofs about the receiver conversions, for every set of strings, u32   *)
(* values and node ids.  The two round trips are lemmas about the         *)
(* conversion operators, proved arm by arm; the invariants of a           *)
(* conversion chain follow from them through IInv, which adds what the    *)
(* chain knows of its origin in each form.                                 *)
(***************************************************************************)
EXTENDS ReceiverConversions, TLAPS

USE U32sAssumption, NodeIdTextAssumption

(* parse reads back what to_string wrote. *)
LEMMA ParseInvertsText ==
    ASSUME NEW x \in NodeIds
    PROVE  /\ NodeIdText[x] \in NodeIdTexts
           /\ ParseNodeId(NodeIdText[x]) = x
BY DEF NodeIdTexts, ParseNodeId

(* Model to AST to model gives back the RE node. *)
LEMMA ReNodeRoundTrip ==
    ASSUME NEW r \in RENodes
    PROVE  /\ AstReNodeOf(r) \in AstReNodes
           /\ ReNodeOf(AstReNodeOf(r)) = Ok(r)
<1>1. CASE r \in [kind : {"Bucket", "Proof"}, id : Identifiers]
  <2>1. CASE r.id \in [tag : {"String"}, s : Strings]
    BY <1>1, <2>1 DEF AstReNodeOf, AstReNodes, AstValues, ReNodeOf, ReNodeOfAccepted,
                      AllowedChildren, Ok
  <2>2. CASE r.id \in [tag : {"U32"}, n : U32s]
    BY <1>1, <2>2 DEF AstReNodeOf, AstReNodes, AstValues, ReNodeOf, ReNodeOfAccepted,
                      AllowedChildren, Ok
  <2>. QED  BY <1>1, <2>1, <2>2 DEF Identifiers
<1>2. CASE r \in [kind : {"AuthZoneStack"}, n : U32s]
  BY <1>2 DEF AstReNodeOf, AstReNodes, AstValues, ReNodeOf, ReNodeOfAccepted,
              AllowedChildren, Ok
<1>3. CASE r = [kind |-> "Worktop"]
  BY <1>3 DEF AstReNodeOf, AstReNodes, ReNodeOf, Ok
<1>4. CASE r \in [kind : {"Global"}, s : Strings]
  BY <1>4 DEF AstReNodeOf, AstReNodes, AstValues, ReNodeOf, ReNodeOfAccepted,
              AllowedChildren, Ok
<1>5. CASE r \in [kind : NodeKinds, node : NodeIds]
  <2>1. NodeIdText[r.node] \in NodeIdTexts /\ ParseNodeId(NodeIdText[r.node]) = r.node
    BY <1>5, ParseInvertsText
  <2>2. NodeIdText[r.node] \in Strings
    BY <1>5
  <2>. QED  BY <1>5, <2>1, <2>2
            DEF AstReNodeOf, AstReNodes, AstValues, ReNodeOf, ReNodeOfAccepted,
                AllowedChildren, Ok, NodeKinds
<1>. QED  BY <1>1, <1>2, <1>3, <1>4, <1>5 DEF RENodes

(* AST to model to AST gives back the AST node, when the first           *)
(* conversion succeeds; when it fails, the error names the refused kind. *)
LEMMA AstReNodeRoundTrip ==
    ASSUME NEW a \in AstReNodes
    PROVE  IF ReNodeOf(a).ok
              THEN /\ ReNodeOf(a).val \in RENodes
                   /\ AstReNodeOf(ReNodeOf(a).val) = a
              ELSE /\ ReNodeOf(a).err \in ReceiverErrors
                   /\ ReNodeOf(a).err.kind = "UnexpectedReNodeContents" =>
                         /\ ReNodeOf(a).err.parsing = a.kind
                         /\ ReNodeOf(a).err.found = a.val.ak
                         /\ ReNodeOf(a).err.found \notin ReNodeOf(a).err.allowed
<1>1. CASE a = [kind |-> "Worktop"]
  BY <1>1 DEF ReNodeOf, Ok, RENodes, AstReNodeOf
<1>2. CASE a \in [kind : {"Bucket", "Proof", "AuthZoneStack", "Global"} \cup NodeKinds,
                  val : AstValues]
  <2>1. a.kind # "Worktop"
    BY <1>2 DEF NodeKinds
  <2>2. CASE a.val.ak \notin AllowedChildren(a.kind)
    <3>1. ReNodeOf(a) = Fail([kind |-> "UnexpectedReNodeContents", parsing |-> a.kind,
                              allowed |-> AllowedChildren(a.kind), found |-> a.val.ak])
      BY <2>1, <2>2 DEF ReNodeOf
    <3>2. AllowedChildren(a.kind) \in {{"U32", "String"}, {"U32"}, {"String"}}
      BY DEF AllowedChildren
    <3>3. a.val.ak \in {"String", "U32"} \cup OtherAstKinds
      BY <1>2 DEF AstValues
    <3>. QED  BY <1>2, <2>2, <3>1, <3>2, <3>3 DEF Fail, ReceiverErrors
  <2>3. CASE a.val.ak \in AllowedChildren(a.kind)
    <3>1. ReNodeOf(a) = ReNodeOfAccepted(a)
      BY <2>1, <2>3 DEF ReNodeOf
    <3>2. ASSUME NEW v, ReNodeOf(a) = Ok(v), v \in RENodes, AstReNodeOf(v) = a
          PROVE  IF ReNodeOf(a).ok
                    THEN /\ ReNodeOf(a).val \in RENodes
                         /\ AstReNodeOf(ReNodeOf(a).val) = a
                    ELSE FALSE
      BY <3>2 DEF Ok
    <3>3. a = [kind |-> a.kind, val |-> a.val]
      BY <1>2
    <3>4. CASE a.kind \in {"Bucket", "Proof"} /\ a.val.ak = "U32"
      <4>. DEFINE v == [kind |-> a.kind, id |-> [tag |-> "U32", n |-> a.val.n]]
      <4>1. a.val = [ak |-> "U32", n |-> a.val.n] /\ a.val.n \in U32s
        BY <1>2, <3>4 DEF AstValues, OtherAstKinds
      <4>2. ReNodeOf(a) = Ok(v)
        BY <3>1, <3>4 DEF ReNodeOfAccepted
      <4>3. v \in RENodes
        BY <3>4, <4>1 DEF RENodes, Identifiers
      <4>4. AstReNodeOf(v) = a
        BY <3>3, <3>4, <4>1 DEF AstReNodeOf
      <4>. QED  BY <3>2, <4>2, <4>3, <4>4
    <3>5. CASE a.kind \in {"Bucket", "Proof"} /\ a.val.ak = "String"
      <4>. DEFINE v == [kind |-> a.kind, id |-> [tag |-> "String", s |-> a.val.s]]
      <4>1. a.val = [ak |-> "String", s |-> a.val.s] /\ a.val.s \in Strings
        BY <1>2, <3>5 DEF AstValues, OtherAstKinds
      <4>2. ReNodeOf(a) = Ok(v)
        BY <3>1, <3>5 DEF ReNodeOfAccepted
      <4>3. v \in RENodes
        BY <3>5, <4>1 DEF RENodes, Identifiers
      <4>4. AstReNodeOf(v) = a
        BY <3>3, <3>5, <4>1 DEF AstReNodeOf
      <4>. QED  BY <3>2, <4>2, <4>3, <4>4
    <3>6. CASE a.kind = "AuthZoneStack"
      <4>. DEFINE v == [kind |-> a.kind, n |-> a.val.n]
      <4>1. a.val = [ak |-> "U32", n |-> a.val.n] /\ a.val.n \in U32s
        BY <1>2, <2>3, <3>6 DEF AstValues, OtherAstKinds, AllowedChildren
      <4>2. ReNodeOf(a) = Ok(v)
        BY <3>1, <3>6 DEF ReNodeOfAccepted
      <4>3. v \in RENodes
        BY <3>6, <4>1 DEF RENodes
      <4>4. AstReNodeOf(v) = a
        BY <3>3, <3>6, <4>1 DEF AstReNodeOf
      <4>. QED  BY <3>2, <4>2, <4>3, <4>4
    <3>7. CASE a.kind = "Global"
      <4>. DEFINE v == [kind |-> a.kind, s |-> a.val.s]
      <4>1. a.val = [ak |-> "String", s |-> a.val.s] /\ a.val.s \in Strings
        BY <1>2, <2>3, <3>7 DEF AstValues, OtherAstKinds, AllowedChildren
      <4>2. ReNodeOf(a) = Ok(v)
        BY <3>1, <3>7 DEF ReNodeOfAccepted
      <4>3. v \in RENodes
        BY <3>7, <4>1 DEF RENodes
      <4>4. AstReNodeOf(v) = a
        BY <3>3, <3>7, <4>1 DEF AstReNodeOf
      <4>. QED  BY <3>2, <4>2, <4>3, <4>4
    <3>8. CASE a.kind \in NodeKinds
      <4>1. a.val = [ak |-> "String", s |-> a.val.s] /\ a.val.s \in Strings
        BY <1>2, <2>3, <3>8 DEF AstValues, OtherAstKinds, AllowedChildren, NodeKinds
      <4>2. CASE a.val.s \in NodeIdTexts
        <5>1. PICK x \in NodeIds : NodeIdText[x] = a.val.s
          BY <4>2 DEF NodeIdTexts
        <5>2. ParseNodeId(a.val.s) = x
          BY <5>1, ParseInvertsText
        <5>. DEFINE v == [kind |-> a.kind, node |-> x]
        <5>3. ReNodeOf(a) = Ok(v)
          BY <3>1, <3>8, <4>2, <5>2 DEF ReNodeOfAccepted, NodeKinds
        <5>4. v \in RENodes
          BY <3>8 DEF RENodes
        <5>5. AstReNodeOf(v) = a
          BY <3>3, <3>8, <4>1, <5>1 DEF AstReNodeOf, NodeKinds
        <5>. QED  BY <3>2, <5>3, <5>4, <5>5
      <4>3. CASE a.val.s \notin NodeIdTexts
        <5>1. ReNodeOf(a) = Fail([kind |-> "NodeIdParseError"])
          BY <3>1, <3>8, <4>3 DEF ReNodeOfAccepted, NodeKinds
        <5>. QED  BY <5>1 DEF Fail, ReceiverErrors
      <4>. QED  BY <4>2, <4>3
    <3>9. a.kind \in {"Bucket", "Proof"} => a.val.ak \in {"U32", "String"}
      BY <2>3 DEF AllowedChildren
    <3>. QED  BY <1>2, <3>4, <3>5, <3>6, <3>7, <3>8, <3>9
  <2>. QED  BY <2>2, <2>3
<1>. QED  BY <1>1, <1>2 DEF AstReNodes

(* The same two facts for receivers. *)
LEMMA ReceiverRoundTrip ==
    ASSUME NEW rc \in Receivers
    PROVE  /\ AstReceiverOf(rc) \in AstReceivers
           /\ ReceiverOf(AstReceiverOf(rc)) = Ok(rc)
<1>1. /\ AstReNodeOf(rc.node) \in AstReNodes
      /\ ReNodeOf(AstReNodeOf(rc.node)) = Ok(rc.node)
  BY ReNodeRoundTrip DEF Receivers
<1>2. rc = [own |-> rc.own, node |-> rc.node] /\ rc.own \in {"Owned", "Ref"}
  BY DEF Receivers
<1>3. AstReceiverOf(rc) \in AstReceivers
  BY <1>1, <1>2 DEF AstReceiverOf, AstReceivers
<1>4. /\ AstReceiverOf(rc).own = rc.own
      /\ ReNodeOf(AstReceiverOf(rc).node) = Ok(rc.node)
  BY <1>1 DEF AstReceiverOf
<1>5. Ok(rc.node).ok /\ Ok(rc.node).val = rc.node
  BY DEF Ok
<1>6. ReceiverOf(AstReceiverOf(rc)) = Ok([own |-> rc.own, node |-> rc.node])
  BY <1>4, <1>5, Zenon DEF ReceiverOf
<1>. QED  BY <1>2, <1>3, <1>6

LEMMA AstReceiverRoundTrip ==
    ASSUME NEW a \in AstReceivers
    PROVE  IF ReceiverOf(a).ok
              THEN /\ ReceiverOf(a).val \in Receivers
                   /\ AstReceiverOf(ReceiverOf(a).val) = a
              ELSE /\ ReceiverOf(a).err \in ReceiverErrors
                   /\ ReceiverOf(a).err.kind = "UnexpectedReNodeContents" =>
                         /\ ReceiverOf(a).err.parsing = a.node.kind
                         /\ ReceiverOf(a).err.found = a.node.val.ak
                         /\ ReceiverOf(a).err.found \notin ReceiverOf(a).err.allowed
<1>1. a.node \in AstReNodes
  BY DEF AstReceivers
<1>2. CASE ReNodeOf(a.node).ok
  <2>1. ReNodeOf(a.node).val \in RENodes /\ AstReNodeOf(ReNodeOf(a.node).val) = a.node
    BY <1>1, <1>2, AstReNodeRoundTrip
  <2>. QED  BY <1>2, <2>1 DEF ReceiverOf, Ok, Receivers, AstReceiverOf, AstReceivers
<1>3. CASE ~ReNodeOf(a.node).ok
  <2>1. ReceiverOf(a) = ReNodeOf(a.node)
    BY <1>3 DEF ReceiverOf
  <2>. QED  BY <1>1, <1>3, <2>1, AstReNodeRoundTrip
<1>. QED  BY <1>2, <1>3

-----------------------------------------------------------------------------
(* The inductive invariant: the current receiver in each form as a        *)
(* function of the origin, and a text origin that has once been read is   *)
(* known to read.                                                          *)
IInv ==
    /\ TypeOK
    /\ originForm = "model" => origin \in Receivers /\ form # "error"
    /\ originForm = "ast" => origin \in AstReceivers
    /\ form = "model" /\ originForm = "model" => cur = origin
    /\ form = "ast" /\ originForm = "model" => cur = AstReceiverOf(origin)
    /\ form = "ast" /\ originForm = "ast" => cur = origin
    /\ form = "model" /\ originForm = "ast" =>
          ReceiverOf(origin).ok /\ cur = ReceiverOf(origin).val
    /\ form = "ast" /\ originForm = "ast" /\ steps # 0 => ReceiverOf(origin).ok
    /\ FailsOnlyOnForeignText

(* Every state of a conversion chain satisfies IInv. *)
THEOREM IInvariant == Spec => []IInv
<1>. USE MaxStepsAssumption
<1>1. Init => IInv
  BY DEF Init, IInv, TypeOK, FailsOnlyOnForeignText
<1>2. IInv /\ [Next]_vars => IInv'
  <2> SUFFICES ASSUME IInv, [Next]_vars PROVE IInv'
    OBVIOUS
  <2>1. CASE ToAst
    <3>1. CASE originForm = "model"
      <4>1. AstReceiverOf(origin) \in AstReceivers
        BY <3>1, ReceiverRoundTrip DEF IInv
      <4>. QED  BY <2>1, <3>1, <4>1 DEF ToAst, IInv, TypeOK, FailsOnlyOnForeignText
    <3>2. CASE originForm = "ast"
      <4>1. ReceiverOf(origin).ok /\ cur = ReceiverOf(origin).val
        BY <2>1, <3>2 DEF ToAst, IInv
      <4>2. AstReceiverOf(cur) = origin
        BY <3>2, <4>1, AstReceiverRoundTrip DEF IInv
      <4>. QED  BY <2>1, <3>2, <4>1, <4>2 DEF ToAst, IInv, TypeOK, FailsOnlyOnForeignText
    <3>. QED  BY <3>1, <3>2 DEF IInv, TypeOK
  <2>2. CASE FromAst
    <3>1. CASE originForm = "model"
      <4>1. cur = AstReceiverOf(origin) /\ origin \in Receivers
        BY <2>2, <3>1 DEF FromAst, IInv
      <4>2. ReceiverOf(cur) = Ok(origin)
        BY <4>1, ReceiverRoundTrip
      <4>. QED  BY <2>2, <3>1, <4>1, <4>2 DEF FromAst, IInv, TypeOK, Ok, FailsOnlyOnForeignText
    <3>2. CASE originForm = "ast"
      <4>1. cur = origin /\ origin \in AstReceivers
        BY <2>2, <3>2 DEF FromAst, IInv
      <4>2. CASE ReceiverOf(origin).ok
        <5>1. ReceiverOf(origin).val \in Receivers
          BY <4>1, <4>2, AstReceiverRoundTrip
        <5>. QED  BY <2>2, <3>2, <4>1, <4>2, <5>1
                  DEF FromAst, IInv, TypeOK, FailsOnlyOnForeignText
      <4>3. CASE ~ReceiverOf(origin).ok
        <5>1. steps = 0
          BY <2>2, <3>2, <4>3 DEF FromAst, IInv
        <5>2. /\ ReceiverOf(origin).err \in ReceiverErrors
              /\ ReceiverOf(origin).err.kind = "UnexpectedReNodeContents" =>
                    /\ ReceiverOf(origin).err.parsing = origin.node.kind
                    /\ ReceiverOf(origin).err.found = origin.node.val.ak
                    /\ ReceiverOf(origin).err.found \notin ReceiverOf(origin).err.allowed
          BY <4>1, <4>3, AstReceiverRoundTrip
        <5>3. /\ form' = "error" /\ err' = ReceiverOf(origin).err
              /\ steps' = 1 /\ steps < MaxSteps /\ UNCHANGED <<cur, originForm, origin>>
          BY <2>2, <4>1, <4>3, <5>1 DEF FromAst
        <5>4. TypeOK'
          BY <5>2, <5>3 DEF IInv, TypeOK
        <5>. QED  BY <3>2, <4>1, <5>2, <5>3, <5>4 DEF IInv, FailsOnlyOnForeignText
      <4>. QED  BY <4>2, <4>3
    <3>. QED  BY <3>1, <3>2 DEF IInv, TypeOK
  <2>3. CASE UNCHANGED vars
    BY <2>3 DEF vars, IInv, TypeOK, FailsOnlyOnForeignText
  <2>. QED  BY <2>1, <2>2, <2>3 DEF Next
<1>. QED  BY <1>1, <1>2, PTL DEF Spec

(* Converting a receiver back and forth never changes it, whether it was *)
(* built in the model or read from text.                                   *)
THEOREM ReceiverStableInvariant == Spec => []ReceiverStable
<1>1. IInv => ReceiverStable
  BY DEF IInv, ReceiverStable
<1>. QED  BY <1>1, IInvariant, PTL

(* A receiver conversion fails only on the first read of foreign text,   *)
(* with an error that names the payload kind the arm refused.            *)
THEOREM FailsOnlyOnForeignTextInvariant == Spec => []FailsOnlyOnForeignText
BY IInvariant, PTL DEF IInv
(* The state of a conversion chain is always well typed: whatever chain  *)
(* of to_ast and from_ast calls ran, the receiver is a model or an AST    *)
(* receiver and the error, if any, a ReceiverError.                      *)
THEOREM TypeCorrect == Spec => []TypeOK
  BY IInvariant, PTL DEF IInv

=============================================================================
