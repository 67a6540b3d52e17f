------------------------- MODULE AnalyzeManifestProofs -------------------------
(***************************************************************************)
(* Proof that AnalyzeManifestWithPreviewContext only answers for a        *)
(* committed receipt and a manifest on the declared network, and that its *)
(* response partitions the components the manifest names, for every set   *)
(* of networks, component variants and argument sets and every manifest   *)
(* length.                                                                 *)
(***************************************************************************)
EXTENDS AnalyzeManifest, NatLemmas, TLAPS

USE NetworksAssumption, ComponentClassesAssumption, ArgumentSetsAssumption,
    MaxInstructionsAssumption

(* Every ComponentAddress variant falls into one of the sets. *)
LEMMA CategoryTotal ==
    \A c \in ComponentClasses : Category(c) \in Categories
  BY DEF Category, Categories

(* The response handle builds from a list of instructions. *)
Split(instrs) == [c \in Categories |-> {a \in AddressesOf(instrs) : Category(a.cls) = c}]

(* What each phase of the pipeline knows of the request. *)
IInv ==
    /\ request \in Requests
    /\ phase \in {"pre", "convert", "receipt", "traverse", "post", "done", "error"}
    /\ phase \in {"convert", "receipt", "traverse", "post", "done"} =>
          (request.form = "Parsed" => ForeignNetworks = {})
    /\ phase \in {"receipt", "traverse", "post", "done"} =>
          ForeignNetworks = {} /\ parsed = request.instructions
    /\ phase \in {"traverse", "post", "done"} => request.transaction_receipt = "Commit"
    /\ phase \in {"post", "done"} => response = Split(parsed)

LEMMA IInvInit == Init => IInv
  BY DEF Init, IInv

LEMMA IInvNext == IInv /\ [Next]_vars => IInv'
<1> SUFFICES ASSUME IInv, [Next]_vars PROVE IInv'
  OBVIOUS
<1>1. ASSUME NEW e, Fail(e) PROVE IInv'
  BY <1>1 DEF Fail, IInv, ForeignNetworks
<1>2. CASE PreProcess
  <2> DEFINE checked == IF request.form = "Parsed" THEN request.instructions ELSE <<>>
             foreign == {n \in NetworksOf(checked) : n # request.network_id}
  <2>1. CASE foreign # {}
    BY <1>1, <1>2, <2>1 DEF PreProcess
  <2>2. CASE foreign = {}
    <3>1. phase = "pre" /\ phase' = "convert" /\ UNCHANGED <<request, parsed, response>>
      BY <1>2, <2>2 DEF PreProcess
    <3>2. request.form = "Parsed" => ForeignNetworks = {}
      BY <2>2 DEF ForeignNetworks
    <3>. QED  BY <3>1, <3>2 DEF IInv, ForeignNetworks
  <2>. QED  BY <2>1, <2>2
<1>3. CASE ConvertManifest
  <2>1. CASE request.form = "String"
             /\ \E n \in NetworksOf(request.instructions) : n # request.network_id
    BY <1>1, <1>3, <2>1 DEF ConvertManifest
  <2>2. CASE ~(request.form = "String"
               /\ \E n \in NetworksOf(request.instructions) : n # request.network_id)
    <3>1. phase = "convert" /\ phase' = "receipt" /\ parsed' = request.instructions
          /\ UNCHANGED <<request, response>>
      BY <1>3, <2>2 DEF ConvertManifest
    <3>2. request.form \in {"Parsed", "String"}
      BY DEF IInv, Requests
    <3>3. ForeignNetworks = {}
      BY <2>2, <3>1, <3>2 DEF IInv, ForeignNetworks
    <3>. QED  BY <3>1, <3>3 DEF IInv, ForeignNetworks
  <2>. QED  BY <2>1, <2>2
<1>4. CASE DecodeReceipt
  <2>1. CASE request.transaction_receipt = "Commit"
    <3>1. phase = "receipt" /\ phase' = "traverse" /\ UNCHANGED <<request, parsed, response>>
      BY <1>4, <2>1 DEF DecodeReceipt
    <3>. QED  BY <2>1, <3>1 DEF IInv, ForeignNetworks
  <2>2. CASE request.transaction_receipt = "Malformed"
    BY <1>1, <1>4, <2>2 DEF DecodeReceipt
  <2>3. CASE request.transaction_receipt \in {"Reject", "Abort"}
    BY <1>1, <1>4, <2>3 DEF DecodeReceipt
  <2>. QED  BY <2>1, <2>2, <2>3 DEF IInv, Requests, Receipts
<1>5. CASE Traverse
  <2>1. CASE \E i \in DOMAIN parsed : parsed[i].fails
    BY <1>1, <1>5, <2>1 DEF Traverse
  <2>2. CASE ~\E i \in DOMAIN parsed : parsed[i].fails
    <3>1. phase = "traverse" /\ phase' = "post" /\ response' = Split(parsed)
          /\ UNCHANGED <<request, parsed>>
      BY <1>5, <2>2 DEF Traverse, Split
    <3>. QED  BY <3>1 DEF IInv, ForeignNetworks, Split
  <2>. QED  BY <2>1, <2>2
<1>6. CASE PostProcess
  BY <1>6 DEF PostProcess, IInv, ForeignNetworks, Split
<1>7. CASE UNCHANGED vars
  BY <1>7 DEF vars, IInv, ForeignNetworks, Split
<1>. QED  BY <1>2, <1>3, <1>4, <1>5, <1>6, <1>7 DEF Next

THEOREM IInvariant == Spec => []IInv
  BY IInvInit, IInvNext, PTL DEF Spec

(* Every address a request's instructions name is a component address. *)
LEMMA AddressesTyped ==
    ASSUME NEW r \in Requests
    PROVE  AddressesOf(r.instructions) \subseteq Address
<1>1. PICK k \in 0..MaxInstructions : r.instructions \in [1..k -> Instruction]
  BY DEF Requests
<1>. QED  BY <1>1 DEF AddressesOf, Instruction, Address

LEMMA IInvImpliesAnalysed == IInv => AnalysedOnItsNetwork
<1> SUFFICES ASSUME IInv, phase \in {"post", "done"} PROVE AnalysedOnItsNetwork
  BY DEF AnalysedOnItsNetwork
<1>1. ForeignNetworks = {} /\ parsed = request.instructions
      /\ request.transaction_receipt = "Commit" /\ response = Split(parsed)
  BY DEF IInv
<1>2. AddressesOf(parsed) \subseteq Address
  BY <1>1, AddressesTyped DEF IInv
<1>3. UNION {response[c] : c \in Categories} = AddressesOf(parsed)
  BY <1>1, <1>2, CategoryTotal DEF Split, Address
<1>4. \A c, d \in Categories : c # d => response[c] \cap response[d] = {}
  BY <1>1 DEF Split
<1>. QED  BY <1>1, <1>3, <1>4 DEF AnalysedOnItsNetwork

(* Whatever the form of the manifest and whatever the receipt, a response *)
(* is only built for a committed receipt and a manifest on the declared   *)
(* network, and it puts every component the manifest names in exactly one *)
(* set.                                                                    *)
THEOREM AnalysedOnItsNetworkInvariant == Spec => []AnalysedOnItsNetwork
  BY IInvariant, IInvImpliesAnalysed, PTL

-----------------------------------------------------------------------------
(* Each error the pipeline can stop with, together with the cause it     *)
(* was raised for, as one disjunct per variant.                           *)
Cause(e) ==
    \/ /\ e.kind = "NetworkMismatchError"
       /\ e.found \in ForeignNetworks /\ request.form = "Parsed"
    \/ /\ e.kind = "ManifestCompileError"
       /\ ForeignNetworks # {} /\ request.form = "String"
    \/ /\ e.kind = "ReceiptDecodeError"
       /\ ForeignNetworks = {} /\ request.transaction_receipt = "Malformed"
    \/ /\ e.kind = "TransactionNotCommitted"
       /\ ForeignNetworks = {}
       /\ request.transaction_receipt \in {"Reject", "Abort"}
    \/ /\ e.kind = "VisitorError"
       /\ ForeignNetworks = {}
       /\ request.transaction_receipt = "Commit"
       /\ request.instructions[e.at].fails
       /\ \A j \in 1..(e.at - 1) : ~request.instructions[j].fails

Causes == phase = "error" => Cause(err)

(* The invariant behind the typing of the state and the error causes. *)
EInv == IInv /\ TypeOK /\ Causes

(* The instructions of a request are a sequence of at most               *)
(* MaxInstructions instructions.                                          *)
LEMMA InstructionsTyped ==
    ASSUME NEW r \in Requests
    PROVE  /\ r.instructions \in Seq(Instruction)
           /\ Len(r.instructions) \in 0..MaxInstructions
           /\ DOMAIN r.instructions = 1..Len(r.instructions)
<1>1. PICK k \in 0..MaxInstructions : r.instructions \in [1..k -> Instruction]
  BY DEF Requests
<1>. QED  BY <1>1, MaxInstructionsAssumption

(* The first instruction a visitor fails on: the CHOOSE of Traverse names *)
(* an instruction that fails, after none that fails.                      *)
LEMMA FirstFailing ==
    ASSUME NEW s \in Seq(Instruction), \E i \in DOMAIN s : s[i].fails
    PROVE  LET at == CHOOSE i \in DOMAIN s :
                        s[i].fails /\ \A j \in 1..(i - 1) : ~s[j].fails
           IN  /\ at \in 1..Len(s)
               /\ s[at].fails
               /\ \A j \in 1..(at - 1) : ~s[j].fails
<1> DEFINE T == {i \in DOMAIN s : s[i].fails}
<1>1. T \in SUBSET Nat /\ T # {}
  OBVIOUS
<1>2. PICK x \in T : \A y \in T : x <= y
  BY <1>1, LeastNat
<1>3. x \in DOMAIN s /\ s[x].fails /\ \A j \in 1..(x - 1) : ~s[j].fails
  BY <1>2
<1>. QED  BY <1>3

(* The first foreign network of the BTreeSet is a foreign network. *)
LEMMA FirstForeign ==
    ASSUME NEW F \in SUBSET Nat, F # {}
    PROVE  (CHOOSE n \in F : \A m \in F : n <= m) \in F
  BY ChooseLeast

LEMMA EInvInit == Init => EInv
  BY IInvInit DEF Init, EInv, TypeOK, Causes, Errors, NoError

(* A failing step: the error is typed and names its cause. *)
LEMMA FailKeeps ==
    ASSUME NEW e \in Errors, EInv, Fail(e), IInv', Cause(e)
    PROVE  EInv'
<1>1. request' = request /\ err' = e /\ phase' = "error"
  BY DEF Fail
<1>2. Cause(e)' = Cause(e)
  BY <1>1 DEF Cause, ForeignNetworks, NetworksOf, AddressesOf
<1>. QED  BY <1>1, <1>2 DEF Fail, EInv, TypeOK, Causes

LEMMA EInvNext == EInv /\ [Next]_vars => EInv'
<1> SUFFICES ASSUME EInv, [Next]_vars PROVE EInv'
  OBVIOUS
<1>0. IInv'
  BY IInvNext DEF EInv
<1>a. request \in Requests /\ AddressesOf(request.instructions) \subseteq Address
  BY AddressesTyped DEF EInv, IInv
<1>b. /\ request.instructions \in Seq(Instruction)
      /\ Len(request.instructions) \in 0..MaxInstructions
  BY <1>a, InstructionsTyped
<1>2. CASE PreProcess
  <2> DEFINE checked == IF request.form = "Parsed" THEN request.instructions ELSE <<>>
             foreign == {n \in NetworksOf(checked) : n # request.network_id}
             found == CHOOSE n \in foreign : \A m \in foreign : n <= m
  <2>1. CASE foreign # {}
    <3>1. request.form = "Parsed" /\ foreign = ForeignNetworks
      BY <2>1 DEF NetworksOf, AddressesOf, ForeignNetworks
    <3>2. foreign \subseteq Networks
      BY <1>a, <3>1 DEF NetworksOf, ForeignNetworks, Address
    <3>3. found \in foreign
      BY <2>1, <3>2, FirstForeign DEF found
    <3>4. Fail([kind |-> "NetworkMismatchError", found |-> found])
      BY <1>2, <2>1 DEF PreProcess, checked, foreign, found
    <3>5. [kind |-> "NetworkMismatchError", found |-> found] \in Errors
      BY <3>2, <3>3 DEF Errors
    <3>. QED  BY <1>0, <3>1, <3>3, <3>4, <3>5, FailKeeps DEF Cause, found
  <2>2. CASE foreign = {}
    BY <1>2, <2>2, <1>0 DEF PreProcess, EInv, TypeOK, Causes
  <2>. QED  BY <2>1, <2>2
<1>3. CASE ConvertManifest
  <2>1. CASE request.form = "String"
             /\ \E n \in NetworksOf(request.instructions) : n # request.network_id
    <3>1. Fail([kind |-> "ManifestCompileError"])
      BY <1>3, <2>1 DEF ConvertManifest
    <3>2. ForeignNetworks # {}
      BY <2>1 DEF ForeignNetworks
    <3>. QED  BY <1>0, <2>1, <3>1, <3>2, FailKeeps DEF Cause, Errors
  <2>2. CASE ~(request.form = "String"
               /\ \E n \in NetworksOf(request.instructions) : n # request.network_id)
    BY <1>3, <2>2, <1>0, <1>b DEF ConvertManifest, EInv, TypeOK, Causes
  <2>. QED  BY <2>1, <2>2
<1>4. CASE DecodeReceipt
  <2>0. ForeignNetworks = {}
    BY <1>4 DEF DecodeReceipt, EInv, IInv
  <2>1. CASE request.transaction_receipt = "Commit"
    BY <1>4, <2>1, <1>0 DEF DecodeReceipt, EInv, TypeOK, Causes
  <2>2. CASE request.transaction_receipt = "Malformed"
    <3>1. Fail([kind |-> "ReceiptDecodeError"])
      BY <1>4, <2>2, Zenon DEF DecodeReceipt
    <3>. QED  BY <1>0, <2>0, <2>2, <3>1, FailKeeps DEF Cause, Errors
  <2>3. CASE request.transaction_receipt \in {"Reject", "Abort"}
    <3>1. Fail([kind |-> "TransactionNotCommitted"])
      BY <1>4, <2>3 DEF DecodeReceipt
    <3>. QED  BY <1>0, <2>0, <2>3, <3>1, FailKeeps DEF Cause, Errors
  <2>. QED  BY <1>a, <2>1, <2>2, <2>3 DEF Requests, Receipts
<1>5. CASE Traverse
  <2>0. parsed = request.instructions /\ ForeignNetworks = {}
        /\ request.transaction_receipt = "Commit"
    BY <1>5 DEF Traverse, EInv, IInv
  <2>1. CASE \E i \in DOMAIN parsed : parsed[i].fails
    <3> DEFINE at == CHOOSE i \in DOMAIN parsed :
                        parsed[i].fails /\ \A j \in 1..(i - 1) : ~parsed[j].fails
    <3>1. /\ at \in 1..Len(parsed)
          /\ parsed[at].fails
          /\ \A j \in 1..(at - 1) : ~parsed[j].fails
      BY <1>b, <2>0, <2>1, FirstFailing DEF at
    <3>2. Fail([kind |-> "VisitorError", at |-> at])
      BY <1>5, <2>1 DEF Traverse
    <3>3. [kind |-> "VisitorError", at |-> at] \in Errors
      BY <1>b, <2>0, <3>1 DEF Errors, at
    <3>. QED  BY <1>0, <2>0, <3>1, <3>2, <3>3, FailKeeps DEF Cause, at
  <2>2. CASE ~\E i \in DOMAIN parsed : parsed[i].fails
    <3>1. phase' = "post" /\ response' = Split(parsed) /\ UNCHANGED <<request, parsed, err>>
      BY <1>5, <2>2 DEF Traverse, Split
    <3>2. Split(parsed) \in [Categories -> SUBSET Address]
      BY <1>a, <2>0 DEF Split
    <3>. QED  BY <1>0, <3>1, <3>2 DEF EInv, TypeOK, Causes
  <2>. QED  BY <2>1, <2>2
<1>6. CASE PostProcess
  BY <1>6, <1>0 DEF PostProcess, EInv, TypeOK, Causes
<1>7. CASE UNCHANGED vars
  BY <1>7, <1>0 DEF vars, EInv, TypeOK, Causes, Cause, ForeignNetworks
<1>. QED  BY <1>2, <1>3, <1>4, <1>5, <1>6, <1>7 DEF Next

THEOREM EInvariant == Spec => []EInv
  BY EInvInit, EInvNext, PTL DEF Spec

(* The state of the handler is always well typed: in particular an error *)
(* names a network of the constants and an instruction of the manifest.  *)
THEOREM TypeCorrect == Spec => []TypeOK
  BY EInvariant, PTL DEF EInv

LEMMA CausesImpliesErrorNamesCause == Causes => ErrorNamesCause
  BY DEF Causes, Cause, ErrorNamesCause

(* A request is refused with the error of the first stage whose check it *)
(* really fails: the first foreign network of a Parsed manifest, a String *)
(* manifest that does not compile on the declared network, bytes that are *)
(* no receipt, a receipt not committed, or the first instruction a        *)
(* visitor fails on.                                                      *)
THEOREM ErrorNamesCauseInvariant == Spec => []ErrorNamesCause
  BY EInvariant, CausesImpliesErrorNamesCause, PTL DEF EInv

-----------------------------------------------------------------------------
(* A call that reached the response had no instruction a visitor fails   *)
(* on.                                                                     *)
Clean == phase \in {"post", "done"} => \A i \in DOMAIN parsed : ~parsed[i].fails

LEMMA CleanInit == Init => Clean
  BY DEF Init, Clean

LEMMA CleanNext == IInv /\ Clean /\ [Next]_vars => Clean'
<1> SUFFICES ASSUME IInv, Clean, [Next]_vars PROVE Clean'
  OBVIOUS
<1>1. CASE Traverse
  BY <1>1 DEF Traverse, Fail, Clean
<1>2. CASE PostProcess
  BY <1>2 DEF PostProcess, Clean
<1>3. CASE PreProcess \/ ConvertManifest
  BY <1>3 DEF PreProcess, ConvertManifest, Fail, Clean
<1>4. CASE DecodeReceipt
  BY <1>4 DEF DecodeReceipt, Fail, Clean, IInv, Requests, Receipts
<1>5. CASE UNCHANGED vars
  BY <1>5 DEF vars, Clean
<1>. QED  BY <1>1, <1>2, <1>3, <1>4, <1>5 DEF Next

(* The abstract specification reads requests and manifests with the      *)
(* same definitions.                                                      *)
LEMMA SharedDefinitions ==
    /\ ABS!Requests = Requests
    /\ ABS!Categories = Categories
    /\ \A s : ABS!AddressesOf(s) = AddressesOf(s)
    /\ \A s : ABS!NetworksOf(s) = NetworksOf(s)
  BY DEF ABS!Requests, Requests, ABS!Instruction, Instruction, ABS!Receipts,
         Receipts, ABS!Categories, Categories, ABS!AddressesOf, AddressesOf,
         ABS!NetworksOf, NetworksOf

(* The From impl's match arms put each variant in the field whose        *)
(* documented variants include it.                                        *)
LEMMA KindsCategory ==
    ASSUME NEW cls \in ComponentClasses, NEW c \in Categories
    PROVE  Category(cls) = c <=> cls \in ABS!Kinds[c]
  BY SharedDefinitions DEF Category, ABS!Kinds, Categories

(* The response handle builds is the abstract split of the components.  *)
LEMMA SplitIsKinds ==
    ASSUME NEW r \in Requests
    PROVE  Split(r.instructions)
             = [c \in Categories |->
                  {a \in AddressesOf(r.instructions) : a.cls \in ABS!Kinds[c]}]
<1>1. AddressesOf(r.instructions) \subseteq Address
  BY AddressesTyped
<1>. QED  BY <1>1, KindsCategory DEF Split, Address

(* The CHOOSE of Traverse names the least failing instruction. *)
LEMMA FirstFailingIsLeast ==
    ASSUME NEW s \in Seq(Instruction), \E i \in DOMAIN s : s[i].fails
    PROVE  (CHOOSE i \in DOMAIN s : s[i].fails /\ \A j \in 1..(i - 1) : ~s[j].fails)
             = ABS!Least({i \in DOMAIN s : s[i].fails})
<1> DEFINE at == CHOOSE i \in DOMAIN s : s[i].fails /\ \A j \in 1..(i - 1) : ~s[j].fails
           T == {i \in DOMAIN s : s[i].fails}
           x == CHOOSE n \in T : \A m \in T : n <= m
<1>1. at \in 1..Len(s) /\ s[at].fails /\ \A j \in 1..(at - 1) : ~s[j].fails
  BY FirstFailing DEF at
<1>2. T \in SUBSET Nat /\ T # {}
  BY DEF T
<1>3. x \in T /\ \A m \in T : x <= m
  BY <1>2, ChooseLeast DEF x
<1>4. x = at
  BY <1>1, <1>3 DEF T
<1>. QED  BY <1>4 DEF ABS!Least, x, at, T

(* The answer the request calls for, arm by arm. *)
LEMMA OutcomeArms ==
    ASSUME NEW r \in Requests
    PROVE  LET foreign == {n \in NetworksOf(r.instructions) : n # r.network_id}
               failing == {i \in DOMAIN r.instructions : r.instructions[i].fails}
               out == ABS!Outcome(r)
           IN  /\ foreign # {} /\ r.form = "Parsed" =>
                     out = [kind |-> "NetworkMismatchError", found |-> ABS!Least(foreign)]
               /\ foreign # {} /\ r.form = "String" =>
                     out = [kind |-> "ManifestCompileError"]
               /\ foreign = {} /\ r.transaction_receipt = "Malformed" =>
                     out = [kind |-> "ReceiptDecodeError"]
               /\ foreign = {} /\ r.transaction_receipt \in {"Reject", "Abort"} =>
                     out = [kind |-> "TransactionNotCommitted"]
               /\ foreign = {} /\ r.transaction_receipt = "Commit" /\ failing # {} =>
                     out = [kind |-> "VisitorError", at |-> ABS!Least(failing)]
               /\ foreign = {} /\ r.transaction_receipt = "Commit" /\ failing = {} =>
                     out = [kind |-> "ok",
                            components |-> [c \in Categories |->
                              {a \in AddressesOf(r.instructions) : a.cls \in ABS!Kinds[c]}]]
  BY SharedDefinitions DEF ABS!Outcome

(* The abstract outcome, under the refinement mapping. *)
AbsOutcome ==
    IF phase = "error" THEN err
    ELSE IF phase = "done" THEN [kind |-> "ok", components |-> response]
    ELSE [kind |-> "pending"]

LEMMA RefineInit == Init => ABS!Init
  BY SharedDefinitions DEF Init, ABS!Init, ABS!Pending

(* Every step of the pipeline is a stutter of the abstract call, or its  *)
(* one Answer: each Fail answers the error the request calls for, and    *)
(* post_process answers the response.                                    *)
LEMMA RefineNext == EInv /\ Clean /\ [Next]_vars => [ABS!Answer]_ABS!vars
<1> SUFFICES ASSUME EInv, Clean, [Next]_vars PROVE [ABS!Answer]_ABS!vars
  OBVIOUS
<1> DEFINE out == ABS!Outcome(request)
           failing == {i \in DOMAIN request.instructions : request.instructions[i].fails}
<1>0. /\ request \in Requests
      /\ request.form \in {"Parsed", "String"}
      /\ request.instructions \in Seq(Instruction)
  BY InstructionsTyped DEF EInv, IInv, Requests
<1>1. ForeignNetworks = {n \in NetworksOf(request.instructions) : n # request.network_id}
  BY DEF ForeignNetworks
<1>s. ASSUME phase \notin {"error", "done"}, phase' \notin {"error", "done"},
             request' = request
      PROVE  UNCHANGED ABS!vars
  BY <1>s DEF ABS!vars
<1>a. ASSUME phase \notin {"error", "done"}, request' = request, AbsOutcome' = out
      PROVE  ABS!Answer
  BY <1>a DEF ABS!Answer, ABS!Pending, AbsOutcome, out
<1>2. CASE PreProcess
  <2> DEFINE checked == IF request.form = "Parsed" THEN request.instructions ELSE <<>>
             foreign == {n \in NetworksOf(checked) : n # request.network_id}
  <2>1. CASE foreign # {}
    <3>1. request.form = "Parsed"
      BY <2>1 DEF foreign, checked, NetworksOf, AddressesOf
    <3>2. foreign = ForeignNetworks
      BY <3>1 DEF foreign, checked, ForeignNetworks
    <3>3. /\ phase = "pre" /\ phase' = "error" /\ request' = request
          /\ err' = [kind |-> "NetworkMismatchError", found |-> ABS!Least(ForeignNetworks)]
      BY <1>2, <2>1, <3>2 DEF PreProcess, Fail, ABS!Least
    <3>4. out = [kind |-> "NetworkMismatchError", found |-> ABS!Least(ForeignNetworks)]
      BY <1>0, <1>1, <2>1, <3>1, <3>2, OutcomeArms DEF out
    <3>. QED  BY <1>a, <3>3, <3>4 DEF AbsOutcome
  <2>2. CASE foreign = {}
    BY <1>2, <2>2, <1>s DEF PreProcess
  <2>. QED  BY <2>1, <2>2
<1>3. CASE ConvertManifest
  <2>1. CASE request.form = "String" /\ ForeignNetworks # {}
    <3>1. /\ phase = "convert" /\ phase' = "error" /\ request' = request
          /\ err' = [kind |-> "ManifestCompileError"]
      BY <1>3, <2>1 DEF ConvertManifest, Fail, ForeignNetworks
    <3>2. out = [kind |-> "ManifestCompileError"]
      BY <1>0, <1>1, <2>1, OutcomeArms DEF out
    <3>. QED  BY <1>a, <3>1, <3>2 DEF AbsOutcome
  <2>2. CASE ~(request.form = "String" /\ ForeignNetworks # {})
    BY <1>3, <2>2, <1>s DEF ConvertManifest, ForeignNetworks
  <2>. QED  BY <2>1, <2>2
<1>4. CASE DecodeReceipt
  <2>0. ForeignNetworks = {}
    BY <1>4 DEF DecodeReceipt, EInv, IInv
  <2>1. CASE request.transaction_receipt = "Malformed"
    <3>1. /\ phase = "receipt" /\ phase' = "error" /\ request' = request
          /\ err' = [kind |-> "ReceiptDecodeError"]
      BY <1>4, <2>1 DEF DecodeReceipt, Fail
    <3>2. out = [kind |-> "ReceiptDecodeError"]
      BY <1>0, <1>1, <2>0, <2>1, OutcomeArms DEF out
    <3>. QED  BY <1>a, <3>1, <3>2 DEF AbsOutcome
  <2>2. CASE request.transaction_receipt \in {"Reject", "Abort"}
    <3>1. /\ phase = "receipt" /\ phase' = "error" /\ request' = request
          /\ err' = [kind |-> "TransactionNotCommitted"]
      BY <1>4, <2>2 DEF DecodeReceipt, Fail
    <3>2. out = [kind |-> "TransactionNotCommitted"]
      BY <1>0, <1>1, <2>0, <2>2, OutcomeArms DEF out
    <3>. QED  BY <1>a, <3>1, <3>2 DEF AbsOutcome
  <2>3. CASE request.transaction_receipt = "Commit"
    BY <1>4, <2>3, <1>s DEF DecodeReceipt
  <2>. QED  BY <2>1, <2>2, <2>3 DEF EInv, IInv, Requests, Receipts
<1>5. CASE Traverse
  <2>0. /\ ForeignNetworks = {} /\ parsed = request.instructions
        /\ request.transaction_receipt = "Commit"
    BY <1>5 DEF Traverse, EInv, IInv
  <2>1. CASE \E i \in DOMAIN parsed : parsed[i].fails
    <3>1. /\ phase = "traverse" /\ phase' = "error" /\ request' = request
          /\ err' = [kind |-> "VisitorError", at |-> ABS!Least(failing)]
      <4>1. (CHOOSE i \in DOMAIN parsed :
               parsed[i].fails /\ \A j \in 1..(i - 1) : ~parsed[j].fails)
              = ABS!Least(failing)
        BY <1>0, <2>0, <2>1, FirstFailingIsLeast DEF failing
      <4>. QED  BY <1>5, <2>1, <4>1 DEF Traverse, Fail
    <3>2. out = [kind |-> "VisitorError", at |-> ABS!Least(failing)]
      BY <1>0, <1>1, <2>0, <2>1, OutcomeArms DEF out, failing
    <3>. QED  BY <1>a, <3>1, <3>2 DEF AbsOutcome
  <2>2. CASE ~\E i \in DOMAIN parsed : parsed[i].fails
    BY <1>5, <2>2, <1>s DEF Traverse
  <2>. QED  BY <2>1, <2>2
<1>6. CASE PostProcess
  <2>1. /\ phase = "post" /\ phase' = "done" /\ request' = request
        /\ response' = response
    BY <1>6 DEF PostProcess
  <2>2. /\ ForeignNetworks = {} /\ parsed = request.instructions
        /\ request.transaction_receipt = "Commit" /\ response = Split(parsed)
        /\ failing = {}
    BY <2>1 DEF EInv, IInv, Clean, failing
  <2>3. out = [kind |-> "ok",
               components |-> [c \in Categories |->
                 {a \in AddressesOf(request.instructions) : a.cls \in ABS!Kinds[c]}]]
    BY <1>0, <1>1, <2>2, OutcomeArms DEF out, failing
  <2>4. response = [c \in Categories |->
                      {a \in AddressesOf(request.instructions) : a.cls \in ABS!Kinds[c]}]
    BY <1>0, <2>2, SplitIsKinds
  <2>. QED  BY <1>a, <2>1, <2>3, <2>4 DEF AbsOutcome
<1>7. CASE UNCHANGED vars
  BY <1>7 DEF vars, ABS!vars
<1>. QED  BY <1>2, <1>3, <1>4, <1>5, <1>6, <1>7 DEF Next

(* Every behaviour of the handler is, step for step, a behaviour of the  *)
(* one-step call: it answers once, with the error of the first failing   *)
(* check in the code's order (the least foreign network, the first       *)
(* failing instruction) or with the components split by their documented *)
(* fields.  That it answers at all is checked by TLC.                     *)
THEOREM RefinesAbstractSafety == Spec => ABS!Init /\ [][ABS!Answer]_ABS!vars
<1>1. Init => EInv /\ Clean
  BY EInvInit, CleanInit
<1>2. EInv /\ Clean /\ [Next]_vars => (EInv /\ Clean)'
  BY EInvNext, CleanNext DEF EInv
<1>3. Spec => [](EInv /\ Clean)
  BY <1>1, <1>2, PTL DEF Spec
<1>. QED  BY <1>3, RefineInit, RefineNext, PTL DEF Spec

=============================================================================
