----------------------- MODULE ExecutionAnalyzeProofs -----------------------
(***************************************************************************)
(* Proofs about ExecutionAnalyze for every set of networks, nodes and     *)
(* classifier analyses.  The conversions of execution.rs are shown to     *)
(* lose nothing (each serializable value converts back to what it came    *)
(* from), and the handler to answer only for a successful commit, with    *)
(* the conversion of what the classifier returned, and otherwise with    *)
(* the error of the first failing stage.                                  *)
(***************************************************************************)
EXTENDS ExecutionAnalyze, TLAPS

(* The serializable variant names are distinct, so KindOf inverts         *)
(* SerializableKind.                                                       *)
LEMMA KindOfInverts ==
    ASSUME NEW k \in TransactionKinds
    PROVE  KindOf(SerializableKind[k]) = k
<1>1. TransactionKinds =
        {"SimpleTransfer", "Transfer", "GeneralTransaction", "AccountDepositSettings",
         "StakeTransaction", "UnstakeTransaction", "ClaimStakeTransaction"}
  BY DEF TransactionKinds, Fields
<1>2. \A j \in TransactionKinds : SerializableKind[j] = SerializableKind[k] => j = k
  BY <1>1 DEF SerializableKind
<1>. QED  BY <1>2, Zenon DEF KindOf

(* What membership in TransactionTypes tells of a transaction type. *)
LEMMA TransactionTypeShape ==
    ASSUME NEW t \in TransactionTypes
    PROVE  /\ t.kind \in TransactionKinds
           /\ t.nodes \in [Fields[t.kind] -> Nodes]
           /\ t.kind = "AccountDepositSettings" =>
                 /\ t.action \in ResourcePreferenceActions
                 /\ t.rule \in DefaultDepositRules
<1>1. \/ \E k \in TransactionKinds \ {"AccountDepositSettings"} :
            t \in [kind : {k}, nodes : [Fields[k] -> Nodes]]
      \/ t \in [kind : {"AccountDepositSettings"},
                nodes : [Fields["AccountDepositSettings"] -> Nodes],
                action : ResourcePreferenceActions, rule : DefaultDepositRules]
  BY DEF TransactionTypes
<1>2. "AccountDepositSettings" \in TransactionKinds
  BY DEF TransactionKinds, Fields
<1>. QED  BY <1>1, <1>2

(* A resource preference action converts back to itself. *)
LEMMA ResourcePreferenceActionRoundTrip ==
    ASSUME NEW a \in ResourcePreferenceActions
    PROVE  ResourcePreferenceActionOf(SerializableResourcePreferenceAction(a)) = a
<1>1. CASE a.tag = "Remove"
  BY <1>1 DEF ResourcePreferenceActionOf, SerializableResourcePreferenceAction
<1>2. CASE a.tag # "Remove"
  <2>1. a \in [tag : {"Set"}, preference : ResourcePreferences]
    BY <1>2 DEF ResourcePreferenceActions
  <2>. QED  BY <2>1 DEF ResourcePreferenceActionOf, SerializableResourcePreferenceAction,
                       ResourcePreferenceOf, SerializableResourcePreference
<1>. QED  BY <1>1, <1>2

(* SerializableTransactionType::new keeps the variant, names the same     *)
(* node in every field, stamps the given network, and its deposit         *)
(* settings convert back.                                                  *)
LEMMA TransactionTypeFaithful ==
    ASSUME NEW t \in TransactionTypes, NEW n
    PROVE  LET o == SerializableTransactionType(t, n)
           IN  /\ KindOf(o.kind) = t.kind
               /\ DOMAIN o.nodes = DOMAIN t.nodes
               /\ \A f \in DOMAIN t.nodes : o.nodes[f] = NodeId(t.nodes[f], n)
               /\ t.kind = "AccountDepositSettings" =>
                     /\ ResourcePreferenceActionOf(o.action) = t.action
                     /\ DefaultDepositRuleOf[o.rule] = t.rule
<1>1. t.kind \in TransactionKinds
  BY TransactionTypeShape
<1>2. KindOf(SerializableKind[t.kind]) = t.kind
  BY <1>1, KindOfInverts
<1>3. CASE t.kind = "AccountDepositSettings"
  <2>1. t.action \in ResourcePreferenceActions /\ t.rule \in DefaultDepositRules
    BY <1>3, TransactionTypeShape
  <2>2. ResourcePreferenceActionOf(SerializableResourcePreferenceAction(t.action)) = t.action
    BY <2>1, ResourcePreferenceActionRoundTrip
  <2>. QED  BY <1>2, <1>3, <2>1, <2>2
            DEF SerializableTransactionType, DefaultDepositRuleOf, SerializableDefaultDepositRule
<1>4. CASE t.kind # "AccountDepositSettings"
  BY <1>2, <1>4 DEF SerializableTransactionType
<1>. QED  BY <1>3, <1>4

(* A list of reserved instructions converts back to itself. *)
LEMMA ReservedRoundTrip ==
    ASSUME NEW s \in Seq(ReservedInstructions)
    PROVE  [i \in DOMAIN s |-> ReservedInstructionOf[
               [j \in DOMAIN s |-> SerializableReservedInstruction[s[j]]][i]]] = s
BY DEF ReservedInstructionOf, SerializableReservedInstruction

-----------------------------------------------------------------------------
(* The inductive invariant: what each phase knows of the input, and the  *)
(* output as the conversion of the analysis.                              *)
IInv ==
    /\ TypeOK
    /\ phase \in {"receipt", "analyze", "serialize", "done"} => input.instructions_convert
    /\ phase \in {"analyze", "serialize", "done"} => input.preview_receipt # "Malformed"
    /\ phase \in {"serialize", "done"} =>
          input.preview_receipt = "CommitSuccess" /\ analysis \in Analyses
    /\ phase = "done" => output = Serialized(analysis, input.network_id)
    /\ ErrorNamesCause

(* Every state of ExecutionAnalyze satisfies IInv. *)
THEOREM IInvariant == Spec => []IInv
<1>. USE NetworksAssumption
<1>1. Init => IInv
  BY DEF Init, IInv, TypeOK, NoAnalysis, ErrorNamesCause
<1>2. IInv /\ [Next]_vars => IInv'
  <2> SUFFICES ASSUME IInv, [Next]_vars PROVE IInv'
    OBVIOUS
  <2>1. CASE ToInstructions
    BY <2>1 DEF ToInstructions, IInv, TypeOK, ErrorNamesCause, Proceed, Fail, Errors
  <2>2. CASE DecodeReceipt
    BY <2>2 DEF DecodeReceipt, IInv, TypeOK, ErrorNamesCause, Proceed, Fail, Errors
  <2>3. CASE Analyze
    <3>1. CASE input.preview_receipt = "CommitSuccess"
      <4>1. PICK a \in Analyses : /\ analysis' = a
                                  /\ phase' = "serialize"
                                  /\ UNCHANGED <<input, output, err>>
        BY <2>3, <3>1 DEF Analyze
      <4>. QED  BY <2>3, <3>1, <4>1 DEF Analyze, IInv, TypeOK, ErrorNamesCause
    <3>2. CASE input.preview_receipt # "CommitSuccess"
      <4>1. /\ phase' = "error" /\ err' = "ExecutionModuleError"
            /\ UNCHANGED <<input, analysis, output>>
        BY <2>3, <3>2 DEF Analyze, Fail
      <4>2. TypeOK'
        BY <4>1 DEF IInv, TypeOK, Errors
      <4>3. ErrorNamesCause'
        BY <3>2, <4>1, <2>3 DEF Analyze, IInv, TypeOK, ErrorNamesCause, Inputs, Receipts
      <4>. QED  BY <4>1, <4>2, <4>3 DEF IInv
    <3>. QED  BY <3>1, <3>2
  <2>4. CASE Serialize
    <3>1. analysis \in Analyses /\ input \in Inputs
      BY <2>4 DEF Serialize, IInv, TypeOK
    <3>2. analysis.reserved_instructions \in Seq(ReservedInstructions)
          /\ analysis.transaction_types \in Seq(TransactionTypes)
      BY <3>1, AnalysesAssumption
    <3>3. input.network_id \in Networks
      BY <3>1 DEF Inputs
    <3>4. output'.reserved_instructions \in Seq(ReservedInstructions)
      <4>. DEFINE r == analysis.reserved_instructions
      <4>1. output'.reserved_instructions
              = [j \in DOMAIN r |-> SerializableReservedInstruction[r[j]]]
        BY <2>4 DEF Serialize, Serialized
      <4>2. \A j \in DOMAIN r : SerializableReservedInstruction[r[j]] = r[j]
        BY <3>2 DEF SerializableReservedInstruction
      <4>3. output'.reserved_instructions = r
        BY <3>2, <4>1, <4>2
      <4>. QED  BY <3>2, <4>3
    <3>5. ASSUME NEW i \in DOMAIN output'.transaction_types,
                 NEW f \in DOMAIN output'.transaction_types[i].nodes
          PROVE  output'.transaction_types[i].nodes[f].network_id \in Networks
      <4>1. i \in DOMAIN analysis.transaction_types
        BY <2>4 DEF Serialize, Serialized
      <4>2. analysis.transaction_types[i] \in TransactionTypes
        BY <3>2, <4>1
      <4>3. output'.transaction_types[i]
              = SerializableTransactionType(analysis.transaction_types[i], input.network_id)
        BY <2>4, <4>1 DEF Serialize, Serialized
      <4>4. /\ DOMAIN output'.transaction_types[i].nodes
                 = DOMAIN analysis.transaction_types[i].nodes
            /\ \A g \in DOMAIN analysis.transaction_types[i].nodes :
                  output'.transaction_types[i].nodes[g]
                    = NodeId(analysis.transaction_types[i].nodes[g], input.network_id)
        BY <4>2, <4>3, TransactionTypeFaithful
      <4>5. f \in DOMAIN analysis.transaction_types[i].nodes
        BY <4>4
      <4>6. output'.transaction_types[i].nodes[f]
              = NodeId(analysis.transaction_types[i].nodes[f], input.network_id)
        BY <4>4, <4>5
      <4>. QED  BY <3>3, <4>6 DEF NodeId
    <3>6. TypeOK'
      BY <2>4, <3>4, <3>5 DEF Serialize, IInv, TypeOK
    <3>. QED  BY <2>4, <3>6 DEF Serialize, IInv, ErrorNamesCause
  <2>5. CASE UNCHANGED vars
    BY <2>5 DEF vars, IInv, TypeOK, ErrorNamesCause
  <2>. QED  BY <2>1, <2>2, <2>3, <2>4, <2>5 DEF Next
<1>. QED  BY <1>1, <1>2, PTL DEF Spec

(* ExecutionAnalyze only answers for a successful commit, and its output *)
(* is exactly what the classifier returned, on the request's network.    *)
THEOREM OutputFaithfulInvariant == Spec => []OutputFaithful
<1>1. IInv => OutputFaithful
  <2> SUFFICES ASSUME IInv, phase = "done" PROVE OutputFaithful
    BY DEF OutputFaithful
  <2>1. analysis \in Analyses /\ input.instructions_convert
        /\ input.preview_receipt = "CommitSuccess"
        /\ output = Serialized(analysis, input.network_id)
    BY DEF IInv
  <2>2. analysis.reserved_instructions \in Seq(ReservedInstructions)
        /\ analysis.transaction_types \in Seq(TransactionTypes)
    BY <2>1, AnalysesAssumption
  <2>3. DOMAIN output.transaction_types = DOMAIN analysis.transaction_types
    BY <2>1 DEF Serialized
  <2>4. ASSUME NEW i \in DOMAIN analysis.transaction_types
        PROVE  LET t == analysis.transaction_types[i]
                   o == output.transaction_types[i]
               IN  /\ KindOf(o.kind) = t.kind
                   /\ DOMAIN o.nodes = DOMAIN t.nodes
                   /\ \A f \in DOMAIN t.nodes :
                         o.nodes[f] = NodeId(t.nodes[f], input.network_id)
                   /\ t.kind = "AccountDepositSettings" =>
                         /\ ResourcePreferenceActionOf(o.action) = t.action
                         /\ DefaultDepositRuleOf[o.rule] = t.rule
    <3>1. analysis.transaction_types[i] \in TransactionTypes
      BY <2>2
    <3>2. output.transaction_types[i]
            = SerializableTransactionType(analysis.transaction_types[i], input.network_id)
      BY <2>1 DEF Serialized
    <3>. QED  BY <3>1, <3>2, TransactionTypeFaithful
  <2>5. [i \in DOMAIN output.reserved_instructions |->
            ReservedInstructionOf[output.reserved_instructions[i]]]
          = analysis.reserved_instructions
    <3>1. output.reserved_instructions
            = [j \in DOMAIN analysis.reserved_instructions |->
                 SerializableReservedInstruction[analysis.reserved_instructions[j]]]
      BY <2>1 DEF Serialized
    <3>. QED  BY <2>2, <3>1, ReservedRoundTrip
  <2>. QED  BY <2>1, <2>3, <2>4, <2>5 DEF OutputFaithful
<1>. QED  BY <1>1, IInvariant, PTL

(* Every error of ExecutionAnalyze names a cause of its input, of the     *)
(* first failing stage.                                                    *)
THEOREM ErrorNamesCauseInvariant == Spec => []ErrorNamesCause
BY IInvariant, PTL DEF IInv

(* The state of ExecutionAnalyze is always well typed. *)
THEOREM TypeCorrect == Spec => []TypeOK
BY IInvariant, PTL DEF IInv

=============================================================================
