-------------------------- MODULE ExecutionAnalyze --------------------------
(***************************************************************************)
(* The ExecutionAnalyze function of execution.rs: the instructions are    *)
(* converted with the request's network, the preview receipt is decoded,  *)
(* the classifier of radix-engine-toolkit-core analyses both, and its     *)
(* result is converted to the serializable output with the request's      *)
(* network.  The classifier is outside this repository's sources: it is   *)
(* modelled by its contract, an analysis (transaction types and reserved  *)
(* instructions) for a successfully committed receipt and an error for    *)
(* any other.                                                              *)
(***************************************************************************)
EXTENDS Naturals, Sequences, ExecutionTypes

CONSTANTS
    Networks,    \* the network ids
    Analyses     \* the analyses the classifier may return

ASSUME NetworksAssumption == Networks \subseteq Nat /\ Networks # {}
ASSUME AnalysesAssumption ==
    Analyses \subseteq [transaction_types : Seq(TransactionTypes),
                        reserved_instructions : Seq(ReservedInstructions)]

(* The preview receipt bytes: a receipt that committed successfully, that *)
(* committed a failure, that was rejected or aborted, or bytes that are   *)
(* not a receipt.                                                          *)
Receipts == {"CommitSuccess", "CommitFailure", "Reject", "Abort", "Malformed"}

Inputs ==
    [network_id : Networks,
     instructions_convert : BOOLEAN,
     preview_receipt : Receipts]

NoAnalysis == [transaction_types |-> <<>>, reserved_instructions |-> <<>>]

VARIABLES
    input,      \* the ExecutionAnalyzeInput
    phase,      \* "instructions", "receipt", "analyze", "serialize", "done", "error"
    analysis,   \* what the classifier returned
    output,     \* the ExecutionAnalyzeOutput
    err         \* the InvocationHandlingError, or "none"

vars == <<input, phase, analysis, output, err>>

Init ==
    /\ input \in Inputs
    /\ phase = "instructions"
    /\ analysis = NoAnalysis
    /\ output = NoAnalysis
    /\ err = "none"

Fail(e) ==
    /\ phase' = "error"
    /\ err' = e
    /\ UNCHANGED <<input, analysis, output>>

Proceed(next) ==
    /\ phase' = next
    /\ UNCHANGED <<input, analysis, output, err>>

(* instructions.to_instructions(network_id)?. *)
ToInstructions ==
    /\ phase = "instructions"
    /\ IF input.instructions_convert THEN Proceed("receipt")
       ELSE Fail("InstructionsConversionError")

(* A faulty variant: a decode failure is mapped to the error variant of  *)
(* the execution module.                                                   *)
DecodeReceiptWrongVariant ==
    /\ phase = "receipt"
    /\ IF input.preview_receipt = "Malformed" THEN Fail("ExecutionModuleError")
       ELSE Proceed("analyze")

(* scrypto_decode::<VersionedTransactionReceipt>, mapped to DecodeError. *)
DecodeReceipt ==
    /\ phase = "receipt"
    /\ IF input.preview_receipt = "Malformed" THEN Fail("DecodeError")
       ELSE Proceed("analyze")

(* ExecutionAnalysisTransactionReceipt::new and analyze, mapped to        *)
(* ExecutionModuleError.                                                   *)
Analyze ==
    /\ phase = "analyze"
    /\ IF input.preview_receipt = "CommitSuccess"
          THEN \E a \in Analyses :
                  /\ analysis' = a
                  /\ phase' = "serialize"
                  /\ UNCHANGED <<input, output, err>>
          ELSE Fail("ExecutionModuleError")

(* The output the conversions build from an analysis: every transaction *)
(* type with SerializableTransactionType::new and the network, every      *)
(* reserved instruction with its From impl.                                *)
Serialized(a, network_id) ==
    [transaction_types |->
        [i \in DOMAIN a.transaction_types |->
            SerializableTransactionType(a.transaction_types[i], network_id)],
     reserved_instructions |->
        [i \in DOMAIN a.reserved_instructions |->
            SerializableReservedInstruction[a.reserved_instructions[i]]]]

(* A faulty variant: the node ids are stamped with a default network.  *)
SerializeDefaultNetwork ==
    /\ phase = "serialize"
    /\ phase' = "done"
    /\ output' = Serialized(analysis, 0)
    /\ UNCHANGED <<input, analysis, err>>

(* The conversion of the analysis to the output, with the request's      *)
(* network (the tail of handle).                                           *)
Serialize ==
    /\ phase = "serialize"
    /\ phase' = "done"
    /\ output' = Serialized(analysis, input.network_id)
    /\ UNCHANGED <<input, analysis, err>>

Next == ToInstructions \/ DecodeReceipt \/ Analyze \/ Serialize

Spec == Init /\ [][Next]_vars /\ WF_vars(Next)

-----------------------------------------------------------------------------
Errors == {"InstructionsConversionError", "DecodeError", "ExecutionModuleError"}

TypeOK ==
    /\ input \in Inputs
    /\ phase \in {"instructions", "receipt", "analyze", "serialize", "done", "error"}
    /\ analysis \in Analyses \cup {NoAnalysis}
    /\ err \in Errors \cup {"none"}
    /\ output.reserved_instructions \in Seq(ReservedInstructions)
    /\ \A i \in DOMAIN output.transaction_types :
          \A f \in DOMAIN output.transaction_types[i].nodes :
             output.transaction_types[i].nodes[f].network_id \in Networks

(* The output says what the classifier found, and nothing else: it is    *)
(* only produced for a successfully committed receipt; it has one         *)
(* serializable transaction type per transaction type, of the matching    *)
(* variant, naming the same node in every field, on the request's         *)
(* network, with deposit settings that convert back to the classifier's;  *)
(* and its reserved instructions convert back to the classifier's list.  *)
OutputFaithful ==
    phase = "done" =>
        /\ input.instructions_convert /\ input.preview_receipt = "CommitSuccess"
        /\ DOMAIN output.transaction_types = DOMAIN analysis.transaction_types
        /\ \A i \in DOMAIN analysis.transaction_types :
              LET t == analysis.transaction_types[i]
                  o == output.transaction_types[i]
              IN  /\ KindOf(o.kind) = t.kind
                  /\ DOMAIN o.nodes = DOMAIN t.nodes
                  /\ \A f \in DOMAIN t.nodes :
                        o.nodes[f] = NodeId(t.nodes[f], input.network_id)
                  /\ t.kind = "AccountDepositSettings" =>
                        /\ ResourcePreferenceActionOf(o.action) = t.action
                        /\ DefaultDepositRuleOf[o.rule] = t.rule
        /\ [i \in DOMAIN output.reserved_instructions |->
              ReservedInstructionOf[output.reserved_instructions[i]]]
              = analysis.reserved_instructions

(* Each error variant names its own cause, of the first stage that has   *)
(* one: InstructionsConversionError for instructions that do not convert, *)
(* DecodeError for bytes that are not a receipt, ExecutionModuleError for *)
(* a receipt that did not commit successfully.                            *)
ErrorNamesCause ==
    phase = "error" =>
        CASE err = "InstructionsConversionError" -> ~input.instructions_convert
          [] err = "DecodeError" ->
                input.instructions_convert /\ input.preview_receipt = "Malformed"
          [] err = "ExecutionModuleError" ->
                /\ input.instructions_convert
                /\ input.preview_receipt \in {"CommitFailure", "Reject", "Abort"}

=============================================================================
