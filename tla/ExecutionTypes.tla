--------------------------- MODULE ExecutionTypes ---------------------------
(***************************************************************************)
(* The conversions of execution.rs from the classifier's types to their   *)
(* serializable forms and back.  A node id (an address without network)   *)
(* becomes a SerializableNodeId: the node and the network of the request. *)
(* A transaction type is abstracted to its variant and the node ids it    *)
(* names, field by field; amounts, names and metadata payloads are left   *)
(* out, since the conversions copy them with `into`.                      *)
(***************************************************************************)
EXTENDS Naturals

CONSTANTS Nodes   \* the node ids an analysis may name

-----------------------------------------------------------------------------
(* SerializableNodeId::new. *)
NodeId(node, network_id) == [node |-> node, network_id |-> network_id]

(* ReservedInstruction and SerializableReservedInstruction carry the same *)
(* variant names.                                                          *)
ReservedInstructions ==
    {"AccountLockFee", "AccountSecurify", "IdentitySecurify",
     "AccountUpdateSettings", "AccessController"}

(* A faulty variant: the two securify arms are crossed. *)
SerializableReservedInstructionCrossed ==
    [r \in ReservedInstructions |->
        CASE r = "AccountSecurify" -> "IdentitySecurify"
          [] r = "IdentitySecurify" -> "AccountSecurify"
          [] OTHER -> r]

(* From<ReservedInstruction> for SerializableReservedInstruction. *)
SerializableReservedInstruction == [r \in ReservedInstructions |-> r]

(* From<SerializableReservedInstruction> for ReservedInstruction. *)
ReservedInstructionOf == [r \in ReservedInstructions |-> r]

(* ResourcePreference and DefaultDepositRule, both ways. *)
ResourcePreferences == {"Allowed", "Disallowed"}
DefaultDepositRules == {"Accept", "Reject", "AllowExisting"}
SerializableResourcePreference == [p \in ResourcePreferences |-> p]
ResourcePreferenceOf == [p \in ResourcePreferences |-> p]
SerializableDefaultDepositRule == [d \in DefaultDepositRules |-> d]
DefaultDepositRuleOf == [d \in DefaultDepositRules |-> d]

(* ResourcePreferenceAction: Set(preference) or Remove, both ways. *)
ResourcePreferenceActions ==
    {[tag |-> "Remove"]} \cup [tag : {"Set"}, preference : ResourcePreferences]
SerializableResourcePreferenceAction(a) ==
    IF a.tag = "Remove" THEN a
    ELSE [tag |-> "Set", preference |-> SerializableResourcePreference[a.preference]]
ResourcePreferenceActionOf(a) ==
    IF a.tag = "Remove" THEN a
    ELSE [tag |-> "Set", preference |-> ResourcePreferenceOf[a.preference]]

-----------------------------------------------------------------------------
(* The variants of TransactionType and, per variant, the fields that hold *)
(* node ids (for the list-shaped variants, those of one element).         *)
Fields ==
    [SimpleTransfer |-> {"from", "to", "transferred"},
     Transfer |-> {"from", "account", "resource"},
     GeneralTransaction |-> {"account_proof", "withdraw_account", "withdraw_resource",
                             "deposit_account", "deposit_resource", "created_entity"},
     AccountDepositSettings |-> {"account", "preference_resource", "depositor"},
     StakeTransaction |-> {"from_account", "validator_address", "stake_unit_resource"},
     UnstakeTransaction |-> {"from_account", "stake_unit_address",
                             "validator_address", "claim_nft_resource"},
     ClaimStakeTransaction |-> {"from_account", "validator_address", "claim_nft_resource"}]

TransactionKinds == DOMAIN Fields

(* An AccountDepositSettings also carries a resource preference action   *)
(* and a default deposit rule.                                             *)
TransactionTypes ==
    (UNION {[kind : {k}, nodes : [Fields[k] -> Nodes]] :
               k \in TransactionKinds \ {"AccountDepositSettings"}})
      \cup [kind : {"AccountDepositSettings"},
            nodes : [Fields["AccountDepositSettings"] -> Nodes],
            action : ResourcePreferenceActions, rule : DefaultDepositRules]

(* The variant names of SerializableTransactionType. *)
SerializableKind ==
    [k \in TransactionKinds |->
        CASE k = "StakeTransaction" -> "Stake"
          [] k = "UnstakeTransaction" -> "Unstake"
          [] k = "ClaimStakeTransaction" -> "ClaimStake"
          [] OTHER -> k]

(* A faulty variant: the validator of an unstake is taken from its stake  *)
(* unit address.                                                           *)
SerializableTransactionTypeUnstakeSlip(t, network_id) ==
    LET nodes == [f \in DOMAIN t.nodes |->
                    IF t.kind = "UnstakeTransaction" /\ f = "validator_address"
                       THEN NodeId(t.nodes["stake_unit_address"], network_id)
                       ELSE NodeId(t.nodes[f], network_id)]
    IN  IF t.kind = "AccountDepositSettings"
           THEN [kind |-> SerializableKind[t.kind], nodes |-> nodes,
                 action |-> SerializableResourcePreferenceAction(t.action),
                 rule |-> SerializableDefaultDepositRule[t.rule]]
           ELSE [kind |-> SerializableKind[t.kind], nodes |-> nodes]

(* SerializableTransactionType::new: the same variant, every node id      *)
(* stamped with the network of the request, and the deposit settings      *)
(* converted with their From impls.                                        *)
SerializableTransactionType(t, network_id) ==
    LET nodes == [f \in DOMAIN t.nodes |-> NodeId(t.nodes[f], network_id)]
    IN  IF t.kind = "AccountDepositSettings"
           THEN [kind |-> SerializableKind[t.kind], nodes |-> nodes,
                 action |-> SerializableResourcePreferenceAction(t.action),
                 rule |-> SerializableDefaultDepositRule[t.rule]]
           ELSE [kind |-> SerializableKind[t.kind], nodes |-> nodes]

(* The classifier's variant of a serializable variant name. *)
KindOf(sk) == CHOOSE k \in TransactionKinds : SerializableKind[k] = sk

=============================================================================
