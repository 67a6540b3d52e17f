------------------------ MODULE AnalyzeManifestTypes ------------------------
(***************************************************************************)
(* The request of AnalyzeManifestWithPreviewContext and what the handler  *)
(* answers with, shared by the handler (AnalyzeManifest) and by what it   *)
(* promises (AnalyzeManifestAbstract).                                    *)
(***************************************************************************)
EXTENDS Naturals, Sequences, FiniteSets

CONSTANTS
    Networks,          \* the network ids
    ComponentClasses,  \* the variants of ComponentAddress
    ArgumentSets,      \* the sets of addresses one instruction may name
    MaxInstructions    \* bound on the length of a manifest

ASSUME NetworksAssumption == Networks \subseteq Nat /\ Networks # {}
ASSUME MaxInstructionsAssumption == MaxInstructions \in Nat
(* The ComponentAddress variants, all of which the match of              *)
(* EncounteredComponents::from covers.                                    *)
ASSUME ComponentClassesAssumption ==
    ComponentClasses \subseteq
        {"Normal", "Account", "EcdsaSecp256k1VirtualAccount",
         "EddsaEd25519VirtualAccount", "Identity", "EcdsaSecp256k1VirtualIdentity",
         "EddsaEd25519VirtualIdentity", "Clock", "EpochManager", "Validator",
         "AccessController"}
ASSUME ArgumentSetsAssumption ==
    ArgumentSets \subseteq SUBSET [cls : ComponentClasses, net : Networks]

(* A network-aware component address: its variant and its network. *)
Address == [cls : ComponentClasses, net : Networks]

(* An instruction: the addresses in its arguments, and whether one of the *)
(* instruction visitors fails on it.                                       *)
Instruction == [addrs : ArgumentSets, fails : BOOLEAN]

(* The receipt bytes: a committed result, a rejected or aborted one, or   *)
(* bytes scrypto_decode refuses.                                            *)
Receipts == {"Commit", "Reject", "Abort", "Malformed"}

Requests ==
    [network_id : Networks,
     form : {"Parsed", "String"},
     instructions : UNION {[1..k -> Instruction] : k \in 0..MaxInstructions},
     transaction_receipt : Receipts]

(* The fields of EncounteredComponents. *)
Categories ==
    {"user_applications", "accounts", "identities", "clocks",
     "epoch_managers", "validators", "access_controller"}

(* All the addresses a list of instructions names. *)
AddressesOf(instrs) == UNION {instrs[i].addrs : i \in DOMAIN instrs}

(* Networks of the addresses in a list of instructions (what              *)
(* ValueNetworkAggregatorVisitor collects).                                *)
NetworksOf(instrs) == {a.net : a \in AddressesOf(instrs)}

(* The errors the handler returns, and the absence of one. *)
Errors ==
    [kind : {"NetworkMismatchError"}, found : Networks]
      \cup [kind : {"ManifestCompileError", "ReceiptDecodeError",
                    "TransactionNotCommitted"}]
      \cup [kind : {"VisitorError"}, at : 1..MaxInstructions]

NoError == [kind |-> "none"]

=============================================================================
