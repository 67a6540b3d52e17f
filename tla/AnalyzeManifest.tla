-------------------------- MODULE AnalyzeManifest --------------------------
(***************************************************************************)
(* The AnalyzeManifestWithPreviewContext handler of                        *)
(* analyze_manifest_with_preview_context.rs, run through the Handler      *)
(* pipeline: pre_process (the network check), handle (conversion to       *)
(* parsed instructions, receipt decoding, the commit check, the visitor   *)
(* traversal, the response) and post_process.  A request carries a         *)
(* manifest whose instructions are either Parsed or a String, an abstract *)
(* receipt and the network id the caller declares.  An instruction is the *)
(* set of component addresses it names and whether one of the four        *)
(* instruction visitors returns an Err on it; the order in which the      *)
(* collect loop visits instructions is the subject of Traversal.          *)
(***************************************************************************)
EXTENDS AnalyzeManifestTypes

(* A faulty variant: the virtual identity variants are put in the arm of *)
(* the virtual accounts.                                                   *)
CategoryVirtualIdentityAsAccount(c) ==
    CASE c = "Normal" -> "user_applications"
      [] c \in {"Account", "EcdsaSecp256k1VirtualAccount", "EddsaEd25519VirtualAccount",
                "EcdsaSecp256k1VirtualIdentity", "EddsaEd25519VirtualIdentity"} -> "accounts"
      [] c = "Identity" -> "identities"
      [] c = "Clock" -> "clocks"
      [] c = "EpochManager" -> "epoch_managers"
      [] c = "Validator" -> "validators"
      [] c = "AccessController" -> "access_controller"

(* The sets of EncounteredComponents, by the From impl's match arms. *)
Category(c) ==
    CASE c = "Normal" -> "user_applications"
      [] c \in {"Account", "EcdsaSecp256k1VirtualAccount",
                "EddsaEd25519VirtualAccount"} -> "accounts"
      [] c \in {"Identity", "EcdsaSecp256k1VirtualIdentity",
                "EddsaEd25519VirtualIdentity"} -> "identities"
      [] c = "Clock" -> "clocks"
      [] c = "EpochManager" -> "epoch_managers"
      [] c = "Validator" -> "validators"
      [] c = "AccessController" -> "access_controller"

VARIABLES
    request,    \* the request the handler was called with
    phase,      \* "pre", "convert", "receipt", "traverse", "post", "done", "error"
    parsed,     \* the instructions after conversion to Parsed
    err,        \* the error returned, or NoError
    response    \* the response built by handle: the encountered components

vars == <<request, phase, parsed, err, response>>

Init ==
    /\ request \in Requests
    /\ phase = "pre"
    /\ parsed = <<>>
    /\ err = NoError
    /\ response = [c \in Categories |-> {}]

Fail(e) ==
    /\ phase' = "error"
    /\ err' = e
    /\ UNCHANGED <<request, parsed, response>>

(* pre_process: the network aggregator runs over Parsed instructions only *)
(* (a String list becomes the empty slice); the first network of the     *)
(* BTreeSet that differs from the declared one is a NetworkMismatchError. *)
PreProcess ==
    LET checked == IF request.form = "Parsed" THEN request.instructions ELSE <<>>
        foreign == {n \in NetworksOf(checked) : n # request.network_id}
    IN  /\ phase = "pre"
        /\ IF foreign # {}
              THEN Fail([kind |-> "NetworkMismatchError",
                         found |-> CHOOSE n \in foreign : \A m \in foreign : n <= m])
              ELSE /\ phase' = "convert"
                   /\ UNCHANGED <<request, parsed, err, response>>

(* A faulty variant: a String manifest is compiled without regard to the  *)
(* network of its addresses.                                               *)
ConvertManifestPassThrough ==
    /\ phase = "convert"
    /\ phase' = "receipt"
    /\ parsed' = request.instructions
    /\ UNCHANGED <<request, err, response>>

(* ConvertManifestHandler to Parsed with the network of the request.  A   *)
(* String manifest is compiled with the bech32 decoder of that network:   *)
(* an address of another network does not decode.  A Parsed manifest is   *)
(* passed through.                                                         *)
ConvertManifest ==
    /\ phase = "convert"
    /\ IF request.form = "String"
          /\ \E n \in NetworksOf(request.instructions) : n # request.network_id
          THEN Fail([kind |-> "ManifestCompileError"])
          ELSE /\ phase' = "receipt"
               /\ parsed' = request.instructions
               /\ UNCHANGED <<request, err, response>>

(* A faulty variant: the commit check is made before the bytes are known  *)
(* to be a receipt.                                                        *)
DecodeReceiptCommitFirst ==
    /\ phase = "receipt"
    /\ CASE request.transaction_receipt # "Commit" ->
              Fail([kind |-> "TransactionNotCommitted"])
         [] OTHER ->
              /\ phase' = "traverse"
              /\ UNCHANGED <<request, parsed, err, response>>

(* scrypto_decode of the receipt, then the match on its result. *)
DecodeReceipt ==
    /\ phase = "receipt"
    /\ CASE request.transaction_receipt = "Malformed" ->
              Fail([kind |-> "ReceiptDecodeError"])
         [] request.transaction_receipt \in {"Reject", "Abort"} ->
              Fail([kind |-> "TransactionNotCommitted"])
         [] request.transaction_receipt = "Commit" ->
              /\ phase' = "traverse"
              /\ UNCHANGED <<request, parsed, err, response>>

(* A faulty variant: the failing instruction is reported by its 0-based  *)
(* position.                                                               *)
TraverseZeroBased ==
    /\ phase = "traverse"
    /\ IF \E i \in DOMAIN parsed : parsed[i].fails
          THEN Fail([kind |-> "VisitorError",
                     at |-> (CHOOSE i \in DOMAIN parsed :
                              parsed[i].fails /\ \A j \in 1..(i - 1) : ~parsed[j].fails) - 1])
          ELSE /\ phase' = "post"
               /\ response' =
                    [c \in Categories |->
                        {a \in AddressesOf(parsed) : Category(a.cls) = c}]
               /\ UNCHANGED <<request, parsed, err>>

(* The collect loop over the parsed instructions with the address         *)
(* aggregator and the four instruction visitors, then the response: the   *)
(* encountered component addresses split by EncounteredComponents::from.  *)
Traverse ==
    /\ phase = "traverse"
    /\ IF \E i \in DOMAIN parsed : parsed[i].fails
          THEN Fail([kind |-> "VisitorError",
                     at |-> CHOOSE i \in DOMAIN parsed :
                              parsed[i].fails /\ \A j \in 1..(i - 1) : ~parsed[j].fails])
          ELSE /\ phase' = "post"
               /\ response' =
                    [c \in Categories |->
                        {a \in AddressesOf(parsed) : Category(a.cls) = c}]
               /\ UNCHANGED <<request, parsed, err>>

(* post_process returns the response unchanged. *)
PostProcess ==
    /\ phase = "post"
    /\ phase' = "done"
    /\ UNCHANGED <<request, parsed, err, response>>

Next == PreProcess \/ ConvertManifest \/ DecodeReceipt \/ Traverse \/ PostProcess

Spec == Init /\ [][Next]_vars /\ WF_vars(Next)

-----------------------------------------------------------------------------
TypeOK ==
    /\ request \in Requests
    /\ phase \in {"pre", "convert", "receipt", "traverse", "post", "done", "error"}
    /\ parsed \in Seq(Instruction)
    /\ err \in Errors \cup {NoError}
    /\ response \in [Categories -> SUBSET Address]

(* The networks other than the declared one that the request names. *)
ForeignNetworks == {n \in NetworksOf(request.instructions) : n # request.network_id}

(* A response is only ever built for a manifest all of whose addresses    *)
(* are on the declared network and for a committed receipt, whether the  *)
(* manifest came Parsed (checked by pre_process) or as a String (which    *)
(* pre_process skips and the conversion in handle compiles).  The         *)
(* response lists every component address the manifest names, each in    *)
(* exactly one set.                                                        *)
AnalysedOnItsNetwork ==
    phase \in {"post", "done"} =>
        /\ ForeignNetworks = {}
        /\ request.transaction_receipt = "Commit"
        /\ UNION {response[c] : c \in Categories} = AddressesOf(request.instructions)
        /\ \A c, d \in Categories : c # d => response[c] \cap response[d] = {}

(* The error a request is refused with names a cause the request really  *)
(* has, and no cause of a stage before: a mismatch names a foreign        *)
(* network; a receipt error is only reported for a manifest on its        *)
(* network; ReceiptDecodeError means the bytes are not a receipt and      *)
(* TransactionNotCommitted a receipt that was rejected or aborted; a      *)
(* VisitorError names the first instruction a visitor fails on.          *)
ErrorNamesCause ==
    phase = "error" =>
        CASE err.kind = "NetworkMismatchError" ->
                err.found \in ForeignNetworks /\ request.form = "Parsed"
          [] err.kind = "ManifestCompileError" ->
                ForeignNetworks # {} /\ request.form = "String"
          [] err.kind = "ReceiptDecodeError" ->
                ForeignNetworks = {} /\ request.transaction_receipt = "Malformed"
          [] err.kind = "TransactionNotCommitted" ->
                ForeignNetworks = {} /\ request.transaction_receipt \in {"Reject", "Abort"}
          [] err.kind = "VisitorError" ->
                /\ ForeignNetworks = {}
                /\ request.transaction_receipt = "Commit"
                /\ request.instructions[err.at].fails
                /\ \A j \in 1..(err.at - 1) : ~request.instructions[j].fails

(* The error-handling policy: a network id mismatch between the manifest *)
(* and the declared network is reported as NetworkMismatchError, its own *)
(* error variant, whatever the form of the instructions.                  *)
MismatchIsNetworkMismatch ==
    phase = "error" /\ ForeignNetworks # {} => err.kind = "NetworkMismatchError"

(* The handler implements what it promises: every stage before the last  *)
(* is a stutter, and the call answers once, with an error or the         *)
(* response, exactly as AnalyzeManifestAbstract says the request calls    *)
(* for: the first failing check in the code's order, the least foreign    *)
(* network and the first failing instruction, and the components split    *)
(* by their documented fields.                                             *)
ABS == INSTANCE AnalyzeManifestAbstract WITH
           outcome <- IF phase = "error" THEN err
                      ELSE IF phase = "done"
                              THEN [kind |-> "ok", components |-> response]
                              ELSE [kind |-> "pending"]
AbstractSpec == ABS!Spec

=============================================================================
