---------------------- MODULE AnalyzeManifestAbstract ----------------------
(***************************************************************************)
(* What a call of AnalyzeManifestWithPreviewContext promises, in one     *)
(* step: the answer is a function of the request.  The checks are made    *)
(* in a fixed order, and the answer is the error of the first that fails: *)
(* a foreign network (the least one, for a Parsed manifest; a compile     *)
(* error for a String one), then the receipt (not a receipt, or not       *)
(* committed), then the visitors (the first instruction one fails on).   *)
(* When none fails it is the components the manifest names, each in the   *)
(* field of EncounteredComponents whose documented variants include its  *)
(* own.                                                                    *)
(***************************************************************************)
EXTENDS AnalyzeManifestTypes

VARIABLES
    request,  \* the request the handler is called with
    outcome   \* Pending, the error, or the response

vars == <<request, outcome>>

Pending == [kind |-> "pending"]

(* The variants each field of EncounteredComponents holds. *)
Kinds ==
    [c \in Categories |->
        CASE c = "user_applications" -> {"Normal"}
          [] c = "accounts" ->
                {"Account", "EcdsaSecp256k1VirtualAccount", "EddsaEd25519VirtualAccount"}
          [] c = "identities" ->
                {"Identity", "EcdsaSecp256k1VirtualIdentity", "EddsaEd25519VirtualIdentity"}
          [] c = "clocks" -> {"Clock"}
          [] c = "epoch_managers" -> {"EpochManager"}
          [] c = "validators" -> {"Validator"}
          [] c = "access_controller" -> {"AccessController"}]

(* The least member of a non-empty set of naturals. *)
Least(S) == CHOOSE n \in S : \A m \in S : n <= m

(* The answer the request calls for. *)
Outcome(r) ==
    LET foreign == {n \in NetworksOf(r.instructions) : n # r.network_id}
        failing == {i \in DOMAIN r.instructions : r.instructions[i].fails}
    IN  CASE foreign # {} /\ r.form = "Parsed" ->
               [kind |-> "NetworkMismatchError", found |-> Least(foreign)]
          [] foreign # {} /\ r.form = "String" ->
               [kind |-> "ManifestCompileError"]
          [] foreign = {} /\ r.transaction_receipt = "Malformed" ->
               [kind |-> "ReceiptDecodeError"]
          [] foreign = {} /\ r.transaction_receipt \in {"Reject", "Abort"} ->
               [kind |-> "TransactionNotCommitted"]
          [] foreign = {} /\ r.transaction_receipt = "Commit" /\ failing # {} ->
               [kind |-> "VisitorError", at |-> Least(failing)]
          [] foreign = {} /\ r.transaction_receipt = "Commit" /\ failing = {} ->
               [kind |-> "ok",
                components |-> [c \in Categories |->
                                  {a \in AddressesOf(r.instructions) : a.cls \in Kinds[c]}]]

Init ==
    /\ request \in Requests
    /\ outcome = Pending

Answer ==
    /\ outcome = Pending
    /\ outcome' = Outcome(request)
    /\ UNCHANGED request

(* The handler is a plain function call: once made, it returns. *)
Spec == Init /\ [][Answer]_vars /\ WF_vars(Answer)

=============================================================================
