-------------------------- MODULE TransactionPayload --------------------------
(***************************************************************************)
(* The compiled payloads of the three transaction formats and the        *)
(* decompile functions that read them (functions/intent.rs,               *)
(* functions/signed_intent.rs, functions/notarized_transaction.rs, and    *)
(* the handle of each decompile request).  decompile (manifest_decode of  *)
(* a FixedEnumVariant, from_payload_bytes) fails unless the payload       *)
(* carries the discriminator of its format and a body that decodes as a   *)
(* value of that format.  A payload is abstracted to its discriminator    *)
(* and its body; what a body holds is a model value.                      *)
(***************************************************************************)
EXTENDS Naturals, Sequences

CONSTANTS
    Discs,      \* the discriminator bytes a payload may start with
    Disc,       \* Disc[f]: the TransactionDiscriminator of format f
    Bodies,     \* the bodies a payload may carry
    WellFormed  \* WellFormed[f]: the bodies that decode as a value of format f

(* The formats, in the order the unknown-intent handler tries them. *)
Order == <<"Intent", "SignedIntent", "NotarizedTransaction">>
Formats == {Order[i] : i \in 1..3}

(* Each format has a TransactionDiscriminator of its own. *)
ASSUME DiscAssumption ==
    /\ Disc \in [Formats -> Discs]
    /\ \A f, g \in Formats : Disc[f] = Disc[g] => f = g
ASSUME WellFormedAssumption == WellFormed \in [Formats -> SUBSET Bodies]

Payloads == [disc : Discs, body : Bodies]

Ok(v) == [ok |-> TRUE, val |-> v]
Fail == [ok |-> FALSE]

(* The fulfill_request of the format-specific decompile request for      *)
(* format f, as the specification describes it: that request type is not *)
(* in this repository.  It accepts exactly the well-formed bodies of its  *)
(* own discriminator.                                                      *)
Decompile(f, p) ==
    IF p.disc = Disc[f] /\ p.body \in WellFormed[f] THEN Ok(p.body) ELSE Fail

=============================================================================
