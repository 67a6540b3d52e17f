----------------------- MODULE DecompileUnknownAbstract -----------------------
(***************************************************************************)
(* What decompile_unknown_transaction_intent promises: given a compiled   *)
(* payload whose format the caller does not know, it answers, in one     *)
(* step, with the value decoded in the format the payload is written in, *)
(* tagged with that format, or with UnrecognizedCompiledIntentFormat when *)
(* the payload decodes in none of them.                                   *)
(***************************************************************************)
EXTENDS TransactionPayload

VARIABLES
    payload,  \* the compiled_unknown_intent of the request
    result    \* Pending, the response, or the error

Pending == [state |-> "pending"]
Unrecognized == [error |-> "UnrecognizedCompiledIntentFormat"]

(* The response the payload calls for. *)
Expected(p) ==
    IF \E f \in Formats : Decompile(f, p).ok
       THEN LET f == CHOOSE f \in Formats : Decompile(f, p).ok
            IN  [variant |-> f, val |-> Decompile(f, p).val]
       ELSE Unrecognized

Init ==
    /\ payload \in Payloads
    /\ result = Pending

Answer ==
    /\ result = Pending
    /\ result' = Expected(payload)
    /\ UNCHANGED payload

Next == Answer

vars == <<payload, result>>

(* The request is a plain function call: once made, it returns. *)
Spec == Init /\ [][Next]_vars /\ WF_vars(Answer)

=============================================================================
