--------------------------- MODULE DecompileUnknown ---------------------------
(***************************************************************************)
(* DecompileUnknownTransactionIntentRequest::handle_request               *)
(* (src/src/requests/decompile_unknown_transaction_intent_request.rs):    *)
(* the request is converted (From) into the request of each format in    *)
(* turn, intent first, then signed intent, then notarized transaction,   *)
(* and fulfilled; the first Ok is wrapped (From) in the response variant *)
(* of its format; the error of a failed attempt is dropped and the next   *)
(* format tried; when all three fail the handler returns                  *)
(* UnrecognizedCompiledIntentFormat.  Each attempt is a step of its own.  *)
(***************************************************************************)
EXTENDS TransactionPayload

VARIABLES
    payload,  \* compiled_unknown_intent, cloned into every attempt
    attempt,  \* index in Order of the format tried next
    result    \* Pending, the response, or the error

vars == <<payload, attempt, result>>

Pending == [state |-> "pending"]
Unrecognized == [error |-> "UnrecognizedCompiledIntentFormat"]

(* The From impls for the response: the variant names the format. *)
Response(f, x) == [variant |-> f, val |-> x]

Init ==
    /\ payload \in Payloads
    /\ attempt = 1
    /\ result = Pending

(* A faulty variant: the handler gives up one format early, as if the  *)
(* notarized branch of the chain were missing.                            *)
GiveUpAtDropNotarized == Len(Order)

(* The final else is reached after every format was tried. *)
GiveUpAt == Len(Order) + 1

(* A faulty variant: the error of a failed attempt is returned (as a `?`  *)
(* on the attempt would) instead of dropped.                              *)
TryFormatPropagateError ==
    /\ result = Pending
    /\ attempt < GiveUpAt
    /\ LET f == Order[attempt]
           res == Decompile(f, payload)
       IN  IF res.ok
              THEN /\ result' = Response(f, res.val)
                   /\ UNCHANGED attempt
              ELSE /\ result' = [error |-> "DecodeError"]
                   /\ UNCHANGED attempt
    /\ UNCHANGED payload

(* One branch of the if/else-if chain: fulfill the request of the format *)
(* at attempt; keep its response, or drop its error and move on.          *)
TryFormat ==
    /\ result = Pending
    /\ attempt < GiveUpAt
    /\ LET f == Order[attempt]
           res == Decompile(f, payload)
       IN  IF res.ok
              THEN /\ result' = Response(f, res.val)
                   /\ UNCHANGED attempt
              ELSE /\ attempt' = attempt + 1
                   /\ UNCHANGED result
    /\ UNCHANGED payload

(* The final else: no format was recognised. *)
GiveUp ==
    /\ result = Pending
    /\ attempt = GiveUpAt
    /\ result' = Unrecognized
    /\ UNCHANGED <<payload, attempt>>

Next == TryFormat \/ GiveUp

(* handle_request is a plain function call without locks or awaits: each *)
(* enabled step is taken.                                                 *)
Spec == Init /\ [][Next]_vars /\ WF_vars(Next)

-----------------------------------------------------------------------------
TypeOK ==
    /\ payload \in Payloads
    /\ attempt \in 1..Len(Order) + 1
    /\ result \in {Pending, Unrecognized}
                    \cup {Response(f, x) : f \in Formats, x \in Bodies}

(* The detailed handler implements the promise of the abstract one: the *)
(* attempts that fail are stutters, and the one that answers gives the    *)
(* response of the payload's own format, or the error when it has none.   *)
ABS == INSTANCE DecompileUnknownAbstract WITH payload <- payload, result <- result
AbstractSpec == ABS!Spec

=============================================================================
