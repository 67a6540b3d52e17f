------------------------- MODULE ReceiverConversions -------------------------
(***************************************************************************)
(* A caller that holds a receiver, either built in the model or read from  *)
(* manifest text, and converts it back and forth between the model and    *)
(* the AST (as the manifest conversions of the toolkit do for the         *)
(* receiver of every CALL_METHOD), until a conversion fails or it stops.  *)
(***************************************************************************)
EXTENDS Receiver

VARIABLES
    originForm,  \* "model" or "ast": where the chain started
    origin,      \* the receiver the chain started from
    form,        \* "model", "ast", or "error" after a failed conversion
    cur,         \* the current receiver, in the current form
    steps,       \* conversions made so far
    err          \* the error of the failed conversion, or NoError

NoError == [kind |-> "none"]

vars == <<originForm, origin, form, cur, steps, err>>

Init ==
    /\ \/ originForm = "model" /\ origin \in Receivers
       \/ originForm = "ast" /\ origin \in AstReceivers
    /\ form = originForm
    /\ cur = origin
    /\ steps = 0
    /\ err = NoError

(* From<Receiver> for AstReceiver. *)
ToAst ==
    /\ form = "model"
    /\ steps < MaxSteps
    /\ form' = "ast"
    /\ cur' = AstReceiverOf(cur)
    /\ steps' = steps + 1
    /\ UNCHANGED <<originForm, origin, err>>

(* TryFrom<AstReceiver> for Receiver. *)
FromAst ==
    /\ form = "ast"
    /\ steps < MaxSteps
    /\ steps' = steps + 1
    /\ LET res == ReceiverOf(cur)
       IN  IF res.ok
              THEN /\ form' = "model"
                   /\ cur' = res.val
                   /\ UNCHANGED err
              ELSE /\ form' = "error"
                   /\ err' = res.err
                   /\ UNCHANGED cur
    /\ UNCHANGED <<originForm, origin>>

Next == ToAst \/ FromAst

Spec == Init /\ [][Next]_vars

-----------------------------------------------------------------------------
ReceiverErrors ==
    [kind : {"UnexpectedReNodeContents"},
     parsing : {"Bucket", "Proof", "AuthZoneStack", "Global"} \cup NodeKinds,
     allowed : {{"U32", "String"}, {"U32"}, {"String"}},
     found : {"String", "U32"} \cup OtherAstKinds]
      \cup {[kind |-> "NodeIdParseError"]}

TypeOK ==
    /\ originForm \in {"model", "ast"}
    /\ origin \in Receivers \cup AstReceivers
    /\ form \in {"model", "ast", "error"}
    /\ cur \in Receivers \cup AstReceivers
    /\ steps \in 0..MaxSteps
    /\ err \in ReceiverErrors \cup {NoError}

(* Converting a receiver to the AST and back, any number of times, gives  *)
(* the same receiver, and converting a receiver read from text back to    *)
(* text gives the same text: no arm of the two conversions changes the   *)
(* node kind, the identifier kind or the payload.                         *)
ReceiverStable ==
    /\ form = "model" /\ originForm = "model" => cur = origin
    /\ form = "ast" /\ originForm = "ast" => cur = origin
    /\ form = "ast" /\ originForm = "model" => cur = AstReceiverOf(origin)

(* A conversion only fails on the first read of a text the toolkit did   *)
(* not write: whatever the toolkit produced itself always converts back,  *)
(* and the error names the payload kind the arm refused.                  *)
FailsOnlyOnForeignText ==
    form = "error" =>
        /\ originForm = "ast"
        /\ steps = 1
        /\ err.kind = "UnexpectedReNodeContents" =>
              /\ err.parsing = origin.node.kind
              /\ err.found = origin.node.val.ak
              /\ err.found \notin err.allowed

=============================================================================
