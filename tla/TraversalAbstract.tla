-------------------------- MODULE TraversalAbstract --------------------------
(***************************************************************************)
(* What the handlers' walk over a manifest promises,                      *)
(*                                                                         *)
(*   instructions.iter_mut().map(traverse_instruction)                    *)
(*     .collect::<Result<Vec<_>>>()?                                       *)
(*                                                                         *)
(* seen from the instruction visitors, in one step: either the walk is    *)
(* Ok, and every instruction visitor has recorded every instruction, in    *)
(* order, with its arguments as the value visitors rewrote them; or it    *)
(* stops with the first Err, at some instruction k, after which the first *)
(* c instruction visitors have recorded instructions 1..k and the others  *)
(* instructions 1..k-1.  An Err after every visitor saw instruction k is  *)
(* an Err at instruction k+1 before any of them did, so c is below the    *)
(* number of instruction visitors (or 0 when there are none).  Rewrite is *)
(* what the value visitors make of an argument list.                      *)
(***************************************************************************)
EXTENDS Naturals, Sequences

CONSTANTS
    Manifests,         \* the manifests the handler may be given
    NumInstrVisitors,  \* length of the instruction visitor slice
    Rewrite(_)         \* an argument list after every value visitor

VARIABLES
    manifest,  \* the instructions as handed to the handler
    observed,  \* observed[j]: what instruction visitor j has recorded
    status     \* "running", "ok" or "error"

vars == <<manifest, observed, status>>

InstrVisitors == 1..NumInstrVisitors

(* What a visitor records of instruction k, and of instructions 1..n. *)
Record(k) == [index |-> k, args |-> Rewrite(manifest[k])]
Seen(n) == [m \in 1..n |-> Record(m)]

Init ==
    /\ manifest \in Manifests
    /\ observed = [j \in InstrVisitors |-> <<>>]
    /\ status = IF Len(manifest) = 0 THEN "ok" ELSE "running"

(* collect returns Ok: every visitor saw the whole manifest. *)
Complete ==
    /\ status = "running"
    /\ status' = "ok"
    /\ observed' = [j \in InstrVisitors |-> Seen(Len(manifest))]
    /\ UNCHANGED manifest

(* collect returns the first Err, raised at instruction k after the      *)
(* instruction visitors 1..c saw it.                                       *)
Stop(k, c) ==
    /\ status = "running"
    /\ status' = "error"
    /\ observed' = [j \in InstrVisitors |-> Seen(IF j <= c THEN k ELSE k - 1)]
    /\ UNCHANGED manifest

Next ==
    \/ Complete
    \/ \E k \in 1..Len(manifest), c \in {0} \cup 0..(NumInstrVisitors - 1) :
          Stop(k, c)

(* The walk is synchronous code: once started, it returns. *)
Spec == Init /\ [][Next]_vars /\ WF_vars(Next)

=============================================================================
