----------------------------- MODULE Traversal -----------------------------
(***************************************************************************)
(* The visitor traversal of a parsed manifest.                             *)
(*                                                                         *)
(* The handlers walk the instructions with                                 *)
(*                                                                         *)
(*   instructions.iter_mut()                                               *)
(*     .map(|instruction| traverse_instruction(instruction, vvs, ivs))     *)
(*     .collect::<Result<Vec<_>>>()?                                       *)
(*                                                                         *)
(* (analyze_manifest_with_preview_context.rs, decompile_transaction_       *)
(* intent.rs).  The iterator is lazy and collecting into a Result stops at *)
(* the first Err, so the first failing visitor ends the whole walk.        *)
(* traverse_instruction (not under src/, modelled from the spec) hands     *)
(* every argument value of the instruction, left to right, to each value   *)
(* visitor in the order given; a value visitor may rewrite the value in    *)
(* place (aliasing).  Then each instruction visitor, in order, sees the    *)
(* whole instruction with its values as rewritten.                         *)
(*                                                                         *)
(* The manifest is any member of the constant set Manifests, each a       *)
(* sequence of instructions given by their argument values; what a value   *)
(* visitor does to a value is the constant Alias; whether a visit fails    *)
(* is a nondeterministic choice.  observed[j] is what instruction visitor  *)
(* j has accumulated: one entry per instruction it was handed.             *)
(***************************************************************************)
EXTENDS Naturals, Sequences

CONSTANTS
    Vals,              \* the argument values an instruction may carry
    Manifests,         \* the manifests the handler may be given
    NumValueVisitors,  \* length of the value visitor slice
    NumInstrVisitors,  \* length of the instruction visitor slice
    Alias              \* Alias[v][x]: value x after value visitor v visited it

ASSUME ManifestAssumption == Manifests \subseteq Seq(Seq(Vals))
ASSUME VisitorsAssumption ==
    /\ NumValueVisitors \in Nat
    /\ NumInstrVisitors \in Nat
ASSUME AliasAssumption == Alias \in [1..NumValueVisitors -> [Vals -> Vals]]

ValueVisitors == 1..NumValueVisitors
InstrVisitors == 1..NumInstrVisitors

VARIABLES
    manifest,  \* the instructions as handed to the handler (never changed)
    instr,     \* index of the instruction being traversed
    stage,     \* "value": value visitors run; "instruction": instruction visitors run
    arg,       \* index of the argument value being visited
    vvis,      \* index of the value visitor about to visit that value
    ivis,      \* index of the instruction visitor about to visit the instruction
    values,    \* the argument values, rewritten in place by value visitors
    observed,  \* observed[j]: the instructions visitor j has seen, in order
    status     \* "running", "ok" (the Vec was collected) or "error" (first Err)

vars == <<manifest, instr, stage, arg, vvis, ivis, values, observed, status>>

NumInstructions == Len(manifest)

(* What instruction visitor j records for instruction k. *)
Observation(k, args) == [index |-> k, args |-> args]

(* What an instruction visitor can have recorded of one instruction. *)
ObservationType == [index : Nat, args : Seq(Vals)]

Init ==
    /\ manifest \in Manifests
    /\ instr = 1
    /\ stage = "value"
    /\ arg = 1
    /\ vvis = 1
    /\ ivis = 1
    /\ values = manifest
    /\ observed = [j \in InstrVisitors |-> <<>>]
    /\ status = IF NumInstructions = 0 THEN "ok" ELSE "running"

(* A faulty variant: the value visitor rewrites a copy of the value (as   *)
(* with iter() and a clone in place of iter_mut()), so the rewrite is    *)
(* lost.                                                                   *)
VisitValueOnCopy ==
    /\ status = "running"
    /\ stage = "value"
    /\ arg <= Len(values[instr])
    /\ vvis \in ValueVisitors
    /\ \/ /\ IF vvis < NumValueVisitors
                THEN /\ vvis' = vvis + 1
                     /\ arg' = arg
                ELSE /\ vvis' = 1
                     /\ arg' = arg + 1
          /\ UNCHANGED <<manifest, instr, stage, ivis, values, observed, status>>
       \/ /\ status' = "error"
          /\ UNCHANGED <<manifest, instr, stage, arg, vvis, ivis, values, observed>>

(* Value visitor vvis visits argument arg of the current instruction.  On  *)
(* success it may rewrite the value; the next visitor, or the next value   *)
(* when this was the last visitor, is up next.                             *)
VisitValue ==
    /\ status = "running"
    /\ stage = "value"
    /\ arg <= Len(values[instr])
    /\ vvis \in ValueVisitors
    /\ \/ /\ values' = [values EXCEPT ![instr][arg] = Alias[vvis][@]]
          /\ IF vvis < NumValueVisitors
                THEN /\ vvis' = vvis + 1
                     /\ arg' = arg
                ELSE /\ vvis' = 1
                     /\ arg' = arg + 1
          /\ UNCHANGED <<manifest, instr, stage, ivis, observed, status>>
       \/ /\ status' = "error"
          /\ UNCHANGED <<manifest, instr, stage, arg, vvis, ivis, values, observed>>

(* A faulty variant: the instruction visitors start before every value   *)
(* was visited (the end-of-values test dropped).                          *)
EndValuesEarly ==
    /\ status = "running"
    /\ stage = "value"
    /\ stage' = "instruction"
    /\ ivis' = 1
    /\ UNCHANGED <<manifest, instr, arg, vvis, values, observed, status>>

(* Every value of the instruction has been through every value visitor:   *)
(* the instruction visitors come next.                                     *)
EndValues ==
    /\ status = "running"
    /\ stage = "value"
    /\ arg > Len(values[instr]) \/ NumValueVisitors = 0
    /\ stage' = "instruction"
    /\ ivis' = 1
    /\ UNCHANGED <<manifest, instr, arg, vvis, values, observed, status>>

(* A faulty variant: a failing instruction visitor is skipped and the walk *)
(* goes on (the error swallowed instead of propagated by collect).         *)
VisitInstructionSwallowing ==
    /\ status = "running"
    /\ stage = "instruction"
    /\ ivis \in InstrVisitors
    /\ \/ /\ observed' = [observed EXCEPT ![ivis] =
                             Append(@, Observation(instr, values[instr]))]
          /\ ivis' = ivis + 1
          /\ UNCHANGED <<manifest, instr, stage, arg, vvis, values, status>>
       \/ /\ ivis' = ivis + 1
          /\ UNCHANGED <<manifest, instr, stage, arg, vvis, values, observed, status>>

(* Instruction visitor ivis visits the instruction with its current values. *)
VisitInstruction ==
    /\ status = "running"
    /\ stage = "instruction"
    /\ ivis \in InstrVisitors
    /\ \/ /\ observed' = [observed EXCEPT ![ivis] =
                             Append(@, Observation(instr, values[instr]))]
          /\ ivis' = ivis + 1
          /\ UNCHANGED <<manifest, instr, stage, arg, vvis, values, status>>
       \/ /\ status' = "error"
          /\ UNCHANGED <<manifest, instr, stage, arg, vvis, ivis, values, observed>>

(* A faulty variant: the last-instruction test is off by one, so the     *)
(* iterator steps past the end of the manifest.                           *)
EndInstructionPastEnd ==
    /\ status = "running"
    /\ stage = "instruction"
    /\ ivis > NumInstrVisitors
    /\ IF instr <= NumInstructions
          THEN /\ instr' = instr + 1
               /\ stage' = "value"
               /\ arg' = 1
               /\ vvis' = 1
               /\ ivis' = 1
               /\ UNCHANGED status
          ELSE /\ status' = "ok"
               /\ UNCHANGED <<instr, stage, arg, vvis, ivis>>
    /\ UNCHANGED <<manifest, values, observed>>

(* traverse_instruction returned Ok: the iterator moves to the next        *)
(* instruction, or collect finishes with Ok after the last one.            *)
EndInstruction ==
    /\ status = "running"
    /\ stage = "instruction"
    /\ ivis > NumInstrVisitors
    /\ IF instr < NumInstructions
          THEN /\ instr' = instr + 1
               /\ stage' = "value"
               /\ arg' = 1
               /\ vvis' = 1
               /\ ivis' = 1
               /\ UNCHANGED status
          ELSE /\ status' = "ok"
               /\ UNCHANGED <<instr, stage, arg, vvis, ivis>>
    /\ UNCHANGED <<manifest, values, observed>>

Next == VisitValue \/ EndValues \/ VisitInstruction \/ EndInstruction

(* The walk is synchronous code on one thread: each step that can happen  *)
(* does happen.                                                            *)
Spec == Init /\ [][Next]_vars /\ WF_vars(Next)

-----------------------------------------------------------------------------
TypeOK ==
    /\ manifest \in Manifests
    /\ instr \in 1..(IF NumInstructions = 0 THEN 1 ELSE NumInstructions)
    /\ stage \in {"value", "instruction"}
    /\ arg \in Nat \ {0}
    /\ vvis \in Nat \ {0}
    /\ ivis \in Nat \ {0}
    /\ values \in Seq(Seq(Vals))
    /\ observed \in [InstrVisitors -> Seq(ObservationType)]
    /\ status \in {"running", "ok", "error"}

(* Number of instructions instruction visitor j must have seen in the     *)
(* current state: every instruction before the current one, and the      *)
(* current one if j already ran on it.                                     *)
SeenCount(j) ==
    (instr - 1) + (IF stage = "instruction" /\ j < ivis THEN 1 ELSE 0)

(* The traversal contract of the collect loop: every instruction visitor  *)
(* has seen exactly the instructions 1, 2, ..., in manifest order, each    *)
(* once; after the first Err nobody sees anything further (later          *)
(* instructions, and later visitors of the failing instruction); and an   *)
(* Ok means every visitor saw every instruction.                           *)
VisitOrder ==
    /\ \A j \in InstrVisitors :
          /\ Len(observed[j]) = SeenCount(j)
          /\ \A m \in 1..Len(observed[j]) : observed[j][m].index = m
    /\ status = "ok" =>
          \A j \in InstrVisitors : Len(observed[j]) = NumInstructions

(* A value after the value visitors 1..n have visited it in turn. *)
AliasedBy[n \in 0..NumValueVisitors] ==
    IF n = 0 THEN [x \in Vals |-> x]
             ELSE [x \in Vals |-> Alias[n][AliasedBy[n - 1][x]]]

(* The rewrites made by value visitors are visible to every instruction   *)
(* visitor: what an instruction visitor sees of instruction m is each     *)
(* original argument after all value visitors, in order, rewrote it.      *)
SeesAliasedValues ==
    \A j \in InstrVisitors : \A m \in 1..Len(observed[j]) :
        observed[j][m].args =
            [a \in DOMAIN manifest[m] |->
                AliasedBy[NumValueVisitors][manifest[m][a]]]

(* An argument list after every value visitor, in order, rewrote it. *)
RewriteArgs(args) ==
    [a \in DOMAIN args |-> AliasedBy[NumValueVisitors][args[a]]]

(* The walk implements the promise of collect: while it runs nothing is  *)
(* returned yet, and the walk ends in one abstract step, Ok with every    *)
(* visitor having seen every rewritten instruction, or the first Err with *)
(* a prefix of the visitors having seen the failing instruction and none  *)
(* anything after it.                                                      *)
ABS == INSTANCE TraversalAbstract WITH
           observed <- IF status = "running"
                          THEN [j \in InstrVisitors |-> <<>>]
                          ELSE observed,
           Rewrite <- RewriteArgs
AbstractSpec == ABS!Spec

=============================================================================
