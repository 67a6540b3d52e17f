------------------------ MODULE DecompileUnknownProofs ------------------------
(***************************************************************************)
(* Proofs that the fallback chain of handle_request implements the      *)
(* one-step promise of DecompileUnknownAbstract, for every set of         *)
(* discriminators and bodies and every choice of what decodes in which   *)
(* format, provided the formats have distinct discriminators.  The        *)
(* fairness part of the abstract specification (the request returns) is  *)
(* checked by TLC only.                                                   *)
(***************************************************************************)
EXTENDS DecompileUnknown, TLAPS

USE DiscAssumption, WellFormedAssumption

(* The formats, as the three members of the order. *)
LEMMA OrderFacts ==
    /\ Len(Order) = 3
    /\ Order[1] = "Intent" /\ Order[2] = "SignedIntent"
    /\ Order[3] = "NotarizedTransaction"
    /\ Formats = {"Intent", "SignedIntent", "NotarizedTransaction"}
    /\ \A i \in 1..3 : Order[i] \in Formats
  BY DEF Order, Formats

(* The abstract module reads payloads with the same definitions. *)
LEMMA SharedDefinitions ==
    /\ ABS!Formats = Formats
    /\ \A f, p : ABS!Decompile(f, p) = Decompile(f, p)
    /\ ABS!Pending = Pending
    /\ ABS!Unrecognized = Unrecognized
  BY DEF ABS!Formats, Formats, ABS!Order, Order, ABS!Decompile, Decompile,
         ABS!Ok, Ok, ABS!Fail, Fail, ABS!Pending, Pending,
         ABS!Unrecognized, Unrecognized

(* A payload decodes in at most one format: the discriminators differ. *)
LEMMA DecodesInOneFormat ==
    ASSUME NEW p, NEW f \in Formats, NEW g \in Formats,
           Decompile(f, p).ok, Decompile(g, p).ok
    PROVE  f = g
<1>1. p.disc = Disc[f] /\ p.disc = Disc[g]
  BY DEF Decompile, Ok, Fail
<1>. QED  BY <1>1

(* The abstract answer to a payload that decodes in format f. *)
LEMMA ExpectedOfDecodable ==
    ASSUME NEW p, NEW f \in Formats, Decompile(f, p).ok
    PROVE  ABS!Expected(p) = Response(f, Decompile(f, p).val)
<1>1. (CHOOSE g \in Formats : Decompile(g, p).ok) = f
  BY DecodesInOneFormat
<1>2. \E g \in Formats : Decompile(g, p).ok
  OBVIOUS
<1>. QED  BY <1>1, <1>2, SharedDefinitions DEF ABS!Expected, Response

-----------------------------------------------------------------------------
(* The invariant behind the refinement: while no answer is given, every *)
(* format before the one tried next failed to decode; once it is given,  *)
(* it is the answer the abstract specification calls for.               *)
IInv ==
    /\ TypeOK
    /\ result = Pending =>
          \A i \in 1..(attempt - 1) : ~Decompile(Order[i], payload).ok
    /\ result # Pending => result = ABS!Expected(payload)

LEMMA IInvInit == Init => IInv
  BY OrderFacts DEF Init, IInv, TypeOK

LEMMA IInvNext == IInv /\ [Next]_vars => IInv'
<1> SUFFICES ASSUME IInv, [Next]_vars PROVE IInv'
  OBVIOUS
<1>1. CASE TryFormat
  <2> DEFINE f == Order[attempt]
             res == Decompile(f, payload)
  <2>1. attempt \in 1..3 /\ result = Pending
    BY <1>1, OrderFacts DEF TryFormat, GiveUpAt, IInv, TypeOK
  <2>0. f \in Formats
    BY <2>1, OrderFacts
  <2>2. CASE res.ok
    <3>1. result' = Response(f, res.val) /\ attempt' = attempt
          /\ payload' = payload
      BY <1>1, <2>2 DEF TryFormat, f, res
    <3>2. res.val \in Bodies
      BY <2>0, <2>2 DEF res, Decompile, Ok, Fail
    <3>3. result' = ABS!Expected(payload')
      BY <2>0, <2>2, <3>1, ExpectedOfDecodable DEF res
    <3>4. result' # Pending
      BY <3>1 DEF Response, Pending
    <3>5. result' \in {Response(g, x) : g \in Formats, x \in Bodies}
      BY <2>0, <3>1, <3>2
    <3>. QED  BY <2>1, <3>1, <3>3, <3>4, <3>5 DEF IInv, TypeOK
  <2>3. CASE ~res.ok
    <3>1. attempt' = attempt + 1 /\ result' = result /\ payload' = payload
      BY <1>1, <2>3 DEF TryFormat, f, res
    <3>2. \A i \in 1..(attempt' - 1) : ~Decompile(Order[i], payload').ok
      BY <2>1, <2>3, <3>1 DEF IInv, f, res
    <3>. QED  BY <2>1, <3>1, <3>2, OrderFacts DEF IInv, TypeOK
  <2>. QED  BY <2>2, <2>3
<1>2. CASE GiveUp
  <2>1. attempt = 4 /\ result = Pending /\ result' = Unrecognized
        /\ UNCHANGED <<payload, attempt>>
    BY <1>2, OrderFacts DEF GiveUp, GiveUpAt
  <2>2. \A g \in Formats : ~Decompile(g, payload).ok
    BY <2>1, OrderFacts DEF IInv
  <2>3. ABS!Expected(payload) = Unrecognized
    BY <2>2, SharedDefinitions DEF ABS!Expected
  <2>4. Unrecognized # Pending
    BY DEF Unrecognized, Pending
  <2>. QED  BY <2>1, <2>3, <2>4 DEF IInv, TypeOK
<1>3. CASE UNCHANGED vars
  <2>1. payload' = payload /\ attempt' = attempt /\ result' = result
    BY <1>3 DEF vars
  <2>. QED  BY <2>1 DEF IInv, TypeOK
<1>. QED  BY <1>1, <1>2, <1>3 DEF Next

(* IInv holds in every reachable state. *)
THEOREM IInvariant == Spec => []IInv
  BY IInvInit, IInvNext, PTL DEF Spec

-----------------------------------------------------------------------------
(* The detailed handler is a refinement of the abstract one, as far as  *)
(* safety goes: its initial states are abstract initial states, and its  *)
(* every step is an abstract Answer or leaves payload and result alone.  *)
LEMMA RefineInit == Init => ABS!Init
  BY DEF Init, ABS!Init, Pending, ABS!Pending, Payloads, ABS!Payloads

LEMMA RefineNext == IInv /\ [Next]_vars => [ABS!Next]_ABS!vars
<1> SUFFICES ASSUME IInv, [Next]_vars PROVE [ABS!Next]_ABS!vars
  OBVIOUS
<1>1. CASE TryFormat /\ Decompile(Order[attempt], payload).ok
  <2>1. result' = ABS!Expected(payload') /\ payload' = payload
        /\ result = Pending
    BY <1>1, IInvNext DEF IInv, TryFormat, Response, Pending
  <2>. QED  BY <2>1 DEF ABS!Next, ABS!Answer, Pending, ABS!Pending
<1>2. CASE TryFormat /\ ~Decompile(Order[attempt], payload).ok
  BY <1>2 DEF TryFormat, ABS!vars
<1>3. CASE GiveUp
  <2>1. result' = ABS!Expected(payload') /\ payload' = payload
        /\ result = Pending
    BY <1>3, IInvNext DEF IInv, GiveUp, Unrecognized, Pending
  <2>. QED  BY <2>1 DEF ABS!Next, ABS!Answer, Pending, ABS!Pending
<1>4. CASE UNCHANGED vars
  BY <1>4 DEF vars, ABS!vars
<1>. QED  BY <1>1, <1>2, <1>3, <1>4 DEF Next

(* Every behaviour of handle_request is, step for step, a behaviour of   *)
(* the abstract decompile-unknown request, up to stuttering.             *)
THEOREM RefinesAbstractSafety == Spec => ABS!Init /\ [][ABS!Next]_ABS!vars
<1>1. Spec => []IInv
  BY IInvariant
<1>2. IInv /\ [Next]_vars => [ABS!Next]_ABS!vars
  BY RefineNext
<1>. QED  BY <1>1, <1>2, RefineInit, PTL DEF Spec

(* The state of the unknown-intent handler is always well typed: the next *)
(* format index stays within the three formats and one past them, and the *)
(* result is pending, a response of one format, or the error.            *)
THEOREM TypeCorrect == Spec => []TypeOK
  BY IInvariant, PTL DEF IInv

=============================================================================
