-------------------------- MODULE TraversalProofs --------------------------
(***************************************************************************)
(* Proofs about the visitor traversal, for every manifest and every       *)
(* number of value and instruction visitors.  VisitOrder is not inductive *)
(* by itself: a step is only sure to append the right instruction when    *)
(* the counters are in range, the rewritten values keep the shape of the  *)
(* manifest, and a finished walk stopped after the last visitor of the    *)
(* last instruction.  IInv adds those facts.                              *)
(***************************************************************************)
EXTENDS Traversal, NatLemmas, TLAPS

(* Rewriting one argument in place keeps a list of argument lists a list  *)
(* of argument lists of the same length.                                   *)
LEMMA ExceptKeepsShape ==
    ASSUME NEW S, NEW s \in Seq(Seq(S)), NEW i \in 1..Len(s),
           NEW a \in 1..Len(s[i]), NEW x \in S
    PROVE  /\ [s EXCEPT ![i][a] = x] \in Seq(Seq(S))
           /\ Len([s EXCEPT ![i][a] = x]) = Len(s)
<1>1. [s[i] EXCEPT ![a] = x] \in Seq(S)
  OBVIOUS
<1>2. [s EXCEPT ![i][a] = x] = [s EXCEPT ![i] = [s[i] EXCEPT ![a] = x]]
  OBVIOUS
<1>. QED  BY <1>1, <1>2

(* The inductive invariant behind VisitOrder. *)
IInv ==
    /\ TypeOK
    /\ Len(values) = NumInstructions
    /\ NumInstructions = 0 => status = "ok" /\ stage = "value"
    /\ stage = "instruction" => ivis \in 1..(NumInstrVisitors + 1)
    /\ status = "ok" /\ NumInstructions # 0 =>
          /\ stage = "instruction"
          /\ ivis = NumInstrVisitors + 1
          /\ instr = NumInstructions
    /\ \A j \in InstrVisitors :
          /\ Len(observed[j]) = SeenCount(j)
          /\ \A m \in 1..Len(observed[j]) : observed[j][m].index = m

USE ManifestAssumption, VisitorsAssumption, AliasAssumption
    DEF ValueVisitors, InstrVisitors, NumInstructions

LEMMA IInvInit == Init => IInv
  BY DEF Init, IInv, TypeOK, SeenCount

LEMMA IInvNext == IInv /\ [Next]_vars => IInv'
<1> SUFFICES ASSUME IInv, [Next]_vars PROVE IInv'
  OBVIOUS
<1>. USE DEF IInv, TypeOK
<1>1. CASE VisitValue
  <2>1. CASE /\ values' = [values EXCEPT ![instr][arg] = Alias[vvis][@]]
             /\ IF vvis < NumValueVisitors
                   THEN /\ vvis' = vvis + 1
                        /\ arg' = arg
                   ELSE /\ vvis' = 1
                        /\ arg' = arg + 1
             /\ UNCHANGED <<manifest, instr, stage, ivis, observed, status>>
    <3>1. Alias[vvis][values[instr][arg]] \in Vals
      BY <1>1 DEF VisitValue
    <3>2. /\ values' \in Seq(Seq(Vals))
          /\ Len(values') = Len(values)
      BY <1>1, <2>1, <3>1, ExceptKeepsShape DEF VisitValue
    <3>3. /\ arg' \in Nat \ {0}
          /\ vvis' \in Nat \ {0}
      BY <1>1, <2>1, SMTT(60) DEF VisitValue
    <3>4. TypeOK'
      BY <2>1, <3>2, <3>3
    <3>5. \A j \in InstrVisitors : SeenCount(j)' = SeenCount(j)
      BY <2>1 DEF SeenCount
    <3>. QED  BY <1>1, <2>1, <3>2, <3>4, <3>5 DEF VisitValue
  <2>2. CASE /\ status' = "error"
             /\ UNCHANGED <<manifest, instr, stage, arg, vvis, ivis, values, observed>>
    BY <1>1, <2>2 DEF VisitValue, SeenCount
  <2>. QED  BY <1>1, <2>1, <2>2 DEF VisitValue
<1>2. CASE EndValues
  BY <1>2 DEF EndValues, SeenCount
<1>3. CASE VisitInstruction
  <2>1. CASE /\ observed' = [observed EXCEPT ![ivis] =
                               Append(@, Observation(instr, values[instr]))]
             /\ ivis' = ivis + 1
             /\ UNCHANGED <<manifest, instr, stage, arg, vvis, values, status>>
    <3>1. values[instr] \in Seq(Vals)
      BY <1>3 DEF VisitInstruction
    <3>2. Observation(instr, values[instr]) \in ObservationType
      BY <3>1 DEF Observation, ObservationType
    <3>3. observed' \in [InstrVisitors -> Seq(ObservationType)]
      <4>1. Append(observed[ivis], Observation(instr, values[instr]))
               \in Seq(ObservationType)
        BY <1>3, <3>2 DEF VisitInstruction
      <4>. QED  BY <1>3, <2>1, <4>1, Zenon DEF VisitInstruction
    <3>4. Len(observed[ivis]) = instr - 1
      BY <1>3 DEF VisitInstruction, SeenCount
    <3>5. ASSUME NEW j \in InstrVisitors
          PROVE  /\ Len(observed'[j]) = SeenCount(j)'
                 /\ \A m \in 1..Len(observed'[j]) : observed'[j][m].index = m
      <4>1. CASE j = ivis
        <5>1. ivis \in InstrVisitors /\ observed[ivis] \in Seq(ObservationType)
          BY <1>3 DEF VisitInstruction
        <5>2. observed'[j] = Append(observed[ivis], Observation(instr, values[instr]))
          BY <2>1, <4>1, <5>1
        <5>3. Len(observed'[j]) = instr
          BY <3>2, <3>4, <5>1, <5>2
        <5>4. SeenCount(j)' = instr
          BY <1>3, <2>1, <4>1 DEF VisitInstruction, SeenCount
        <5>5. ASSUME NEW m \in 1..Len(observed'[j])
              PROVE  observed'[j][m].index = m
          <6>1. CASE m < instr
            BY <3>2, <3>4, <5>1, <5>2, <5>3, <6>1, <4>1
          <6>2. CASE m = instr
            BY <3>2, <3>4, <5>1, <5>2, <6>2 DEF Observation
          <6>. QED  BY <5>3, <6>1, <6>2
        <5>. QED  BY <5>3, <5>4, <5>5
      <4>2. CASE j # ivis
        <5>1. observed'[j] = observed[j]
          BY <2>1, <4>2
        <5>2. SeenCount(j)' = SeenCount(j)
          BY <1>3, <2>1, <4>2 DEF VisitInstruction, SeenCount
        <5>. QED  BY <5>1, <5>2
      <4>. QED  BY <4>1, <4>2
    <3>6. TypeOK'
      BY <1>3, <2>1, <3>3 DEF VisitInstruction
    <3>7. stage' = "instruction" => ivis' \in 1..(NumInstrVisitors + 1)
      BY <1>3, <2>1 DEF VisitInstruction
    <3>. QED  BY <1>3, <2>1, <3>5, <3>6, <3>7 DEF VisitInstruction
  <2>2. CASE /\ status' = "error"
             /\ UNCHANGED <<manifest, instr, stage, arg, vvis, ivis, values, observed>>
    BY <1>3, <2>2 DEF VisitInstruction, SeenCount
  <2>. QED  BY <1>3, <2>1, <2>2 DEF VisitInstruction
<1>4. CASE EndInstruction
  <2>1. ivis = NumInstrVisitors + 1
    BY <1>4 DEF EndInstruction
  <2>2. \A j \in InstrVisitors : SeenCount(j) = instr
    BY <1>4, <2>1 DEF EndInstruction, SeenCount
  <2>3. CASE instr < NumInstructions
    <3>1. \A j \in InstrVisitors : SeenCount(j)' = instr
      BY <1>4, <2>3 DEF EndInstruction, SeenCount
    <3>2. TypeOK'
      BY <1>4, <2>3 DEF EndInstruction
    <3>. QED  BY <1>4, <2>2, <2>3, <3>1, <3>2 DEF EndInstruction
  <2>4. CASE ~(instr < NumInstructions)
    <3>1. \A j \in InstrVisitors : SeenCount(j)' = SeenCount(j)
      BY <1>4, <2>4 DEF EndInstruction, SeenCount
    <3>2. TypeOK'
      BY <1>4, <2>4 DEF EndInstruction
    <3>. QED  BY <1>4, <2>1, <2>4, <3>1, <3>2 DEF EndInstruction
  <2>. QED  BY <2>3, <2>4
<1>5. CASE UNCHANGED vars
  BY <1>5 DEF vars, SeenCount
<1>. QED  BY <1>1, <1>2, <1>3, <1>4, <1>5 DEF Next

(* Every state of the traversal satisfies IInv. *)
THEOREM IInvariant == Spec => []IInv
  BY IInvInit, IInvNext, PTL DEF Spec

(* The state of the traversal is always well typed. *)
THEOREM TypeCorrect == Spec => []TypeOK
BY IInvariant, PTL DEF IInv

(* The collect loop hands every instruction visitor the instructions in   *)
(* manifest order, each once, stops everything at the first Err, and on   *)
(* Ok every visitor has seen every instruction.                            *)
THEOREM VisitOrderInvariant == Spec => []VisitOrder
<1>1. IInv => VisitOrder
  <2> SUFFICES ASSUME IInv PROVE VisitOrder
    OBVIOUS
  <2>1. ASSUME status = "ok", NEW j \in InstrVisitors
        PROVE  SeenCount(j) = NumInstructions
    <3>1. CASE NumInstructions = 0
      BY <2>1, <3>1 DEF IInv, TypeOK, SeenCount
    <3>2. CASE NumInstructions # 0
      BY <2>1, <3>2, VisitorsAssumption DEF IInv, SeenCount, InstrVisitors
    <3>. QED  BY <3>1, <3>2
  <2>. QED  BY <2>1 DEF IInv, VisitOrder
<1>. QED  BY <1>1, IInvariant, PTL
-----------------------------------------------------------------------------
(* One step of the composition AliasedBy: the identity, or visitor n     *)
(* applied after the composition g[n - 1] of the visitors before it.      *)
StepAlias(g, n) ==
    IF n = 0 THEN [x \in Vals |-> x]
             ELSE [x \in Vals |-> Alias[n][g[n - 1][x]]]

(* A function on 0..k that is the composition up to k. *)
AliasPrefix(g, k) ==
    /\ g \in [0..k -> [Vals -> Vals]]
    /\ \A n \in 0..k : g[n] = StepAlias(g, n)

(* Each composition up to k extends to one up to k + 1. *)
LEMMA AliasPrefixExtends ==
    ASSUME NEW k \in 0..(NumValueVisitors - 1), NEW g, AliasPrefix(g, k)
    PROVE  \E h : AliasPrefix(h, k + 1)
<1>. USE AliasAssumption, VisitorsAssumption
<1> DEFINE ext == [n \in 0..(k + 1) |->
                     IF n <= k THEN g[n] ELSE [x \in Vals |-> Alias[k + 1][g[k][x]]]]
<1>1. \A n \in 0..k : ext[n] = g[n]
  BY DEF ext
<1>2. ext[k + 1] = [x \in Vals |-> Alias[k + 1][g[k][x]]]
  BY DEF ext
<1>3. ext \in [0..(k + 1) -> [Vals -> Vals]]
  BY DEF ext, AliasPrefix
<1>4. ASSUME NEW n \in 0..k PROVE ext[n] = StepAlias(ext, n)
  <2>1. CASE n = 0
    BY <1>1, <2>1 DEF AliasPrefix, StepAlias
  <2>2. CASE n # 0
    <3>1. n - 1 \in 0..k
      BY <2>2
    <3>2. ext[n - 1] = g[n - 1]
      BY <1>1, <3>1
    <3>. QED  BY <1>1, <2>2, <3>2 DEF AliasPrefix, StepAlias
  <2>. QED  BY <2>1, <2>2
<1>5. ext[k + 1] = StepAlias(ext, k + 1)
  <2>0. k \in 0..k /\ k + 1 # 0 /\ (k + 1) - 1 = k
    OBVIOUS
  <2>1. ext[k] = g[k] /\ k + 1 # 0 /\ (k + 1) - 1 = k
    BY <1>1, <2>0
  <2>. QED  BY <1>2, <2>1 DEF StepAlias
<1>6. AliasPrefix(ext, k + 1)
  <2>1. \A n \in 0..(k + 1) : n \in 0..k \/ n = k + 1
    OBVIOUS
  <2>. QED  BY <1>3, <1>4, <1>5, <2>1 DEF AliasPrefix
<1>. QED  BY <1>6

(* The recursive definition of AliasedBy has a solution, and AliasedBy   *)
(* is one: it unfolds to the identity at 0 and to visitor n after the    *)
(* composition before it.                                                 *)
LEMMA AliasedByUnfold ==
    /\ AliasedBy = [n \in 0..NumValueVisitors |-> StepAlias(AliasedBy, n)]
    /\ \A n \in 0..NumValueVisitors : AliasedBy[n] \in [Vals -> Vals]
<1>. USE AliasAssumption, VisitorsAssumption
<1> DEFINE N == NumValueVisitors
           S == {k \in 0..N : \E g : AliasPrefix(g, k)}
<1>1. 0 \in S
  <2>1. AliasPrefix([n \in 0..0 |-> [x \in Vals |-> x]], 0)
    BY DEF AliasPrefix, StepAlias
  <2>. QED  BY <2>1 DEF S
<1>2. \A k \in 0..(N - 1) : k \in S => k + 1 \in S
  BY AliasPrefixExtends DEF S
<1>3. N \in S
  <2>1. N \in Nat
    OBVIOUS
  <2>2. 0..N \subseteq S
    BY <1>1, <1>2, <2>1, IntervalInduction
  <2>. QED  BY <2>1, <2>2
<1>4. PICK g : AliasPrefix(g, N)
  BY <1>3 DEF S
<1>5. g = [n \in 0..N |-> StepAlias(g, n)]
  BY <1>4 DEF AliasPrefix
<1>6. \E f : f = [n \in 0..N |-> StepAlias(f, n)]
  BY <1>5
<1>7. AliasedBy = [n \in 0..N |-> StepAlias(AliasedBy, n)]
  BY <1>6 DEF AliasedBy, StepAlias
<1> DEFINE T == {k \in 0..N : AliasedBy[k] \in [Vals -> Vals]}
<1>8. 0 \in T
  BY <1>7 DEF StepAlias, T
<1>9. \A k \in 0..(N - 1) : k \in T => k + 1 \in T
  <2> SUFFICES ASSUME NEW k \in 0..(N - 1), k \in T PROVE k + 1 \in T
    OBVIOUS
  <2>1. AliasedBy[k + 1] = [x \in Vals |-> Alias[k + 1][AliasedBy[k][x]]]
    <3>1. k + 1 \in 0..N /\ k + 1 # 0 /\ (k + 1) - 1 = k
      OBVIOUS
    <3>. QED  BY <1>7, <3>1 DEF StepAlias
  <2>2. \A x \in Vals : AliasedBy[k][x] \in Vals
    BY DEF T
  <2>. QED  BY <2>1, <2>2 DEF T
<1>10. 0..N \subseteq T
  BY <1>8, <1>9, IntervalInduction
<1>. QED  BY <1>7, <1>10 DEF T

-----------------------------------------------------------------------------
(* How many value visitors have rewritten argument a of instruction m:   *)
(* all of them for an instruction already traversed and for the current  *)
(* one once its instruction visitors run; during the value stage all of  *)
(* them for the arguments before arg, vvis - 1 for arg itself and none   *)
(* after it; none for the instructions still to come.                    *)
Done(m, a) ==
    IF m < instr \/ (m = instr /\ stage = "instruction") THEN NumValueVisitors
    ELSE IF m > instr THEN 0
    ELSE IF a < arg THEN NumValueVisitors
    ELSE IF a = arg THEN vvis - 1
    ELSE 0

(* Where the walk is within the current instruction. *)
Progress ==
    /\ stage = "value" /\ status = "running" =>
          /\ vvis \in 1..(IF NumValueVisitors = 0 THEN 1 ELSE NumValueVisitors)
          /\ arg \in 1..(Len(values[instr]) + 1)
    /\ stage = "instruction" /\ NumValueVisitors # 0 =>
          arg > Len(values[instr])

(* Each argument value is the original one after the value visitors that *)
(* have run on it, in order.                                              *)
Rewritten ==
    \A m \in 1..NumInstructions :
        /\ DOMAIN values[m] = DOMAIN manifest[m]
        /\ \A a \in DOMAIN manifest[m] :
              values[m][a] = AliasedBy[Done(m, a)][manifest[m][a]]

(* The invariant behind SeesAliasedValues. *)
AInv == IInv /\ Progress /\ Rewritten /\ SeesAliasedValues

(* Visitor n after the composition of the visitors before it is the     *)
(* composition up to n; no visitor leaves a value unchanged.              *)
LEMMA AliasStep ==
    /\ \A v \in Vals : AliasedBy[0][v] = v
    /\ \A n \in 1..NumValueVisitors : \A v \in Vals :
          Alias[n][AliasedBy[n - 1][v]] = AliasedBy[n][v]
    /\ \A n \in 0..NumValueVisitors : \A v \in Vals : AliasedBy[n][v] \in Vals
<1>1. AliasedBy[0] = [x \in Vals |-> x]
  BY AliasedByUnfold DEF StepAlias
<1>2. ASSUME NEW n \in 1..NumValueVisitors
      PROVE  AliasedBy[n] = [x \in Vals |-> Alias[n][AliasedBy[n - 1][x]]]
  <2>1. n \in 0..NumValueVisitors /\ n # 0
    OBVIOUS
  <2>. QED  BY <2>1, AliasedByUnfold DEF StepAlias
<1>3. \A v \in Vals : AliasedBy[0][v] = v
  BY <1>1
<1>4. \A n \in 1..NumValueVisitors : \A v \in Vals :
         Alias[n][AliasedBy[n - 1][v]] = AliasedBy[n][v]
  <2> SUFFICES ASSUME NEW n \in 1..NumValueVisitors, NEW v \in Vals
               PROVE  Alias[n][AliasedBy[n - 1][v]] = AliasedBy[n][v]
    OBVIOUS
  <2>1. AliasedBy[n] = [x \in Vals |-> Alias[n][AliasedBy[n - 1][x]]]
    BY <1>2
  <2>. QED  BY <2>1
<1>5. \A n \in 0..NumValueVisitors : \A v \in Vals : AliasedBy[n][v] \in Vals
  BY AliasedByUnfold
<1>. QED  BY <1>3, <1>4, <1>5

LEMMA AInvInit == Init => AInv
<1> SUFFICES ASSUME Init PROVE AInv
  OBVIOUS
<1>1. IInv
  BY IInvInit
<1>2. \A m \in 1..NumInstructions : \A a \in DOMAIN manifest[m] : Done(m, a) = 0
  BY DEF Init, Done
<1>3. Rewritten
  BY <1>2, AliasStep DEF Init, Rewritten
<1>. QED  BY <1>1, <1>3 DEF Init, AInv, Progress, SeesAliasedValues

(* A step that leaves the values and the position alone keeps them       *)
(* rewritten as before, and one that leaves observed alone keeps what the *)
(* instruction visitors saw.                                              *)
LEMMA RewrittenKept ==
    ASSUME Rewritten, UNCHANGED <<manifest, values, instr, stage, arg, vvis>>
    PROVE  Rewritten'
  BY DEF Rewritten, Done

LEMMA SeesKept ==
    ASSUME SeesAliasedValues, UNCHANGED <<manifest, observed>>
    PROVE  SeesAliasedValues'
  BY DEF SeesAliasedValues

LEMMA AInvNext == AInv /\ [Next]_vars => AInv'
<1> SUFFICES ASSUME AInv, [Next]_vars PROVE AInv'
  OBVIOUS
<1> DEFINE N == NumValueVisitors
<1>0. IInv'
  BY IInvNext DEF AInv
<1>a. /\ manifest \in Seq(Seq(Vals)) /\ values \in Seq(Seq(Vals))
      /\ Len(values) = Len(manifest)
      /\ Rewritten /\ Progress /\ SeesAliasedValues
  BY DEF AInv, IInv, TypeOK
<1>1. CASE VisitValue
  <2>0. /\ status = "running" /\ stage = "value" /\ N # 0
        /\ vvis \in 1..N /\ instr \in 1..Len(manifest)
        /\ arg \in 1..Len(values[instr])
        /\ Len(values[instr]) = Len(manifest[instr])
    <3>1. status = "running" /\ stage = "value" /\ arg <= Len(values[instr])
          /\ vvis \in 1..N
      BY <1>1 DEF VisitValue
    <3>2. Len(manifest) # 0 /\ instr \in 1..Len(manifest)
      BY <3>1 DEF AInv, IInv, TypeOK
    <3>3. DOMAIN values[instr] = DOMAIN manifest[instr]
      BY <1>a, <3>2 DEF Rewritten
    <3>. QED  BY <1>a, <3>1, <3>2, <3>3 DEF Progress
  <2>1. CASE /\ values' = [values EXCEPT ![instr][arg] = Alias[vvis][@]]
             /\ IF vvis < N
                   THEN /\ vvis' = vvis + 1
                        /\ arg' = arg
                   ELSE /\ vvis' = 1
                        /\ arg' = arg + 1
             /\ UNCHANGED <<manifest, instr, stage, ivis, observed, status>>
    <3> DEFINE new == Alias[vvis][values[instr][arg]]
    <3>1. values' = [values EXCEPT ![instr] = [values[instr] EXCEPT ![arg] = new]]
      BY <2>1 DEF new
    <3>2. values'[instr] = [values[instr] EXCEPT ![arg] = new]
          /\ \A m \in 1..Len(manifest) : m # instr => values'[m] = values[m]
      <4>1. DOMAIN values = 1..Len(manifest) /\ instr \in DOMAIN values
        BY <1>a, <2>0
      <4>. QED  BY <3>1, <4>1
    <3>0. instr' = instr /\ stage' = "value" /\ stage = "value"
          /\ arg \in Nat /\ vvis \in 1..N /\ instr \in Nat
      BY <2>0, <2>1
    <3>3. ASSUME NEW m \in Nat, NEW a \in Nat, m = instr, a = arg
          PROVE  Done(m, a)' = vvis /\ Done(m, a) = vvis - 1
      <4>1. Done(m, a) = vvis - 1
        BY <3>0, <3>3 DEF Done
      <4>2. CASE vvis < N
        <5>1. vvis' = vvis + 1 /\ arg' = arg
          BY <2>1, <4>2
        <5>. QED  BY <3>0, <3>3, <4>1, <5>1 DEF Done
      <4>3. CASE ~(vvis < N)
        <5>1. vvis' = 1 /\ arg' = arg + 1 /\ vvis = N
          BY <2>0, <2>1, <4>3
        <5>. QED  BY <3>0, <3>3, <4>1, <5>1 DEF Done
      <4>. QED  BY <4>2, <4>3
    <3>4. ASSUME NEW m \in Nat, NEW a \in Nat, m = instr, a # arg
          PROVE  Done(m, a)' = Done(m, a)
      <4>1. CASE vvis < N
        <5>1. vvis' = vvis + 1 /\ arg' = arg
          BY <2>1, <4>1
        <5>. QED  BY <3>0, <3>4, <5>1 DEF Done
      <4>2. CASE ~(vvis < N)
        <5>1. vvis' = 1 /\ arg' = arg + 1
          BY <2>0, <2>1, <4>2
        <5>. QED  BY <3>0, <3>4, <5>1 DEF Done
      <4>. QED  BY <4>1, <4>2
    <3>5. \A m \in 1..Len(manifest) : m # instr =>
             \A a \in DOMAIN manifest[m] : Done(m, a)' = Done(m, a)
      BY <2>0, <2>1 DEF Done
    <3>6. new = AliasedBy[vvis][manifest[instr][arg]]
      <4>1. values[instr][arg] = AliasedBy[vvis - 1][manifest[instr][arg]]
        <5>1. Done(instr, arg) = vvis - 1
          BY <3>0, <3>3
        <5>. QED  BY <1>a, <2>0, <5>1 DEF Rewritten
      <4>2. manifest[instr][arg] \in Vals
        BY <1>a, <2>0
      <4>. QED  BY <2>0, <4>1, <4>2, AliasStep DEF new
    <3>7. Rewritten'
      <4> SUFFICES ASSUME NEW m \in 1..Len(manifest)
                   PROVE  /\ DOMAIN values'[m] = DOMAIN manifest'[m]
                          /\ \A a \in DOMAIN manifest'[m] :
                                values'[m][a] = AliasedBy[Done(m, a)'][manifest'[m][a]]
        BY <2>1 DEF Rewritten
      <4>1. CASE m = instr
        <5>1. DOMAIN values'[m] = DOMAIN manifest[m]
          BY <1>a, <2>0, <3>2, <4>1 DEF Rewritten
        <5>2. ASSUME NEW a \in DOMAIN manifest[m]
              PROVE  values'[m][a] = AliasedBy[Done(m, a)'][manifest[m][a]]
          <6>1. CASE a = arg
            <7>1. arg \in DOMAIN values[instr]
              BY <1>a, <2>0
            <7>2. values'[m][a] = new
              BY <3>2, <4>1, <6>1, <7>1
            <7>3. Done(m, a)' = vvis
              BY <1>a, <2>0, <3>3, <4>1, <6>1
            <7>. QED  BY <2>1, <3>6, <4>1, <6>1, <7>2, <7>3
          <6>2. CASE a # arg
            <7>1. values'[m][a] = values[m][a]
              BY <2>0, <3>2, <4>1, <6>2
            <7>2. values[m][a] = AliasedBy[Done(m, a)][manifest[m][a]]
              BY <1>a, <2>0, <4>1 DEF Rewritten
            <7>3. Done(m, a)' = Done(m, a)
              BY <1>a, <2>0, <3>4, <4>1, <6>2
            <7>. QED  BY <7>1, <7>2, <7>3
          <6>. QED  BY <6>1, <6>2
        <5>. QED  BY <2>1, <5>1, <5>2
      <4>2. CASE m # instr
        BY <1>a, <2>1, <3>2, <3>5, <4>2 DEF Rewritten
      <4>. QED  BY <4>1, <4>2
    <3>8. Progress'
      <4>1. Len(values'[instr]) = Len(values[instr])
        BY <2>0, <3>2
      <4>. QED  BY <2>0, <2>1, <4>1 DEF Progress
    <3>9. SeesAliasedValues'
      BY <1>a, <2>1, SeesKept
    <3>. QED  BY <1>0, <3>7, <3>8, <3>9 DEF AInv
  <2>2. CASE /\ status' = "error"
             /\ UNCHANGED <<manifest, instr, stage, arg, vvis, ivis, values, observed>>
    BY <1>0, <1>a, <2>2, RewrittenKept, SeesKept DEF AInv, Progress
  <2>. QED  BY <1>1, <2>1, <2>2 DEF VisitValue
<1>2. CASE EndValues
  <2>0. /\ status = "running" /\ stage = "value" /\ stage' = "instruction"
        /\ (arg > Len(values[instr]) \/ N = 0)
        /\ UNCHANGED <<manifest, instr, arg, vvis, values, observed, status>>
    BY <1>2 DEF EndValues
  <2>1. instr \in 1..Len(manifest)
    BY <2>0 DEF AInv, IInv, TypeOK
  <2>2. \A a \in DOMAIN manifest[instr] : Done(instr, a) = N
    <3>1. DOMAIN values[instr] = DOMAIN manifest[instr]
          /\ values[instr] \in Seq(Vals) /\ manifest[instr] \in Seq(Vals)
      BY <1>a, <2>1 DEF Rewritten
    <3>2. vvis \in 1..(IF N = 0 THEN 1 ELSE N)
      BY <1>a, <2>0 DEF Progress
    <3>3. CASE N = 0
      BY <2>0, <3>2, <3>3 DEF Done
    <3>4. CASE N # 0
      <4>1. arg > Len(manifest[instr])
        BY <2>0, <3>1, <3>4
      <4>2. ASSUME NEW a \in DOMAIN manifest[instr] PROVE a < arg
        BY <3>1, <4>1 DEF AInv, IInv, TypeOK
      <4>. QED  BY <2>0, <4>2 DEF Done
    <3>. QED  BY <3>3, <3>4
  <2>3. Rewritten'
    <3>1. \A m \in 1..Len(manifest) : \A a \in DOMAIN manifest[m] :
             Done(m, a)' = Done(m, a)
      BY <2>0, <2>2 DEF Done
    <3>. QED  BY <1>a, <2>0, <3>1 DEF Rewritten
  <2>4. Progress'
    BY <2>0 DEF Progress
  <2>. QED  BY <1>0, <1>a, <2>0, <2>3, <2>4, SeesKept DEF AInv
<1>3. CASE VisitInstruction
  <2>0. /\ status = "running" /\ stage = "instruction" /\ ivis \in InstrVisitors
        /\ instr \in 1..Len(manifest)
    BY <1>3 DEF VisitInstruction, AInv, IInv, TypeOK
  <2>1. CASE /\ observed' = [observed EXCEPT ![ivis] =
                               Append(@, Observation(instr, values[instr]))]
             /\ ivis' = ivis + 1
             /\ UNCHANGED <<manifest, instr, stage, arg, vvis, values, status>>
    <3> DEFINE full(m) == [a \in DOMAIN manifest[m] |-> AliasedBy[N][manifest[m][a]]]
    <3>1. values[instr] = full(instr)
      <4>1. DOMAIN values[instr] = DOMAIN manifest[instr]
            /\ values[instr] \in Seq(Vals)
            /\ \A a \in DOMAIN manifest[instr] :
                  values[instr][a] = AliasedBy[N][manifest[instr][a]]
        BY <1>a, <2>0 DEF Rewritten, Done
      <4>. QED  BY <4>1 DEF full
    <3>2. Len(observed[ivis]) = instr - 1 /\ observed[ivis] \in Seq(ObservationType)
      BY <2>0 DEF AInv, IInv, TypeOK, SeenCount
    <3>3. ASSUME NEW j \in InstrVisitors, NEW m \in 1..Len(observed'[j])
          PROVE  observed'[j][m].args = full(m)
      <4>1. CASE j = ivis
        <5>1. observed'[j] = Append(observed[ivis], Observation(instr, values[instr]))
          BY <2>0, <2>1, <4>1 DEF AInv, IInv, TypeOK
        <5>2. CASE m <= Len(observed[ivis])
          BY <1>a, <2>1, <3>2, <4>1, <5>1, <5>2 DEF SeesAliasedValues, full, N
        <5>3. CASE m = Len(observed[ivis]) + 1
          <6>1. m = instr
            BY <2>0, <3>2, <5>3
          <6>2. observed'[j][m] = Observation(instr, values[instr])
            BY <3>2, <5>1, <5>3
          <6>. QED  BY <3>1, <6>1, <6>2 DEF Observation
        <5>. QED  BY <3>2, <5>1, <5>2, <5>3
      <4>2. CASE j # ivis
        <5>1. observed'[j] = observed[j]
          BY <2>1, <4>2
        <5>2. m \in 1..Len(observed[j])
          BY <5>1
        <5>3. observed[j][m].args =
                 [a \in DOMAIN manifest[m] |-> AliasedBy[NumValueVisitors][manifest[m][a]]]
          BY <1>a, <5>2 DEF SeesAliasedValues
        <5>. QED  BY <5>1, <5>3 DEF full, N
      <4>. QED  BY <4>1, <4>2
    <3>4. SeesAliasedValues'
      BY <2>1, <3>3 DEF SeesAliasedValues
    <3>. QED  BY <1>0, <1>a, <2>1, <3>4, RewrittenKept DEF AInv, Progress
  <2>2. CASE /\ status' = "error"
             /\ UNCHANGED <<manifest, instr, stage, arg, vvis, ivis, values, observed>>
    BY <1>0, <1>a, <2>2, RewrittenKept, SeesKept DEF AInv, Progress
  <2>. QED  BY <1>3, <2>1, <2>2 DEF VisitInstruction
<1>4. CASE EndInstruction
  <2>0. /\ status = "running" /\ stage = "instruction"
        /\ instr \in 1..Len(manifest)
        /\ UNCHANGED <<manifest, values, observed>>
    BY <1>4 DEF EndInstruction, AInv, IInv, TypeOK
  <2>1. CASE instr < Len(manifest)
    <3>1. /\ instr' = instr + 1 /\ stage' = "value" /\ arg' = 1 /\ vvis' = 1
          /\ status' = "running"
      BY <1>4, <2>1 DEF EndInstruction
    <3>2. \A m \in 1..Len(manifest) : \A a \in DOMAIN manifest[m] :
             Done(m, a)' = Done(m, a)
      <4> SUFFICES ASSUME NEW m \in 1..Len(manifest), NEW a \in DOMAIN manifest[m]
                   PROVE  Done(m, a)' = Done(m, a)
        OBVIOUS
      <4>1. a \in Nat \ {0}
        BY <1>a
      <4>. QED  BY <2>0, <3>1, <4>1 DEF Done
    <3>3. Rewritten'
      BY <1>a, <2>0, <3>2 DEF Rewritten
    <3>4. Progress'
      <4>1. instr + 1 \in 1..Len(manifest)
        BY <2>0, <2>1
      <4>. QED  BY <1>a, <2>0, <3>1, <4>1 DEF Progress
    <3>. QED  BY <1>0, <1>a, <2>0, <3>3, <3>4, SeesKept DEF AInv
  <2>2. CASE ~(instr < Len(manifest))
    <3>1. status' = "ok" /\ UNCHANGED <<instr, stage, arg, vvis>>
      BY <1>4, <2>2 DEF EndInstruction
    <3>. QED  BY <1>0, <1>a, <2>0, <3>1, RewrittenKept, SeesKept DEF AInv, Progress
  <2>. QED  BY <2>1, <2>2
<1>5. CASE UNCHANGED vars
  BY <1>0, <1>a, <1>5, RewrittenKept, SeesKept DEF vars, AInv, Progress
<1>. QED  BY <1>1, <1>2, <1>3, <1>4, <1>5 DEF Next

(* Every state of the traversal satisfies AInv. *)
THEOREM AInvariant == Spec => []AInv
  BY AInvInit, AInvNext, PTL DEF Spec

(* What the value visitors write into the arguments is what every        *)
(* instruction visitor then sees: each argument of each instruction it    *)
(* was handed is the original value after all value visitors, in their    *)
(* order, rewrote it in place.                                             *)
THEOREM SeesAliasedValuesInvariant == Spec => []SeesAliasedValues
  BY AInvariant, PTL DEF AInv

-----------------------------------------------------------------------------
(* What an instruction visitor has recorded is, entry for entry, what the *)
(* abstract walk says it records of the first instructions.               *)
LEMMA ObservedIsSeen ==
    ASSUME AInv, NEW j \in InstrVisitors
    PROVE  observed[j] = ABS!Seen(Len(observed[j]))
<1> DEFINE n == Len(observed[j])
<1>1. observed[j] \in Seq(ObservationType)
  BY DEF AInv, IInv, TypeOK
<1>2. ASSUME NEW m \in 1..n PROVE observed[j][m] = ABS!Record(m)
  <2>0. observed[j][m] \in ObservationType
    BY <1>1 DEF n
  <2>1. observed[j][m] \in [index : Nat, args : Seq(Vals)]
    BY <2>0 DEF ObservationType
  <2>2. observed[j][m].index = m
    BY DEF AInv, IInv
  <2>3. observed[j][m].args = RewriteArgs(manifest[m])
    BY DEF AInv, SeesAliasedValues, RewriteArgs
  <2>. QED  BY <2>1, <2>2, <2>3 DEF ABS!Record
<1>3. DOMAIN observed[j] = 1..n
  BY <1>1
<1>. QED  BY <1>1, <1>2, <1>3 DEF ABS!Seen

(* The walk starts where the abstract one does. *)
LEMMA RefineInit == Init => ABS!Init
  BY DEF Init, ABS!Init, ABS!InstrVisitors

(* Every step of the walk is an abstract step or leaves the abstract     *)
(* state alone: the steps inside the walk are stutters, the Ok at the end *)
(* is Complete, and the first Err is Stop at the current instruction.    *)
LEMMA RefineNext == AInv /\ [Next]_vars => [ABS!Next]_ABS!vars
<1> SUFFICES ASSUME AInv, [Next]_vars PROVE [ABS!Next]_ABS!vars
  OBVIOUS
<1>0. /\ TypeOK
      /\ NumInstructions = 0 => status = "ok"
      /\ \A j \in InstrVisitors : Len(observed[j]) = SeenCount(j)
  BY DEF AInv, IInv
<1> DEFINE Running == /\ status = "running" /\ status' = "running"
                     /\ manifest' = manifest
<1>s. Running => UNCHANGED ABS!vars
  BY DEF Running, ABS!vars
<1>e. ASSUME status = "running", status' = "error",
             observed' = observed, manifest' = manifest,
             NEW c \in {0} \cup 0..(NumInstrVisitors - 1),
             \A j \in InstrVisitors :
                Len(observed[j]) = IF j <= c THEN instr ELSE instr - 1
      PROVE  ABS!Next
  <2>1. instr \in 1..Len(manifest)
    BY <1>0, <1>e DEF TypeOK
  <2>2. \A j \in InstrVisitors :
           observed[j] = ABS!Seen(IF j <= c THEN instr ELSE instr - 1)
    BY <1>e, ObservedIsSeen
  <2>3. observed = [j \in InstrVisitors |->
                      ABS!Seen(IF j <= c THEN instr ELSE instr - 1)]
    BY <1>0, <2>2 DEF TypeOK
  <2>4. ABS!Stop(instr, c)
    BY <1>e, <2>3 DEF ABS!Stop, ABS!InstrVisitors
  <2>. QED  BY <2>1, <2>4 DEF ABS!Next, ABS!InstrVisitors
<1>1. CASE VisitValue
  <2>1. CASE status' = "error"
    <3>1. stage = "value" /\ observed' = observed /\ manifest' = manifest
      BY <1>1, <2>1 DEF VisitValue
    <3>2. \A j \in InstrVisitors :
             Len(observed[j]) = IF j <= 0 THEN instr ELSE instr - 1
      BY <1>0, <3>1 DEF SeenCount, TypeOK
    <3>. QED  BY <1>1, <2>1, <3>1, <3>2, <1>e DEF VisitValue
  <2>2. CASE status' # "error"
    BY <1>1, <2>2, <1>s DEF VisitValue, Running
  <2>. QED  BY <2>1, <2>2
<1>2. CASE EndValues
  BY <1>2, <1>s DEF EndValues, Running
<1>3. CASE VisitInstruction
  <2>1. CASE status' = "error"
    <3>1. /\ stage = "instruction" /\ ivis \in InstrVisitors
          /\ observed' = observed /\ manifest' = manifest
      BY <1>3, <2>1 DEF VisitInstruction
    <3>2. ivis - 1 \in {0} \cup 0..(NumInstrVisitors - 1)
      BY <3>1
    <3>3. \A j \in InstrVisitors :
             Len(observed[j]) = IF j <= ivis - 1 THEN instr ELSE instr - 1
      BY <1>0, <3>1 DEF SeenCount, TypeOK
    <3>. QED  BY <1>3, <2>1, <3>1, <3>2, <3>3, <1>e DEF VisitInstruction
  <2>2. CASE status' # "error"
    BY <1>3, <2>2, <1>s DEF VisitInstruction, Running
  <2>. QED  BY <2>1, <2>2
<1>4. CASE EndInstruction
  <2>1. CASE instr < NumInstructions
    BY <1>4, <2>1, <1>s DEF EndInstruction, Running
  <2>2. CASE ~(instr < NumInstructions)
    <3>1. /\ status = "running" /\ status' = "ok"
          /\ observed' = observed /\ manifest' = manifest
          /\ stage = "instruction" /\ ivis > NumInstrVisitors
      BY <1>4, <2>2 DEF EndInstruction
    <3>1a. ivis = NumInstrVisitors + 1
      BY <3>1 DEF AInv, IInv
    <3>2. instr = Len(manifest)
      BY <1>0, <2>2, <3>1 DEF TypeOK
    <3>3. \A j \in InstrVisitors : Len(observed[j]) = Len(manifest)
      BY <1>0, <3>1, <3>1a, <3>2 DEF SeenCount, TypeOK
    <3>4. observed = [j \in InstrVisitors |-> ABS!Seen(Len(manifest))]
      BY <1>0, <3>3, ObservedIsSeen DEF TypeOK
    <3>5. ABS!Complete
      BY <3>1, <3>4 DEF ABS!Complete, ABS!InstrVisitors
    <3>. QED  BY <3>5 DEF ABS!Next
  <2>. QED  BY <2>1, <2>2
<1>5. CASE UNCHANGED vars
  BY <1>5 DEF vars, ABS!vars
<1>. QED  BY <1>1, <1>2, <1>3, <1>4, <1>5 DEF Next

(* Every behaviour of the walk is, step for step, a behaviour of the     *)
(* collect promise: Ok with every visitor having seen every rewritten     *)
(* instruction, or the first Err with a prefix of the visitors having     *)
(* seen the failing instruction and none anything after it.  Termination *)
(* (the fairness of the abstract specification) is checked by TLC.        *)
THEOREM RefinesAbstractSafety == Spec => ABS!Init /\ [][ABS!Next]_ABS!vars
<1>1. Spec => []AInv
  BY AInvariant
<1>2. AInv /\ [Next]_vars => [ABS!Next]_ABS!vars
  BY RefineNext
<1>. QED  BY <1>1, <1>2, RefineInit, PTL DEF Spec

=============================================================================
