-------------------------- MODULE ValueConversions --------------------------
(***************************************************************************)
(* A caller converting one value back and forth between its three forms:  *)
(* the model value, the wire bytes (Value::encode / Value::decode) and    *)
(* the manifest text (Value::to_ast_value / Value::from_ast_value).  The  *)
(* caller picks the network of each decode and of each bech32 coder.  A   *)
(* failed conversion ends the chain with its error; the todo!() of        *)
(* from_ast_value ends it with a panic.                                    *)
(***************************************************************************)
EXTENDS Naturals, Sequences, Value

CONSTANTS
    Universe,     \* the model values a caller may start from
    Networks,     \* the network ids a caller may supply
    Conversions,  \* which conversions the caller uses: "wire", "text"
    MaxSteps      \* bound on the length of a conversion chain

ASSUME ConversionsAssumption == Conversions \subseteq {"wire", "text"}
ASSUME MaxStepsAssumption == MaxSteps \in Nat

(* No representation of that form has been produced yet. *)
NoRep == [none |-> TRUE]

VARIABLES
    orig,      \* the value the caller started with
    cur,       \* [form |-> "model" | "wire" | "ast" | "error" | "panic", val |-> ...]
    steps,     \* conversions done so far
    net,       \* network of the last conversion that took one
    firstWire, \* the first wire form produced in this chain, or NoRep
    firstAst   \* firstAst[n]: the first text produced with the coder of n, or NoRep

vars == <<orig, cur, steps, net, firstWire, firstAst>>

Init ==
    /\ orig \in Universe
    /\ cur = [form |-> "model", val |-> orig]
    /\ steps = 0
    /\ net \in Networks
    /\ firstWire = NoRep
    /\ firstAst = [n \in Networks |-> NoRep]

(* The form a result puts the chain in. *)
Outcome(r, form) ==
    IF r.ok THEN [form |-> form, val |-> r.val]
    ELSE IF r.err = "panic" THEN [form |-> "panic", val |-> r.err]
    ELSE [form |-> "error", val |-> r.err]

Step == steps < MaxSteps /\ steps' = steps + 1

(* Value::encode. *)
DoEncode ==
    /\ "wire" \in Conversions
    /\ cur.form = "model"
    /\ Step
    /\ cur' = Outcome(Encode(cur.val), "wire")
    /\ firstWire' = IF firstWire = NoRep /\ cur'.form = "wire" THEN cur'.val ELSE firstWire
    /\ UNCHANGED <<orig, net, firstAst>>

(* Value::decode with network n. *)
DoDecode(n) ==
    /\ "wire" \in Conversions
    /\ cur.form = "wire"
    /\ Step
    /\ cur' = Outcome(Decode(cur.val, n), "model")
    /\ net' = n
    /\ UNCHANGED <<orig, firstWire, firstAst>>

(* Value::to_ast_value with the bech32 coder of network n. *)
DoToAst(n) ==
    /\ "text" \in Conversions
    /\ cur.form = "model"
    /\ Step
    /\ cur' = Outcome(ToAst(cur.val, n), "ast")
    /\ net' = n
    /\ firstAst' = IF firstAst[n] = NoRep /\ cur'.form = "ast"
                      THEN [firstAst EXCEPT ![n] = cur'.val] ELSE firstAst
    /\ UNCHANGED <<orig, firstWire>>

(* Value::from_ast_value with the bech32 coder of network n. *)
DoFromAst(n) ==
    /\ "text" \in Conversions
    /\ cur.form = "ast"
    /\ Step
    /\ cur' = Outcome(FromAst(cur.val, n), "model")
    /\ net' = n
    /\ UNCHANGED <<orig, firstWire, firstAst>>

Next ==
    \/ DoEncode
    \/ \E n \in Networks : DoDecode(n)
    \/ \E n \in Networks : DoToAst(n)
    \/ \E n \in Networks : DoFromAst(n)

(* A conversion chain is finite: it ends at the bound, at an error or at *)
(* a panic.                                                                *)
Spec == Init /\ [][Next]_vars

-----------------------------------------------------------------------------
(* The members of a model, wire or text node, and the element kinds it   *)
(* declares (of an Array; of a Map's keys and values).                    *)
Nested(x) ==
    (IF "elems" \in DOMAIN x THEN {x.elems[i] : i \in DOMAIN x.elems} ELSE {})
    \cup (IF "fields" \in DOMAIN x THEN {x.fields[i] : i \in DOMAIN x.fields} ELSE {})
    \cup (IF "entries" \in DOMAIN x
            THEN {x.entries[i][j] : i \in DOMAIN x.entries, j \in 1..2} ELSE {})
    \cup (IF "inner" \in DOMAIN x THEN {x.inner} ELSE {})
Declared(x) == {x[f] : f \in DOMAIN x \cap {"ek", "kk", "vk", "t", "kt", "vt"}}

(* Every node of x, at every depth, is tagged (field tag) with one of     *)
(* kinds and declares element kinds in decl only.                          *)
RECURSIVE Typed(_, _, _, _)
Typed(x, tag, kinds, decl) ==
    /\ x[tag] \in kinds
    /\ Declared(x) \subseteq decl
    /\ \A y \in Nested(x) : Typed(y, tag, kinds, decl)

ModelTyped(v) == Typed(v, "k", ValueKinds, ValueKinds)
WireTyped(w) == Typed(w, "wk", ScryptoKinds, ScryptoKinds)
AstTyped(a) == Typed(a, "ak", ValueKinds, AstTypes)

(* The errors the conversions return. *)
ErrorNames ==
    {"EncodeError", "HexDecodeError", "InvalidEnumDiscriminator",
     "InvalidExpressionString", "NonFungibleGlobalIdParseError",
     "OddNumberOfElements", "TransientIdentifierConversion",
     "UnexpectedAstContents", "Bech32DecodeError"}

(* Type invariant: every value of each form is built of that form's kinds *)
(* only, at every depth: a model value of ValueKind, a wire value of      *)
(* ScryptoValueKind (no Option, Result, Bytes or NonFungibleGlobalId), a  *)
(* text value declaring ast::Type element types (no Map), whatever chain *)
(* of conversions produced it.                                             *)
TypeOK ==
    /\ ModelTyped(orig)
    /\ steps \in 0..MaxSteps
    /\ net \in Networks
    /\ CASE cur.form = "model" -> ModelTyped(cur.val)
         [] cur.form = "wire" -> WireTyped(cur.val)
         [] cur.form = "ast" -> AstTyped(cur.val)
         [] cur.form = "error" -> cur.val \in ErrorNames
         [] cur.form = "panic" -> cur.val = "panic"
    /\ firstWire = NoRep \/ WireTyped(firstWire)
    /\ DOMAIN firstAst = Networks
    /\ \A n \in Networks : firstAst[n] = NoRep \/ AstTyped(firstAst[n])

(* The container invariant of the data model: the declared kind of an     *)
(* Array's elements and of a Map's keys and values is the kind of every   *)
(* element, key and value, at every depth.                                 *)
RECURSIVE Homogeneous(_)
Homogeneous(v) ==
    CASE v.k = "Array" ->
            \A i \in DOMAIN v.elems : Kind(v.elems[i]) = v.ek /\ Homogeneous(v.elems[i])
      [] v.k = "Map" ->
            \A i \in DOMAIN v.entries :
                /\ Kind(v.entries[i][1]) = v.kk /\ Homogeneous(v.entries[i][1])
                /\ Kind(v.entries[i][2]) = v.vk /\ Homogeneous(v.entries[i][2])
      [] v.k \in {"Tuple"} -> \A i \in DOMAIN v.elems : Homogeneous(v.elems[i])
      [] v.k = "Enum" -> \A i \in DOMAIN v.fields : Homogeneous(v.fields[i])
      [] v.k \in OptionResultKinds \ {"None"} -> Homogeneous(v.inner)
      [] OTHER -> TRUE

(* A value with no address in it (its wire form carries no network). *)
RECURSIVE NetworkFree(_)
NetworkFree(v) ==
    CASE v.k \in AddressKinds \cup {"NonFungibleGlobalId"} -> FALSE
      [] v.k \in {"Array", "Tuple"} -> \A i \in DOMAIN v.elems : NetworkFree(v.elems[i])
      [] v.k = "Map" ->
            \A i \in DOMAIN v.entries :
                NetworkFree(v.entries[i][1]) /\ NetworkFree(v.entries[i][2])
      [] v.k = "Enum" -> \A i \in DOMAIN v.fields : NetworkFree(v.fields[i])
      [] v.k \in OptionResultKinds \ {"None"} -> NetworkFree(v.inner)
      [] OTHER -> TRUE

(* Encoding what was decoded gives the bytes back: however a chain goes   *)
(* through decode (with any network) and encode, every wire form it       *)
(* produces is the first one.                                              *)
WireStable == cur.form = "wire" => cur.val = firstWire

(* No text has been written in this chain: it went through the wire only. *)
NoText == \A n \in Networks : firstAst[n] = NoRep

(* Encoding what was decoded gives the bytes back in a chain that never  *)
(* went through the text form (which can change them: value_cross_format). *)
WireStableWithoutText == NoText => WireStable

(* No wire form has been produced in this chain: it went through text only. *)
NoWire == firstWire = NoRep

(* Rendering what was parsed gives the text back: in a chain that never   *)
(* went through the wire form (which can change the text: decode reads   *)
(* Some, None, Ok and Err back as Enum and Bytes as an Array of U8, see   *)
(* value_wire_round_trip), every manifest text produced with the coder of *)
(* one network is the first one produced with that coder.                 *)
TextStableWithoutWire == NoWire /\ cur.form = "ast" => cur.val = firstAst[net]

(* Every value from_scrypto_value builds from bytes the codec accepted    *)
(* satisfies the container invariant (in a chain without text, where every *)
(* model value after the first comes from decode).                         *)
DecodedHomogeneous ==
    cur.form = "model" /\ steps > 0 /\ NoText => Homogeneous(cur.val)

(* The round-trip law of the value model: decode(encode(v), n) = v for a  *)
(* valid v that carries no network-dependent address.                     *)
WireRoundTrip ==
    cur.form = "model" /\ steps = 2 /\ Homogeneous(orig) /\ NetworkFree(orig)
        => cur.val = orig

(* encode refuses a value whose containers break the container            *)
(* invariant (HeterogeneousContainer).                                     *)
EncodeRejectsHeterogeneous == cur.form = "wire" => Homogeneous(orig)

(* from_ast_value reports a bad shape as an error and never panics. *)
FromAstTotal == cur.form # "panic"

=============================================================================
