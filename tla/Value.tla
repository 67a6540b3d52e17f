------------------------------- MODULE Value -------------------------------
(***************************************************************************)
(* The value model of value.rs and its conversions to the wire form       *)
(* (ScryptoValue, what the SBOR codec writes) and to the manifest text    *)
(* (ast::Value).  The payloads are abstract: a number, a string, a raw    *)
(* address is a member of a small set, and only what a conversion does to *)
(* it is kept (an address loses its network on the wire and is rendered   *)
(* with the coder's network in text).  A conversion that can fail returns *)
(* a result record: [ok |-> TRUE, val |-> x] or [ok |-> FALSE, err |-> e].*)
(*                                                                         *)
(*   model value  [k |-> kind, ...]   (Value)                              *)
(*   wire value   [wk |-> kind, ...]  (ScryptoValue)                       *)
(*   text value   [ak |-> type, ...]  (ast::Value)                         *)
(*                                                                         *)
(* The conversions are recursive operators: this module is for TLC only. *)
(***************************************************************************)
EXTENDS Naturals, Sequences, ValueKind

CONSTANTS
    Raws,       \* the raw (network-free) addresses
    Locals,     \* the non-fungible local ids
    ByteSeqs    \* the byte strings a Bytes value may hold

-----------------------------------------------------------------------------
(* Results. *)
Ok(x) == [ok |-> TRUE, val |-> x]
Fail(e) == [ok |-> FALSE, err |-> e]

(* Kinds that are the same scalar on all three sides. *)
PrimitiveKinds ==
    {"Bool", "U8", "U16", "U32", "U64", "U128",
     "I8", "I16", "I32", "I64", "I128", "String"}

(* Custom kinds with an opaque payload, written in text as a string.      *)
StringWrappedKinds ==
    {"Decimal", "PreciseDecimal", "Hash", "EcdsaSecp256k1PublicKey",
     "EcdsaSecp256k1Signature", "EddsaEd25519PublicKey",
     "EddsaEd25519Signature", "NonFungibleLocalId", "Blob", "Expression"}

AddressKinds == {"ComponentAddress", "ResourceAddress", "PackageAddress"}
TransientKinds == {"Bucket", "Proof"}

(* The same record with its tag field renamed: the payload of a scalar  *)
(* is carried over unchanged between the three forms.                     *)
Retag(r, from, to) ==
    [f \in (DOMAIN r \ {from}) \cup {to} |-> IF f = to THEN r[from] ELSE r[f]]

(* Value::kind(): the kind is the variant tag, whatever the payload. *)
Kind(v) == v.k

(* KNOWN_ENUM_DISCRIMINATORS of the transaction compiler. *)
KnownDiscriminators ==
    [n \in {"Option::None", "Option::Some", "Result::Ok", "Result::Err"} |->
        IF n \in {"Option::None", "Result::Ok"} THEN 0 ELSE 1]

(* EnumDiscriminator::resolve_discriminator: a U8 is itself, a name must  *)
(* be a known one.                                                         *)
ResolveDiscriminator(variant) ==
    IF variant.tag = "U8" THEN Ok(variant.d)
    ELSE IF variant.name \in DOMAIN KnownDiscriminators
         THEN Ok(KnownDiscriminators[variant.name])
         ELSE Fail("InvalidEnumDiscriminator")

(* Option<Vec<Value>>::unwrap_or_default on an Enum's fields. *)
FieldsOrEmpty(v) == IF v.hasFields THEN v.fields ELSE <<>>

-----------------------------------------------------------------------------
(* hex::encode and hex::decode. *)
HexDigits == <<"0","1","2","3","4","5","6","7","8","9","a","b","c","d","e","f">>
ToHexDigit(d) == HexDigits[(d % 16) + 1]
HexByte(b) == ToHexDigit(b \div 16) \o ToHexDigit(b)

RECURSIVE HexEncode(_)
HexEncode(bytes) ==
    IF bytes = <<>> THEN "" ELSE HexByte(Head(bytes)) \o HexEncode(Tail(bytes))

HexDecode(s) ==
    IF \E b \in ByteSeqs : HexEncode(b) = s
       THEN Ok(CHOOSE b \in ByteSeqs : HexEncode(b) = s)
       ELSE Fail("HexDecodeError")

(* The bech32 text of an address: the entity's prefix, the network's      *)
(* prefix and the data.                                                    *)
EntityHrp ==
    [k \in AddressKinds |->
        IF k = "ComponentAddress" THEN "component"
        ELSE IF k = "ResourceAddress" THEN "resource" ELSE "package"]
NetworkHrp(n) == IF n = 1 THEN "rdx" ELSE "tdx_" \o HexByte(n)
Bech32(k, n, raw) == EntityHrp[k] \o "_" \o NetworkHrp(n) \o "1" \o raw

(* Decoding with the coder of network n succeeds only for the text of an  *)
(* address of that network and entity.                                     *)
Bech32Decode(k, n, s) ==
    IF \E r \in Raws : Bech32(k, n, r) = s
       THEN Ok(CHOOSE r \in Raws : Bech32(k, n, r) = s)
       ELSE Fail("Bech32DecodeError")

-----------------------------------------------------------------------------
(* Collecting a sequence of results into a result of a sequence, stopping *)
(* at the first failure (collect::<Result<Vec<_>>>()?).                   *)
RECURSIVE CollectAll(_)
CollectAll(rs) ==
    IF rs = <<>> THEN Ok(<<>>)
    ELSE IF ~Head(rs).ok THEN Head(rs)
    ELSE LET rest == CollectAll(Tail(rs))
         IN  IF rest.ok THEN Ok(<<Head(rs).val>> \o rest.val) ELSE rest

(* Value::to_scrypto_value. *)
RECURSIVE ToScrypto(_)
ToScryptoAll(s) == CollectAll([i \in DOMAIN s |-> ToScrypto(s[i])])
ToScrypto(v) ==
    CASE v.k \in PrimitiveKinds \cup StringWrappedKinds \cup {"Own"} ->
            Ok(Retag(v, "k", "wk"))
      [] v.k = "Enum" ->
            LET d == ResolveDiscriminator(v.variant)
                fs == ToScryptoAll(FieldsOrEmpty(v))
            IN  IF ~d.ok THEN d ELSE IF ~fs.ok THEN fs
                ELSE Ok([wk |-> "Enum", d |-> d.val, fields |-> fs.val])
      [] v.k \in OptionResultKinds ->
            LET name == IF v.k = "Some" THEN "Option::Some"
                        ELSE IF v.k = "None" THEN "Option::None"
                        ELSE IF v.k = "Ok" THEN "Result::Ok" ELSE "Result::Err"
                fs == IF v.k = "None" THEN Ok(<<>>) ELSE ToScryptoAll(<<v.inner>>)
            IN  IF ~fs.ok THEN fs
                ELSE Ok([wk |-> "Enum", d |-> KnownDiscriminators[name],
                         fields |-> fs.val])
      [] v.k = "Map" ->
            LET es == CollectAll([i \in DOMAIN v.entries |->
                         LET key == ToScrypto(v.entries[i][1])
                             val == ToScrypto(v.entries[i][2])
                         IN  IF ~key.ok THEN key ELSE IF ~val.ok THEN val
                             ELSE Ok(<<key.val, val.val>>)])
            IN  IF ~es.ok THEN es
                ELSE Ok([wk |-> "Map", kk |-> ToScryptoKind[v.kk],
                         vk |-> ToScryptoKind[v.vk], entries |-> es.val])
      [] v.k = "Array" ->
            LET es == ToScryptoAll(v.elems)
            IN  IF ~es.ok THEN es
                ELSE Ok([wk |-> "Array", ek |-> ToScryptoKind[v.ek], elems |-> es.val])
      [] v.k = "Tuple" ->
            LET es == ToScryptoAll(v.elems)
            IN  IF ~es.ok THEN es ELSE Ok([wk |-> "Tuple", elems |-> es.val])
      [] v.k \in AddressKinds ->
            Ok([wk |-> v.k, raw |-> v.raw])
      [] v.k \in TransientKinds ->
            IF v.id.tag = "U32" THEN Ok([wk |-> v.k, n |-> v.id.n])
                                ELSE Fail("TransientIdentifierConversion")
      [] v.k = "NonFungibleGlobalId" ->
            Ok([wk |-> "Tuple",
                elems |-> <<[wk |-> "ResourceAddress", raw |-> v.raw],
                            [wk |-> "NonFungibleLocalId", s |-> v.local]>>])
      [] v.k = "Bytes" ->
            Ok([wk |-> "Array", ek |-> "U8",
                elems |-> [i \in DOMAIN v.bytes |-> [wk |-> "U8", n |-> v.bytes[i]]]])

(* The kind a wire value is encoded with. *)
WireKind(w) == w.wk

(* What the SBOR encoder checks of a ScryptoValue before writing it: the  *)
(* elements of an Array, and the keys and values of a Map, have the       *)
(* declared kinds.                                                         *)
RECURSIVE WireWellFormed(_)
WireWellFormed(w) ==
    CASE w.wk = "Array" ->
            \A i \in DOMAIN w.elems :
                WireKind(w.elems[i]) = w.ek /\ WireWellFormed(w.elems[i])
      [] w.wk = "Map" ->
            \A i \in DOMAIN w.entries :
                /\ WireKind(w.entries[i][1]) = w.kk
                /\ WireKind(w.entries[i][2]) = w.vk
                /\ WireWellFormed(w.entries[i][1])
                /\ WireWellFormed(w.entries[i][2])
      [] w.wk \in {"Enum", "Tuple"} ->
            LET es == IF w.wk = "Enum" THEN w.fields ELSE w.elems
            IN  \A i \in DOMAIN es : WireWellFormed(es[i])
      [] OTHER -> TRUE

(* A faulty variant: the codec's container check is missing. *)
EncodeUnchecked(v) == ToScrypto(v)

(* Value::encode: to_scrypto_value, then scrypto_encode, which refuses a   *)
(* value that is not well formed.  The bytes are represented by the       *)
(* ScryptoValue they encode.                                               *)
Encode(v) ==
    LET w == ToScrypto(v)
    IN  IF ~w.ok THEN w
        ELSE IF WireWellFormed(w.val) THEN w ELSE Fail("EncodeError")

(* Value::from_scrypto_value, with the network the caller supplies. *)
RECURSIVE FromScrypto(_, _)
FromScryptoAll(s, n) == [i \in DOMAIN s |-> FromScrypto(s[i], n)]
FromScrypto(w, n) ==
    CASE w.wk \in PrimitiveKinds \cup StringWrappedKinds \cup {"Own"} ->
            Retag(w, "wk", "k")
      [] w.wk = "Enum" ->
            [k |-> "Enum", variant |-> [tag |-> "U8", d |-> w.d],
             hasFields |-> w.fields # <<>>,
             fields |-> FromScryptoAll(w.fields, n)]
      [] w.wk = "Map" ->
            [k |-> "Map", kk |-> FromScryptoKind[w.kk], vk |-> FromScryptoKind[w.vk],
             entries |-> [i \in DOMAIN w.entries |->
                            <<FromScrypto(w.entries[i][1], n),
                              FromScrypto(w.entries[i][2], n)>>]]
      [] w.wk = "Array" ->
            [k |-> "Array", ek |-> FromScryptoKind[w.ek],
             elems |-> FromScryptoAll(w.elems, n)]
      [] w.wk = "Tuple" ->
            [k |-> "Tuple", elems |-> FromScryptoAll(w.elems, n)]
      [] w.wk \in AddressKinds ->
            [k |-> w.wk, net |-> n, raw |-> w.raw]
      [] w.wk \in TransientKinds ->
            [k |-> w.wk, id |-> [tag |-> "U32", n |-> w.n]]

(* Value::decode of bytes the codec reads back as w. *)
Decode(w, n) == Ok(FromScrypto(w, n))

-----------------------------------------------------------------------------
(* An ast::Value::String. *)
AstString(str) == [ak |-> "String", s |-> str]

(* Value::to_ast_value with the bech32 coder of network n. *)
RECURSIVE ToAst(_, _)
ToAstAll(s, n) == CollectAll([i \in DOMAIN s |-> ToAst(s[i], n)])
ToAst(v, n) ==
    CASE v.k \in PrimitiveKinds -> Ok(Retag(v, "k", "ak"))
      [] v.k = "Enum" ->
            LET d == ResolveDiscriminator(v.variant)
                fs == ToAstAll(FieldsOrEmpty(v), n)
            IN  IF ~d.ok THEN d ELSE IF ~fs.ok THEN fs
                ELSE Ok([ak |-> "Enum", d |-> d.val, fields |-> fs.val])
      [] v.k = "None" -> Ok([ak |-> "None"])
      [] v.k \in OptionResultKinds \ {"None"} ->
            LET x == ToAst(v.inner, n)
            IN  IF ~x.ok THEN x ELSE Ok([ak |-> v.k, inner |-> x.val])
      [] v.k = "Array" ->
            LET es == ToAstAll(v.elems, n)
            IN  IF ~es.ok THEN es
                ELSE Ok([ak |-> "Array", t |-> ToAstType[v.ek], elems |-> es.val])
      [] v.k = "Map" ->
            LET flat == [i \in 1..(2 * Len(v.entries)) |->
                            v.entries[(i + 1) \div 2][2 - (i % 2)]]
                es == ToAstAll(flat, n)
            IN  IF ~es.ok THEN es
                ELSE Ok([ak |-> "Map", kt |-> ToAstType[v.kk],
                         vt |-> ToAstType[v.vk], elems |-> es.val])
      [] v.k = "Tuple" ->
            LET es == ToAstAll(v.elems, n)
            IN  IF ~es.ok THEN es ELSE Ok([ak |-> "Tuple", elems |-> es.val])
      [] v.k \in StringWrappedKinds ->
            Ok([ak |-> v.k, inner |-> AstString(v.s)])
      [] v.k \in AddressKinds ->
            Ok([ak |-> v.k, inner |-> AstString(Bech32(v.k, n, v.raw))])
      [] v.k \in TransientKinds ->
            Ok([ak |-> v.k,
                inner |-> IF v.id.tag = "String" THEN AstString(v.id.s)
                          ELSE [ak |-> "U32", n |-> v.id.n]])
      [] v.k = "NonFungibleGlobalId" ->
            Ok([ak |-> v.k,
                inner |-> AstString(Bech32("ResourceAddress", n, v.raw) \o ":" \o v.local)])
      [] v.k = "Bytes" -> Ok([ak |-> v.k, inner |-> AstString(HexEncode(v.bytes))])
      [] v.k = "Own" -> Ok([ak |-> v.k, inner |-> AstString(v.s)])

(* map_if_value_string: the payload of a string-wrapped literal must be a *)
(* String node; its string is handed on to the parser of the kind.        *)
MapIfValueString(a) ==
    IF a.inner.ak = "String" THEN Ok(a.inner.s) ELSE Fail("UnexpectedAstContents")

(* NonFungibleGlobalId::try_from_canonical_string with the decoder of     *)
(* network n: a resource address of that network, ':' and a local id.     *)
ParseGlobalId(n, str) ==
    IF \E r \in Raws, l \in Locals : Bech32("ResourceAddress", n, r) \o ":" \o l = str
       THEN LET p == CHOOSE p \in Raws \X Locals :
                        Bech32("ResourceAddress", n, p[1]) \o ":" \o p[2] = str
            IN  Ok([k |-> "NonFungibleGlobalId", net |-> n, raw |-> p[1], local |-> p[2]])
       ELSE Fail("NonFungibleGlobalIdParseError")

(* Value::from_ast_value with the bech32 coder of network n.  Own has no  *)
(* parser: the todo!() panics.                                             *)
RECURSIVE FromAst(_, _)
FromAstAll(s, n) == CollectAll([i \in DOMAIN s |-> FromAst(s[i], n)])
FromAst(a, n) ==
    CASE a.ak \in PrimitiveKinds -> Ok(Retag(a, "ak", "k"))
      [] a.ak = "Enum" ->
            LET fs == FromAstAll(a.fields, n)
            IN  IF ~fs.ok THEN fs
                ELSE Ok([k |-> "Enum", variant |-> [tag |-> "U8", d |-> a.d],
                         hasFields |-> a.fields # <<>>, fields |-> fs.val])
      [] a.ak = "None" -> Ok([k |-> "None"])
      [] a.ak \in OptionResultKinds \ {"None"} ->
            LET x == FromAst(a.inner, n)
            IN  IF ~x.ok THEN x ELSE Ok([k |-> a.ak, inner |-> x.val])
      [] a.ak = "Map" ->
            IF Len(a.elems) % 2 # 0 THEN Fail("OddNumberOfElements")
            ELSE LET es == FromAstAll(a.elems, n)
                 IN  IF ~es.ok THEN es
                     ELSE Ok([k |-> "Map", kk |-> FromAstType[a.kt],
                              vk |-> FromAstType[a.vt],
                              entries |-> [i \in 1..(Len(a.elems) \div 2) |->
                                             <<es.val[2 * i - 1], es.val[2 * i]>>]])
      [] a.ak = "Array" ->
            LET es == FromAstAll(a.elems, n)
            IN  IF ~es.ok THEN es
                ELSE Ok([k |-> "Array", ek |-> FromAstType[a.t], elems |-> es.val])
      [] a.ak = "Tuple" ->
            LET es == FromAstAll(a.elems, n)
            IN  IF ~es.ok THEN es ELSE Ok([k |-> "Tuple", elems |-> es.val])
      [] a.ak = "Expression" ->
            LET str == MapIfValueString(a)
            IN  IF ~str.ok THEN str
                ELSE IF str.val \in {"ENTIRE_WORKTOP", "ENTIRE_AUTH_ZONE"}
                THEN Ok([k |-> a.ak, s |-> str.val])
                ELSE Fail("InvalidExpressionString")
      [] a.ak = "NonFungibleLocalId" ->
            IF a.inner.ak = "String" THEN Ok([k |-> a.ak, s |-> a.inner.s])
                                     ELSE Fail("UnexpectedAstContents")
      [] a.ak \in StringWrappedKinds ->
            LET str == MapIfValueString(a)
            IN  IF ~str.ok THEN str ELSE Ok([k |-> a.ak, s |-> str.val])
      [] a.ak \in AddressKinds ->
            LET str == MapIfValueString(a)
                r == Bech32Decode(a.ak, n, str.val)
            IN  IF ~str.ok THEN str
                ELSE IF r.ok THEN Ok([k |-> a.ak, net |-> n, raw |-> r.val]) ELSE r
      [] a.ak \in TransientKinds ->
            IF a.inner.ak \in {"U32", "String"}
               THEN Ok([k |-> a.ak, id |-> Retag(a.inner, "ak", "tag")])
               ELSE Fail("UnexpectedAstContents")
      [] a.ak = "NonFungibleGlobalId" ->
            IF a.inner.ak = "String" THEN ParseGlobalId(n, a.inner.s)
                                     ELSE Fail("UnexpectedAstContents")
      [] a.ak = "Bytes" ->
            LET str == MapIfValueString(a)
                b == HexDecode(str.val)
            IN  IF ~str.ok THEN str
                ELSE IF b.ok THEN Ok([k |-> "Bytes", bytes |-> b.val]) ELSE b
      [] a.ak = "Own" -> Fail("panic")

=============================================================================
