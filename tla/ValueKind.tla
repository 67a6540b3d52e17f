----------------------------- MODULE ValueKind -----------------------------
(***************************************************************************)
(* The closed enumeration ValueKind of value.rs and its four conversions: *)
(* to and from the wire kinds of the SBOR codec (ScryptoValueKind), and to *)
(* and from the types of the manifest text (ast::Type).  A kind is named  *)
(* by its Rust identifier; a custom wire kind (ScryptoValueKind::Custom)  *)
(* is named by its custom kind, which always has the name of the          *)
(* ValueKind it comes from.                                               *)
(***************************************************************************)

(* ValueKind, value.rs lines 342-395. *)
ValueKinds ==
    { "Bool", "U8", "U16", "U32", "U64", "U128",
      "I8", "I16", "I32", "I64", "I128", "String",
      "Enum", "Some", "None", "Ok", "Err", "Map", "Array", "Tuple",
      "Decimal", "PreciseDecimal", "Own",
      "ComponentAddress", "ResourceAddress", "PackageAddress", "Hash",
      "EcdsaSecp256k1PublicKey", "EcdsaSecp256k1Signature",
      "EddsaEd25519PublicKey", "EddsaEd25519Signature",
      "Bucket", "Proof", "NonFungibleLocalId", "NonFungibleGlobalId",
      "Expression", "Blob", "Bytes" }

(* The four kinds the wire form has no kind of its own for: they travel   *)
(* as an Enum with a well-known discriminator.                            *)
OptionResultKinds == {"Some", "None", "Ok", "Err"}

(* The kinds of ScryptoValueKind (with its custom kinds): every ValueKind *)
(* except the four above, Bytes (an Array of U8 on the wire) and          *)
(* NonFungibleGlobalId (a Tuple on the wire).                              *)
ScryptoKinds == ValueKinds \ (OptionResultKinds \cup {"Bytes", "NonFungibleGlobalId"})

(* The types of ast::Type: every ValueKind except the four above and Map. *)
AstTypes == ValueKinds \ (OptionResultKinds \cup {"Map"})

(* A faulty variant: the Bytes arm forgets that Bytes travel as an Array *)
(* of U8 and names a wire kind the codec does not have.                   *)
ToScryptoKindBytesKept ==
    [k \in ValueKinds |->
        IF k \in OptionResultKinds THEN "Enum"
        ELSE IF k = "NonFungibleGlobalId" THEN "Tuple"
        ELSE k]

(* From<ValueKind> for ScryptoValueKind, value.rs lines 1383-1454. *)
ToScryptoKind ==
    [k \in ValueKinds |->
        IF k \in OptionResultKinds THEN "Enum"
        ELSE IF k = "Bytes" THEN "Array"
        ELSE IF k = "NonFungibleGlobalId" THEN "Tuple"
        ELSE k]

(* A faulty variant: a copy-paste slip in the integer arms reads a U8    *)
(* wire kind as U16.                                                       *)
FromScryptoKindU8AsU16 == [k \in ScryptoKinds |-> IF k = "U8" THEN "U16" ELSE k]

(* From<ScryptoValueKind> for ValueKind, value.rs lines 1328-1381. *)
FromScryptoKind == [k \in ScryptoKinds |-> k]

(* From<ValueKind> for ast::Type, value.rs lines 1222-1276. *)
ToAstType ==
    [k \in ValueKinds |->
        IF k \in OptionResultKinds THEN "Enum"
        ELSE IF k = "Map" THEN "Array"
        ELSE k]

(* A faulty variant: a Tuple type in the text is read as Array.          *)
FromAstTypeTupleAsArray == [t \in AstTypes |-> IF t = "Tuple" THEN "Array" ELSE t]

(* From<ast::Type> for ValueKind, value.rs lines 1278-1326. *)
FromAstType == [t \in AstTypes |-> t]

=============================================================================
