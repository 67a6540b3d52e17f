------------------------- MODULE MCValueConversions -------------------------
(***************************************************************************)
(* Small instance of the value conversions.  The values are built to     *)
(* depth two from one representative of every kind family: a primitive,  *)
(* a string, a string-wrapped custom value, an address on each of two    *)
(* networks, a bucket with a numeric and with a named id, a local and a  *)
(* global non-fungible id, bytes, an owned node, None, and the           *)
(* containers Some, Ok, Enum (by index and by well-known name, with no,  *)
(* empty and one field), Array (declaring one of a few element kinds),   *)
(* Map and Tuple, each with at most one element.                          *)
(***************************************************************************)
EXTENDS ValueConversions

MCNetworks == {1, 2}
MCRaws == {"q"}
MCLocals == {"#1#"}
MCByteSeqs == {<<>>, <<10>>}

MCLeaves ==
    { [k |-> "U8", n |-> 7],
      [k |-> "String", s |-> "s"],
      [k |-> "Decimal", s |-> "1.5"],
      [k |-> "Expression", s |-> "ENTIRE_WORKTOP"],
      [k |-> "Bucket", id |-> [tag |-> "U32", n |-> 1]],
      [k |-> "Bucket", id |-> [tag |-> "String", s |-> "b"]],
      [k |-> "NonFungibleLocalId", s |-> "#1#"],
      [k |-> "Bytes", bytes |-> <<10>>],
      [k |-> "Own", s |-> "o"],
      [k |-> "None"] }
    \cup { [k |-> "ComponentAddress", net |-> n, raw |-> "q"] : n \in MCNetworks }
    \cup { [k |-> "NonFungibleGlobalId", net |-> n, raw |-> "q", local |-> "#1#"]
             : n \in MCNetworks }

(* Element kinds an Array or a Map may declare. *)
MCElemKinds == {"U8", "Enum", "Map", "Bytes", "Tuple"}

(* Sequences of at most one member of S. *)
UpToOne(S) == {<<>>} \cup {<<x>> : x \in S}

MCContainers(S) ==
    { [k |-> c, inner |-> x] : c \in {"Some", "Ok"}, x \in S }
    \cup { [k |-> "Enum", variant |-> var, hasFields |-> h, fields |-> fs]
             : var \in {[tag |-> "U8", d |-> 3], [tag |-> "String", name |-> "Option::Some"]},
               h \in BOOLEAN, fs \in UpToOne(S) }
    \cup { [k |-> "Array", ek |-> e, elems |-> es] : e \in MCElemKinds, es \in UpToOne(S) }
    \cup { [k |-> "Map", kk |-> "U8", vk |-> e, entries |-> es]
             : e \in MCElemKinds, es \in UpToOne({[k |-> "U8", n |-> 7]} \X S) }
    \cup { [k |-> "Tuple", elems |-> es] : es \in UpToOne(S) }

(* An Enum without fields has an empty field list. *)
WellFormedEnum(v) == v.k = "Enum" /\ ~v.hasFields => v.fields = <<>>

MCDepthOne == {v \in MCContainers(MCLeaves) : WellFormedEnum(v)}

(* Depth two: containers around the depth-one Maps, Enums and Arrays. *)
MCDepthTwo ==
    { v \in MCContainers({x \in MCDepthOne : x.k \in {"Map", "Enum", "Array"}
                                            /\ x.k = "Map" => x.entries = <<>>})
        : WellFormedEnum(v) /\ v.k \in {"Array", "Tuple"} }

MCUniverse == MCLeaves \cup MCDepthOne \cup MCDepthTwo

=============================================================================
