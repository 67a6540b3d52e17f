---------------------------- MODULE MCTraversal ----------------------------
(***************************************************************************)
(* Small instance of the traversal: manifests of up to three instructions *)
(* with up to two argument values each, two value visitors whose rewrites *)
(* do not commute (so that their order shows in what is observed), and    *)
(* two instruction visitors.                                               *)
(***************************************************************************)
EXTENDS Traversal

MCVals == {0, 1, 2}

(* Every argument list of length at most two over {0, 1}. *)
MCArgs == {<<>>} \cup {<<x>> : x \in {0, 1}} \cup {<<x, y>> : x, y \in {0, 1}}

(* Every manifest of at most three such instructions. *)
MCManifests ==
    {<<>>} \cup {<<a>> : a \in MCArgs} \cup {<<a, b>> : a, b \in MCArgs}
           \cup {<<a, b, c>> : a, b, c \in MCArgs}

(* Visitor 1 turns 0 into 1, visitor 2 turns 1 into 2: in this order 0    *)
(* ends as 2, in the other order as 1.                                     *)
MCAlias ==
    <<[x \in MCVals |-> IF x = 0 THEN 1 ELSE x],
      [x \in MCVals |-> IF x = 1 THEN 2 ELSE x]>>

=============================================================================
