------------------------ MODULE MCReceiverConversions ------------------------
(* Two node ids written as two of three strings, so that a Global or a    *)
(* Bucket name can be a node id text, and one string is not.               *)
EXTENDS ReceiverConversions

CONSTANTS s1, s2, s3, x1, x2

MCStrings == {s1, s2, s3}
MCNodeIds == {x1, x2}
MCNodeIdText == [x \in MCNodeIds |-> IF x = x1 THEN s1 ELSE s2]
MCU32s == {0, 7}
=============================================================================
