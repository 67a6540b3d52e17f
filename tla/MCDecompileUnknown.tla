------------------------- MODULE MCDecompileUnknown -------------------------
(* Five discriminators, three of them the formats', and five bodies, some *)
(* of which decode in two formats, so that a body of one format behind   *)
(* the discriminator of another is among the payloads.                   *)
EXTENDS DecompileUnknown

CONSTANTS d1, d2, d3, d4, d5, b1, b2, b3, b4, b5

MCDiscs == {d1, d2, d3, d4, d5}
MCDisc == [f \in Formats |->
             IF f = "Intent" THEN d1 ELSE IF f = "SignedIntent" THEN d2 ELSE d3]
MCBodies == {b1, b2, b3, b4, b5}
MCWellFormed == [f \in Formats |->
                   IF f = "Intent" THEN {b1, b2}
                   ELSE IF f = "SignedIntent" THEN {b2, b3} ELSE {b3, b4}]
=============================================================================
