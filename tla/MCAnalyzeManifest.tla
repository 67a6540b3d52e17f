------------------------- MODULE MCAnalyzeManifest -------------------------
EXTENDS AnalyzeManifest

MCNetworks == {1, 2}

(* One variant from each match arm of EncounteredComponents::from, and    *)
(* both virtual identities, whose arm is the easiest to get wrong.        *)
MCComponentClasses ==
    {"Normal", "Account", "EddsaEd25519VirtualAccount",
     "EcdsaSecp256k1VirtualIdentity", "EddsaEd25519VirtualIdentity",
     "Clock", "EpochManager", "Validator", "AccessController"}

(* An instruction names no component address or one. *)
MCArgumentSets == {{}} \cup {{a} : a \in Address}
=============================================================================
