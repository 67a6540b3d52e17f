----------------------- MODULE MCIdentityInteractions -----------------------
(* Two static addresses, one an identity, and one named address that     *)
(* is_identity accepts; three methods with auth lists that overlap        *)
(* between modules but differ; all manifests of up to three calls.       *)
EXTENDS IdentityInteractions

CONSTANTS i1, c1, n1, m1, m2, m3

MCManifests ==
    UNION {[1..k -> [module : Modules,
                     addr : [kind : {"Static"}, a : {i1, c1}]
                              \cup [kind : {"Named"}, n : {n1}],
                     method : {m1, m2, m3}]] : k \in 0..3}
=============================================================================
