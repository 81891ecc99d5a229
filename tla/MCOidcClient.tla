---------------------------- MODULE MCOidcClient ----------------------------
(* OidcClient for TLC: the keys k2 and k3 share an id.                     *)
EXTENDS OidcClient, TLC

CONSTANTS k1, k2, k3
Keys == {k1, k2, k3}
Kids == k1 :> "a" @@ k2 :> "b" @@ k3 :> "b"
Symmetry == Permutations(Login) \cup Permutations({k2, k3})
=============================================================================
