---------------------------- MODULE MCRuntimeHost ----------------------------
(***************************************************************************)
(* Instances of RuntimeHost: two modules, the first of which initializes   *)
(* the second one, as fetch does with buffer (fetch/bundle.go).            *)
(***************************************************************************)
EXTENDS RuntimeHost

CONSTANTS k1, k2

MCUses == {<<k1, k2>>}
=============================================================================
