-------------------------------- MODULE MCKV --------------------------------
(***************************************************************************)
(* Values for the constants of KV that a configuration cannot write.       *)
(***************************************************************************)
EXTENDS KV

CONSTANTS k1, k2

\* A key may be asked for twice.
MCBulkKeys == <<k1, k2, k1>>
=============================================================================
