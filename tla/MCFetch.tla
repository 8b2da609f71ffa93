------------------------------- MODULE MCFetch -------------------------------
(***************************************************************************)
(* Values for the constants of Fetch that a configuration cannot write.    *)
(***************************************************************************)
EXTENDS Fetch

\* A chunk that may be read in parts and one without bytes.
MCSizes == <<2, 0>>
=============================================================================
