---------------------------- MODULE MCEventLoop ----------------------------
(***************************************************************************)
(* Instances of EventLoop for TLC.  Every constant is given in the .cfg    *)
(* files: sets of model values, one file per question.                     *)
(***************************************************************************)
EXTENDS EventLoop
=============================================================================
