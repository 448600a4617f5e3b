------------------------------ MODULE MCImSend ------------------------------
(***************************************************************************)
(* A few messages for TLC.                                                 *)
(***************************************************************************)
EXTENDS ImSend
=============================================================================
