----------------------------- MODULE MCXmdConn -----------------------------
(***************************************************************************)
(* One small connection for TLC: the constants are in the configuration.   *)
(***************************************************************************)
EXTENDS XmdConn
=============================================================================
