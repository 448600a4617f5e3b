----------------------------- MODULE MCP2PCall -----------------------------
(* The small instance for TLC. *)
EXTENDS P2PCall
=============================================================================
