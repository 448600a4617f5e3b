---------------------------- MODULE MCImReceive ----------------------------
(***************************************************************************)
(* A few stored messages for TLC.                                          *)
(***************************************************************************)
EXTENDS ImReceive

\* One of each kind, and one more.
MixedKinds == [s \in 1 .. 4 |-> IF s = 2 THEN "p2t" ELSE IF s = 3 THEN "other" ELSE "p2p"]
BothKinds == [s \in 1 .. 2 |-> IF s = 1 THEN "p2p" ELSE "p2t"]
=============================================================================
