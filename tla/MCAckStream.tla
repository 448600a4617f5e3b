---------------------------- MODULE MCAckStream ----------------------------
(***************************************************************************)
(* Small streams for TLC.                                                  *)
(***************************************************************************)
EXTENDS AckStream

\* A group of two slices, then one of one.
DoubleSingle == [g \in 0 .. 1 |-> IF g = 0 THEN 2 ELSE 1]
\* A group of two slices, then two of one.
SingleTail == [g \in 0 .. 2 |-> IF g = 0 THEN 2 ELSE 1]
\* The first group is resent for ever.
Forever == [g \in 0 .. 2 |-> IF g = 0 THEN -1 ELSE 0]
\* The second group is resent once.
SecondOnce == [g \in 0 .. 1 |-> g]
=============================================================================
