---------------------------- MODULE ConnLifecycle ----------------------------
(***************************************************************************)
(* What the XMD transceiver promises to the applications at the two ends   *)
(* of one connection.  The creator asks for it and gets at most one answer,*)
(* and a success only when the acceptor was told of the connection.  A     *)
(* connection that has ended at its creator stays ended.  And an end loses *)
(* the connection to its peer only if some end gave it up: its application *)
(* closed it, its creation failed, or it heard nothing for too long.       *)
(***************************************************************************)
EXTENDS Naturals

Ends == {"creator", "acceptor"}

VARIABLES
  creator,    \* "idle", "asked", "up", "over"
  acceptor,   \* "idle", "up", "over"
  gaveUp,     \* the ends that gave the connection up
  succ,       \* calls of ConnCreateSucc
  fail        \* calls of ConnCreateFail

vars == <<creator, acceptor, gaveUp, succ, fail>>

Init ==
  /\ creator = "idle"
  /\ acceptor = "idle"
  /\ gaveUp = {}
  /\ succ = 0
  /\ fail = 0

Ask ==
  /\ creator = "idle"
  /\ creator' = "asked"
  /\ UNCHANGED <<acceptor, gaveUp, succ, fail>>

\* A repeated request may make the connection once more.
Accept ==
  /\ creator # "idle"
  /\ acceptor # "up"
  /\ acceptor' = "up"
  /\ UNCHANGED <<creator, gaveUp, succ, fail>>

Succeed ==
  /\ creator = "asked"
  /\ acceptor # "idle"
  /\ succ = 0 /\ fail = 0
  /\ creator' = "up"
  /\ succ' = 1
  /\ UNCHANGED <<acceptor, gaveUp, fail>>

Fail ==
  /\ creator = "asked"
  /\ succ = 0 /\ fail = 0
  /\ creator' = "over"
  /\ fail' = 1
  /\ gaveUp' = gaveUp \union {"creator"}
  /\ UNCHANGED <<acceptor, succ>>

\* The connection is over at end e.
Over(e) ==
  /\ \/ e = "creator" /\ creator \in {"asked", "up"}
        /\ creator' = "over" /\ UNCHANGED acceptor
     \/ e = "acceptor" /\ acceptor = "up"
        /\ acceptor' = "over" /\ UNCHANGED creator
  /\ UNCHANGED <<succ, fail>>

GiveUp(e) == Over(e) /\ gaveUp' = gaveUp \union {e}

\* The peer no longer has the connection.
Follow(e) == gaveUp # {} /\ Over(e) /\ UNCHANGED gaveUp

Next ==
  \/ Ask
  \/ Accept
  \/ Succeed
  \/ Fail
  \/ \E e \in Ends : GiveUp(e) \/ Follow(e)

Spec == Init /\ [][Next]_vars

-----------------------------------------------------------------------------
\* What follows for the two applications: one answer to a creation, a success
\* only with a peer that was told, a connection that is up was answered with a
\* success and a failed one is over, and nothing is over unless it was given up.
Promised ==
  /\ succ + fail <= 1
  /\ succ = 1 => acceptor # "idle"
  /\ creator = "up" => succ = 1
  /\ fail = 1 => creator = "over"
  /\ creator = "over" \/ acceptor = "over" => gaveUp # {}

\* The invariant that shows it.
Inv ==
  /\ creator \in {"idle", "asked", "up", "over"} /\ acceptor \in {"idle", "up", "over"}
  /\ succ \in 0 .. 1 /\ fail \in 0 .. 1
  /\ creator = "idle" => acceptor = "idle"
  /\ Promised
=============================================================================
