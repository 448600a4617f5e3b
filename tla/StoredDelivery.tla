--------------------------- MODULE StoredDelivery ---------------------------
(***************************************************************************)
(* What is promised of messages that the server has stored for a user,     *)
(* with nothing of packets and connections.  They are handed over from the *)
(* front: a batch lies within the Limit messages that follow a stretch in  *)
(* which all is settled.  If more than Limit are waiting, the application  *)
(* is told to fetch them itself.  The server forgets only what is settled, *)
(* and only from the front.                                                *)
(* What is not promised: that a message is handed over once only, or that  *)
(* a batch the handlers refused in part comes again in one piece.          *)
(***************************************************************************)
EXTENDS Integers

CONSTANTS
  Limit,      \* how many messages are pushed at a time
  Skipped     \* messages that are not for a handler

VARIABLES
  stored,     \* messages 1 .. stored were stored,
  forgotten,  \* and 1 .. forgotten are forgotten
  accepted,   \* the application accepted these
  told        \* and is to fetch these

vars == <<stored, forgotten, accepted, told>>

Settled == accepted \union told \union Skipped

\* after + 1 .. max is what may be handed over or announced.
Stretch(after, max) == after <= max /\ max <= stored /\ 1 .. after \subseteq Settled

Init == stored = 0 /\ forgotten = 0 /\ accepted = {} /\ told = {}

Store ==
  /\ stored' = stored + 1
  /\ UNCHANGED <<forgotten, accepted, told>>

Accept(after, max) ==
  /\ Stretch(after, max)
  /\ max - after <= Limit
  /\ accepted \subseteq accepted'
  /\ accepted' \subseteq accepted \union (after + 1 .. max)
  /\ UNCHANGED <<stored, forgotten, told>>

Tell(after, max) ==
  /\ Stretch(after, max)
  /\ max - after > Limit
  /\ told' = told \union (after + 1 .. max)
  /\ UNCHANGED <<stored, forgotten, accepted>>

Forget ==
  /\ forgotten' \in forgotten .. stored
  /\ 1 .. forgotten' \subseteq Settled
  /\ UNCHANGED <<stored, accepted, told>>

Next ==
  \/ Store
  \/ \E after, max \in 0 .. stored : Accept(after, max) \/ Tell(after, max)
  \/ Forget

Spec == Init /\ [][Next]_vars
-----------------------------------------------------------------------------
\* What follows of every state: what is forgotten is settled, and whatever was
\* accepted was stored and at most Limit messages ahead of what was settled.
Promised ==
  /\ forgotten <= stored
  /\ 1 .. forgotten \subseteq Settled
  /\ accepted \union told \subseteq 1 .. stored
  /\ \A s \in accepted :
       \E after \in 0 .. stored :
         1 .. after \subseteq Settled /\ after < s /\ s <= after + Limit

Inv ==
  /\ stored \in Nat
  /\ forgotten \in Nat
  /\ Promised
=============================================================================
