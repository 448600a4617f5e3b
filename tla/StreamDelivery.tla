--------------------------- MODULE StreamDelivery ---------------------------
(***************************************************************************)
(* What a reliable (ACK) stream of the XMD transceiver promises to the     *)
(* application at its two ends, with nothing of how it is done.  The       *)
(* sender hands over groups of data and is called back once per group; the *)
(* receiver is given groups in the order they were sent, each at most      *)
(* once.  A group may be skipped, and a failed group may still arrive.     *)
(***************************************************************************)
EXTENDS Naturals

CONSTANT NumGroups     \* how many groups the application sends

Groups == 0 .. NumGroups - 1

VARIABLES
  sent,         \* groups handed to sendRTData: 0 .. sent - 1
  received,     \* groups every slice of which has reached the receiver
  delivered,    \* how often each group was given to RecvStreamData
  succ,         \* how often sendStreamDataSucc was called for each group
  fail          \* how often sendStreamDataFail was called for each group

vars == <<sent, received, delivered, succ, fail>>

Unanswered(g) == succ[g] = 0 /\ fail[g] = 0

Init ==
  /\ sent = 0
  /\ received = {}
  /\ delivered = [g \in Groups |-> 0]
  /\ succ = [g \in Groups |-> 0]
  /\ fail = [g \in Groups |-> 0]

Send ==
  /\ sent < NumGroups
  /\ sent' = sent + 1
  /\ UNCHANGED <<received, delivered, succ, fail>>

\* Data arrives, or waiting data is released: the groups in D are handed over.
\* Each is complete and later than everything handed over before.
Deliver(A, D) ==
  /\ A \subseteq 0 .. sent - 1
  /\ received' = received \union A
  /\ D \subseteq received'
  /\ \A d \in D, g \in Groups : delivered[g] > 0 => g < d
  /\ delivered' = [g \in Groups |-> IF g \in D THEN delivered[g] + 1 ELSE delivered[g]]
  /\ UNCHANGED <<sent, succ, fail>>

\* One acknowledgement may complete several groups.
Succeed(S) ==
  /\ S \subseteq received
  /\ \A g \in S : Unanswered(g)
  /\ succ' = [g \in Groups |-> IF g \in S THEN succ[g] + 1 ELSE succ[g]]
  /\ UNCHANGED <<sent, received, delivered, fail>>

Fail(g) ==
  /\ g < sent
  /\ Unanswered(g)
  /\ fail' = [fail EXCEPT ![g] = @ + 1]
  /\ UNCHANGED <<sent, received, delivered, succ>>

Next ==
  \/ Send
  \/ \E A, D \in SUBSET Groups : Deliver(A, D)
  \/ \E S \in SUBSET Groups : Succeed(S)
  \/ \E g \in Groups : Fail(g)

Spec == Init /\ [][Next]_vars

-----------------------------------------------------------------------------
\* What follows for the two applications: no group is given twice, what is given
\* is whole and was sent, and sendRTData gets one answer, a success only for a
\* group that is at the receiver.
Promised ==
  /\ received \subseteq 0 .. sent - 1
  /\ \A g \in Groups :
       /\ delivered[g] <= 1 /\ succ[g] + fail[g] <= 1
       /\ delivered[g] > 0 \/ succ[g] > 0 => g \in received
       /\ fail[g] > 0 => g < sent

\* The invariant that shows it.
Inv ==
  /\ sent \in Nat /\ received \subseteq Groups
  /\ delivered \in [Groups -> Nat] /\ succ \in [Groups -> Nat] /\ fail \in [Groups -> Nat]
  /\ Promised
=============================================================================
