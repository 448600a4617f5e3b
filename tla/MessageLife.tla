----------------------------- MODULE MessageLife -----------------------------
(***************************************************************************)
(* What sendMessage and sendGroupMessage promise of one message, with      *)
(* nothing of the maps and threads.  It leaves at most once, however often *)
(* the connection is made again, and is never sent a second time; if it    *)
(* arrives, its acknowledgement may still be lost; an acknowledgement is   *)
(* reported at most once, and only if the server gave one.  A message sent *)
(* with sendMessage may be timed out, also before it has left, at most     *)
(* once, and not after its acknowledgement was dealt with.                 *)
(* What is not promised: any of the timeouts of a message whose entry was  *)
(* lost in a data race, and that a timed out message does not arrive.      *)
(***************************************************************************)
CONSTANT Timed      \* whether its timeout is reported: sendMessage

VARIABLES
  place,      \* "new", "taken", "queued", "left"
  answer,     \* "none", "due": at the server or on its way, "told", "settled"
  late,       \* its timeout was reported
  raced       \* its entry was lost or missed

vars == <<place, answer, late, raced>>

Init == place = "new" /\ answer = "none" /\ late = FALSE /\ raced = FALSE

Take ==
  /\ place = "new" /\ place' = "taken"
  /\ UNCHANGED <<answer, late, raced>>

Queue ==
  /\ place = "taken" /\ place' = "queued"
  /\ UNCHANGED <<answer, late, raced>>

\* It is written once; it may be lost.
Leave ==
  /\ place = "queued" /\ place' = "left"
  /\ answer' \in {answer, "due"}
  /\ UNCHANGED <<late, raced>>

Lose ==
  /\ answer = "due" /\ answer' = "none"
  /\ UNCHANGED <<place, late, raced>>

Tell ==
  /\ answer = "due" /\ answer' = "told"
  /\ UNCHANGED <<place, late, raced>>

\* The acknowledgement has been dealt with, or its entry has been missed.
Settle ==
  /\ answer = "told" /\ answer' = "settled"
  /\ raced => raced'
  /\ UNCHANGED <<place, late>>

TimeOut ==
  /\ Timed /\ ~late
  /\ place # "new"
  /\ raced \/ answer # "settled"
  /\ late' = TRUE
  /\ UNCHANGED <<place, answer, raced>>

Race ==
  /\ raced' = TRUE
  /\ UNCHANGED <<place, answer, late>>

Next == Take \/ Queue \/ Leave \/ Lose \/ Tell \/ Settle \/ TimeOut \/ Race

Spec == Init /\ [][Next]_vars
=============================================================================
