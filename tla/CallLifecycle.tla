---------------------------- MODULE CallLifecycle ----------------------------
(***************************************************************************)
(* What the call table promises the application about one call, with       *)
(* nothing of the threads that keep it.  A call waits, then may run, then  *)
(* is gone, and never goes back.  It is launched at most once, and only    *)
(* while it waits.  A dialled call gets one verdict: accepted, once, or    *)
(* refused, never both.  An end is reported only of a call that is gone.   *)
(* What is not promised: that the end of a call is reported at all, that   *)
(* it is reported once, and that it is reported after the acceptance.      *)
(***************************************************************************)
EXTENDS Naturals

CONSTANT Dialled    \* whether this user dialled the call, or was invited

Ends == {"refused", "closed"}
Callbacks == {"launched", "accepted"} \union Ends

VARIABLES
  state,      \* "new", "waiting", "running", "gone"
  owed,       \* callbacks that some thread is on its way to make
  told        \* how often each callback was made

vars == <<state, owed, told>>

Init ==
  /\ state = "new"
  /\ owed = {}
  /\ told = [k \in Callbacks |-> 0]

Accepted == "accepted" \in owed \/ told["accepted"] > 0

Enter ==
  /\ state = "new"
  /\ state' = "waiting"
  /\ UNCHANGED <<owed, told>>

\* The application is asked whether it takes the call.
Launch ==
  /\ ~Dialled /\ state = "waiting"
  /\ told["launched"] = 0
  /\ told' = [told EXCEPT !["launched"] = 1]
  /\ UNCHANGED <<state, owed>>

Accept ==
  /\ state = "waiting"
  /\ state' = "running"
  /\ owed' = IF Dialled THEN owed \union {"accepted"} ELSE owed
  /\ UNCHANGED told

\* The call goes, the ends in now are reported at once, those in later will be;
\* a handler that finds the call gone reports its end again.
End(now, later) ==
  /\ state # "new" /\ state' = "gone"
  /\ now # {} => state # "gone"
  /\ "refused" \in now \union later => Dialled /\ state # "running" /\ ~Accepted
  /\ told' = [k \in Callbacks |-> IF k \in now THEN told[k] + 1 ELSE told[k]]
  /\ owed' = owed \union later

\* Two threads may owe the same end.
Report(k) ==
  /\ k \in owed
  /\ told' = [told EXCEPT ![k] = @ + 1]
  /\ owed' = owed \ {k} \/ (k \in Ends /\ owed' = owed)
  /\ UNCHANGED state

Next ==
  \/ Enter
  \/ Launch
  \/ Accept
  \/ \E now, later \in SUBSET Ends : End(now, later)
  \/ \E k \in Callbacks : Report(k)

Spec == Init /\ [][Next]_vars

-----------------------------------------------------------------------------
\* What follows for the application: onAnswered(true) at most once, and never
\* with onAnswered(false); onLaunched at most once; and once it has heard of
\* the end, the call is gone.
OneVerdict ==
  /\ told["accepted"] <= 1 /\ told["launched"] <= 1
  /\ told["accepted"] > 0 => told["refused"] = 0
  /\ told["refused"] + told["closed"] > 0 => state = "gone"

\* The invariant that shows it.
Inv ==
  /\ state \in {"new", "waiting", "running", "gone"}
  /\ owed \subseteq {"accepted"} \union Ends
  /\ told \in [Callbacks -> Nat]
  /\ Accepted => state \in {"running", "gone"} /\ "refused" \notin owed /\ told["refused"] = 0
  /\ "accepted" \in owed => told["accepted"] = 0
  /\ told["accepted"] <= 1 /\ told["launched"] <= 1
  /\ owed \intersect Ends # {} \/ told["refused"] + told["closed"] > 0 => state = "gone"
=============================================================================
