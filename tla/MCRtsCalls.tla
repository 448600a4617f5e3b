----------------------------- MODULE MCRtsCalls -----------------------------
(* Model values for the small instances of RtsCalls. *)
EXTENDS RtsCalls

CONSTANTS o1, i1, a1, k1

NoCalls  == {}
OneOut   == {o1}
OneIn    == {i1}
OneApp   == {a1}
OneConn  == {k1}

DialClose    == {"dial", "close"}
JustClose    == {"close"}
DialLogout   == {"dial", "logout"}

InviteOnly   == {"INVITE"}
Signalling   == {"INVITE", "CREATE_OK", "BYE", "BYE_RSP", "UPDATE"}
Answering    == {"INVITE", "CREATE_OK", "CREATE_FAIL"}

NoFaults     == {}
OpenFault    == {"open"}
EveryFault   == {"open", "connect", "bind", "stall", "lost"}

=============================================================================
