--------------------------- MODULE MCFrontendConn ---------------------------
(* What the application does in the two runs. *)
EXTENDS FrontendConn

Everything   == {"login", "logout", "destroy"}
LoginDestroy == {"login", "destroy"}
=============================================================================
