----------------------------- MODULE MCEventLog -----------------------------
(* An instance of EventLog: three rows, so that a pass has a page in the   *)
(* middle, and one of a type the follower does not know.                   *)
EXTENDS EventLog
=============================================================================
