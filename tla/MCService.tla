----------------------------- MODULE MCService -----------------------------
(* Instances of Service.                                                   *)
EXTENDS Service

MCServers == 1 .. 2
=============================================================================
