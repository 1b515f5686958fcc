--------------------------- MODULE MCNetworkTasks ---------------------------
(***************************************************************************)
(* NetworkTasks.tla for TLC: three clients, one with a malformed request.  *)
(* Three is what it takes for one request to be answered while a second    *)
(* client is turned away and a third waits in the backlog.                 *)
(***************************************************************************)
EXTENDS NetworkTasks
=============================================================================
