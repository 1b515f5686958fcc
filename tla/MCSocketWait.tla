---------------------------- MODULE MCSocketWait ----------------------------
(* rx_task, which accepts connections and receives, and tx_task, which sends. *)
EXTENDS SocketWait, TLC

CONSTANTS rx_task, tx_task, so_rcv, so_snd

MCPriority == rx_task :> 10 @@ tx_task :> 11
MCEvents == rx_task :> {Listening, so_rcv} @@ tx_task :> {so_snd}
=============================================================================
