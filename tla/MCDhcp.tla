------------------------------- MODULE MCDhcp -------------------------------
(* DhcpClient with time scaled down: a retry after 1, 2, ... seconds. *)
EXTENDS DhcpClient

MCPool == {2}
MCLeases == {9}
MCShortLeases == {4}
=============================================================================
