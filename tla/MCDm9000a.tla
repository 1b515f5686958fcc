------------------------------ MODULE MCDm9000a ------------------------------
(* Dm9000a with two senders. *)
EXTENDS Dm9000a

Senders == Permutations(Tasks)
=============================================================================
