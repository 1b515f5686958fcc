------------------------------- MODULE MCFIFO -------------------------------
(***************************************************************************)
(* FIFO.tla for TLC: three words, so that both pointers wrap at a depth    *)
(* that is no power of two, and two values besides the zero word.          *)
(***************************************************************************)
EXTENDS FIFO

===========================================================================
