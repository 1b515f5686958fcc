----------------------------- MODULE BlockDevice -----------------------------
(***************************************************************************)
(* What sd_driver.c's FAT reader expects of sd_read_sector: the contents of *)
(* the sector it asked for, or an error.  Never another sector.            *)
(***************************************************************************)
CONSTANTS Sectors,     \* the sector numbers of the medium
          NoSector,    \* no request
          Failed       \* the error return

VARIABLES request, answer

vars == <<request, answer>>

Init == request = NoSector /\ answer = Failed

Ask(s) ==
    /\ request = NoSector
    /\ request' = s
    /\ UNCHANGED answer

Answer ==
    /\ request # NoSector
    /\ answer' \in {request, Failed}
    /\ request' = NoSector

Next == (\E s \in Sectors : Ask(s)) \/ Answer

Spec == Init /\ [][Next]_vars
=============================================================================
