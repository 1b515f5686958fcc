------------------------------ MODULE MCSdCard ------------------------------
(* SdCard on a medium of a few sectors. *)
EXTENDS SdCard

MCKinds == {"none", "v1", "v2", "hc"}
MCRequests == 0 .. 4              \* the last one is not on the medium
MCLosable == {"CMD8", "CMD55", "CMD16", "CMD17"}
MCLosableOcr == {"CMD58"}
MCLosableReset == {"CMD0"}
MCLosableReady == {"ACMD41"}
=============================================================================
