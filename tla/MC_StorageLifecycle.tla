------------------------- MODULE MC_StorageLifecycle -------------------------
(* One client request, and two guards that interrupt the storage at once.    *)
EXTENDS StorageLifecycle

CONSTANTS r1, g1, g2

McOneRequest == {r1}
McGuards == {g1, g2}
=============================================================================
