--------------------------- MODULE PublishedFile ---------------------------
(***************************************************************************)
(* What the disk cache promises about the file of a URL: it is absent or a *)
(* whole version of the resource, it is replaced in one step, and only by  *)
(* a version that is not older.                                            *)
(***************************************************************************)
EXTENDS Naturals

CONSTANT MaxVersion

VARIABLE file   \* version of the file, 0 when there is none

Init == file = 0

Replace == \E v \in 1..MaxVersion : v >= file /\ file' = v
Withdraw == file' = 0

Next == Replace \/ Withdraw
Spec == Init /\ [][Next]_file
=============================================================================
