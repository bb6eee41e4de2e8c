--------------------------- MODULE MCStreamReader ---------------------------
(* One body of up to four bytes, read in slices of up to three, with seeks   *)
(* back and forth within it and beyond both ends.                            *)
EXTENDS StreamReader
SeekOffsets == {-3, -1, 0, 2, 5}
=============================================================================
