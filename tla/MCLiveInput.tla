---------------------------- MODULE MCLiveInput ----------------------------
(* A ring of five frames, an output that asks for one or three, and volumes  *)
(* asked for below, within and beyond the range.                             *)
EXTENDS LiveInput
AskedVolumes == {-1, 1, 9}
=============================================================================
