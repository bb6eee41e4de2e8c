-------------------------- MODULE MCSamplePlayback --------------------------
(* Values for the constants of SamplePlayback.                             *)
EXTENDS SamplePlayback

SomeEstimates == {Unknown, 2, 5}
NoEstimate == {Unknown}
SomeSpeeds == {1, 2, -1, -4}
NormalSpeed == {2}
=============================================================================
