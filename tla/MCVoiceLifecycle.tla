-------------------------- MODULE MCVoiceLifecycle --------------------------
(* A small instance of VoiceLifecycle for TLC. *)
EXTENDS VoiceLifecycle

CONSTANTS p1, p2, va, vb, quiet, unit

\* A loaded and a streamed play, of the same voice or of two: the voices are
\* alike, so which two does not matter.
TwoPlays == {p1, p2}
OneOrTwoVoices == {[p \in Plays |-> va],
                   [p \in Plays |-> IF p = p1 THEN va ELSE vb]}
=============================================================================
