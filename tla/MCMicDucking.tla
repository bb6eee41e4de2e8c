---------------------------- MODULE MCMicDucking ----------------------------
(* Two microphones and samples: the first input has the narration for        *)
(* itself, the second shares the dialog with samples.  Three rules: two      *)
(* overlap on a voice, one is at full volume and without a fade, and a       *)
(* primary voice is itself ducked.                                           *)
EXTENDS MicDucking

CONSTANTS narration, dialog, music

SomeVoices == {narration, dialog, music}

SomeRules == {
  [primary |-> narration, ducked |-> {music, dialog}, target |-> 1, fade |-> 2],
  [primary |-> dialog, ducked |-> {music}, target |-> 0, fade |-> 2],
  [primary |-> dialog, ducked |-> {narration}, target |-> 2, fade |-> 0]}

TwoMicrophones == <<narration, dialog>>
PlayedVoices == {dialog}
=============================================================================
