--------------------------- MODULE SamplePlayback ---------------------------
(***************************************************************************)
(* The playhead of one ActiveSample in the mixer, from its first callback  *)
(* to its removal, while a loader may still be decoding its audio and      *)
(* commands seek it, change its speed and stop it.                         *)
(*                                                                         *)
(* The callback and the commands exclude each other by the mixer's mutex,  *)
(* but the loader only takes the buffer's RwLock, so the callback sees a   *)
(* different buffer at each of its reads.  It is split at those reads: mix *)
(* (frames), advance_position (frames), and is_finished, which reads       *)
(* has_failed, then is_complete, then frames.  Every read is a try_read,   *)
(* which answers 0 or FALSE while the loader holds the lock.               *)
(*                                                                         *)
(* A position counts units of 1/Unit of a frame, as the integer position   *)
(* and the fractional_position of the code do together.                    *)
(***************************************************************************)
EXTENDS Integers, FiniteSets

CONSTANTS
  Unit,            \* units of position in a frame
  Lengths,         \* numbers of frames the audio may have
  Crossfades,      \* loop crossfades, in frames
  Estimates,       \* what a streaming buffer may say of its length, or Unknown
  Targets,         \* frames a seek or a start position may ask for
  Speeds,          \* units the playhead moves per output frame
  FadeFrames,      \* durations of fades, in frames
  CallbackFrames,  \* output frames of a callback
  MaxPosition,     \* bound: how far a callback carries a starving playhead
  MaxCommands      \* bound: commands in a behaviour

Unknown == -1

ASSUME UnitAssumption == Unit \in Nat \ {0}
ASSUME LengthsAssumption == Lengths \subseteq Nat \ {0}
ASSUME CrossfadesAssumption == Crossfades \subseteq Nat
ASSUME EstimatesAssumption == Estimates \subseteq Nat \cup {Unknown}
ASSUME TargetsAssumption == Targets \subseteq Nat
ASSUME SpeedsAssumption == Speeds \subseteq Int \ {0} /\ Unit \in Speeds
ASSUME FadesAssumption == FadeFrames \subseteq Nat
ASSUME CallbackAssumption == CallbackFrames \in Nat \ {0}
ASSUME BoundsAssumption == MaxPosition \in Nat /\ MaxCommands \in Nat

VARIABLES
  audio,     \* what the play asked for: buffer kind, length, loop, crossfade
  loaded,    \* StreamingBuffer.frames_available
  load,      \* StreamingBuffer.state
  position,  \* ActiveSample.position and fractional_position
  speed,     \* ActiveSample.speed
  pitch,     \* whether the sample has a pitch_corrector
  fade,      \* ActiveSample.fade_state
  callback,  \* what the audio callback does next
  playing,   \* whether the sample is in active_samples
  commands   \* commands so far

bufferVars == <<loaded, load>>
headVars   == <<position, speed, pitch, fade>>
vars == <<audio, bufferVars, headVars, callback, playing, commands>>

PlayRequests == [kind: {"complete", "streaming"}, length: Lengths,
                 estimate: Estimates, loop: BOOLEAN, crossfade: Crossfades]
FadeStates == [kind: {"none", "in", "out"}, elapsed: Nat, duration: Nat]

Fade(kind, duration) == [kind |-> kind, elapsed |-> 0, duration |-> duration]
NoFade == Fade("none", 0)
Loading == load = "loading"

-----------------------------------------------------------------------------
(* What the buffer answers.  Only a loading buffer has a writer, and a read *)
(* that finds the lock taken answers 0 frames, no estimate and no rate.     *)

Frames == {loaded} \cup (IF Loading THEN {0} ELSE {})

\* total_frames_or_estimate: exact for a complete buffer; for a streaming one
\* the estimate made when the load began, which the end does not correct.
LengthHeard ==
  IF audio.kind = "complete" THEN {audio.length}
  ELSE {audio.estimate} \cup (IF Loading THEN {Unknown} ELSE {})

\* Mutated form of SeekTarget: a seek is not held inside the audio.
SeekAnywhere(target, length) == target
SeekTarget(target, length) ==
  IF length > 0 /\ target > length - 1 THEN length - 1 ELSE target

StartTarget(target, length) ==
  IF length = Unknown THEN target
  ELSE IF length = 0 THEN 0
  ELSE IF target > length - 1 THEN length - 1 ELSE target

-----------------------------------------------------------------------------
(* A play hands over a complete buffer or one whose loader has begun.      *)

Init ==
  /\ audio \in PlayRequests
  /\ load = IF audio.kind = "complete" THEN "complete" ELSE "loading"
  /\ loaded = IF audio.kind = "complete" THEN audio.length ELSE 0
  /\ position \in {0} \cup {Unit * StartTarget(t, n) :
                              t \in Targets, n \in LengthHeard}
  /\ speed = Unit /\ pitch = FALSE
  /\ fade \in {NoFade} \cup {Fade("in", d) : d \in FadeFrames}
  /\ callback = "idle" /\ playing = TRUE /\ commands = 0

-----------------------------------------------------------------------------
(* The loader.                                                             *)

Append(k) ==
  /\ Loading
  /\ loaded + k <= audio.length
  /\ loaded' = loaded + k
  /\ UNCHANGED <<audio, load, headVars, callback, playing, commands>>

MarkComplete ==
  /\ Loading
  /\ loaded = audio.length
  /\ load' = "complete"
  /\ UNCHANGED <<audio, loaded, headVars, callback, playing, commands>>

MarkError ==
  /\ Loading
  /\ load' = "failed"
  /\ UNCHANGED <<audio, loaded, headVars, callback, playing, commands>>

Loader == MarkComplete \/ MarkError \/ \E k \in 1 .. audio.length : Append(k)

-----------------------------------------------------------------------------
(* The callback.                                                           *)

\* The crossfade in force: none when the audio is too short for it.
Blend(n) == IF n > audio.crossfade * 2 THEN audio.crossfade ELSE 0

\* Mutated form of WrapLoop: a forward wrap lands on the first frame, which
\* the crossfade has already played.
WrapToHead(p, n) ==
  IF p >= n * Unit THEN (p - n * Unit) % (n * Unit)
  ELSE IF p < 0 THEN (n * Unit - ((-p) % (n * Unit))) % (n * Unit)
  ELSE p

\* wrap_loop_position; its remainder of a negative number is not positive.
WrapLoop(p, n) ==
  LET end == n * Unit
      period == (n - Blend(n)) * Unit
      wrapped == IF p >= end THEN Blend(n) * Unit + ((p - end) % period)
                 ELSE period - ((-p) % period)
  IN  IF p \in 0 .. end - 1 THEN p
      ELSE IF wrapped >= end THEN wrapped - period
      ELSE wrapped

\* How many frames of this callback are mixed, and fade with it, when the
\* buffer has n: all of them in a loop, else those before the playhead first
\* leaves the n frames.  The stretcher fills a whole callback or none.
Mixed(n) ==
  IF audio.loop /\ n > 0 THEN CallbackFrames
  ELSE IF pitch /\ audio.kind = "complete"
    THEN IF position < n * Unit THEN CallbackFrames ELSE 0
  ELSE Cardinality({i \in 0 .. CallbackFrames - 1 :
         \A j \in 0 .. i : position + j * speed \in 0 .. n * Unit - 1})

Faded(m) ==
  IF fade.kind = "none" THEN fade
  ELSE [fade EXCEPT !.elapsed =
          IF @ + m < fade.duration THEN @ + m ELSE fade.duration]

\* mix_sample_into_output.
Mix ==
  /\ callback = "idle" /\ playing
  /\ Loading => position < MaxPosition
  /\ \E n \in Frames : fade' = Faded(Mixed(n))
  /\ callback' = "advance"
  /\ UNCHANGED <<audio, bufferVars, position, speed, pitch, playing, commands>>

\* advance_position: the playhead moves whether or not there was audio.
AdvancePosition ==
  /\ callback = "advance"
  /\ \E n \in Frames :
       LET p == position + CallbackFrames * speed
       IN  position' = IF audio.loop /\ n > 0 THEN WrapLoop(p, n)
                       ELSE IF p < 0 THEN 0 ELSE p
  /\ callback' = "failed?"
  /\ UNCHANGED <<audio, bufferVars, speed, pitch, fade, playing, commands>>

FadeOver == fade.kind = "out" /\ fade.elapsed >= fade.duration

Kept == callback' = "idle" /\ playing' = playing
Removed == callback' = "idle" /\ playing' = FALSE

\* Mutated form of OverWithoutEnd: a loop is kept before its fade is looked at.
OverUnlessLoop == ~audio.loop /\ (FadeOver \/ load = "failed"
                                   \/ (speed < 0 /\ position = 0))
OverWithoutEnd == FadeOver \/ load = "failed"
                   \/ (~audio.loop /\ speed < 0 /\ position = 0)

\* is_finished up to its first reads: the fade, a failed load, the start.
CheckFailed ==
  /\ callback = "failed?"
  /\ IF OverWithoutEnd THEN Removed
     ELSE IF audio.loop \/ speed < 0 THEN Kept
     ELSE callback' = "complete?" /\ UNCHANGED playing
  /\ UNCHANGED <<audio, bufferVars, headVars, commands>>

\* Mutated form of EndMayCount: the end of what has been loaded counts.
EndAlwaysCounts == TRUE
EndMayCount == load = "complete"

CheckComplete ==
  /\ callback = "complete?"
  /\ IF EndMayCount THEN callback' = "end?" /\ UNCHANGED playing ELSE Kept
  /\ UNCHANGED <<audio, bufferVars, headVars, commands>>

CheckEnd ==
  /\ callback = "end?"
  /\ \E n \in Frames :
       IF position >= n * Unit THEN Removed ELSE Kept
  /\ UNCHANGED <<audio, bufferVars, headVars, commands>>

Callback == \/ Mix \/ AdvancePosition
            \/ CheckFailed \/ CheckComplete \/ CheckEnd

-----------------------------------------------------------------------------
(* Commands, between callbacks.                                            *)

Commanded ==
  /\ callback = "idle" /\ playing
  /\ commands < MaxCommands
  /\ commands' = commands + 1
  /\ UNCHANGED <<audio, bufferVars, callback, playing>>

\* A seek keeps the fraction.  One that cannot read the rate does nothing.
Seek(target) ==
  /\ Commanded
  /\ \E n \in LengthHeard :
       position' = Unit * SeekTarget(target, n) + (position % Unit)
  /\ UNCHANGED <<speed, pitch, fade>>

\* set_speed_with_mode: the mode changes first, then a negative speed is
\* refused if the pitch is corrected and the old speed stays.
SetSpeed(s, corrected) ==
  /\ Commanded
  /\ pitch' = corrected
  /\ speed' = IF corrected /\ s < 0 THEN speed ELSE s
  /\ UNCHANGED <<position, fade>>

Stop(duration) ==
  /\ Commanded
  /\ fade' = Fade("out", duration)
  /\ UNCHANGED <<position, speed, pitch>>

Command == \/ \E t \in Targets : Seek(t)
           \/ \E s \in Speeds, c \in BOOLEAN : SetSpeed(s, c)
           \/ \E d \in FadeFrames : Stop(d)

Next == Loader \/ Callback \/ Command

Spec == Init /\ [][Next]_vars

\* The device calls back for as long as the stream plays, and a load ends.
FairSpec == Spec /\ WF_vars(Callback) /\ WF_vars(Loader)

-----------------------------------------------------------------------------
(* Properties.                                                             *)

\* Every variable holds a value the code could give it: a fade never runs
\* past its duration and the playhead is never before the start.
TypeOK ==
  /\ audio \in PlayRequests
  /\ loaded \in 0 .. audio.length
  /\ load \in {"loading", "complete", "failed"}
  /\ position \in Nat
  /\ speed \in Speeds /\ pitch \in BOOLEAN
  /\ fade \in FadeStates
  /\ fade.elapsed <= fade.duration
  /\ callback \in {"idle", "advance", "failed?", "complete?", "end?"}
  /\ playing \in BOOLEAN
  /\ commands \in 0 .. MaxCommands

\* The playhead of a loop over a complete buffer is inside the buffer
\* whatever seeks, speeds and crossfades came before: the stretcher's input
\* is built by indexing the buffer with it, unchecked.
LoopInsideBuffer ==
  audio.loop /\ audio.kind = "complete" => position < audio.length * Unit

\* The inductive invariant: besides, a buffer handed over complete is
\* complete, a complete buffer is whole, and is_finished asks for the end
\* only of a forward one-shot, and compares with it only in a whole buffer.
PlaybackInv ==
  /\ LoopInsideBuffer
  /\ audio.kind = "complete" => load = "complete"
  /\ load = "complete" => loaded = audio.length
  /\ callback \in {"complete?", "end?"} => ~audio.loop /\ speed > 0
  /\ callback = "end?" => load = "complete"

\* A sample leaves the mixer only when its fade-out is over, its load has
\* failed, it has played back to its start, or it has played past the last
\* frame of the whole audio: never because it caught up with its loader or
\* read the buffer while the loader held it.
NeverCutShort ==
  [][playing /\ ~playing' =>
       \/ FadeOver
       \/ load = "failed"
       \/ ~audio.loop /\ speed < 0 /\ position = 0
       \/ ~audio.loop /\ load = "complete" /\ position >= audio.length * Unit
    ]_vars

\* A loop of a whole buffer keeps time: a callback moves the playhead by its
\* frames at the speed, modulo the audio less the crossfade, and lands
\* neither on a head already heard nor on a tail still to come.
LoopKeepsTime ==
  [][callback = "advance" /\ callback' # "advance"
       /\ audio.loop /\ load = "complete" =>
       LET whole == audio.length * Unit
           blend == Blend(audio.length) * Unit
           ideal == position + CallbackFrames * speed
       IN  /\ (position' - ideal) % (whole - blend) = 0
           /\ ideal >= whole => position' \in blend .. whole - 1
           /\ ideal < 0 => position' \in 0 .. whole - blend
    ]_vars

\* A stopped sample is removed, loops included, even one whose fade-out
\* stands still because there is nothing loaded to fade.
StopEnds == (fade.kind = "out") ~> ~playing

\* A sample that does not loop ends by itself, forwards or backwards,
\* wherever seeks put it and however late its audio comes.
OneShotEnds == ~audio.loop ~> ~playing

\* A playing sample and its buffer keep together at every read of a callback,
\* and a looping playhead stays where frames may be read unchecked.
PlaybackSound == TypeOK /\ PlaybackInv

\* Every sample ends that should: stopped ones and those that do not loop.
SoundsEnd == StopEnds /\ OneShotEnds
=============================================================================
