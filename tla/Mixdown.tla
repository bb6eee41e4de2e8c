------------------------------ MODULE Mixdown -------------------------------
(***************************************************************************)
(* One callback's arithmetic (audio/mixer.rs, audio/bass_management.rs):   *)
(* which source frames an output frame of a looping sample is blended      *)
(* from, where each channel goes, and what is done to the finished mix.    *)
(*                                                                         *)
(* Channels are numbered from 0.  The content of an output channel is a    *)
(* record of the bass (below the crossover) and the treble in it, in whole *)
(* units; gains are whole numbers; the filters are taken as ideal: the     *)
(* low-pass keeps the bass and the high-pass the treble.                   *)
(***************************************************************************)
EXTENDS Integers, Sequences, FiniteSets, SequencesExt

Silence == [bass |-> 0, treble |-> 0]
Plus(a, b) == [bass |-> a.bass + b.bass, treble |-> a.treble + b.treble]
Times(k, a) == [bass |-> k * a.bass, treble |-> k * a.treble]

---------------------------------------------------------------------------
(* Loops.  A frame that sounds is a set of <<source frame, weight>>, the   *)
(* weights out of Weights(n, cf).                                          *)

Crossfade(n, cf) == IF cf > 0 /\ n > 2 * cf THEN cf ELSE 0
Weights(n, cf)   == IF Crossfade(n, cf) = 0 THEN 1 ELSE cf

(* wrap_loop_position for steps of a whole frame.                          *)
WrapLoopPosition(p, n, cf) ==
  LET f == Crossfade(n, cf)
      period  == n - f
      wrapped == IF p >= n THEN f + ((p - n) % period)
                 ELSE IF p < 0 THEN period - ((0 - p) % period)
                 ELSE p
  IN  IF p >= 0 /\ p < n THEN p
      ELSE IF wrapped < 0 THEN wrapped + period
      ELSE IF wrapped >= n THEN wrapped - period
      ELSE wrapped

Sounds(frame, n, cf, reverse) ==
  LET f == Crossfade(n, cf)
  IN  IF f = 0 THEN {<<frame, 1>>}
      ELSE IF reverse
           THEN IF frame < f THEN {<<frame, frame>>, <<n - f + frame, f - frame>>}
                ELSE {<<frame, f>>}
           ELSE IF frame >= n - f
                THEN {<<frame, f - (frame - (n - f))>>, <<frame - (n - f), frame - (n - f)>>}
                ELSE {<<frame, f>>}

(* The frames that a callback of count frames plays from a position on.    *)
PlainFrames(p, n, cf, reverse, count) ==
  LET from[i \in 1 .. count] ==
        IF i = 1 THEN WrapLoopPosition(p, n, cf)
        ELSE WrapLoopPosition(from[i - 1] + (IF reverse THEN -1 ELSE 1), n, cf)
  IN  [i \in 1 .. count |-> Sounds(from[i], n, cf, reverse)]

(* Mutated form of StretcherInput: the blend is left out.                  *)
StretcherInputUnblended(p, n, cf, count) ==
  LET f == Crossfade(n, cf)
      at(i) == IF p + i >= n THEN f + ((p + i - n) % (n - f)) ELSE p + i
  IN  [i \in 1 .. count |-> {<<at(i - 1), Weights(n, cf)>>}]

(* The input that the pitch corrector is fed for the same frames.          *)
StretcherInput(p, n, cf, count) ==
  LET f == Crossfade(n, cf)
      at(i) == IF p + i >= n THEN f + ((p + i - n) % (n - f)) ELSE p + i
  IN  [i \in 1 .. count |->
         LET into == at(i - 1) - (n - f)
         IN  IF f > 0 /\ into >= 0 THEN {<<at(i - 1), f - into>>, <<into, into>>}
             ELSE {<<at(i - 1), Weights(n, cf)>>}]

---------------------------------------------------------------------------
(* Routing.  A part of the mix is a record of its frame (content by source *)
(* channel), its channel map and the gain of the moment, the product of    *)
(* its volumes, fade and ducking.                                          *)

DefaultMap(channels) == [i \in 1 .. channels |-> <<i - 1, i - 1>>]

MixInto(output, part) ==
  FoldLeft(LAMBDA out, route :
             IF route[1] \in DOMAIN part.frame /\ route[2] \in DOMAIN out
             THEN [out EXCEPT ![route[2]] = Plus(@, Times(part.gain, part.frame[route[1]]))]
             ELSE out,
           output, part.map)

(* BassManagement::process on one frame: sources are taken in order, and   *)
(* what was removed from one is gone when it is read again.                *)
BassProcess(output, bm) ==
  LET step(acc, src) ==
        IF src \notin DOMAIN output \/ src = bm.lfe THEN acc
        ELSE [out |-> IF bm.remove THEN [acc.out EXCEPT ![src].bass = 0] ELSE acc.out,
              sum |-> acc.sum + acc.out[src].bass]
      done == FoldLeft(step, [out |-> output, sum |-> 0], bm.sources)
  IN  IF ~bm.enabled \/ bm.lfe \notin DOMAIN output THEN output
      ELSE [done.out EXCEPT ![bm.lfe].bass = @ + done.sum]

ApplyGains(output, gains) == [ch \in DOMAIN output |-> Times(gains[ch], output[ch])]

(* mix_audio before saturation: samples, then inputs, then bass            *)
(* management, then the calibration of the channels.                       *)
MixAudio(parts, width, bm, gains) ==
  LET mixed == FoldLeft(MixInto, [ch \in 0 .. width - 1 |-> Silence], parts)
  IN  ApplyGains(BassProcess(mixed, bm), gains)
=============================================================================
