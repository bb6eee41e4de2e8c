------------------------------ MODULE LiveInput ------------------------------
(* One live input: the capture callback converts and pushes blocks into a    *)
(* ring buffer that the audio callback trims and reads without a lock, and   *)
(* the volume that commands set and the audio callback ramps.  Both sides    *)
(* move whole frames, so the ring is counted in frames; each look at the     *)
(* ring and each change of it is a step.                                     *)
EXTENDS Integers

CONSTANTS
  Capacity,       \* frames of the ring buffer
  BlockSizes,     \* frames the device hands over at once
  CallbackSizes,  \* frames the output asks for at once
  Chunks,         \* frames the resampler may take at once; 0: the rates are equal
  ChunkYields,    \* frames it may make of them
  Rate,           \* RAMP_RATE, the largest change of a volume in a frame
  MaxGain,        \* MAX_GAIN
  Asked,          \* volumes that commands ask for
  Wrap            \* the counters are kept modulo Wrap, to have finitely many

ASSUME RingAssumption == Capacity \in Nat /\ Chunks \subseteq Nat
ASSUME SizesAssumption == BlockSizes \subseteq Nat /\ ChunkYields \subseteq Nat
ASSUME CallbackAssumption == CallbackSizes \subseteq Nat \ {0}
ASSUME VolumeAssumption == Rate \in Nat \ {0} /\ MaxGain \in Nat /\ Asked \subseteq Int
ASSUME WrapAssumption == Wrap \in Nat \ {0}

VARIABLES
  chunk,     \* what the resampler of this input takes
  capture,   \* the capture callback: "idle", "chunks", "look", "push"
  pending,   \* frames short of a chunk
  offered,   \* frames it is about to push
  room,      \* frames free when it looked
  backlog,   \* frames in the ring
  mix,       \* the audio callback: "idle", "trim", "look", "read"
  frames,    \* frames it has to fill
  excess,    \* frames it is about to skip
  cut,       \* frames it has skipped
  toRead,    \* frames it is about to read
  since,     \* history: frames pushed since it first looked
  dropped, trimmed, underrun,  \* the three health counters
  captured, played,            \* history: frames ready to be pushed, and read
  volume, targetVolume, unmutedVolume,
  audible    \* history: the last level above silence that was asked for

captureVars == <<capture, pending, offered, room>>
mixVars == <<mix, frames, excess, cut, toRead>>
volumeVars == <<volume, targetVolume, unmutedVolume, audible>>
vars == <<chunk, captureVars, backlog, mixVars, since, dropped, trimmed, underrun,
          captured, played, volumeVars>>

MaxBacklog == Capacity \div 2
Least(a, b) == IF a < b THEN a ELSE b
Counted(c, n) == (c + n) % Wrap

TypeOK ==
  /\ chunk \in Chunks
  /\ capture \in {"idle", "chunks", "look", "push"}
  /\ pending \in Nat /\ offered \in Nat
  /\ room \in 0 .. Capacity
  /\ backlog \in 0 .. Capacity
  /\ mix \in {"idle", "trim", "look", "read"}
  /\ frames \in CallbackSizes \cup {0}
  /\ excess \in 0 .. Capacity /\ cut \in 0 .. Capacity /\ toRead \in 0 .. Capacity
  /\ since \in Nat
  /\ {dropped, trimmed, underrun, captured, played} \subseteq 0 .. (Wrap - 1)
  /\ {volume, targetVolume, unmutedVolume, audible} \subseteq 0 .. MaxGain

Init ==
  /\ chunk \in Chunks
  /\ capture = "idle" /\ pending = 0 /\ offered = 0 /\ room = 0
  /\ backlog = 0
  /\ mix = "idle" /\ frames = 0 /\ excess = 0 /\ cut = 0 /\ toRead = 0
  /\ since = 0
  /\ dropped = 0 /\ trimmed = 0 /\ underrun = 0 /\ captured = 0 /\ played = 0
  /\ volume \in 0 .. MaxGain
  /\ targetVolume = volume /\ unmutedVolume = volume /\ audible = volume

-----------------------------------------------------------------------------
(* The capture thread.                                                       *)

\* A block: passed on as it is, or added to what is waiting for a chunk.
CaptureBlock(n) ==
  /\ capture = "idle"
  /\ IF chunk = 0
     THEN capture' = "look" /\ offered' = n /\ captured' = Counted(captured, n) /\ UNCHANGED pending
     ELSE capture' = "chunks" /\ pending' = pending + n /\ UNCHANGED <<offered, captured>>
  /\ UNCHANGED <<chunk, room, backlog, mixVars, since, dropped, trimmed, underrun, played, volumeVars>>

\* Mutated form of NextChunk: a chunk that fails is not counted.
NextChunkUncounted ==
  /\ capture = "chunks"
  /\ pending >= chunk
  /\ pending' = pending - chunk
  /\ \/ \E y \in ChunkYields :
          capture' = "look" /\ offered' = y /\ captured' = Counted(captured, y)
     \/ /\ captured' = Counted(captured, chunk)
        /\ UNCHANGED <<capture, offered>>
  /\ UNCHANGED <<chunk, room, backlog, mixVars, since, dropped, trimmed, underrun, played, volumeVars>>

\* The next chunk is resampled, or lost and counted when that fails.
NextChunk ==
  /\ capture = "chunks"
  /\ pending >= chunk
  /\ pending' = pending - chunk
  /\ \/ \E y \in ChunkYields :
          capture' = "look" /\ offered' = y /\ captured' = Counted(captured, y) /\ UNCHANGED dropped
     \/ /\ dropped' = Counted(dropped, chunk)
        /\ captured' = Counted(captured, chunk)
        /\ UNCHANGED <<capture, offered>>
  /\ UNCHANGED <<chunk, room, backlog, mixVars, since, trimmed, underrun, played, volumeVars>>

NoChunk ==
  /\ capture = "chunks"
  /\ pending < chunk
  /\ capture' = "idle"
  /\ UNCHANGED <<chunk, pending, offered, room, backlog, mixVars, since, dropped, trimmed, underrun,
                 captured, played, volumeVars>>

\* push_frames looks at the free room first,
MeasureRoom ==
  /\ capture = "look"
  /\ room' = Capacity - backlog
  /\ capture' = "push"
  /\ UNCHANGED <<chunk, pending, offered, backlog, mixVars, since, dropped, trimmed, underrun,
                 captured, played, volumeVars>>

\* and pushes what fits into that, counting the rest.
Pushed == Least(offered, room)
PushFrames ==
  /\ capture = "push"
  /\ backlog' = backlog + Pushed
  /\ since' = IF mix = "idle" THEN 0 ELSE since + Pushed
  /\ dropped' = Counted(dropped, offered - Pushed)
  /\ offered' = 0 /\ room' = 0
  /\ capture' = IF chunk = 0 THEN "idle" ELSE "chunks"
  /\ UNCHANGED <<chunk, pending, mixVars, trimmed, underrun, captured, played, volumeVars>>

-----------------------------------------------------------------------------
(* The audio callback, under the mixer's mutex.                              *)

\* It looks for a backlog beyond the ceiling,
\* Mutated form of OverCeiling: the frames about to be read are forgotten.
OverCeilingAlready(f) == backlog > MaxBacklog

OverCeiling(f) == backlog > MaxBacklog + f
StartMix(f) ==
  /\ mix = "idle"
  /\ frames' = f
  /\ cut' = 0
  /\ since' = 0
  /\ IF OverCeiling(f)
     THEN mix' = "trim" /\ excess' = backlog - MaxBacklog
     ELSE mix' = "look" /\ excess' = 0
  /\ UNCHANGED <<chunk, captureVars, backlog, toRead, dropped, trimmed, underrun, captured, played, volumeVars>>

\* skips what is beyond it,
Skipped == Least(excess, backlog)
TrimBacklog ==
  /\ mix = "trim"
  /\ backlog' = backlog - Skipped
  /\ cut' = Skipped
  /\ trimmed' = Counted(trimmed, Skipped)
  /\ mix' = "look" /\ excess' = 0
  /\ UNCHANGED <<chunk, captureVars, frames, toRead, since, dropped, underrun, captured, played, volumeVars>>

\* looks again at what there is,
MeasureBacklog ==
  /\ mix = "look"
  /\ toRead' = Least(frames, backlog)
  /\ mix' = "read"
  /\ UNCHANGED <<chunk, captureVars, backlog, frames, excess, cut, since, dropped, trimmed, underrun,
                 captured, played, volumeVars>>

\* The volume after n frames of ramping, starved ones included.
Ramped(from, to, n) ==
  IF from <= to THEN Least(from + Rate * n, to)
  ELSE IF from - to <= Rate * n THEN to ELSE from - Rate * n

\* Mutated form of ReadFrames: the volume moves only with frames that are heard.
ReadFramesRampHeard ==
  /\ mix = "read"
  /\ LET n == Least(toRead, backlog)
     IN  /\ backlog' = backlog - n
         /\ played' = Counted(played, n)
         /\ underrun' = Counted(underrun, frames - n)
  /\ volume' = Ramped(volume, targetVolume, Least(toRead, backlog))
  /\ mix' = "idle" /\ frames' = 0 /\ excess' = 0 /\ cut' = 0 /\ toRead' = 0
  /\ since' = 0
  /\ UNCHANGED <<chunk, captureVars, dropped, trimmed, captured,
                 targetVolume, unmutedVolume, audible>>

\* and reads it; what is missing stays silent and is counted.
ReadFrames ==
  /\ mix = "read"
  /\ LET n == Least(toRead, backlog)
     IN  /\ backlog' = backlog - n
         /\ played' = Counted(played, n)
         /\ underrun' = Counted(underrun, frames - n)
  /\ volume' = Ramped(volume, targetVolume, frames)
  /\ mix' = "idle" /\ frames' = 0 /\ excess' = 0 /\ cut' = 0 /\ toRead' = 0
  /\ since' = 0
  /\ UNCHANGED <<chunk, captureVars, dropped, trimmed, captured,
                 targetVolume, unmutedVolume, audible>>

-----------------------------------------------------------------------------
(* Commands, under the same mutex.                                           *)

Clamp(v) == IF v < 0 THEN 0 ELSE Least(v, MaxGain)

\* input_volume: a level above silence is what unmute will restore.
SetTargetVolume(v) ==
  /\ mix = "idle"
  /\ targetVolume' = Clamp(v)
  /\ unmutedVolume' = IF Clamp(v) > 0 THEN Clamp(v) ELSE unmutedVolume
  /\ audible' = IF Clamp(v) > 0 THEN Clamp(v) ELSE audible
  /\ UNCHANGED <<chunk, captureVars, backlog, mixVars, since, dropped, trimmed, underrun, captured, played, volume>>

\* input_mute and unmute.
SetMuted(mute) ==
  /\ mix = "idle"
  /\ IF mute
     THEN /\ unmutedVolume' = IF targetVolume > 0 THEN targetVolume ELSE unmutedVolume
          /\ targetVolume' = 0
     ELSE targetVolume' = unmutedVolume /\ UNCHANGED unmutedVolume
  /\ UNCHANGED <<chunk, captureVars, backlog, mixVars, since, dropped, trimmed, underrun, captured,
                 played, volume, audible>>

-----------------------------------------------------------------------------
Capturing == (\E n \in BlockSizes : CaptureBlock(n)) \/ NextChunk \/ NoChunk \/ MeasureRoom \/ PushFrames
Mixing == (\E f \in CallbackSizes : StartMix(f)) \/ TrimBacklog \/ MeasureBacklog \/ ReadFrames
Commanded == (\E v \in Asked : SetTargetVolume(v)) \/ (\E b \in BOOLEAN : SetMuted(b))
Next == Capturing \/ Mixing \/ Commanded

Spec == Init /\ [][Next]_vars

\* The output device keeps calling back, and what it calls ends.
FairSpec == Spec /\ WF_vars(Mixing)

-----------------------------------------------------------------------------
\* Every frame the capture callback had ready is read, discarded by the audio
\* callback, counted as dropped, or still on its way: none is lost unseen and
\* none is read twice, however the two callbacks meet.
FramesAccounted ==
  captured = (played + trimmed + dropped + backlog
              + (IF capture \in {"look", "push"} THEN offered ELSE 0)) % Wrap

\* However far the capture clock runs ahead, a callback leaves at most the
\* ceiling behind, and what was pushed while it ran.
LatencyBounded ==
  [][mix = "read" /\ mix' = "idle" => backlog' <= MaxBacklog + since]_vars

\* Discarding a backlog never starves the same callback, whatever its size.
TrimNeverStarves ==
  [][mix = "read" /\ mix' = "idle" /\ cut > 0 => underrun' = underrun]_vars

\* Through any sequence of volumes, zero among them, and of mutes and unmutes,
\* unmute restores the last level that could be heard.
UnmuteRestores == unmutedVolume = audible /\ targetVolume \in {0, audible}

\* The volume reaches its target while the device is silent as while it plays.
VolumeReaches ==
  \A v \in 0 .. MaxGain : <>[](targetVolume = v) => <>[](volume = v)

\* No frame is lost or counted twice between the two callbacks that share the
\* ring, and mute never forgets the volume it has to bring back.
LiveInputSound == TypeOK /\ FramesAccounted /\ UnmuteRestores

\* The drift trim brings the latency back under its bound, and never by frames
\* that the callback needs now.
TrimSound == LatencyBounded /\ TrimNeverStarves
=============================================================================
