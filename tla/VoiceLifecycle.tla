--------------------------- MODULE VoiceLifecycle ---------------------------
(***************************************************************************)
(* The life of a sample in mqttaudio: a play command becomes a task that   *)
(* loads the file, registers a sample with the voice manager, marks its    *)
(* voice active and hands the sample to the mixer; the audio callback      *)
(* removes it once it is over; a housekeeping task forgets it.  The        *)
(* command loop stops, fades and sets volumes while all of this happens.   *)
(*                                                                         *)
(* The four parties share three mutexes (the mixer state, the voice        *)
(* manager, the set of active voices) and one atomic, the stop generation. *)
(* One action is one critical section.  The audio callback is split where  *)
(* it reads the loading state of a buffer, because the loader changes that *)
(* state without holding the mixer's mutex: while "callback" is not "idle" *)
(* the mutex is taken and every other mixer section waits.                 *)
(***************************************************************************)
EXTENDS Naturals

CONSTANTS
  Plays,            \* play commands; each gets a task of its own
  Voices,           \* voice names the play commands use
  VoiceChoices,     \* bound: the voices the plays may ask for
  StreamingPlays,   \* plays whose buffer is still loading when they get it
  Volumes,          \* voice volumes
  UnitVolume,       \* the volume of a new voice, 1.0
  MaxStops          \* bound: stopall and fadeall commands in a behaviour

ASSUME PlaysAssumption == StreamingPlays \subseteq Plays
ASSUME ChoicesAssumption == VoiceChoices \subseteq [Plays -> Voices]
ASSUME VolumesAssumption == UnitVolume \in Volumes
ASSUME StopsAssumption == MaxStops \in Nat

VARIABLES
  playPc,          \* where each play task is
  voiceOf,         \* the voice the play asked for
  generation,      \* stop generation captured when the command was handled
  idOf,            \* sample id from the voice manager, 0 before it has one
  wasActive,       \* what the task read in active_voices
  load,            \* loading state of the play's buffer
  stopGeneration,  \* the AtomicU64 bumped by stopall and fadeall
  nextSampleId,    \* VoiceManager.next_sample_id
  voiceIds,        \* VoiceManager.voices: sample ids of each voice
  voiceVolume,     \* VoiceManager.voices: volume of each voice
  activeVoices,    \* the Arc<Mutex<HashSet>> of active voices
  engineActive,    \* DuckingEngine.active_voices
  active,          \* MixerState.active_samples
  fading,          \* samples with a fade-out installed
  targetVolume,    \* ActiveSample.target_voice_volume
  ended,           \* samples whose position or fade-out is at its end
  finished,        \* MixerState.finished_samples
  callback,        \* "idle", or the scan the audio callback does next
  collected,       \* the callback's local list of finished samples
  command,         \* the command loop between two critical sections
  taken,           \* ids the housekeeping task took from finished
  clearedIds,      \* history: living ids VoiceStop took from the voice manager
  missed,          \* history: plays a volume command missed
  undercut         \* history: plays whose wasActive is of a sample that ended

taskVars   == <<playPc, voiceOf, generation, idOf, wasActive>>
voiceVars  == <<nextSampleId, voiceIds, voiceVolume>>
duckVars   == <<activeVoices, engineActive>>
sampleVars == <<active, fading, targetVolume, ended>>
scanVars   == <<finished, callback, collected>>
history    == <<clearedIds, missed, undercut>>
vars == <<taskVars, load, stopGeneration, voiceVars, duckVars, sampleVars,
          scanVars, command, taken, history>>

PlayStates == {"new", "loading", "checked", "added", "marked",
               "started", "cancelled", "failed"}
LoadStates == {"none", "loading", "complete", "failed"}
CommandStates == [op: {"none", "fade_all"}]
                   \cup [op: {"fade"}, ids: SUBSET Nat]
                   \cup [op: {"volume"}, voice: Voices, volume: Volumes]

NoCommand == [op |-> "none"]
MixerFree == callback = "idle"

FirstSampleId == 1

Init ==
  /\ playPc = [p \in Plays |-> "new"]
  /\ voiceOf \in VoiceChoices
  /\ generation = [p \in Plays |-> 0]
  /\ idOf = [p \in Plays |-> 0]
  /\ wasActive = [p \in Plays |-> FALSE]
  /\ load = [p \in Plays |-> "none"]
  /\ stopGeneration = 0
  /\ nextSampleId = FirstSampleId
  /\ voiceIds = [v \in Voices |-> {}]
  /\ voiceVolume = [v \in Voices |-> UnitVolume]
  /\ activeVoices = {} /\ engineActive = {}
  /\ active = {} /\ fading = {} /\ ended = {}
  /\ targetVolume = [p \in Plays |-> UnitVolume]
  /\ finished = {} /\ callback = "idle" /\ collected = {}
  /\ command = NoCommand
  /\ taken = {} /\ clearedIds = {} /\ missed = {} /\ undercut = {}

-----------------------------------------------------------------------------
(* The voice manager.  A voice whose last id goes is dropped at once, so   *)
(* an absent voice is one without ids, and its volume is the one a new     *)
(* voice would get.                                                        *)

\* Mutated form of VolumeAfter: a voice that loses a sample is made anew.
VolumeAfterLoss(ids) ==
  [v \in Voices |-> IF ids[v] # voiceIds[v] THEN UnitVolume ELSE voiceVolume[v]]
VolumeAfter(ids) ==
  [v \in Voices |-> IF ids[v] = {} THEN UnitVolume ELSE voiceVolume[v]]

Without(ids) == [v \in Voices |-> voiceIds[v] \ ids]

-----------------------------------------------------------------------------
(* The play task.                                                          *)

\* The command loop handles a play: captures the generation, spawns a task.
PlayCommand(p) ==
  /\ command = NoCommand
  /\ playPc[p] = "new"
  /\ playPc' = [playPc EXCEPT ![p] = "loading"]
  /\ generation' = [generation EXCEPT ![p] = stopGeneration]
  /\ UNCHANGED <<voiceOf, idOf, wasActive, load, stopGeneration, voiceVars,
                 duckVars, sampleVars, scanVars, command, taken, history>>

\* Mutated form of StopArrived: the generation is never compared.
StopIgnored(p) == FALSE
StopArrived(p) == stopGeneration # generation[p]

\* get_or_load_streaming returned a buffer; the generation is compared, for
\* the last time (a local that is not read again is back at its first value).
LoadReturns(p) ==
  /\ playPc[p] = "loading"
  /\ generation' = [generation EXCEPT ![p] = 0]
  /\ playPc' = [playPc EXCEPT ![p] =
                  IF StopArrived(p) THEN "cancelled" ELSE "checked"]
  /\ load' = [load EXCEPT ![p] =
                IF p \in StreamingPlays THEN "loading" ELSE "complete"]
  /\ UNCHANGED <<voiceOf, idOf, wasActive, stopGeneration,
                 voiceVars, duckVars, sampleVars, scanVars, command, taken, history>>

\* get_or_load_streaming returned an error: the reply is NotFound.
LoadFails(p) ==
  /\ playPc[p] = "loading"
  /\ playPc' = [playPc EXCEPT ![p] = "failed"]
  /\ UNCHANGED <<voiceOf, generation, idOf, wasActive, load, stopGeneration,
                 voiceVars, duckVars, sampleVars, scanVars, command, taken, history>>

\* Under the voice manager's lock: take an id, read the voice's volume.
AddToVoice(p) ==
  LET v == voiceOf[p] IN
  /\ playPc[p] = "checked"
  /\ playPc' = [playPc EXCEPT ![p] = "added"]
  /\ idOf' = [idOf EXCEPT ![p] = nextSampleId]
  /\ nextSampleId' = nextSampleId + 1
  /\ voiceIds' = [voiceIds EXCEPT ![v] = @ \cup {nextSampleId}]
  /\ targetVolume' = [targetVolume EXCEPT ![p] = voiceVolume[v]]
  /\ UNCHANGED <<voiceOf, generation, wasActive, load, stopGeneration,
                 voiceVolume, duckVars, active, fading, ended, scanVars,
                 command, taken, history>>

\* Under the lock of active_voices: was the voice active?  Now it is.
MarkActive(p) ==
  /\ playPc[p] = "added"
  /\ playPc' = [playPc EXCEPT ![p] = "marked"]
  /\ wasActive' = [wasActive EXCEPT ![p] = voiceOf[p] \in activeVoices]
  /\ activeVoices' = activeVoices \cup {voiceOf[p]}
  /\ UNCHANGED <<voiceOf, generation, idOf, load, stopGeneration, voiceVars,
                 engineActive, sampleVars, scanVars, command, taken, history>>

PlaysOf(v) == {p \in Plays : voiceOf[p] = v}

\* Under the mixer's lock: tell the ducking engine unless the voice was
\* already active, and push the sample.
Push(p) ==
  /\ MixerFree
  /\ playPc[p] = "marked"
  /\ playPc' = [playPc EXCEPT ![p] = "started"]
  /\ active' = active \cup {p}
  /\ engineActive' = IF wasActive[p] THEN engineActive
                                     ELSE engineActive \cup {voiceOf[p]}
  /\ undercut' = IF wasActive[p] THEN undercut
                                 ELSE undercut \ PlaysOf(voiceOf[p])
  /\ wasActive' = [wasActive EXCEPT ![p] = FALSE]
  /\ UNCHANGED <<voiceOf, generation, idOf, load, stopGeneration, voiceVars,
                 activeVoices, fading, targetVolume, ended, scanVars, command,
                 taken, clearedIds, missed>>

\* A play that is registered and not yet in the mixer.
Starting(p) == playPc[p] \in {"added", "marked"}

PlayTask(p) ==
  LoadReturns(p) \/ LoadFails(p) \/ AddToVoice(p) \/ MarkActive(p) \/ Push(p)

-----------------------------------------------------------------------------
(* The loader of a streaming buffer.                                       *)

Loadable(p) ==
  /\ load[p] = "loading"
  /\ playPc[p] \in {"checked", "added", "marked"} \/ p \in active

LoaderFails(p) ==
  /\ Loadable(p)
  /\ load' = [load EXCEPT ![p] = "failed"]
  /\ UNCHANGED <<taskVars, stopGeneration, voiceVars, duckVars, sampleVars,
                 scanVars, command, taken, history>>

\* The last frames arrive; playback may already be past them.
LoaderCompletes(p) ==
  /\ Loadable(p)
  /\ load' = [load EXCEPT ![p] = "complete"]
  /\ ended' \in {ended, ended \cup ({p} \cap active)}
  /\ UNCHANGED <<taskVars, stopGeneration, voiceVars, duckVars, active,
                 fading, targetVolume, scanVars, command, taken, history>>

IsFinished(p) == p \in ended \/ load[p] = "failed"

-----------------------------------------------------------------------------
(* The audio callback.  It takes the mixer's mutex, mixes, and asks every  *)
(* sample three times whether it is finished: to see if there is anything  *)
(* to do, to record the finished ones, and to remove them.                 *)

\* The mix brought the samples of S to their end, and one is finished.  A
\* callback that finishes nothing changes none of the state modelled here.
CallbackMix(S) ==
  /\ MixerFree
  /\ ended' = ended \cup S
  /\ \E p \in active : p \in S \/ IsFinished(p)
  /\ callback' = "collect"
  /\ UNCHANGED <<taskVars, load, stopGeneration, voiceVars, duckVars, active,
                 fading, targetVolume, finished, collected, command, taken, history>>

CallbackCollect ==
  /\ callback = "collect"
  /\ collected' = {p \in active : IsFinished(p)}
  /\ callback' = "retain"
  /\ UNCHANGED <<taskVars, load, stopGeneration, voiceVars, duckVars,
                 sampleVars, finished, command, taken, history>>

VoicesOf(S) == {voiceOf[p] : p \in S}

\* Mutated form of Silenced: a voice goes inactive when nothing plays at all.
SilencedAtEnd(remaining) == IF remaining = {} THEN VoicesOf(collected) ELSE {}
Silenced(remaining) == VoicesOf(collected) \ VoicesOf(remaining)

\* Mutated form of Unlisted: the ducking engine is told, the set is not.
UnlistedNone(remaining) == {}
\* The voices the callback takes out of the set of active voices.
Unlisted(remaining) == Silenced(remaining)

\* Mutated form of Recorded: all the samples.
RecordedAll == {idOf[p] : p \in active}
Recorded == {idOf[p] : p \in collected}

\* Mutated form of AfterScan: the callback returns without its guard's drop.
AfterScanLocked == "retain"
AfterScan == "idle"

\* The notification that voice v plays is on its way: a task found v inactive
\* and has still to tell the ducking engine.
Announced(v) ==
  \E p \in Plays : voiceOf[p] = v /\ playPc[p] = "marked" /\ ~wasActive[p]

\* The plays that will not tell the ducking engine of their voice because they
\* found it active by the samples that are removed now.
Undercut(silenced) ==
  {p \in Plays : /\ playPc[p] = "marked" /\ wasActive[p]
                 /\ voiceOf[p] \in silenced /\ ~Announced(voiceOf[p])}

\* What belongs to a sample goes with it.
CallbackRetain ==
  LET remaining == {p \in active : ~IsFinished(p)}
      removed == active \ remaining IN
  /\ callback = "retain"
  /\ active' = remaining
  /\ engineActive' = engineActive \ Silenced(remaining)
  /\ activeVoices' = activeVoices \ Unlisted(remaining)
  /\ finished' = finished \cup Recorded
  /\ collected' = {}
  /\ callback' = AfterScan
  /\ fading' = fading \cap remaining
  /\ ended' = ended \cap remaining
  /\ load' = [p \in Plays |-> IF p \in removed THEN "none" ELSE load[p]]
  /\ targetVolume' = [p \in Plays |->
                        IF p \in removed THEN UnitVolume ELSE targetVolume[p]]
  /\ undercut' = (undercut \ removed) \cup Undercut(Silenced(remaining))
  /\ UNCHANGED <<taskVars, stopGeneration, voiceVars, command, taken,
                 clearedIds, missed>>

Callback == \/ \E S \in SUBSET active : CallbackMix(S)
            \/ CallbackCollect
            \/ CallbackRetain

-----------------------------------------------------------------------------
(* The command loop, one command at a time.                                *)

\* stopall and fadeall: bump the generation, then fade everything out.
StopAllBump ==
  /\ command = NoCommand
  /\ stopGeneration < MaxStops
  /\ stopGeneration' = stopGeneration + 1
  /\ command' = [op |-> "fade_all"]
  /\ UNCHANGED <<taskVars, load, voiceVars, duckVars, sampleVars, scanVars,
                 taken, history>>

StopAllFade ==
  /\ command.op = "fade_all"
  /\ MixerFree
  /\ fading' = fading \cup active
  /\ command' = NoCommand
  /\ UNCHANGED <<taskVars, load, stopGeneration, voiceVars, duckVars, active,
                 targetVolume, ended, scanVars, taken, history>>

LivingIds == {idOf[p] : p \in {q \in Plays : Starting(q) \/ q \in active}}

\* voice_stop empties the voice; a voice without samples is not found.
VoiceStop(v) ==
  /\ command = NoCommand
  /\ voiceIds[v] # {}
  /\ command' = [op |-> "fade", ids |-> voiceIds[v]]
  /\ voiceIds' = [voiceIds EXCEPT ![v] = {}]
  /\ voiceVolume' = VolumeAfter(voiceIds')
  /\ clearedIds' = LivingIds \cap (clearedIds \cup voiceIds[v])
  /\ UNCHANGED <<taskVars, load, stopGeneration, nextSampleId, duckVars,
                 sampleVars, scanVars, taken, missed, undercut>>

\* voice_fade_out reads the voice's ids and leaves them.
VoiceFadeOut(v) ==
  /\ command = NoCommand
  /\ voiceIds[v] # {}
  /\ command' = [op |-> "fade", ids |-> voiceIds[v]]
  /\ UNCHANGED <<taskVars, load, stopGeneration, voiceVars, duckVars,
                 sampleVars, scanVars, taken, history>>

FadeIds ==
  /\ command.op = "fade"
  /\ MixerFree
  /\ fading' = fading \cup {p \in active : idOf[p] \in command.ids}
  /\ command' = NoCommand
  /\ UNCHANGED <<taskVars, load, stopGeneration, voiceVars, duckVars, active,
                 targetVolume, ended, scanVars, taken, history>>

VoiceVolume(v, x) ==
  /\ command = NoCommand
  /\ voiceIds[v] # {}
  /\ voiceVolume' = [voiceVolume EXCEPT ![v] = x]
  /\ command' = [op |-> "volume", voice |-> v, volume |-> x]
  /\ UNCHANGED <<taskVars, load, stopGeneration, nextSampleId, voiceIds,
                 duckVars, sampleVars, scanVars, taken, history>>

\* The plays of voice v that are left without its volume x: those that read
\* another one and are not in the mixer yet, and all of them if the voice was
\* forgotten, and its volume with it, since the command set it.
Overtaken(v, x) ==
  {p \in Plays : /\ voiceOf[p] = v
                 /\ \/ Starting(p) /\ targetVolume[p] # x
                    \/ (Starting(p) \/ p \in active) /\ voiceVolume[v] # x}

\* Samples are found by the name of their voice.
ApplyVolume ==
  LET v == command.voice
      x == command.volume
      reached == {p \in active : voiceOf[p] = v} IN
  /\ command.op = "volume"
  /\ MixerFree
  /\ targetVolume' = [p \in Plays |->
                        IF p \in reached THEN x ELSE targetVolume[p]]
  /\ missed' = (missed \ reached) \cup Overtaken(v, x)
  /\ command' = NoCommand
  /\ UNCHANGED <<taskVars, load, stopGeneration, voiceVars, duckVars, active,
                 fading, ended, scanVars, taken, clearedIds, undercut>>

\* stop with a selector: some of the playing samples match it.
StopMatching(S) ==
  /\ command = NoCommand
  /\ MixerFree
  /\ fading' = fading \cup S
  /\ UNCHANGED <<taskVars, load, stopGeneration, voiceVars, duckVars, active,
                 targetVolume, ended, scanVars, command, taken, history>>

\* seek and speed can take a sample away from its end before the next scan.
Reposition(S) ==
  /\ command = NoCommand
  /\ MixerFree
  /\ ended' = ended \ S
  /\ UNCHANGED <<taskVars, load, stopGeneration, voiceVars, duckVars, active,
                 fading, targetVolume, scanVars, command, taken, history>>

Command ==
  \/ \E p \in Plays : PlayCommand(p)
  \/ StopAllBump \/ StopAllFade
  \/ \E v \in Voices : VoiceStop(v) \/ VoiceFadeOut(v)
  \/ FadeIds
  \/ \E v \in Voices, x \in Volumes : VoiceVolume(v, x)
  \/ ApplyVolume
  \/ \E S \in SUBSET active : StopMatching(S) \/ Reposition(S)

-----------------------------------------------------------------------------
(* The housekeeping task.                                                  *)

HousekeepTake ==
  /\ MixerFree
  /\ taken = {} /\ finished # {}
  /\ taken' = finished
  /\ finished' = {}
  /\ UNCHANGED <<taskVars, load, stopGeneration, voiceVars, duckVars,
                 sampleVars, callback, collected, command,
                 history>>

HousekeepPrune ==
  /\ taken # {}
  /\ voiceIds' = Without(taken)
  /\ voiceVolume' = VolumeAfter(voiceIds')
  /\ taken' = {}
  /\ UNCHANGED <<taskVars, load, stopGeneration, nextSampleId, duckVars,
                 sampleVars, scanVars, command, history>>

Housekeep == HousekeepTake \/ HousekeepPrune

Loader(p) == LoaderFails(p) \/ LoaderCompletes(p)

Next ==
  \/ Command
  \/ \E p \in Plays : PlayTask(p) \/ Loader(p)
  \/ Callback
  \/ Housekeep

Spec == Init /\ [][Next]_vars

(* The tokio runtime keeps running every task that can run, a load ends    *)
(* (the download's stall timeout fails one that hangs), the device keeps   *)
(* calling the callback, which always returns, and housekeeping is on a    *)
(* timer.  Nothing is assumed of the commands users send or of the loaders *)
(* of buffers already playing.                                             *)
FairSpec ==
  /\ Spec
  /\ \A p \in Plays : WF_vars(PlayTask(p))
  /\ WF_vars(CallbackCollect \/ CallbackRetain)
  /\ WF_vars(Housekeep)

-----------------------------------------------------------------------------
(* Properties.                                                             *)

\* Every variable has its type.
TypeOK ==
  /\ playPc \in [Plays -> PlayStates]
  /\ voiceOf \in [Plays -> Voices]
  /\ generation \in [Plays -> Nat]
  /\ idOf \in [Plays -> Nat]
  /\ wasActive \in [Plays -> BOOLEAN]
  /\ load \in [Plays -> LoadStates]
  /\ stopGeneration \in 0..MaxStops
  /\ nextSampleId \in Nat \ {0}
  /\ voiceIds \in [Voices -> SUBSET (Nat \ {0})]
  /\ voiceVolume \in [Voices -> Volumes]
  /\ activeVoices \subseteq Voices
  /\ engineActive \subseteq Voices
  /\ active \subseteq Plays /\ fading \subseteq active /\ ended \subseteq active
  /\ targetVolume \in [Plays -> Volumes]
  /\ finished \subseteq Nat /\ taken \subseteq Nat /\ clearedIds \subseteq Nat
  /\ missed \subseteq Plays /\ undercut \subseteq Plays
  /\ callback \in {"idle", "collect", "retain"}
  /\ collected \subseteq active
  /\ command \in CommandStates

\* A sample the mixer plays can still be reached by voice commands, unless a
\* voice_stop already took it: housekeeping, working from ids the callback
\* left earlier, never forgets a sample that plays.
TrackedUntilStopped ==
  \A p \in active : idOf[p] \in voiceIds[voiceOf[p]] \cup clearedIds

\* The ids on their way to being forgotten are never those of a sample that
\* plays or is about to, whatever the three scans of a callback saw.
PruneSparesLiving ==
  \A p \in Plays : Starting(p) \/ p \in active =>
                      idOf[p] \notin finished \cup taken

\* A play whose load was in flight when a stop arrived never reaches the
\* mixer, however late its load returns.
LateLoadsDiscarded ==
  \A p \in Plays : [](playPc[p] = "loading" /\ generation[p] < stopGeneration
                         => [](p \notin active))

\* While a sample plays, its voice ducks the others, or the task that found the
\* voice inactive is about to say so: the callback that takes a voice's last
\* sample, the set of active voices and the ducking engine never disagree about
\* a voice that goes on playing.  Only a play that found its voice active by a
\* sample the callback took before the play reached the mixer goes without, and
\* only until the next play of the voice that finds it inactive.
DuckInForce ==
  \A p \in active \ undercut :
    voiceOf[p] \in engineActive \/ Announced(voiceOf[p])

\* Between volume commands every sample that plays has the volume its voice
\* has in the voice manager, as long as the voice still lists it: only a volume
\* command that is overtaken between its two critical sections leaves a play
\* with another volume, until the next one.
VolumeInForce ==
  command.op # "volume" =>
    \A p \in active \ missed :
      idOf[p] \in voiceIds[voiceOf[p]] => targetVolume[p] = voiceVolume[voiceOf[p]]

\* The voice manager lists no ghost: each id in it belongs to a sample that is
\* about to play, plays, or waits for housekeeping.  (Of samples that were
\* loaded when they got their buffer: one whose stream fails between two scans
\* of the callback leaves the mixer and is not recorded.)
NoGhostSamples ==
  \A p \in Plays \ StreamingPlays, v \in Voices :
    idOf[p] \in voiceIds[v] => \/ Starting(p) \/ p \in active
                               \/ idOf[p] \in finished \cup taken

\* A voice of samples ducks others only while one of its samples plays.
\* (Of voices no streamed sample uses, as above.)
DuckOnlyWhilePlaying ==
  engineActive \ VoicesOf(StreamingPlays) \subseteq VoicesOf(active)

\* Every play whose load runs is answered: started, cancelled or failed.
EveryPlayAnswered ==
  \A p \in Plays : playPc[p] = "loading"
                    ~> playPc[p] \in {"started", "cancelled", "failed"}

\* Every id the callback recorded leaves the voice manager.
FinishedForgotten ==
  \A p \in Plays : (idOf[p] \in finished)
                    ~> (\A v \in Voices : idOf[p] \notin voiceIds[v])

\* The bookkeeping of ids that housekeeping, the callback, commands and play
\* tasks keep together: no id on its way out is of a sample that plays or
\* starts, and a sample that plays can be reached by its voice.
Bookkeeping == TypeOK /\ PruneSparesLiving /\ TrackedUntilStopped

\* Nothing stays behind what has ended: no id of a gone sample in the voice
\* manager, and no voice that ducks others without playing.
NothingLeftBehind == NoGhostSamples /\ DuckOnlyWhilePlaying

\* Every play runs its course: it is answered, and once it has been played it
\* is forgotten.
PlaysRunTheirCourse == EveryPlayAnswered /\ FinishedForgotten
=============================================================================
