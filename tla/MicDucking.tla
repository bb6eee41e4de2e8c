------------------------------ MODULE MicDucking ------------------------------
(* The ducking engine with the live inputs that drive it: capture callbacks  *)
(* raise a peak level, the bridge task takes it every 50 ms, puts it through *)
(* the activity detector of the input and notifies the engine of changes.    *)
(* Samples notify the engine as before, on any of SampleVoices.              *)
(*                                                                           *)
(* Time passes in ticks of the bridge's interval.  A deadline is kept as the *)
(* ticks that remain to it, a level as whether it reaches the threshold.     *)
EXTENDS DuckingEngine, Sequences

CONSTANTS
  InputVoices,   \* the voice of each watched input, in the configured order
  SampleVoices,  \* voices that samples play on
  Hold,          \* activity_hold_ms, in ticks
  MaxLag         \* bound: ticks the bridge is kept from the mixer's mutex

ASSUME MicAssumption ==
  /\ InputVoices \in Seq(Voices) \ {<<>>}
  /\ SampleVoices \subseteq Voices
  /\ Hold \in Nat /\ MaxLag \in Nat

VARIABLES
  peak,       \* peak_level of each input: has it reached the threshold
  detector,   \* ActivityDetector.active of each input
  remaining,  \* ticks until its active_until
  turn,       \* the input the bridge is at; 0: it waits for its interval
  change,     \* the transition it is about to notify, or none
  lag,        \* ticks since it looked at the clock
  heard       \* history: ticks since each input was last loud, up to Hold

micVars == <<peak, detector, remaining, turn, change, lag, heard>>
allVars == <<vars, micVars>>

Inputs == 1 .. Len(InputVoices)

MicTypeOK ==
  /\ peak \in [Inputs -> {"quiet", "loud"}]
  /\ detector \in [Inputs -> {"quiet", "active"}]
  /\ remaining \in [Inputs -> (-MaxLag) .. Hold]
  /\ turn \in 0 .. Len(InputVoices)
  /\ change \in {"none", "quiet", "active"}
  /\ lag \in 0 .. MaxLag
  /\ heard \in [Inputs -> 0 .. Hold]

MicInit ==
  /\ Init
  /\ peak = [i \in Inputs |-> "quiet"]
  /\ detector = [i \in Inputs |-> "quiet"]
  /\ remaining = [i \in Inputs |-> 0]
  /\ turn = 0 /\ change = "none" /\ lag = 0
  /\ heard = [i \in Inputs |-> Hold]

-----------------------------------------------------------------------------
\* A loud block raises the peak (fetch_max); a quiet one leaves it.
\*
\* Mutated form of Capture: a quiet block overwrites the peak.
CaptureLast(i) ==
  /\ \E level \in {"quiet", "loud"} :
       /\ peak' = [peak EXCEPT ![i] = level]
       /\ heard' = IF level = "loud" THEN [heard EXCEPT ![i] = 0] ELSE heard
  /\ UNCHANGED <<vars, detector, remaining, turn, change, lag>>

Capture(i) ==
  /\ peak' = [peak EXCEPT ![i] = "loud"]
  /\ heard' = [heard EXCEPT ![i] = 0]
  /\ UNCHANGED <<vars, detector, remaining, turn, change, lag>>

\* Time passes for every deadline, and for a bridge that waits for a mutex.
Tick ==
  /\ turn # 0 => lag < MaxLag
  /\ lag' = IF turn # 0 THEN lag + 1 ELSE 0
  /\ remaining' = [i \in Inputs |->
       IF remaining[i] > -MaxLag THEN remaining[i] - 1 ELSE -MaxLag]
  /\ heard' = [i \in Inputs |-> IF heard[i] < Hold THEN heard[i] + 1 ELSE Hold]
  /\ UNCHANGED <<vars, peak, detector, turn, change>>

\* The interval elapses: the bridge looks at the clock once for all inputs.
Wake ==
  /\ turn = 0
  /\ turn' = 1 /\ lag' = 0
  /\ UNCHANGED <<vars, peak, detector, remaining, change, heard>>

\* The next input, or the wait for the next interval.
NextTurn == IF turn = Len(InputVoices) THEN 0 ELSE turn + 1

\* Mutated form of Deadline: only the first loud level starts the hold.
DeadlineOnce(i) ==
  IF peak[i] = "loud" /\ detector[i] = "quiet" THEN Hold - lag ELSE remaining[i]
\* active_until of an input that has just been polled, counted from the look
\* at the clock: a loud level restarts the hold.
Deadline(i) == IF peak[i] = "loud" THEN Hold - lag ELSE remaining[i]

\* What ActivityDetector::update makes of the peak.
Speaks(i) == peak[i] = "loud" /\ detector[i] = "quiet"
GoesQuiet(i) ==
  peak[i] = "quiet" /\ detector[i] = "active" /\ remaining[i] + lag <= 0

\* The peak is taken and set back in one step, and put through the detector.
Poll ==
  /\ turn # 0 /\ change = "none"
  /\ peak' = [peak EXCEPT ![turn] = "quiet"]
  /\ remaining' = [remaining EXCEPT ![turn] = Deadline(turn)]
  /\ \/ /\ Speaks(turn)
        /\ change' = "active"
        /\ detector' = [detector EXCEPT ![turn] = "active"]
        /\ UNCHANGED turn
     \/ /\ GoesQuiet(turn)
        /\ change' = "quiet"
        /\ detector' = [detector EXCEPT ![turn] = "quiet"]
        /\ UNCHANGED turn
     \/ /\ ~Speaks(turn) /\ ~GoesQuiet(turn)
        /\ turn' = NextTurn
        /\ UNCHANGED <<detector, change>>
  /\ UNCHANGED <<vars, lag, heard>>

\* A transition is notified under the mixer's mutex.
\*
\* Mutated form of Report: the engine hears of speech only.
ReportSpeech ==
  /\ change # "none"
  /\ IF change = "active" THEN NotifyVoiceActive(InputVoices[turn], TRUE)
     ELSE UNCHANGED vars
  /\ change' = "none"
  /\ turn' = NextTurn
  /\ UNCHANGED <<peak, detector, remaining, lag, heard>>

Report ==
  /\ change # "none"
  /\ NotifyVoiceActive(InputVoices[turn], change = "active")
  /\ change' = "none"
  /\ turn' = NextTurn
  /\ UNCHANGED <<peak, detector, remaining, lag, heard>>

\* The engine's own steps, and samples that start and end.
Engine == Advance \/ \E v \in SampleVoices, b \in BOOLEAN : NotifyVoiceActive(v, b)

Bridge == Wake \/ Poll \/ Report
MicNext ==
  \/ Engine /\ UNCHANGED micVars
  \/ \E i \in Inputs : Capture(i)
  \/ Tick
  \/ Bridge

MicSpec == MicInit /\ [][MicNext]_allVars

\* The output calls back, time passes and the bridge task is scheduled; nobody
\* has to speak or play.
MicFairSpec ==
  /\ MicSpec
  /\ WF_allVars(Advance /\ UNCHANGED micVars) /\ WF_allVars(Tick) /\ WF_allVars(Bridge)

-----------------------------------------------------------------------------
\* Inputs whose voice no sample and no other input uses.
OwnVoice(i) ==
  /\ InputVoices[i] \notin SampleVoices
  /\ \A j \in Inputs : InputVoices[j] = InputVoices[i] => j = i

\* The engine takes the voice of an input for active exactly while its
\* detector does, up to the transition on its way.
MicMatches ==
  \A i \in Inputs : OwnVoice(i) /\ ~(turn = i /\ change # "none") =>
    ((InputVoices[i] \in activeVoices) <=> (detector[i] = "active"))

\* A voice is released only when its input has been quiet for the hold time,
\* less what the bridge was late, or has just become loud again and will be
\* heard at the next poll: ducking does not flutter in the pauses between
\* words.
HoldKept ==
  [][\A i \in Inputs : OwnVoice(i) =>
       (InputVoices[i] \in activeVoices /\ InputVoices[i] \notin activeVoices'
         => heard[i] >= Hold - MaxLag \/ peak[i] = "loud")]_allVars

\* Whoever speaks ducks the others, however the bridge, the callbacks and the
\* samples are scheduled.
SpeechDucks ==
  \A i \in Inputs : OwnVoice(i) =>
    (peak[i] = "loud") ~> (InputVoices[i] \in activeVoices)

\* Whoever has stopped speaking releases them.
SilenceReleases ==
  \A i \in Inputs : OwnVoice(i) =>
    (<>[](peak[i] = "quiet") => <>[](InputVoices[i] \notin activeVoices))

\* Engine, detectors and bridge agree: a voice is headed where the rules of the
\* active voices ask, and a detector's state is what the engine was told.
DuckingSound == TypeOK /\ MicTypeOK /\ HeadedByRules /\ MicMatches

\* A pause shorter than the hold does not release the ducking, and silence
\* beyond it does.
HoldRespected == HoldKept /\ SilenceReleases
=============================================================================
