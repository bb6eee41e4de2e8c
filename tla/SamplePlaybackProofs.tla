------------------------ MODULE SamplePlaybackProofs ------------------------
(* Theorems about SamplePlayback, for audio, crossfades, speeds, seeks and  *)
(* callbacks of any size.                                                  *)
EXTENDS SamplePlayback, FiniteSetTheorems, TLAPS

-----------------------------------------------------------------------------
(* Arithmetic.                                                             *)

\* A remainder is not negative and less than the divisor.
LEMMA Remainder ==
  ASSUME NEW a \in Int, NEW b \in Int, b > 0
  PROVE  (a % b) \in 0 .. b - 1
BY Z3

\* A number is its quotient's worth of divisors and its remainder.
LEMMA Division ==
  ASSUME NEW a \in Int, NEW b \in Int, b > 0
  PROVE  a \div b \in Int /\ a = b * (a \div b) + (a % b)
BY Z3

\* A multiple leaves no remainder.
LEMMA NoRemainder ==
  ASSUME NEW k \in Int, NEW b \in Int, b > 0
  PROVE  (b * k) % b = 0
BY Z3

\* A whole frame below n, with any fraction, is below n frames.
LEMMA BelowFrames ==
  ASSUME NEW t \in Nat, NEW n \in Nat, t < n, NEW f \in 0 .. Unit - 1
  PROVE  Unit * t + f \in 0 .. n * Unit - 1
<1>1. Unit \in Nat \ {0}
  BY UnitAssumption
<1>2. Unit * t + Unit <= n * Unit
  BY <1>1, Z3
<1>3. Unit * t \in Nat /\ n * Unit \in Nat
  BY <1>1, Z3
<1>4. QED BY <1>1, <1>2, <1>3, Z3

\* A fraction of a frame.
LEMMA Fraction ==
  ASSUME NEW p \in Nat
  PROVE  p % Unit \in 0 .. Unit - 1
BY UnitAssumption, Remainder

\* What the play asked for.
LEMMA AudioFields ==
  ASSUME audio \in PlayRequests
  PROVE  /\ audio.kind \in {"complete", "streaming"}
         /\ audio.length \in Lengths
         /\ audio.estimate \in Estimates
         /\ audio.loop \in BOOLEAN
         /\ audio.crossfade \in Crossfades
BY Zenon DEF PlayRequests

LEMMA AudioTypes ==
  ASSUME audio \in PlayRequests
  PROVE  /\ audio.length \in Nat \ {0}
         /\ audio.crossfade \in Nat
         /\ audio.estimate \in Nat \cup {Unknown}
<1>1. /\ audio.length \in Lengths
      /\ audio.crossfade \in Crossfades
      /\ audio.estimate \in Estimates
  BY AudioFields
<1>2. QED
  BY <1>1, LengthsAssumption, CrossfadesAssumption, EstimatesAssumption,
     Zenon

\* wrap_loop_position moves a playhead by whole periods, lands inside the
\* buffer, forwards past the head and backwards before the tail.
LEMMA WrapLands ==
  ASSUME TypeOK, NEW p \in Int, NEW n \in Nat \ {0}
  PROVE  LET end == n * Unit
             blend == Blend(n) * Unit
         IN  /\ end \in Nat /\ blend \in Nat /\ end - blend > 0
             /\ WrapLoop(p, n) \in 0 .. end - 1
             /\ \E k \in Int : WrapLoop(p, n) - p = (end - blend) * k
             /\ p >= end => WrapLoop(p, n) \in blend .. end - 1
             /\ p < 0 => WrapLoop(p, n) \in 0 .. end - blend
<1> DEFINE end == n * Unit
           blend == Blend(n) * Unit
           period == (n - Blend(n)) * Unit
           over == (p - end) % period
           under == (-p) % period
           wrapped == IF p >= end THEN blend + over ELSE period - under
<1>1. Unit \in Nat \ {0} /\ Blend(n) \in Nat /\ n - Blend(n) \in Nat \ {0}
  <2>1. audio.crossfade \in Nat
    BY AudioTypes DEF TypeOK
  <2>2. QED BY <2>1, UnitAssumption, Z3 DEF Blend
<1>2. /\ end \in Nat /\ blend \in Nat
      /\ period \in Nat \ {0}
      /\ period = end - blend
  BY <1>1, Z3
<1>3. WrapLoop(p, n) = IF p \in 0 .. end - 1 THEN p
                       ELSE IF wrapped >= end THEN wrapped - period
                       ELSE wrapped
  BY DEF WrapLoop
<1> HIDE DEF end, blend, period
<1>4. CASE p \in 0 .. end - 1
  <2>1. WrapLoop(p, n) - p = period * 0
    BY <1>2, <1>3, <1>4, Z3
  <2>2. QED BY <1>2, <1>3, <1>4, <2>1, Z3 DEF end, blend
<1>5. CASE p >= end
  <2>1. over \in 0 .. period - 1
    BY <1>2, Remainder
  <2>2. /\ (p - end) \div period \in Int
        /\ p - end = period * ((p - end) \div period) + over
    BY <1>2, Division
  <2> DEFINE q == (p - end) \div period
  <2> HIDE DEF over, q
  <2>3. WrapLoop(p, n) = blend + over
    BY <1>2, <1>3, <1>5, <2>1, Z3
  <2>4. -q - 1 \in Int /\ WrapLoop(p, n) - p = period * (-q - 1)
    BY <1>2, <2>1, <2>2, <2>3, Z3 DEF q
  <2>5. WrapLoop(p, n) \in blend .. end - 1
    BY <1>2, <2>1, <2>3, Z3
  <2>6. QED BY <1>2, <1>5, <2>4, <2>5, Z3 DEF end, blend
<1>6. CASE p < 0
  <2>1. under \in 0 .. period - 1
    BY <1>2, Remainder
  <2>2. /\ (-p) \div period \in Int
        /\ -p = period * ((-p) \div period) + under
    BY <1>2, Division
  <2> DEFINE q == (-p) \div period
  <2> HIDE DEF under, q
  <2>3. \/ WrapLoop(p, n) = period - under
        \/ WrapLoop(p, n) = -under /\ under = 0
    BY <1>2, <1>3, <1>6, <2>1, Z3
  <2>4. /\ q + 1 \in Int /\ q \in Int
        /\ \/ WrapLoop(p, n) - p = period * (q + 1)
           \/ WrapLoop(p, n) - p = period * q
    BY <1>2, <2>1, <2>2, <2>3, Z3 DEF q
  <2>5. WrapLoop(p, n) \in 0 .. end - blend /\ WrapLoop(p, n) < end
    BY <1>2, <1>3, <1>6, <2>1, <2>3, Z3
  <2>6. QED BY <1>2, <1>6, <2>4, <2>5, Z3 DEF end, blend
<1>7. QED BY <1>2, <1>4, <1>5, <1>6, Z3

\* A callback mixes a whole number of frames.
LEMMA MixedCounts ==
  ASSUME NEW n \in Nat
  PROVE  Mixed(n) \in Nat
<1> DEFINE all == 0 .. CallbackFrames - 1
           ahead == {i \in all : \A j \in 0 .. i :
                       position + j * speed \in 0 .. n * Unit - 1}
<1>1. CallbackFrames \in Nat
  BY CallbackAssumption
<1>2. IsFiniteSet(all)
  BY <1>1, FS_Interval
<1>3. ahead \in SUBSET all
  OBVIOUS
<1>4. IsFiniteSet(ahead)
  BY <1>2, <1>3, FS_Subset
<1>5. Cardinality(ahead) \in Nat
  BY <1>4, FS_CardinalityType
<1>6. QED BY <1>1, <1>5 DEF Mixed

-----------------------------------------------------------------------------
(* Type correctness.                                                       *)

\* The buffer answers with a number of frames, its length or nothing.
LEMMA Answers ==
  ASSUME TypeOK
  PROVE  /\ Frames \subseteq Nat
         /\ LengthHeard \subseteq Nat \cup {Unknown}
<1>1. audio.length \in Nat /\ audio.estimate \in Nat \cup {Unknown}
  BY AudioTypes, SMT DEF TypeOK
<1>2. loaded \in Nat
  BY <1>1, SMT DEF TypeOK
<1>3. QED BY <1>1, <1>2, SMT DEF Frames, LengthHeard

\* A seek asks for a frame.
LEMMA SeekFrame ==
  ASSUME NEW t \in Targets, NEW n \in Nat \cup {Unknown}
  PROVE  /\ SeekTarget(t, n) \in Nat
         /\ StartTarget(t, n) \in Nat
         /\ n > 0 => SeekTarget(t, n) < n /\ StartTarget(t, n) < n
<1>1. t \in Nat
  BY TargetsAssumption
<1>2. n > 0 => n - 1 \in Nat
  BY SMT
<1>3. SeekTarget(t, n) \in Nat /\ (n > 0 => SeekTarget(t, n) < n)
  BY <1>1, <1>2, SMT DEF SeekTarget
<1>4. CASE n > 0
  <2>1. n # Unknown /\ n # 0 BY <1>4, SMT DEF Unknown
  <2>2. StartTarget(t, n) = IF t > n - 1 THEN n - 1 ELSE t
    BY <2>1 DEF StartTarget
  <2>3. QED BY <1>1, <1>2, <1>3, <1>4, <2>2, SMT
<1>5. CASE ~(n > 0)
  <2>1. CASE n = Unknown BY <1>1, <1>3, <1>5, <2>1 DEF StartTarget
  <2>2. CASE n = 0 /\ n # Unknown BY <1>3, <1>5, <2>2 DEF StartTarget
  <2>3. QED BY <1>5, <2>1, <2>2, SMT DEF Unknown
<1>6. QED BY <1>4, <1>5

\* Whole frames are a position.
LEMMA FramePosition ==
  ASSUME NEW t \in Nat
  PROVE  Unit * t \in Nat
BY UnitAssumption, SMT

\* The initial states have their types, and a loop over a complete buffer
\* starts inside it.
LEMMA InitType == Init => TypeOK /\ LoopInsideBuffer
<1> SUFFICES ASSUME Init PROVE TypeOK /\ LoopInsideBuffer
  OBVIOUS
<1>1. audio.length \in Nat \ {0} /\ audio.estimate \in Nat \cup {Unknown}
  BY AudioTypes, SMT DEF Init
<1>2. LengthHeard \subseteq Nat \cup {Unknown}
  BY <1>1, SMT DEF LengthHeard
<1>3. position \in Nat
  <2>1. CASE position = 0 BY <2>1
  <2>2. ASSUME NEW t \in Targets, NEW n \in LengthHeard,
               position = Unit * StartTarget(t, n)
        PROVE  position \in Nat
    BY <1>2, <2>2, SeekFrame, FramePosition
  <2>3. QED BY <2>1, <2>2 DEF Init
<1>4. fade \in FadeStates /\ fade.elapsed <= fade.duration
  BY FadesAssumption, SMT DEF Init, NoFade, Fade, FadeStates
<1>5. speed \in Speeds
  BY SpeedsAssumption DEF Init
<1>6. loaded \in 0 .. audio.length
  BY <1>1, SMT DEF Init
<1>7. TypeOK
  <2>1. load \in {"loading", "complete", "failed"} /\ 0 \in 0 .. MaxCommands
    BY BoundsAssumption, SMT DEF Init
  <2>2. callback \in {"idle", "advance", "failed?", "complete?", "end?"}
          /\ pitch \in BOOLEAN /\ playing \in BOOLEAN
    BY Zenon DEF Init
  <2>3. audio \in PlayRequests /\ commands = 0
    BY DEF Init
  <2>4. QED BY <1>3, <1>4, <1>5, <1>6, <2>1, <2>2, <2>3 DEF TypeOK
<1>8. LoopInsideBuffer
  <2> SUFFICES ASSUME audio.kind = "complete"
               PROVE  position < audio.length * Unit
    BY DEF LoopInsideBuffer
  <2>1. LengthHeard = {audio.length}
    BY DEF LengthHeard
  <2>3. ASSUME NEW t \in Nat, t < audio.length
        PROVE  Unit * t < audio.length * Unit
    <3>1. 0 \in 0 .. Unit - 1
      BY UnitAssumption, SMT
    <3>2. Unit * t + 0 \in 0 .. audio.length * Unit - 1
      BY <1>1, <2>3, <3>1, BelowFrames
    <3>3. Unit * t \in Nat
      BY FramePosition
    <3>4. audio.length * Unit \in Nat
      BY <1>1, UnitAssumption, SMT
    <3>5. QED BY <3>2, <3>3, <3>4, SMT
  <2>4. CASE position = 0
    <3>1. Unit * 0 = 0 BY UnitAssumption, SMT
    <3>2. QED BY <1>1, <2>3, <2>4, <3>1, SMT
  <2>5. ASSUME NEW t \in Targets,
               position = Unit * StartTarget(t, audio.length)
        PROVE  position < audio.length * Unit
    <3>1. StartTarget(t, audio.length) \in Nat
            /\ StartTarget(t, audio.length) < audio.length
      BY <1>1, SeekFrame, SMT
    <3>2. QED BY <1>3, <2>3, <2>5, <3>1, SMT
  <2>6. QED BY <2>1, <2>4, <2>5 DEF Init
<1>9. QED BY <1>7, <1>8

-----------------------------------------------------------------------------
(* Steps.  Each keeps the types, and each keeps the rest of the inductive  *)
(* invariant.                                                              *)

\* A step of the loader.
LEMMA LoaderKeeps ==
  ASSUME TypeOK, PlaybackInv, Loader
  PROVE  TypeOK' /\ PlaybackInv'
<1>1. audio.length \in Nat
  BY AudioTypes DEF TypeOK
<1> USE DEF Loading, headVars
<1>2. ASSUME NEW k \in 1 .. audio.length, Append(k)
      PROVE  TypeOK' /\ PlaybackInv'
  <2>1. loaded' \in 0 .. audio.length
    BY <1>1, <1>2, SMT DEF Append, TypeOK
  <2>2. TypeOK'
    BY <1>2, <2>1 DEF Append, TypeOK
  <2>3. QED BY <1>2, <2>2 DEF Append, PlaybackInv, LoopInsideBuffer
<1>3. CASE MarkComplete
  BY <1>3 DEF MarkComplete, TypeOK, PlaybackInv, LoopInsideBuffer
<1>4. CASE MarkError
  BY <1>4 DEF MarkError, TypeOK, PlaybackInv, LoopInsideBuffer
<1>5. QED BY <1>2, <1>3, <1>4 DEF Loader

\* A fade moves by frames mixed and stops at its duration.
LEMMA FadedType ==
  ASSUME fade \in FadeStates, fade.elapsed <= fade.duration, NEW m \in Nat
  PROVE  /\ Faded(m) \in FadeStates
         /\ Faded(m).elapsed <= Faded(m).duration
BY SMT DEF Faded, FadeStates

\* mix_sample_into_output.
LEMMA MixKeeps ==
  ASSUME TypeOK, PlaybackInv, Mix
  PROVE  TypeOK' /\ PlaybackInv'
<1>1. PICK n \in Frames : fade' = Faded(Mixed(n))
  BY DEF Mix
<1>2. Mixed(n) \in Nat
  BY <1>1, Answers, MixedCounts
<1>3. fade' \in FadeStates /\ fade'.elapsed <= fade'.duration
  BY <1>1, <1>2, FadedType DEF TypeOK
<1>4. TypeOK'
  BY <1>3 DEF Mix, TypeOK, bufferVars
<1>5. PlaybackInv'
  BY DEF Mix, PlaybackInv, LoopInsideBuffer, bufferVars
<1>6. QED BY <1>4, <1>5

\* advance_position: a loop lands inside what it has, which is all of a
\* complete buffer.
LEMMA AdvanceKeeps ==
  ASSUME TypeOK, PlaybackInv, AdvancePosition
  PROVE  TypeOK' /\ PlaybackInv'
<1> DEFINE p == position + CallbackFrames * speed
<1>1. p \in Int
  <2>1. speed \in Int /\ position \in Int
    BY SpeedsAssumption, SMT DEF TypeOK
  <2>2. QED BY <2>1, CallbackAssumption, SMT
<1>2. PICK n \in Frames :
        position' = IF audio.loop /\ n > 0 THEN WrapLoop(p, n)
                    ELSE IF p < 0 THEN 0 ELSE p
  BY DEF AdvancePosition
<1> HIDE DEF p
<1>3. n \in Nat
  BY <1>2, Answers
<1>4. n * Unit \in Nat
  BY <1>3, UnitAssumption, SMT
<1>5. audio.loop /\ n > 0 => position' \in 0 .. n * Unit - 1
  BY <1>1, <1>2, <1>3, WrapLands, SMT
<1>6. position' \in Nat
  BY <1>1, <1>2, <1>4, <1>5, SMT
<1>7. TypeOK'
  BY <1>6 DEF AdvancePosition, TypeOK, bufferVars
<1>8. LoopInsideBuffer'
  <2> SUFFICES ASSUME audio.loop, audio.kind = "complete"
               PROVE  position' < audio.length * Unit
    BY DEF LoopInsideBuffer, AdvancePosition
  <2>1. load = "complete" /\ loaded = audio.length
    BY DEF PlaybackInv
  <2>2. n = audio.length
    BY <1>2, <2>1 DEF Frames, Loading
  <2>3. n > 0
    BY <2>2, AudioTypes, SMT DEF TypeOK
  <2>4. QED BY <1>4, <1>5, <1>6, <2>2, <2>3, SMT
<1>9. QED
  BY <1>7, <1>8 DEF AdvancePosition, PlaybackInv, bufferVars

\* is_finished.
LEMMA CheckKeeps ==
  ASSUME TypeOK, PlaybackInv, CheckFailed \/ CheckComplete \/ CheckEnd
  PROVE  TypeOK' /\ PlaybackInv'
<1>1. speed \in Int \ {0}
  BY SpeedsAssumption, SMT DEF TypeOK
<1> USE DEF Kept, Removed, bufferVars, headVars, TypeOK, PlaybackInv,
            LoopInsideBuffer
<1>2. CASE CheckFailed
  <2>1. CASE OverWithoutEnd BY <1>2, <2>1 DEF CheckFailed
  <2>2. CASE ~OverWithoutEnd /\ (audio.loop \/ speed < 0)
    BY <1>2, <2>2 DEF CheckFailed
  <2>3. CASE ~OverWithoutEnd /\ ~(audio.loop \/ speed < 0)
    <3>1. speed > 0 BY <1>1, <2>3, SMT
    <3>2. QED BY <1>2, <2>3, <3>1 DEF CheckFailed
  <2>4. QED BY <2>1, <2>2, <2>3
<1>3. CASE CheckComplete BY <1>3 DEF CheckComplete, EndMayCount
<1>4. CASE CheckEnd BY <1>4 DEF CheckEnd
<1>5. QED BY <1>2, <1>3, <1>4

\* A command.
LEMMA CommandKeeps ==
  ASSUME TypeOK, PlaybackInv, Command
  PROVE  TypeOK' /\ PlaybackInv'
<1>1. Commanded
  BY DEF Command, Seek, SetSpeed, Stop
<1>2. commands' \in 0 .. MaxCommands
  BY <1>1, BoundsAssumption, SMT DEF Commanded, TypeOK
<1> USE DEF bufferVars
<1>3. ASSUME NEW t \in Targets, Seek(t)
      PROVE  TypeOK' /\ PlaybackInv'
  <2>1. PICK n \in LengthHeard :
          position' = Unit * SeekTarget(t, n) + (position % Unit)
    BY <1>3 DEF Seek
  <2>2. n \in Nat \cup {Unknown}
    BY <2>1, Answers
  <2>3. SeekTarget(t, n) \in Nat
    BY <2>2, SeekFrame
  <2>4. position % Unit \in 0 .. Unit - 1
    BY Fraction DEF TypeOK
  <2>5. position' \in Nat
    <3>1. Unit * SeekTarget(t, n) \in Nat
      BY <2>3, FramePosition
    <3>2. Unit \in Nat
      BY UnitAssumption
    <3>3. QED BY <2>1, <2>4, <3>1, <3>2, SMT
  <2>6. TypeOK'
    BY <1>1, <1>2, <1>3, <2>5 DEF Seek, Commanded, TypeOK
  <2>7. LoopInsideBuffer'
    <3> SUFFICES ASSUME audio.kind = "complete"
                 PROVE  position' < audio.length * Unit
      BY <1>1 DEF LoopInsideBuffer, Commanded
    <3>1. n = audio.length
      BY <2>1 DEF LengthHeard
    <3>2. audio.length \in Nat /\ audio.length > 0
      BY AudioTypes, SMT DEF TypeOK
    <3>3. SeekTarget(t, n) < audio.length
      BY <2>2, <3>1, <3>2, SeekFrame
    <3>4. position' \in 0 .. audio.length * Unit - 1
      BY <2>1, <2>3, <2>4, <3>2, <3>3, BelowFrames
    <3>5. audio.length * Unit \in Nat
      BY <3>2, UnitAssumption, SMT
    <3>6. QED BY <3>4, <3>5, SMT
  <2>8. QED BY <1>1, <1>3, <2>6, <2>7 DEF Seek, Commanded, PlaybackInv
<1>4. ASSUME NEW s \in Speeds, NEW c \in BOOLEAN, SetSpeed(s, c)
      PROVE  TypeOK' /\ PlaybackInv'
  <2>1. speed' \in Speeds /\ pitch' \in BOOLEAN
    BY <1>4 DEF SetSpeed, TypeOK
  <2>2. TypeOK'
    BY <1>1, <1>2, <1>4, <2>1 DEF SetSpeed, Commanded, TypeOK
  <2>3. QED
    BY <1>1, <1>4, <2>2
       DEF SetSpeed, Commanded, PlaybackInv, LoopInsideBuffer
<1>5. ASSUME NEW d \in FadeFrames, Stop(d)
      PROVE  TypeOK' /\ PlaybackInv'
  <2>1. fade' \in FadeStates /\ fade'.elapsed <= fade'.duration
    BY <1>5, FadesAssumption, SMT DEF Stop, Fade, FadeStates
  <2>2. TypeOK'
    BY <1>1, <1>2, <1>5, <2>1 DEF Stop, Commanded, TypeOK
  <2>3. QED
    BY <1>1, <1>5, <2>2 DEF Stop, Commanded, PlaybackInv, LoopInsideBuffer
<1>6. QED BY <1>3, <1>4, <1>5 DEF Command

\* Every step.
LEMMA NextKeeps ==
  ASSUME TypeOK, PlaybackInv, [Next]_vars
  PROVE  TypeOK' /\ PlaybackInv'
<1>1. CASE Loader BY <1>1, LoaderKeeps
<1>2. CASE Callback BY <1>2, MixKeeps, AdvanceKeeps, CheckKeeps DEF Callback
<1>3. CASE Command BY <1>3, CommandKeeps
<1>4. CASE UNCHANGED vars
  BY <1>4 DEF vars, bufferVars, headVars, TypeOK, PlaybackInv,
              LoopInsideBuffer
<1>5. QED BY <1>1, <1>2, <1>3, <1>4 DEF Next

-----------------------------------------------------------------------------
(* Theorems.                                                               *)

\* The playhead, the fade and the loading state keep their types: no fade
\* runs past its duration and no playhead before the start.
THEOREM TypeCorrect == Spec => []TypeOK
<1>1. Init => TypeOK /\ PlaybackInv
  BY InitType DEF Init, PlaybackInv
<1>2. TypeOK /\ PlaybackInv /\ [Next]_vars => TypeOK' /\ PlaybackInv'
  BY NextKeeps
<1>3. QED BY <1>1, <1>2, PTL DEF Spec

\* The inductive invariant holds.
THEOREM PlaybackInvariant == Spec => []PlaybackInv
<1>1. Init => TypeOK /\ PlaybackInv
  BY InitType DEF Init, PlaybackInv
<1>2. TypeOK /\ PlaybackInv /\ [Next]_vars => TypeOK' /\ PlaybackInv'
  BY NextKeeps
<1>3. QED BY <1>1, <1>2, PTL DEF Spec

\* The stretcher never indexes a complete buffer past its end.
THEOREM LoopStaysInside == Spec => []LoopInsideBuffer
<1>1. PlaybackInv => LoopInsideBuffer
  BY DEF PlaybackInv
<1>2. QED BY <1>1, PlaybackInvariant, PTL

\* No sample is cut short, however its callbacks interleave with its loader.
THEOREM PlaysToTheEnd == Spec => NeverCutShort
<1> DEFINE Due == \/ FadeOver
                  \/ load = "failed"
                  \/ ~audio.loop /\ speed < 0 /\ position = 0
                  \/ /\ ~audio.loop /\ load = "complete"
                     /\ position >= audio.length * Unit
<1>1. ASSUME TypeOK, PlaybackInv, Next
      PROVE  playing /\ ~playing' => Due
  <2>1. CASE Loader
    BY <2>1 DEF Loader, Append, MarkComplete, MarkError
  <2>2. CASE Command
    BY <2>2 DEF Command, Commanded, Seek, SetSpeed, Stop
  <2>3. CASE Mix \/ AdvancePosition
    BY <2>3 DEF Mix, AdvancePosition
  <2>4. CASE CheckFailed
    BY <2>4 DEF CheckFailed, OverWithoutEnd, Kept
  <2>5. CASE CheckComplete
    BY <2>5 DEF CheckComplete, Kept
  <2>6. CASE CheckEnd
    <3>1. load = "complete" /\ ~audio.loop /\ loaded = audio.length
      BY <1>1, <2>6 DEF CheckEnd, PlaybackInv
    <3>2. Frames = {audio.length}
      BY <3>1 DEF Frames, Loading
    <3>3. QED BY <2>6, <3>1, <3>2 DEF CheckEnd, Kept
  <2>7. QED BY <1>1, <2>1, <2>2, <2>3, <2>4, <2>5, <2>6 DEF Next, Callback
<1>2. TypeOK /\ PlaybackInv /\ [Next]_vars
        => [playing /\ ~playing' => Due]_vars
  BY <1>1
<1>3. QED
  BY <1>2, TypeCorrect, PlaybackInvariant, PTL DEF Spec, NeverCutShort

\* A loop of a whole buffer keeps time, however short it is beside the
\* callback and whichever way it plays.
THEOREM LoopsKeepTime == Spec => LoopKeepsTime
<1> DEFINE whole == audio.length * Unit
           blend == Blend(audio.length) * Unit
           ideal == position + CallbackFrames * speed
           InTime == /\ (position' - ideal) % (whole - blend) = 0
                     /\ ideal >= whole => position' \in blend .. whole - 1
                     /\ ideal < 0 => position' \in 0 .. whole - blend
           Advanced == /\ callback = "advance" /\ callback' # "advance"
                       /\ audio.loop /\ load = "complete"
<1>1. ASSUME TypeOK, PlaybackInv, Next, Advanced
      PROVE  InTime
  <2>1. AdvancePosition
    BY <1>1 DEF Next, Loader, Append, MarkComplete, MarkError, Callback, Mix,
                CheckFailed, CheckComplete, CheckEnd, Command, Commanded,
                Seek, SetSpeed, Stop
  <2>2. Frames = {audio.length}
    BY <1>1 DEF Frames, Loading, PlaybackInv
  <2>3. audio.length \in Nat \ {0} /\ audio.length > 0
    BY <1>1, AudioTypes, SMT DEF TypeOK
  <2>4. position' = WrapLoop(ideal, audio.length)
    BY <1>1, <2>1, <2>2, <2>3 DEF AdvancePosition
  <2>5. ideal \in Int
    <3>1. speed \in Int /\ position \in Int
      BY <1>1, SpeedsAssumption, SMT DEF TypeOK
    <3>2. QED BY <3>1, CallbackAssumption, SMT
  <2> HIDE DEF ideal
  <2>6. /\ whole \in Nat /\ blend \in Nat /\ whole - blend > 0
        /\ \E k \in Int : WrapLoop(ideal, audio.length) - ideal
                            = (whole - blend) * k
        /\ ideal >= whole =>
             WrapLoop(ideal, audio.length) \in blend .. whole - 1
        /\ ideal < 0 =>
             WrapLoop(ideal, audio.length) \in 0 .. whole - blend
    BY <1>1, <2>3, <2>5, WrapLands
  <2> HIDE DEF whole, blend
  <2>7. PICK k \in Int : position' - ideal = (whole - blend) * k
    BY <2>4, <2>6
  <2>8. (position' - ideal) % (whole - blend) = 0
    <3>1. whole - blend \in Int
      BY <2>6, SMT
    <3>2. QED BY <2>6, <2>7, <3>1, NoRemainder
  <2>9. QED BY <2>4, <2>6, <2>8
<1>2. TypeOK /\ PlaybackInv /\ [Next]_vars => [Advanced => InTime]_vars
  BY <1>1
<1>3. QED
  BY <1>2, TypeCorrect, PlaybackInvariant, PTL DEF Spec, LoopKeepsTime

\* A playing sample and its buffer keep together at every read of a callback,
\* for any audio, speeds, seeks and callback size.
THEOREM PlaybackIsSound == Spec => []PlaybackSound
<1>1. TypeOK /\ PlaybackInv => PlaybackSound
  BY DEF PlaybackSound
<1>2. QED BY <1>1, TypeCorrect, PlaybackInvariant, PTL
=============================================================================
