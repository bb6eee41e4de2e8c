------------------------- MODULE DuckingEngineProofs -------------------------
(* Theorems about DuckingEngine, for any voices and rules, and about what    *)
(* drives it in MicDucking, for any inputs, hold time and lateness.          *)
EXTENDS MicDucking, WellFoundedInduction, TLAPS

-----------------------------------------------------------------------------
(* Least elements and interpolation.                                       *)

\* A set of naturals has a least element.
LEMMA LeastOf ==
  ASSUME NEW S \in SUBSET Nat, S # {}
  PROVE  /\ Least(S) \in S
         /\ \A k \in S : Least(S) <= k
<1> DEFINE less == OpToRel(<, Nat)
<1>1. IsWellFoundedOn(less, Nat)
  BY NatLessThanWellFounded
<1>2. \A x, y \in Nat : <<y, x>> \in less <=> y < x
  BY SMT DEF OpToRel
<1> HIDE DEF less
<1>3. PICK x \in S : \A y \in S : ~ (<<y, x>> \in less)
  BY <1>1, WFMin
<1>4. ASSUME NEW y \in S
      PROVE  x <= y
  <2>1. x \in Nat /\ y \in Nat
    OBVIOUS
  <2>2. ~ (<<y, x>> \in less)
    BY <1>3
  <2>3. ~ (y < x)
    BY <1>2, <2>1, <2>2, Zenon
  <2>4. QED BY <2>1, <2>3, SMT
<1>5. QED BY <1>3, <1>4 DEF Least

\* A quotient by a duration that has not run out is not more than the whole.
LEMMA Portion ==
  ASSUME NEW d \in Nat, NEW f \in Nat \ {0}, NEW e \in 0 .. f
  PROVE  (d * e) \div f \in 0 .. d
<1> DEFINE q == (d * e) \div f
           r == (d * e) % f
<1>1. d * e \in Nat /\ d * e <= d * f
  BY Z3
<1>2. q \in Int /\ r \in 0 .. f - 1 /\ d * e = f * q + r
  BY <1>1, Z3
<1> HIDE DEF q, r
<1>3. q >= 0
  BY <1>1, <1>2, Z3
<1>4. f * q <= f * d
  BY <1>1, <1>2, Z3
<1>5. q <= d
  BY <1>2, <1>4, Z3
<1>6. QED BY <1>2, <1>3, <1>5, Z3 DEF q

\* A level of a fade is a level.
LEMMA LevelType ==
  ASSUME NEW a \in 0 .. Full, NEW b \in 0 .. Full,
         NEW f \in Nat, NEW e \in 0 .. f
  PROVE  Level(a, b, e, f) \in 0 .. Full
<1>1. Full \in Nat
  BY LevelsAssumption
<1>2. CASE f = 0
  BY <1>2 DEF Level
<1>3. CASE f # 0 /\ b >= a
  <2>1. b - a \in Nat
    BY <1>1, <1>3, SMT
  <2>2. ((b - a) * e) \div f \in 0 .. b - a
    BY <1>3, <2>1, Portion
  <2>3. QED BY <1>1, <1>3, <2>2, SMT DEF Level
<1>4. CASE f # 0 /\ ~(b >= a)
  <2>1. a - b \in Nat
    BY <1>1, <1>4, SMT
  <2>2. ((a - b) * e) \div f \in 0 .. a - b
    BY <1>4, <2>1, Portion
  <2>3. QED BY <1>1, <1>4, <2>2, SMT DEF Level
<1>5. QED BY <1>2, <1>3, <1>4

-----------------------------------------------------------------------------
(* Rules.                                                                  *)

\* What a set of rules asks for is a level and a duration.
LEMMA Asked ==
  ASSUME NEW rules \in SUBSET Rules, rules # {}
  PROVE  LowestTarget(rules) \in 0 .. Full /\ FastestFade(rules) \in Nat
<1>1. \A r \in Rules : r.target \in 0 .. Full /\ r.fade \in Nat
  BY RulesAssumption, Zenon
<1> DEFINE targets == {r.target : r \in rules}
           fades == {r.fade : r \in rules}
<1>2. targets \subseteq 0 .. Full /\ targets # {}
  BY <1>1
<1>3. fades \subseteq Nat /\ fades # {}
  BY <1>1
<1>4. targets \subseteq Nat
  BY <1>2, LevelsAssumption, SMT
<1>5. Least(targets) \in targets
  BY <1>2, <1>4, LeastOf
<1>6. Least(fades) \in fades
  BY <1>3, LeastOf
<1>7. QED BY <1>2, <1>3, <1>5, <1>6 DEF LowestTarget, FastestFade

LEMMA ApplicableRules ==
  ASSUME NEW v, NEW A
  PROVE  Applicable(v, A) \in SUBSET Rules
BY DEF Applicable

-----------------------------------------------------------------------------
(* States of one voice.                                                    *)

WellTyped(s) == s \in DuckStates /\ s.elapsed <= s.fade

\* The fields of a state.
LEMMA StateFields ==
  ASSUME NEW s, WellTyped(s)
  PROVE  /\ s.target \in 0 .. Full /\ s.current \in 0 .. Full
         /\ s.start \in 0 .. Full
         /\ s.fade \in Nat /\ s.elapsed \in 0 .. s.fade
         /\ s.ducking \in BOOLEAN /\ s.lastFade \in Nat
<1>1. /\ s.target \in 0 .. Full /\ s.current \in 0 .. Full
      /\ s.start \in 0 .. Full
      /\ s.fade \in Nat /\ s.elapsed \in Nat
      /\ s.ducking \in BOOLEAN /\ s.lastFade \in Nat
  BY Zenon DEF WellTyped, DuckStates
<1>2. s.elapsed \in 0 .. s.fade
  BY <1>1, SMT DEF WellTyped
<1>3. QED BY <1>1, <1>2

\* A new fade is well typed.
LEMMA BegunType ==
  ASSUME NEW s, WellTyped(s), NEW t \in 0 .. Full, NEW f \in Nat
  PROVE  WellTyped(BeginDuck(s, t, f)) /\ WellTyped(BeginRestore(s, f))
<1>1. s.current \in 0 .. Full /\ s.lastFade \in Nat
  BY StateFields
<1>2. 0 \in Nat /\ Full \in 0 .. Full /\ 0 <= f
  BY LevelsAssumption, SMT
<1>3. BeginDuck(s, t, f) \in DuckStates
  BY <1>1, <1>2, Zenon DEF BeginDuck, DuckStates
<1>4. BeginRestore(s, f) \in DuckStates
  BY <1>1, <1>2, Zenon DEF BeginRestore, DuckStates
<1>5. BeginDuck(s, t, f).elapsed = 0 /\ BeginDuck(s, t, f).fade = f
  BY DEF BeginDuck
<1>6. BeginRestore(s, f).elapsed = 0 /\ BeginRestore(s, f).fade = f
  BY DEF BeginRestore
<1>7. QED BY <1>2, <1>3, <1>4, <1>5, <1>6 DEF WellTyped

\* A notification leaves a voice well typed.
LEMMA UpdatedType ==
  ASSUME NEW s, WellTyped(s), NEW rules \in SUBSET Rules
  PROVE  WellTyped(Updated(s, rules))
<1>1. CASE rules = {}
  <2>1. RestoreFade(s) \in Nat
    BY StateFields, FramesAssumption, SMT DEF RestoreFade
  <2>2. WellTyped(BeginRestore(s, RestoreFade(s)))
    <3>1. 0 \in 0 .. Full
      BY LevelsAssumption, SMT
    <3>2. QED BY <2>1, <3>1, BegunType
  <2>3. QED BY <1>1, <2>2 DEF Updated
<1>2. CASE rules # {}
  <2>1. WellTyped(BeginDuck(s, LowestTarget(rules), FastestFade(rules)))
    BY <1>2, Asked, BegunType
  <2>2. QED BY <1>2, <2>1 DEF Updated
<1>3. QED BY <1>1, <1>2

\* A callback leaves a voice well typed, and its fade not less far.
LEMMA AdvancedType ==
  ASSUME NEW s, WellTyped(s)
  PROVE  WellTyped(Advanced(s)) /\ Advanced(s).elapsed >= s.elapsed
<1>1. /\ s.target \in 0 .. Full /\ s.start \in 0 .. Full
      /\ s.fade \in Nat /\ s.elapsed \in 0 .. s.fade
      /\ s.ducking \in BOOLEAN /\ s.lastFade \in Nat
  BY StateFields
<1>2. Elapsed(s) \in 0 .. s.fade /\ Elapsed(s) >= s.elapsed
  BY <1>1, FramesAssumption, SMT DEF Elapsed
<1>3. Level(s.start, s.target, Elapsed(s), s.fade) \in 0 .. Full
  BY <1>1, <1>2, LevelType
<1>4. Elapsed(s) \in Nat
  BY <1>1, <1>2, SMT
<1>5. Advanced(s) \in DuckStates
  BY <1>1, <1>3, <1>4, Zenon DEF Advanced, DuckStates
<1>6. Advanced(s).elapsed = Elapsed(s) /\ Advanced(s).fade = s.fade
  BY DEF Advanced
<1>7. QED BY <1>1, <1>2, <1>5, <1>6, SMT DEF WellTyped

\* What TypeOK says of one voice.
LEMMA TypeOfVoice ==
  ASSUME TypeOK, NEW v \in Voices
  PROVE  WellTyped(duckStates[v])
BY DEF TypeOK, WellTyped
-----------------------------------------------------------------------------
(* Type correctness.                                                       *)

\* What is shown of every voice is what TypeOK says.
LEMMA TypeOfVoices ==
  ASSUME duckStates' = [v \in Voices |-> duckStates'[v]],
         \A v \in Voices : WellTyped(duckStates'[v]),
         activeVoices' \subseteq Voices
  PROVE  TypeOK'
BY Zenon DEF TypeOK, WellTyped

LEMMA InitType == Init => TypeOK
<1> SUFFICES ASSUME Init PROVE TypeOK
  OBVIOUS
<1>1. 0 \in Nat /\ Full \in 0 .. Full /\ 0 <= 0
  BY LevelsAssumption, SMT
<1>2. FullVolume \in DuckStates
  BY <1>1, Zenon DEF FullVolume, DuckStates
<1>3. FullVolume.elapsed <= FullVolume.fade
  BY <1>1 DEF FullVolume
<1>4. QED BY <1>2, <1>3, Zenon DEF Init, TypeOK

LEMMA NextType == TypeOK /\ [Next]_vars => TypeOK'
<1> SUFFICES ASSUME TypeOK, [Next]_vars PROVE TypeOK'
  OBVIOUS
<1>1. CASE Advance
  <2>1. \A v \in Voices : duckStates'[v] = Advanced(duckStates[v])
    BY <1>1 DEF Advance
  <2>2. \A v \in Voices : WellTyped(duckStates'[v])
    BY <2>1, TypeOfVoice, AdvancedType
  <2>3. duckStates' = [v \in Voices |-> duckStates'[v]]
    BY <1>1 DEF Advance
  <2>4. activeVoices' \subseteq Voices
    BY <1>1 DEF Advance, TypeOK
  <2>5. QED BY <2>2, <2>3, <2>4, TypeOfVoices
<1>2. ASSUME NEW u \in Voices, NEW b \in BOOLEAN, NotifyVoiceActive(u, b)
      PROVE  TypeOK'
  <2>1. \A v \in Voices :
          duckStates'[v] = Updated(duckStates[v], Applicable(v, activeVoices'))
    BY <1>2 DEF NotifyVoiceActive
  <2>2. \A v \in Voices : WellTyped(duckStates'[v])
    BY <2>1, TypeOfVoice, UpdatedType, ApplicableRules
  <2>3. duckStates' = [v \in Voices |-> duckStates'[v]]
    BY <1>2 DEF NotifyVoiceActive
  <2>4. activeVoices' \subseteq Voices
    BY <1>2 DEF NotifyVoiceActive, TypeOK
  <2>5. QED BY <2>2, <2>3, <2>4, TypeOfVoices
<1>3. CASE UNCHANGED vars
  BY <1>3 DEF vars, TypeOK
<1>4. QED BY <1>1, <1>2, <1>3 DEF Next

\* Every level stays between silence and full volume, and no fade runs past
\* its duration, whatever the rules, the notifications and the callback size.
THEOREM TypeCorrect == Spec => []TypeOK
<1>1. Init => TypeOK
  BY InitType
<1>2. TypeOK /\ [Next]_vars => TypeOK'
  BY NextType
<1>3. QED BY <1>1, <1>2, PTL DEF Spec

-----------------------------------------------------------------------------
(* The direction of every voice.                                           *)

\* A state heads where a set of rules asks.
Headed(s, rules) ==
  IF rules = {} THEN ~s.ducking /\ s.target = Full
  ELSE /\ s.ducking
       /\ s.target = LowestTarget(rules)
       /\ s.fade = FastestFade(rules)

LEMMA HeadedVoices ==
  HeadedByRules
    <=> \A v \in Voices : Headed(duckStates[v], Applicable(v, activeVoices))
BY DEF HeadedByRules, Headed

\* A notification points a voice where its rules ask, wherever it headed.
LEMMA UpdatedHeaded ==
  ASSUME NEW s, WellTyped(s), NEW rules
  PROVE  Headed(Updated(s, rules), rules)
<1>1. CASE rules = {} /\ ShouldRestore(s)
  BY <1>1 DEF Updated, BeginRestore, Headed
<1>2. CASE rules = {} /\ ~ShouldRestore(s)
  <2>1. s.target \in 0 .. Full /\ ~(s.target < Full) /\ ~s.ducking
    BY <1>2, StateFields DEF ShouldRestore
  <2>2. s.target = Full
    BY <2>1, LevelsAssumption, SMT
  <2>3. QED BY <1>2, <2>1, <2>2 DEF Updated, Headed
<1>3. CASE rules # {} /\ ParamsChanged(s, rules)
  BY <1>3 DEF Updated, BeginDuck, Headed
<1>4. CASE rules # {} /\ ~ParamsChanged(s, rules)
  BY <1>4 DEF Updated, ParamsChanged, Headed
<1>5. QED BY <1>1, <1>2, <1>3, <1>4

\* A callback does not change where a voice heads.
LEMMA AdvancedHeaded ==
  ASSUME NEW s, NEW rules, Headed(s, rules)
  PROVE  Headed(Advanced(s), rules)
BY DEF Advanced, Headed

LEMMA InitHeaded == Init => HeadedByRules
<1> SUFFICES ASSUME Init, NEW v \in Voices
             PROVE  Headed(duckStates[v], Applicable(v, activeVoices))
  BY HeadedVoices
<1>1. Applicable(v, activeVoices) = {}
  BY DEF Init, Applicable
<1>2. duckStates[v] = FullVolume
  BY DEF Init
<1>3. QED BY <1>1, <1>2 DEF FullVolume, Headed

LEMMA NextHeaded == TypeOK /\ HeadedByRules /\ [Next]_vars => HeadedByRules'
<1> SUFFICES ASSUME TypeOK, HeadedByRules, [Next]_vars PROVE HeadedByRules'
  OBVIOUS
<1>1. \A v \in Voices : Headed(duckStates[v], Applicable(v, activeVoices))
  BY HeadedVoices
<1>2. CASE Advance
  <2>1. ASSUME NEW v \in Voices
        PROVE  Headed(duckStates'[v], Applicable(v, activeVoices'))
    <3>1. duckStates'[v] = Advanced(duckStates[v])
          /\ activeVoices' = activeVoices
      BY <1>2 DEF Advance
    <3>2. QED BY <1>1, <3>1, AdvancedHeaded
  <2>2. QED BY <2>1 DEF HeadedByRules, Headed
<1>3. ASSUME NEW u \in Voices, NEW b \in BOOLEAN, NotifyVoiceActive(u, b)
      PROVE  HeadedByRules'
  <2>1. ASSUME NEW v \in Voices
        PROVE  Headed(duckStates'[v], Applicable(v, activeVoices'))
    <3>1. duckStates'[v]
            = Updated(duckStates[v], Applicable(v, activeVoices'))
      BY <1>3 DEF NotifyVoiceActive
    <3>2. WellTyped(duckStates[v])
      BY TypeOfVoice
    <3>3. QED BY <3>1, <3>2, UpdatedHeaded
  <2>2. QED BY <2>1 DEF HeadedByRules, Headed
<1>4. CASE UNCHANGED vars
  BY <1>4 DEF vars, HeadedByRules
<1>5. QED BY <1>2, <1>3, <1>4 DEF Next

\* After any sequence of notifications and callbacks every voice heads where
\* the rules of the active voices want it.
THEOREM VoicesHeadedByRules == Spec => []HeadedByRules
<1>1. Init => TypeOK /\ HeadedByRules
  BY InitType, InitHeaded
<1>2. TypeOK /\ HeadedByRules /\ [Next]_vars => TypeOK' /\ HeadedByRules'
  BY NextType, NextHeaded
<1>3. QED BY <1>1, <1>2, PTL DEF Spec

-----------------------------------------------------------------------------
(* Fades start over only when the rules ask for something else.            *)

\* Two sets of rules ask a voice for different things.
AskOtherwise(before, after) ==
  \/ (before = {}) # (after = {})
  \/ /\ before # {} /\ after # {}
     /\ \/ LowestTarget(before) # LowestTarget(after)
        \/ FastestFade(before) # FastestFade(after)

\* A notification that asks a voice for what it heads for leaves its state.
LEMMA UpdatedAlike ==
  ASSUME NEW s, WellTyped(s), NEW before, NEW after, Headed(s, before),
         ~AskOtherwise(before, after)
  PROVE  Updated(s, after) = s
<1>1. CASE after = {}
  <2>1. before = {}
    BY <1>1 DEF AskOtherwise
  <2>2. ~s.ducking /\ s.target = Full
    BY <2>1 DEF Headed
  <2>3. ~(s.target < Full)
    BY <2>2, LevelsAssumption, SMT
  <2>4. QED BY <1>1, <2>2, <2>3 DEF Updated, ShouldRestore
<1>2. CASE after # {}
  <2>1. /\ before # {}
        /\ LowestTarget(before) = LowestTarget(after)
        /\ FastestFade(before) = FastestFade(after)
    BY <1>2 DEF AskOtherwise
  <2>2. ~ParamsChanged(s, after)
    BY <2>1 DEF Headed, ParamsChanged
  <2>3. QED BY <1>2, <2>2 DEF Updated
<1>3. QED BY <1>1, <1>2

LEMMA NextRestarts ==
  ASSUME TypeOK, HeadedByRules, [Next]_vars, NEW v \in Voices,
         duckStates'[v].elapsed < duckStates[v].elapsed
  PROVE  AskOtherwise(Applicable(v, activeVoices), Applicable(v, activeVoices'))
<1>1. WellTyped(duckStates[v]) /\ duckStates[v].elapsed \in Nat
  <2>1. WellTyped(duckStates[v])
    BY TypeOfVoice
  <2>2. duckStates[v].elapsed \in 0 .. duckStates[v].fade
        /\ duckStates[v].fade \in Nat
    BY <2>1, StateFields
  <2>3. QED BY <2>1, <2>2, SMT
<1>2. ~(duckStates[v].elapsed < duckStates[v].elapsed)
  BY <1>1, SMT
<1>3. ~Advance
  <2> SUFFICES ASSUME Advance PROVE FALSE
    OBVIOUS
  <2>1. duckStates'[v] = Advanced(duckStates[v])
    BY DEF Advance
  <2>2. /\ Advanced(duckStates[v]).elapsed >= duckStates[v].elapsed
        /\ WellTyped(Advanced(duckStates[v]))
    BY <1>1, AdvancedType
  <2>3. Advanced(duckStates[v]).elapsed \in Nat
    BY <2>2, StateFields
  <2>4. QED BY <1>1, <2>1, <2>2, <2>3, SMT
<1>4. ~UNCHANGED vars
  BY <1>2 DEF vars
<1>5. PICK u \in Voices, b \in BOOLEAN : NotifyVoiceActive(u, b)
  BY <1>3, <1>4 DEF Next
<1>6. duckStates'[v] = Updated(duckStates[v], Applicable(v, activeVoices'))
  BY <1>5 DEF NotifyVoiceActive
<1>7. Headed(duckStates[v], Applicable(v, activeVoices))
  BY HeadedVoices
<1>8. QED BY <1>1, <1>2, <1>6, <1>7, UpdatedAlike

\* Notifications about other voices never set a voice's fade back, however
\* many arrive between two callbacks.
THEOREM FadesRestartByRules == Spec => RestartedByRulesOnly
<1> DEFINE Kept == \A v \in Voices :
      duckStates'[v].elapsed < duckStates[v].elapsed =>
        AskOtherwise(Applicable(v, activeVoices), Applicable(v, activeVoices'))
<1>1. Init => TypeOK /\ HeadedByRules
  BY InitType, InitHeaded
<1>2. TypeOK /\ HeadedByRules /\ [Next]_vars => TypeOK' /\ HeadedByRules'
  BY NextType, NextHeaded
<1>3. TypeOK /\ HeadedByRules /\ [Next]_vars => [Kept]_vars
  BY NextRestarts
<1>4. [][Kept]_vars => RestartedByRulesOnly
  BY PTL DEF AskOtherwise, RestartedByRulesOnly
<1>5. QED BY <1>1, <1>2, <1>3, <1>4, PTL DEF Spec

-----------------------------------------------------------------------------
(* The live inputs on top.                                                 *)

\* An input has the voice it is configured with.
LEMMA InputHasVoice ==
  /\ Len(InputVoices) \in Nat \ {0}
  /\ \A i \in Inputs : i \in 1 .. Len(InputVoices) /\ InputVoices[i] \in Voices
BY MicAssumption DEF Inputs

\* What the bridge knows between the poll that finds a transition and its
\* report: the detector has made it, and one to silence came after the hold.
BridgeKnows ==
  /\ turn = 0 => change = "none"
  /\ change # "none" => detector[turn] = change
  /\ change = "quiet" => peak[turn] = "loud" \/ heard[turn] >= Hold - MaxLag

\* The deadline of an input that speaks counts down as the time since it was
\* last loud counts up, so that both make up the hold time.
HoldCounted ==
  \A i \in Inputs : detector[i] = "active" /\ peak[i] = "quiet" =>
    heard[i] = Hold \/ heard[i] + remaining[i] >= Hold - MaxLag

MicInv == MicTypeOK /\ BridgeKnows /\ HoldCounted /\ MicMatches

\* A step of the engine, of the callbacks, of time and of the bridge is a step
\* of the ducking engine, or leaves it alone.
LEMMA MicStepOfEngine == MicTypeOK /\ BridgeKnows /\ [MicNext]_allVars => [Next]_vars
<1> SUFFICES ASSUME MicTypeOK, BridgeKnows, [MicNext]_allVars PROVE [Next]_vars
  OBVIOUS
<1>1. CASE Engine
  BY <1>1, MicAssumption DEF Engine, Next
<1>2. CASE Report
  <2>1. turn \in Inputs
    BY <1>2, InputHasVoice DEF MicTypeOK, BridgeKnows, Report, Inputs
  <2>q. QED
    BY <1>2, <2>1, InputHasVoice DEF Report, Next
<1>q. QED
  BY <1>1, <1>2 DEF MicNext, Capture, Tick, Bridge, Wake, Poll, allVars

\* The initial state satisfies the invariant.
LEMMA InitMic == MicInit => MicInv
<1> SUFFICES ASSUME MicInit PROVE MicInv
  OBVIOUS
<1> USE MicAssumption, InputHasVoice DEF MicInit
<1>1. MicTypeOK
  BY DEF MicTypeOK
<1>2. BridgeKnows /\ HoldCounted
  BY DEF BridgeKnows, HoldCounted
<1>3. MicMatches
  BY DEF MicMatches, Init
<1>q. QED
  BY <1>1, <1>2, <1>3 DEF MicInv

\* A notification changes whether its own voice is active, and no other.
LEMMA NotifiedVoice ==
  ASSUME NEW v, NEW b \in BOOLEAN, NotifyVoiceActive(v, b)
  PROVE  /\ v \in activeVoices' <=> b
         /\ \A w : w # v => (w \in activeVoices' <=> w \in activeVoices)
BY DEF NotifyVoiceActive

\* The voice an input has for itself is notified by its own transition only.
LEMMA OwnVoiceStays ==
  ASSUME MicTypeOK, BridgeKnows, [MicNext]_allVars, NEW i \in Inputs, OwnVoice(i),
         ~(Report /\ turn = i)
  PROVE  InputVoices[i] \in activeVoices' <=> InputVoices[i] \in activeVoices
<1>1. CASE Engine
  <2>1. CASE Advance
    BY <2>1 DEF Advance
  <2>2. ASSUME NEW v \in SampleVoices, NEW b \in BOOLEAN, NotifyVoiceActive(v, b)
        PROVE  InputVoices[i] \in activeVoices' <=> InputVoices[i] \in activeVoices
    BY <2>2, NotifiedVoice DEF OwnVoice
  <2>q. QED
    BY <1>1, <2>1, <2>2 DEF Engine
<1>2. CASE Report
  <2>1. turn # i /\ turn \in Inputs
    BY <1>2, InputHasVoice DEF MicTypeOK, BridgeKnows, Report, Inputs
  <2>2. InputVoices[turn] # InputVoices[i]
    BY <2>1 DEF OwnVoice
  <2>q. QED
    BY <1>2, <2>2, NotifiedVoice DEF Report
<1>q. QED
  BY <1>1, <1>2 DEF MicNext, Capture, Tick, Bridge, Wake, Poll, allVars, vars

\* Where the bridge goes next is an input, or its wait.
LEMMA NextTurnType == MicTypeOK => NextTurn \in 0 .. Len(InputVoices)
BY InputHasVoice DEF MicTypeOK, NextTurn

\* What a poll leaves of a deadline.
LEMMA DeadlineType ==
  ASSUME MicTypeOK, NEW i \in Inputs
  PROVE  /\ Deadline(i) \in (-MaxLag) .. Hold
         /\ peak[i] = "loud" => Deadline(i) >= Hold - MaxLag
BY MicAssumption DEF MicTypeOK, Deadline

\* Every step keeps the invariant.
LEMMA NextMic == MicInv /\ [MicNext]_allVars => MicInv'
<1> SUFFICES ASSUME MicInv, [MicNext]_allVars PROVE MicInv'
  OBVIOUS
<1> USE MicAssumption, InputHasVoice
<1>i. /\ MicTypeOK /\ BridgeKnows /\ HoldCounted /\ MicMatches
      /\ peak \in [Inputs -> {"quiet", "loud"}]
      /\ detector \in [Inputs -> {"quiet", "active"}]
      /\ remaining \in [Inputs -> (-MaxLag) .. Hold]
      /\ heard \in [Inputs -> 0 .. Hold]
  BY DEF MicInv, MicTypeOK
<1>1. ASSUME ~Report, ~Poll, NEW i \in Inputs, OwnVoice(i)
      PROVE  InputVoices[i] \in activeVoices' <=> InputVoices[i] \in activeVoices
  BY <1>i, <1>1, OwnVoiceStays
<1>2. CASE Engine /\ UNCHANGED micVars
  <2>1. ~Poll /\ ~Report
    BY <1>2, <1>i DEF Poll, Report, micVars, Speaks, NextTurn, MicTypeOK
  <2>2. MicTypeOK' /\ BridgeKnows' /\ HoldCounted'
    BY <1>2, <1>i DEF micVars, MicTypeOK, BridgeKnows, HoldCounted
  <2>3. MicMatches'
    BY <1>1, <1>2, <1>i, <2>1 DEF micVars, MicMatches, OwnVoice
  <2>q. QED
    BY <2>2, <2>3 DEF MicInv
<1>3. ASSUME NEW k \in Inputs, Capture(k) PROVE MicInv'
  <2>1. MicTypeOK'
    BY <1>3, <1>i DEF Capture, MicTypeOK
  <2>2. BridgeKnows' /\ HoldCounted'
    BY <1>3, <1>i DEF Capture, BridgeKnows, HoldCounted, MicTypeOK
  <2>3. MicMatches'
    BY <1>3, <1>i DEF Capture, MicMatches, OwnVoice, vars
  <2>q. QED
    BY <2>1, <2>2, <2>3 DEF MicInv
<1>4. CASE Tick
  <2>0. /\ heard' \in [Inputs -> 0 .. Hold] /\ remaining' \in [Inputs -> (-MaxLag) .. Hold]
        /\ \A i \in Inputs :
             /\ heard'[i] = Hold \/ heard'[i] = heard[i] + 1
             /\ heard'[i] >= heard[i] /\ remaining'[i] >= remaining[i] - 1
    BY <1>4, <1>i DEF Tick
  <2>u. UNCHANGED <<vars, peak, detector, turn, change>> /\ lag' \in 0 .. MaxLag
    BY <1>4, <1>i DEF Tick, MicTypeOK
  <2>1. MicTypeOK'
    BY <2>0, <2>u, <1>i DEF MicTypeOK
  <2>2. BridgeKnows'
    <3>1. turn # 0 => turn \in Inputs
      BY <1>i DEF MicTypeOK, Inputs
    <3>2. \A i \in Inputs : heard[i] \in Int /\ heard'[i] \in Int
      BY <2>0, <1>i
    <3>q. QED
      BY <2>0, <2>u, <1>i, <3>1, <3>2 DEF BridgeKnows
  <2>3. HoldCounted'
    <3>1. \A i \in Inputs : /\ heard[i] \in Int /\ heard'[i] \in Int
                            /\ remaining[i] \in Int /\ remaining'[i] \in Int
      BY <2>0, <1>i
    <3>2. ASSUME NEW i \in Inputs, detector[i] = "active", peak[i] = "quiet"
          PROVE  heard'[i] = Hold \/ heard'[i] + remaining'[i] >= Hold - MaxLag
      <4>1. heard[i] = Hold \/ heard[i] + remaining[i] >= Hold - MaxLag
        BY <3>2, <1>i DEF HoldCounted
      <4>2. heard'[i] <= Hold
        BY <2>0
      <4>q. QED
        BY <2>0, <3>1, <4>1, <4>2
    <3>q. QED
      BY <2>u, <3>2 DEF HoldCounted
  <2>4. MicMatches'
    BY <1>4, <1>i DEF Tick, MicMatches, OwnVoice, vars
  <2>q. QED
    BY <2>1, <2>2, <2>3, <2>4 DEF MicInv
<1>5. CASE Wake
  <2>1. MicTypeOK' /\ BridgeKnows' /\ HoldCounted'
    BY <1>5, <1>i DEF Wake, MicTypeOK, BridgeKnows, HoldCounted
  <2>2. MicMatches'
    BY <1>5, <1>i DEF Wake, MicMatches, OwnVoice, vars, BridgeKnows
  <2>q. QED
    BY <2>1, <2>2 DEF MicInv
<1>6. CASE Poll
  <2>1. turn \in Inputs /\ change = "none"
    BY <1>6, <1>i DEF Poll, MicTypeOK, Inputs
  <2>2. MicTypeOK'
    BY <1>6, <1>i, <2>1, DeadlineType, NextTurnType DEF Poll, MicTypeOK
  <2>3. HoldCounted'
    BY <1>6, <1>i, <2>1, DeadlineType DEF Poll, HoldCounted, Deadline, Speaks, GoesQuiet
  <2>4. BridgeKnows'
    BY <1>6, <1>i, <2>1 DEF Poll, BridgeKnows, HoldCounted, Speaks, GoesQuiet, MicTypeOK
  <2>5. MicMatches'
    BY <1>6, <1>i, <2>1 DEF Poll, MicMatches, OwnVoice, vars
  <2>q. QED
    BY <2>2, <2>3, <2>4, <2>5 DEF MicInv
<1>7. CASE Report
  <2>1. turn \in Inputs
    BY <1>7, <1>i DEF Report, BridgeKnows, MicTypeOK, Inputs
  <2>2. MicTypeOK' /\ BridgeKnows' /\ HoldCounted'
    BY <1>7, <1>i, <2>1, NextTurnType DEF Report, MicTypeOK, BridgeKnows, HoldCounted
  <2>3. ASSUME NEW i \in Inputs, OwnVoice(i), turn # i
        PROVE  InputVoices[i] \in activeVoices' <=> InputVoices[i] \in activeVoices
    BY <2>3, <1>i, OwnVoiceStays
  <2>4. InputVoices[turn] \in activeVoices' <=> change = "active"
    BY <1>7, NotifiedVoice DEF Report
  <2>5. MicMatches'
    BY <1>7, <1>i, <2>1, <2>3, <2>4 DEF Report, MicMatches, OwnVoice, BridgeKnows, MicTypeOK
  <2>q. QED
    BY <2>2, <2>5 DEF MicInv
<1>8. CASE UNCHANGED allVars
  BY <1>8 DEF allVars, micVars, vars, MicInv, MicTypeOK, BridgeKnows, HoldCounted, MicMatches, OwnVoice
<1>q. QED
  BY <1>2, <1>3, <1>4, <1>5, <1>6, <1>7, <1>8 DEF MicNext, Bridge

\* The invariant holds in every reachable state.
LEMMA MicInvariance == MicSpec => []MicInv
<1>1. MicInit => MicInv
  BY InitMic
<1>2. MicInv /\ [MicNext]_allVars => MicInv'
  BY NextMic
<1>q. QED
  BY <1>1, <1>2, PTL DEF MicSpec

\* The engine under live inputs, callbacks and samples does nothing that the
\* engine under arbitrary notifications may not do.
THEOREM InputsDriveEngine == MicSpec => Spec
<1>1. MicInit => Init
  BY DEF MicInit
<1>2. MicInv /\ [MicNext]_allVars => [Next]_vars
  BY MicStepOfEngine DEF MicInv
<1>q. QED
  BY <1>1, <1>2, MicInvariance, PTL DEF MicSpec, Spec

\* For any inputs, rules, hold time and lateness of the bridge every voice is
\* headed where the rules ask, and the engine takes the voice of an input for
\* active exactly while its detector does.
THEOREM DuckingIsSound == MicSpec => []DuckingSound
<1>1. MicInv => MicTypeOK /\ MicMatches
  BY DEF MicInv
<1>2. TypeOK /\ MicTypeOK /\ HeadedByRules /\ MicMatches => DuckingSound
  BY DEF DuckingSound
<1>q. QED
  BY <1>1, <1>2, MicInvariance, InputsDriveEngine, TypeCorrect, VoicesHeadedByRules, PTL

\* Live inputs set no fade back that the rules do not ask to set back.
THEOREM InputsRestartByRules == MicSpec => RestartedByRulesOnly
BY InputsDriveEngine, FadesRestartByRules

\* For any hold time and however late the bridge is, a pause shorter than the
\* hold does not release the voice of an input.
THEOREM PausesKeepDucking == MicSpec => HoldKept
<1> DEFINE Held == \A i \in Inputs : OwnVoice(i) =>
       (InputVoices[i] \in activeVoices /\ InputVoices[i] \notin activeVoices'
         => heard[i] >= Hold - MaxLag \/ peak[i] = "loud")
<1>1. MicInv /\ [MicNext]_allVars => Held
  <2> SUFFICES ASSUME MicInv, [MicNext]_allVars, NEW i \in Inputs, OwnVoice(i),
                      InputVoices[i] \in activeVoices, InputVoices[i] \notin activeVoices'
               PROVE  heard[i] >= Hold - MaxLag \/ peak[i] = "loud"
    OBVIOUS
  <2>1. Report /\ turn = i
    BY OwnVoiceStays DEF MicInv
  <2>2. change # "active" /\ change # "none"
    BY <2>1, NotifiedVoice DEF Report
  <2>3. change = "quiet"
    BY <2>2 DEF MicInv, MicTypeOK
  <2>q. QED
    BY <2>1, <2>3 DEF MicInv, BridgeKnows
<1>2. [][Held]_allVars => HoldKept
  BY PTL DEF HoldKept
<1>q. QED
  BY <1>1, <1>2, MicInvariance, PTL DEF MicSpec
=============================================================================
