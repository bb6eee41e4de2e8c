---------------------------- MODULE DuckingEngine ----------------------------
(***************************************************************************)
(* The ducking engine: which voices are turned down while which others     *)
(* play.  It is told of voices becoming active and inactive, in any order  *)
(* and as often as the play tasks, the audio callback and the microphone   *)
(* bridge like (VoiceLifecycle models them); the callback advances the     *)
(* fades.  Every operation runs under the mixer's mutex and is one action. *)
(*                                                                         *)
(* Levels are integers from 0 to Full, the f32 multipliers 0.0 to 1.0 at a *)
(* fixed precision: interpolation rounds to the level a fade comes from.   *)
(***************************************************************************)
EXTENDS Integers

CONSTANTS
  Voices,          \* voice names
  Rules,           \* ducking_rules of the configuration
  Full,            \* the level of a voice that is not ducked, 1.0
  DefaultRestore,  \* frames of a restore after a rule without a fade, 2000 ms
  CallbackFrames   \* frames of a callback

ASSUME LevelsAssumption == Full \in Nat \ {0}
ASSUME RulesAssumption ==
  Rules \subseteq [primary: Voices, ducked: (SUBSET Voices) \ {{}},
                   target: 0 .. Full, fade: Nat]
ASSUME FramesAssumption ==
  DefaultRestore \in Nat \ {0} /\ CallbackFrames \in Nat \ {0}

VARIABLES
  activeVoices,  \* DuckingEngine.active_voices
  duckStates     \* DuckingEngine.duck_states

vars == <<activeVoices, duckStates>>

DuckStates == [target: 0 .. Full, current: 0 .. Full, start: 0 .. Full,
               fade: Nat, elapsed: Nat, ducking: BOOLEAN, lastFade: Nat]

\* DuckState::new; also what an absent state amounts to.
FullVolume == [target |-> Full, current |-> Full, start |-> Full, fade |-> 0,
               elapsed |-> 0, ducking |-> FALSE, lastFade |-> 0]

Init == activeVoices = {} /\ duckStates = [v \in Voices |-> FullVolume]

-----------------------------------------------------------------------------
(* What the rules ask of a voice.                                          *)

Applicable(v, active) == {r \in Rules : v \in r.ducked /\ r.primary \in active}

Least(S) == CHOOSE m \in S : \A k \in S : m <= k
LowestTarget(rules) == Least({r.target : r \in rules})
FastestFade(rules) == Least({r.fade : r \in rules})

-----------------------------------------------------------------------------
(* Fades.  Each starts from the level the last one has reached.            *)

BeginDuck(s, target, fade) ==
  [target |-> target, current |-> s.current, start |-> s.current,
   fade |-> fade, elapsed |-> 0, ducking |-> TRUE, lastFade |-> fade]

BeginRestore(s, fade) ==
  [target |-> Full, current |-> s.current, start |-> s.current,
   fade |-> fade, elapsed |-> 0, ducking |-> FALSE, lastFade |-> s.lastFade]

ShouldRestore(s) == s.target < Full \/ s.ducking

\* Targets differ when they are more than 0.001 apart: levels are not finer.
\*
\* Mutated forms of ParamsChanged: every notification restarts the fade; a
\* lower target with the same fade is missed.
ParamsAlwaysChanged(s, rules) == TRUE
OnlyFadeChanged(s, rules) == s.fade # FastestFade(rules) \/ ~s.ducking
ParamsChanged(s, rules) ==
  \/ s.target # LowestTarget(rules)
  \/ s.fade # FastestFade(rules)
  \/ ~s.ducking

RestoreFade(s) == IF s.lastFade > 0 THEN s.lastFade ELSE DefaultRestore

\* What update_duck_states makes of one voice's state.
Updated(s, rules) ==
  IF rules = {}
    THEN IF ShouldRestore(s) THEN BeginRestore(s, RestoreFade(s)) ELSE s
  ELSE IF ParamsChanged(s, rules)
    THEN BeginDuck(s, LowestTarget(rules), FastestFade(rules))
  ELSE s

\* notify_voice_active.
NotifyVoiceActive(v, isActive) ==
  /\ activeVoices' = IF isActive THEN activeVoices \cup {v}
                     ELSE activeVoices \ {v}
  /\ duckStates' = [w \in Voices |->
       Updated(duckStates[w], Applicable(w, activeVoices'))]

-----------------------------------------------------------------------------
(* The callback advances every fade once.                                  *)

\* The level after e of f frames of a fade from a to b.
Level(a, b, e, f) ==
  IF f = 0 THEN b
  ELSE IF b >= a THEN a + (((b - a) * e) \div f)
  ELSE a - (((a - b) * e) \div f)

Elapsed(s) == IF s.elapsed + CallbackFrames < s.fade
              THEN s.elapsed + CallbackFrames ELSE s.fade

Advanced(s) ==
  [target |-> s.target, current |-> Level(s.start, s.target, Elapsed(s), s.fade),
   start |-> s.start, fade |-> s.fade, elapsed |-> Elapsed(s),
   ducking |-> s.ducking, lastFade |-> s.lastFade]

Advance ==
  /\ duckStates' = [v \in Voices |-> Advanced(duckStates[v])]
  /\ UNCHANGED activeVoices

-----------------------------------------------------------------------------
Next == Advance \/ \E v \in Voices, b \in BOOLEAN : NotifyVoiceActive(v, b)

Spec == Init /\ [][Next]_vars

\* The device calls back for as long as the stream plays.
FairSpec == Spec /\ WF_vars(Advance)

-----------------------------------------------------------------------------
(* Properties.                                                             *)

\* Levels stay between silence and full volume, and no fade runs past its
\* duration.
TypeOK ==
  /\ activeVoices \subseteq Voices
  /\ duckStates \in [Voices -> DuckStates]
  /\ \A v \in Voices : duckStates[v].elapsed <= duckStates[v].fade

\* After any sequence of notifications every voice heads where the rules of
\* the active voices want it: to the lowest target at the fastest fade, or to
\* full volume when none applies.
HeadedByRules ==
  \A v \in Voices :
    LET rules == Applicable(v, activeVoices)
        s == duckStates[v]
    IN  IF rules = {} THEN ~s.ducking /\ s.target = Full
        ELSE /\ s.ducking
             /\ s.target = LowestTarget(rules)
             /\ s.fade = FastestFade(rules)

\* A fade starts over only when what the rules ask of the voice has changed:
\* notifications about other voices do not slow it down.
RestartedByRulesOnly ==
  [][\A v \in Voices :
       duckStates'[v].elapsed < duckStates[v].elapsed =>
         LET before == Applicable(v, activeVoices)
             after == Applicable(v, activeVoices')
         IN  \/ (before = {}) # (after = {})
             \/ /\ before # {} /\ after # {}
                /\ \/ LowestTarget(before) # LowestTarget(after)
                   \/ FastestFade(before) # FastestFade(after)
    ]_vars

\* Once the rules that apply to a voice stay the same, its level reaches
\* their target and stays there, however busy the other voices are.
LevelsSettle ==
  \A v \in Voices, rules \in SUBSET Rules :
    <>[](Applicable(v, activeVoices) = rules)
      => <>[](duckStates[v].current =
                IF rules = {} THEN Full ELSE LowestTarget(rules))
=============================================================================
