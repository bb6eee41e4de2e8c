------------------------ MODULE VoiceLifecycleProofs ------------------------
(* Theorems about VoiceLifecycle, for any plays, voices and interleaving.  *)
EXTENDS VoiceLifecycle, TLAPS

-----------------------------------------------------------------------------
(* Type correctness.                                                       *)

\* The initial states have their types.
LEMMA InitType == Init => TypeOK
  BY VolumesAssumption, StopsAssumption, ChoicesAssumption, SMT
     DEF Init, TypeOK, PlayStates, LoadStates, CommandStates, NoCommand,
         FirstSampleId

\* A step of a play task keeps the types.
LEMMA PlayTaskType ==
  ASSUME NEW p \in Plays, TypeOK, PlayTask(p)
  PROVE  TypeOK'
<1> USE DEF TypeOK, PlayStates, LoadStates, taskVars, voiceVars, duckVars,
            sampleVars, scanVars, history
<1>1. CASE LoadReturns(p) BY <1>1, SMT DEF LoadReturns
<1>2. CASE LoadFails(p) BY <1>2, SMT DEF LoadFails
<1>3. CASE AddToVoice(p) BY <1>3, SMT DEF AddToVoice
<1>4. CASE MarkActive(p) BY <1>4, SMT DEF MarkActive
<1>5. CASE Push(p) BY <1>5, SMT DEF Push
<1>6. QED BY <1>1, <1>2, <1>3, <1>4, <1>5 DEF PlayTask

\* A step of a loader keeps the types.
LEMMA LoaderType ==
  ASSUME NEW p \in Plays, TypeOK, Loader(p)
  PROVE  TypeOK'
<1> USE DEF TypeOK, LoadStates, taskVars, voiceVars, duckVars, sampleVars,
            scanVars, history, Loadable
<1>1. CASE LoaderFails(p) BY <1>1, SMT DEF LoaderFails
<1>2. CASE LoaderCompletes(p) BY <1>2, SMT DEF LoaderCompletes
<1>3. QED BY <1>1, <1>2 DEF Loader

\* A step of the audio callback keeps the types.
LEMMA CallbackType ==
  ASSUME TypeOK, Callback
  PROVE  TypeOK'
<1> USE DEF TypeOK, taskVars, voiceVars, duckVars, sampleVars, scanVars,
            history
<1>1. ASSUME NEW S \in SUBSET active, CallbackMix(S) PROVE TypeOK'
  BY <1>1, SMT DEF CallbackMix
<1>2. CASE CallbackCollect BY <1>2, SMT DEF CallbackCollect
<1>3. CASE CallbackRetain
  <2>1. Recorded \subseteq Nat
    BY SMT DEF Recorded
  <2>2. load' \in [Plays -> LoadStates] /\ targetVolume' \in [Plays -> Volumes]
    BY <1>3, VolumesAssumption, SMT DEF CallbackRetain, LoadStates
  <2>3. undercut' \subseteq Plays
    BY <1>3 DEF CallbackRetain, Undercut
  <2>4. QED BY <1>3, <2>1, <2>2, <2>3, SMT DEF CallbackRetain, AfterScan, Unlisted
<1>4. QED BY <1>1, <1>2, <1>3 DEF Callback

\* A set of ids makes a fade command.
LEMMA FadeCommand ==
  ASSUME NEW ids \in SUBSET Nat
  PROVE  [op |-> "fade", ids |-> ids] \in CommandStates
  BY SMT DEF CommandStates

\* A step of the command loop keeps the types.
LEMMA CommandType ==
  ASSUME TypeOK, Command
  PROVE  TypeOK'
<1> USE VolumesAssumption, StopsAssumption
    DEF TypeOK, PlayStates, CommandStates, NoCommand, taskVars, voiceVars,
        duckVars, sampleVars, scanVars, history
<1>1. ASSUME NEW p \in Plays, PlayCommand(p) PROVE TypeOK'
  BY <1>1, SMT DEF PlayCommand
<1>2. CASE StopAllBump BY <1>2, SMT DEF StopAllBump
<1>3. CASE StopAllFade BY <1>3, SMT DEF StopAllFade
<1>4. ASSUME NEW v \in Voices, VoiceStop(v) PROVE TypeOK'
  <2>1. voiceIds' \in [Voices -> SUBSET (Nat \ {0})]
    BY <1>4, SMT DEF VoiceStop
  <2>2. voiceVolume' \in [Voices -> Volumes]
    BY <1>4, SMT DEF VoiceStop, VolumeAfter
  <2>3. voiceIds[v] \in SUBSET Nat
    BY SMT
  <2>4. command' \in CommandStates
    <3> HIDE DEF CommandStates, TypeOK
    <3>1. command' = [op |-> "fade", ids |-> voiceIds[v]]
      BY <1>4 DEF VoiceStop
    <3>2. QED BY <2>3, <3>1, FadeCommand
  <2>5. clearedIds' \subseteq Nat
    <3>1. clearedIds \subseteq Nat
      OBVIOUS
    <3>2. QED BY <1>4, <2>3, <3>1, Zenon DEF VoiceStop
  <2>6. QED BY <1>4, <2>1, <2>2, <2>4, <2>5, Zenon DEF VoiceStop
<1>5. ASSUME NEW v \in Voices, VoiceFadeOut(v) PROVE TypeOK'
  BY <1>5, SMT DEF VoiceFadeOut
<1>6. CASE FadeIds BY <1>6, SMT DEF FadeIds
<1>7. ASSUME NEW v \in Voices, NEW x \in Volumes, VoiceVolume(v, x)
      PROVE  TypeOK'
  BY <1>7, SMT DEF VoiceVolume
<1>8. CASE ApplyVolume
  <2>1. missed' \subseteq Plays
    BY <1>8 DEF ApplyVolume, Overtaken
  <2>2. targetVolume' \in [Plays -> Volumes]
    BY <1>8, SMT DEF ApplyVolume
  <2>3. QED BY <1>8, <2>1, <2>2, SMT DEF ApplyVolume
<1>9. ASSUME NEW S \in SUBSET active, StopMatching(S) PROVE TypeOK'
  BY <1>9, SMT DEF StopMatching
<1>10. ASSUME NEW S \in SUBSET active, Reposition(S) PROVE TypeOK'
  BY <1>10, SMT DEF Reposition
<1>11. QED
  BY <1>1, <1>2, <1>3, <1>4, <1>5, <1>6, <1>7, <1>8, <1>9, <1>10
     DEF Command

\* Every step keeps the types.
LEMMA NextType == TypeOK /\ [Next]_vars => TypeOK'
<1> SUFFICES ASSUME TypeOK, [Next]_vars PROVE TypeOK'
  OBVIOUS
<1>1. CASE Command BY <1>1, CommandType
<1>2. ASSUME NEW p \in Plays, PlayTask(p) \/ Loader(p) PROVE TypeOK'
  BY <1>2, PlayTaskType, LoaderType
<1>3. CASE Callback BY <1>3, CallbackType
<1>4. CASE HousekeepTake
  BY <1>4 DEF HousekeepTake, TypeOK, taskVars, voiceVars, duckVars,
              sampleVars, history
<1>5. CASE HousekeepPrune
  BY <1>5, VolumesAssumption
     DEF HousekeepPrune, Without, VolumeAfter, TypeOK, taskVars, duckVars,
         sampleVars, scanVars, history
<1>6. CASE UNCHANGED vars
  BY <1>6 DEF vars, TypeOK, taskVars, voiceVars, duckVars, sampleVars,
              scanVars, history, CommandStates
<1>7. QED
  BY <1>1, <1>2, <1>3, <1>4, <1>5, <1>6 DEF Next, Housekeep

\* The variables of every reachable state have their types.
THEOREM TypeCorrect == Spec => []TypeOK
<1>1. QED BY InitType, NextType, PTL DEF Spec

-----------------------------------------------------------------------------
(* Sample ids through the three bookkeeping places.  TrackedUntilStopped   *)
(* and PruneSparesLiving are not inductive: a step can only break them by  *)
(* reusing an id, by recording a sample the callback keeps, or by pushing  *)
(* a sample that was recorded before.  The parts below exclude these.      *)

Registered(p) == Starting(p) \/ playPc[p] = "started"

IdsFresh ==
  /\ \A p \in Plays : Registered(p) => idOf[p] < nextSampleId
  /\ \A i \in finished \cup taken : i < nextSampleId

IdsDistinct ==
  \A p, q \in Plays :
    Registered(p) /\ Registered(q) /\ idOf[p] = idOf[q] => p = q

ActiveStarted == \A p \in active : playPc[p] = "started"

CollectedFinished ==
  /\ \A p \in collected : IsFinished(p)
  /\ collected # {} => callback = "retain"

LivingTracked ==
  \A p \in Plays : Starting(p) \/ p \in active =>
                      idOf[p] \in voiceIds[voiceOf[p]] \cup clearedIds

IdInv == /\ IdsFresh
         /\ IdsDistinct
         /\ ActiveStarted
         /\ CollectedFinished
         /\ PruneSparesLiving
         /\ LivingTracked

\* The variables IdInv is about.
idVars == <<playPc, voiceOf, idOf, load, nextSampleId, voiceIds, active, ended,
            finished, callback, collected, taken, clearedIds>>

LEMMA InitIds == Init => IdInv
  BY SMT DEF Init, IdInv, IdsFresh, IdsDistinct, ActiveStarted,
             CollectedFinished, PruneSparesLiving, LivingTracked, Registered,
             Starting

LEMMA SameIds == IdInv /\ UNCHANGED idVars => IdInv'
  BY DEF idVars, IdInv, IdsFresh, IdsDistinct, ActiveStarted,
         CollectedFinished, PruneSparesLiving, LivingTracked, Registered,
         Starting, IsFinished

\* A step of a play task: only AddToVoice hands out an id, only Push plays.
LEMMA PlayTaskIds ==
  ASSUME NEW p \in Plays, TypeOK, IdInv, PlayTask(p)
  PROVE  IdInv'
<1> USE DEF IdInv, Registered, Starting
<1> DEFINE keeps == UNCHANGED <<idOf, voiceIds, nextSampleId, finished, taken,
                                collected, callback, clearedIds, voiceOf,
                                ended>>
<1>1. CASE LoadReturns(p)
  <2>1. keeps /\ active' = active
    BY <1>1 DEF LoadReturns, voiceVars, sampleVars, scanVars, history
  <2>2. \A q \in Plays : /\ Registered(q)' <=> Registered(q)
                         /\ Starting(q)' <=> Starting(q)
                         /\ q \in active => IsFinished(q)' = IsFinished(q)
    BY <1>1, SMT DEF LoadReturns, TypeOK, IsFinished, ActiveStarted, sampleVars
  <2>3. QED BY <1>1, <2>1, <2>2, SMT
      DEF IdsFresh, IdsDistinct, ActiveStarted, CollectedFinished,
          PruneSparesLiving, LivingTracked, LoadReturns, TypeOK
<1>2. CASE LoadFails(p)
  BY <1>2, SMT
     DEF LoadFails, TypeOK, IdsFresh, IdsDistinct, ActiveStarted,
         CollectedFinished, PruneSparesLiving, LivingTracked, IsFinished,
         voiceVars, sampleVars, scanVars, history
<1>3. CASE AddToVoice(p)
  <2>1. /\ idOf' = [idOf EXCEPT ![p] = nextSampleId]
        /\ nextSampleId' = nextSampleId + 1
        /\ playPc' = [playPc EXCEPT ![p] = "added"]
        /\ playPc[p] = "checked"
        /\ voiceIds' = [voiceIds EXCEPT ![voiceOf[p]] = @ \cup {nextSampleId}]
        /\ UNCHANGED <<voiceOf, load, active, ended, finished, taken,
                       collected, callback, clearedIds>>
    BY <1>3 DEF AddToVoice, scanVars, history
  <2>2. p \notin active
    BY <2>1 DEF ActiveStarted
  <2>3. IdsFresh'
    BY <2>1, SMT DEF IdsFresh, TypeOK
  <2>4. IdsDistinct'
    BY <2>1, SMT DEF IdsDistinct, IdsFresh, TypeOK
  <2>5. ActiveStarted' /\ CollectedFinished'
    BY <2>1, <2>2, SMT DEF ActiveStarted, CollectedFinished, IsFinished, TypeOK
  <2>6. PruneSparesLiving'
    BY <2>1, <2>2, SMT DEF PruneSparesLiving, IdsFresh, TypeOK
  <2>7. LivingTracked'
    BY <2>1, <2>2, SMT DEF LivingTracked, TypeOK
  <2>8. QED BY <2>3, <2>4, <2>5, <2>6, <2>7
<1>4. CASE MarkActive(p)
  BY <1>4, SMT
     DEF MarkActive, TypeOK, IdsFresh, IdsDistinct, ActiveStarted,
         CollectedFinished, PruneSparesLiving, LivingTracked, IsFinished,
         voiceVars, sampleVars, scanVars, history
<1>5. CASE Push(p)
  BY <1>5, SMT
     DEF Push, TypeOK, IdsFresh, IdsDistinct, ActiveStarted,
         CollectedFinished, PruneSparesLiving, LivingTracked, IsFinished,
         voiceVars, scanVars, history
<1>6. QED BY <1>1, <1>2, <1>3, <1>4, <1>5 DEF PlayTask

\* A step of a loader can only finish more samples.
LEMMA LoaderIds ==
  ASSUME NEW p \in Plays, TypeOK, IdInv, Loader(p)
  PROVE  IdInv'
<1>1. /\ UNCHANGED <<playPc, voiceOf, idOf, nextSampleId, voiceIds, active,
                     finished, callback, collected, taken, clearedIds>>
      /\ \A q \in Plays : IsFinished(q) => IsFinished(q)'
  BY SMT DEF Loader, LoaderFails, LoaderCompletes, Loadable, IsFinished,
             TypeOK, taskVars, voiceVars, sampleVars, scanVars, history
<1>2. QED BY <1>1, SMT
      DEF IdInv, IdsFresh, IdsDistinct, ActiveStarted, CollectedFinished,
          PruneSparesLiving, LivingTracked, Registered, Starting, TypeOK

\* A step of the callback records only samples it removes.
LEMMA CallbackIds ==
  ASSUME TypeOK, IdInv, Callback
  PROVE  IdInv'
<1> USE DEF IdInv, Registered, Starting, taskVars, voiceVars, sampleVars,
            history
<1>1. ASSUME NEW S \in SUBSET active, CallbackMix(S) PROVE IdInv'
  BY <1>1, SMT
     DEF CallbackMix, MixerFree, TypeOK, IdsFresh, IdsDistinct, ActiveStarted,
         CollectedFinished, PruneSparesLiving, LivingTracked, IsFinished
<1>2. CASE CallbackCollect
  BY <1>2, SMT
     DEF CallbackCollect, TypeOK, IdsFresh, IdsDistinct, ActiveStarted,
         CollectedFinished, PruneSparesLiving, LivingTracked, IsFinished
<1>3. CASE CallbackRetain
  <2>1. /\ UNCHANGED <<playPc, voiceOf, idOf, nextSampleId, voiceIds, taken,
                       clearedIds>>
        /\ active' = {p \in active : ~IsFinished(p)}
        /\ finished' = finished \cup Recorded
        /\ collected' = {} /\ callback' = "idle"
    BY <1>3 DEF CallbackRetain, AfterScan
  <2>2. \A p \in collected : p \in active /\ p \notin active'
    BY <2>1 DEF CollectedFinished, TypeOK
  <2>3. IdsFresh'
    BY <2>1, <2>2, SMT DEF IdsFresh, ActiveStarted, Recorded, TypeOK
  <2>4. IdsDistinct' /\ ActiveStarted' /\ CollectedFinished'
    BY <2>1, SMT DEF IdsDistinct, ActiveStarted, CollectedFinished
  <2>5. PruneSparesLiving'
    <3>1. SUFFICES ASSUME NEW p \in Plays, Starting(p) \/ p \in active'
                   PROVE  idOf[p] \notin finished \cup Recorded \cup taken
      BY <2>1 DEF PruneSparesLiving
    <3>2. idOf[p] \notin finished \cup taken
      BY <2>1, <3>1 DEF PruneSparesLiving
    <3>3. \A q \in collected : p # q /\ Registered(q) /\ q \in Plays
      BY <2>1, <2>2, <3>1 DEF ActiveStarted, TypeOK
    <3>4. Registered(p)
      BY <2>1, <3>1 DEF ActiveStarted
    <3>5. idOf[p] \notin Recorded
      BY <3>3, <3>4 DEF IdsDistinct, Recorded
    <3>6. QED BY <3>2, <3>5
  <2>6. LivingTracked'
    BY <2>1 DEF LivingTracked
  <2>7. QED BY <2>3, <2>4, <2>5, <2>6
<1>4. QED BY <1>1, <1>2, <1>3 DEF Callback

\* A command takes ids only by voice_stop, which notes them as cleared.
LEMMA CommandIds ==
  ASSUME TypeOK, IdInv, Command
  PROVE  IdInv'
<1> USE DEF taskVars, voiceVars, sampleVars, scanVars, history
<1>1. ASSUME NEW p \in Plays, PlayCommand(p) PROVE IdInv'
  BY <1>1, SMT
     DEF PlayCommand, TypeOK, IdInv, IdsFresh, IdsDistinct, ActiveStarted,
         CollectedFinished, PruneSparesLiving, LivingTracked, Registered,
         Starting, IsFinished
<1>2. CASE StopAllBump BY <1>2, SameIds DEF StopAllBump, idVars
<1>3. CASE StopAllFade BY <1>3, SameIds DEF StopAllFade, idVars
<1>4. ASSUME NEW v \in Voices, VoiceStop(v) PROVE IdInv'
  <2>1. /\ UNCHANGED <<playPc, voiceOf, idOf, load, nextSampleId, active,
                       ended, finished, callback, collected, taken>>
        /\ voiceIds' = [voiceIds EXCEPT ![v] = {}]
        /\ clearedIds' = LivingIds \cap (clearedIds \cup voiceIds[v])
    BY <1>4 DEF VoiceStop
  <2>2. LivingTracked'
    <3>1. SUFFICES ASSUME NEW p \in Plays, Starting(p) \/ p \in active
                   PROVE  idOf[p] \in voiceIds'[voiceOf[p]] \cup clearedIds'
      BY <2>1 DEF LivingTracked, Starting
    <3>2. idOf[p] \in LivingIds
      BY <3>1 DEF LivingIds
    <3>3. idOf[p] \in voiceIds[voiceOf[p]] \cup clearedIds
      BY <3>1 DEF IdInv, LivingTracked
    <3>4. CASE voiceOf[p] = v
      BY <2>1, <3>2, <3>3, <3>4
    <3>5. CASE voiceOf[p] # v
      <4>1. voiceIds'[voiceOf[p]] = voiceIds[voiceOf[p]]
        BY <2>1, <3>5, SMT DEF TypeOK
      <4>2. QED BY <2>1, <3>2, <3>3, <4>1
    <3>6. QED BY <3>4, <3>5
  <2>3. QED BY <2>1, <2>2
        DEF IdInv, IdsFresh, IdsDistinct, ActiveStarted, CollectedFinished,
            PruneSparesLiving, Registered, Starting, IsFinished
<1>5. ASSUME NEW v \in Voices, VoiceFadeOut(v) PROVE IdInv'
  BY <1>5, SameIds DEF VoiceFadeOut, idVars
<1>6. CASE FadeIds BY <1>6, SameIds DEF FadeIds, idVars
<1>7. ASSUME NEW v \in Voices, NEW x \in Volumes, VoiceVolume(v, x)
      PROVE  IdInv'
  BY <1>7, SameIds DEF VoiceVolume, idVars
<1>8. CASE ApplyVolume BY <1>8, SameIds DEF ApplyVolume, idVars
<1>9. ASSUME NEW S \in SUBSET active, StopMatching(S) PROVE IdInv'
  BY <1>9, SameIds DEF StopMatching, idVars
<1>10. ASSUME NEW S \in SUBSET active, Reposition(S) PROVE IdInv'
  BY <1>10, SMT
     DEF Reposition, MixerFree, TypeOK, IdInv, IdsFresh, IdsDistinct,
         ActiveStarted, CollectedFinished, PruneSparesLiving, LivingTracked,
         Registered, Starting
<1>11. QED
  BY <1>1, <1>2, <1>3, <1>4, <1>5, <1>6, <1>7, <1>8, <1>9, <1>10
     DEF Command

\* Housekeeping takes only ids of samples that are gone.
LEMMA HousekeepIds ==
  ASSUME TypeOK, IdInv, Housekeep
  PROVE  IdInv'
<1> USE DEF IdInv, Registered, Starting, taskVars, voiceVars, sampleVars,
            scanVars, history
<1>1. CASE HousekeepTake
  BY <1>1, SMT
     DEF HousekeepTake, IdsFresh, IdsDistinct, ActiveStarted,
         CollectedFinished, PruneSparesLiving, LivingTracked, IsFinished
<1>2. CASE HousekeepPrune
  <2>1. /\ UNCHANGED <<playPc, voiceOf, idOf, load, nextSampleId, active,
                       ended, finished, callback, collected, clearedIds>>
        /\ voiceIds' = [v \in Voices |-> voiceIds[v] \ taken]
        /\ taken' = {}
    BY <1>2 DEF HousekeepPrune, Without
  <2>2. LivingTracked'
    BY <2>1, SMT DEF LivingTracked, PruneSparesLiving, TypeOK
  <2>3. QED BY <2>1, <2>2, SMT
        DEF IdsFresh, IdsDistinct, ActiveStarted, CollectedFinished,
            PruneSparesLiving, IsFinished
<1>3. QED BY <1>1, <1>2 DEF Housekeep

LEMMA NextIds == TypeOK /\ IdInv /\ [Next]_vars => IdInv'
<1> SUFFICES ASSUME TypeOK, IdInv, [Next]_vars PROVE IdInv'
  OBVIOUS
<1>1. CASE UNCHANGED vars
  BY <1>1, SameIds DEF vars, idVars, taskVars, voiceVars, sampleVars, scanVars,
                              history
<1>2. QED
  BY <1>1, PlayTaskIds, LoaderIds, CallbackIds, CommandIds,
     HousekeepIds DEF Next

\* The ids of every reachable state are consistent.
THEOREM IdsConsistent == Spec => []IdInv
<1>1. QED BY InitIds, NextIds, TypeCorrect, PTL DEF Spec

\* Whatever the interleaving, housekeeping never forgets a sample that plays:
\* only a voice_stop takes a playing sample out of reach of its voice.
THEOREM LivingStayTracked == Spec => []TrackedUntilStopped
<1>1. TypeOK /\ IdInv => TrackedUntilStopped
  BY DEF IdInv, LivingTracked, TrackedUntilStopped, TypeOK
<1>2. QED BY <1>1, TypeCorrect, IdsConsistent, PTL

\* An id on its way to being forgotten is of no sample that plays or will.
THEOREM PruningIsSafe == Spec => []PruneSparesLiving
<1>1. IdInv => PruneSparesLiving
  BY DEF IdInv
<1>2. QED BY <1>1, IdsConsistent, PTL

-----------------------------------------------------------------------------
(* Ducking and stops.                                                      *)

\* A play that sounds, or will without telling the ducking engine: it found
\* its voice active.
Relying(p) == p \in active \/ (playPc[p] = "marked" /\ wasActive[p])

InForce(v) == v \in engineActive \/ Announced(v)

\* DuckInForce is not inductive: what a play finds in the set of active voices
\* must itself be in force, and stay so until the play reaches the mixer.
DuckInv ==
  /\ \A v \in activeVoices : InForce(v)
  /\ \A p \in Plays \ undercut : Relying(p) => InForce(voiceOf[p])

\* A step that leaves the ducking state alone and brings no task into or out of
\* the state in which it has marked its voice keeps what is in force.
LEMMA SameDucks ==
  ASSUME DuckInv,
         UNCHANGED <<voiceOf, wasActive, activeVoices, engineActive, active,
                     undercut>>,
         \A p \in Plays : playPc'[p] = "marked" <=> playPc[p] = "marked"
  PROVE  DuckInv'
  BY DEF DuckInv, InForce, Announced, Relying

\* A task that marks its voice found it in force or announces it; one that
\* pushes its sample tells the ducking engine what it announced.
LEMMA PlayTaskDucks ==
  ASSUME TypeOK, DuckInv, NEW p \in Plays, PlayTask(p)
  PROVE  DuckInv'
<1> USE DEF taskVars, voiceVars, duckVars, sampleVars, scanVars, history
<1>1. CASE LoadReturns(p) BY <1>1, SameDucks, SMT DEF LoadReturns, TypeOK
<1>2. CASE LoadFails(p) BY <1>2, SameDucks, SMT DEF LoadFails, TypeOK
<1>3. CASE AddToVoice(p) BY <1>3, SameDucks, SMT DEF AddToVoice, TypeOK
<1>4. CASE MarkActive(p)
  <2>1. /\ playPc[p] = "added"
        /\ playPc' = [playPc EXCEPT ![p] = "marked"]
        /\ wasActive' = [wasActive EXCEPT ![p] = voiceOf[p] \in activeVoices]
        /\ activeVoices' = activeVoices \cup {voiceOf[p]}
        /\ UNCHANGED <<voiceOf, engineActive, active, undercut>>
    BY <1>4 DEF MarkActive
  <2>2. playPc'[p] = "marked" /\ wasActive'[p] = (voiceOf[p] \in activeVoices)
    BY <2>1, Zenon DEF TypeOK
  <2>3. \A q \in Plays \ {p} : playPc'[q] = playPc[q] /\ wasActive'[q] = wasActive[q]
    BY <2>1, Zenon DEF TypeOK
  <2>4. \A v : InForce(v) => InForce(v)'
    BY <2>1, <2>3 DEF InForce, Announced
  <2>5. InForce(voiceOf[p])'
    <3>1. CASE voiceOf[p] \in activeVoices
      BY <2>1, <2>4, <3>1 DEF DuckInv, InForce, Announced
    <3>2. CASE voiceOf[p] \notin activeVoices
      BY <2>1, <2>2, <3>2 DEF InForce, Announced
    <3>3. QED BY <3>1, <3>2
  <2>6. \A q \in Plays \ {p} : Relying(q)' => Relying(q)
    BY <2>1, <2>3 DEF Relying
  <2>7. QED BY <2>1, <2>4, <2>5, <2>6 DEF DuckInv
<1>5. CASE Push(p)
  <2>1. /\ playPc[p] = "marked"
        /\ active' = active \cup {p}
        /\ engineActive' = IF wasActive[p] THEN engineActive
                                           ELSE engineActive \cup {voiceOf[p]}
        /\ undercut' = IF wasActive[p] THEN undercut
                                       ELSE undercut \ PlaysOf(voiceOf[p])
        /\ UNCHANGED <<voiceOf, activeVoices>>
    BY <1>5 DEF Push
  <2>2. playPc'[p] # "marked"
    BY <1>5, SMT DEF Push, TypeOK
  <2>3. \A q \in Plays \ {p} : playPc'[q] = playPc[q] /\ wasActive'[q] = wasActive[q]
    BY <1>5, Zenon DEF Push, TypeOK
  <2>4. \A v : InForce(v) => InForce(v)'
    BY <2>1, <2>3 DEF InForce, Announced
  <2>5. \A q \in Plays \ {p} : Relying(q)' => Relying(q)
    BY <2>1, <2>3 DEF Relying
  <2>6. \A q \in undercut \ undercut' : InForce(voiceOf[q])'
    BY <2>1 DEF InForce, PlaysOf
  <2>7. p \notin undercut' => InForce(voiceOf[p])'
    <3>1. CASE wasActive[p]
      BY <2>1, <2>4, <3>1 DEF DuckInv, Relying
    <3>2. CASE ~wasActive[p]
      BY <2>1, <3>2 DEF InForce
    <3>3. QED BY <3>1, <3>2
  <2>8. \A q \in Plays \ undercut' : Relying(q)' => InForce(voiceOf[q])'
    BY <2>1, <2>4, <2>5, <2>6, <2>7 DEF DuckInv, InForce, Announced
  <2>9. QED BY <2>1, <2>4, <2>8 DEF DuckInv
<1>6. QED BY <1>1, <1>2, <1>3, <1>4, <1>5 DEF PlayTask

\* The callback ends the ducking of a voice in the engine and in the set at
\* once, and only of a voice without a sample that stays; it notes the plays
\* that rely on what it ends.
LEMMA RetainDucks ==
  ASSUME TypeOK, IdInv, DuckInv, CallbackRetain
  PROVE  DuckInv'
<1> DEFINE remaining == {p \in active : ~IsFinished(p)}
<1> DEFINE removed == active \ remaining
<1> DEFINE silenced == Silenced(remaining)
<1>1. /\ active' = remaining
      /\ engineActive' = engineActive \ silenced
      /\ activeVoices' = activeVoices \ silenced
      /\ undercut' = (undercut \ removed) \cup Undercut(silenced)
      /\ UNCHANGED <<playPc, voiceOf, wasActive>>
  BY DEF CallbackRetain, Unlisted, taskVars
<1>2. \A v : v \notin silenced /\ InForce(v) => InForce(v)'
  BY <1>1 DEF InForce, Announced
<1>3. \A v : Announced(v) => InForce(v)'
  BY <1>1 DEF InForce, Announced
<1>4. \A v \in activeVoices' : InForce(v)'
  BY <1>1, <1>2 DEF DuckInv
<1>5. SUFFICES ASSUME NEW p \in Plays, p \notin undercut', Relying(p)'
               PROVE  InForce(voiceOf[p])'
  BY <1>1, <1>4 DEF DuckInv
<1>6. CASE p \in remaining
  <2>1. p \notin undercut /\ Relying(p)
    BY <1>1, <1>5, <1>6 DEF Relying
  <2>2. voiceOf[p] \notin silenced
    BY <1>6 DEF Silenced, VoicesOf
  <2>3. QED BY <1>1, <1>2, <2>1, <2>2 DEF DuckInv, InForce, Announced
<1>7. CASE p \notin remaining
  <2>1. playPc[p] = "marked" /\ wasActive[p]
    BY <1>1, <1>5, <1>7 DEF Relying
  <2>2. p \notin active
    BY <2>1 DEF IdInv, ActiveStarted
  <2>3. p \notin undercut /\ p \notin Undercut(silenced)
    BY <1>1, <1>5, <2>2
  <2>4. CASE voiceOf[p] \in silenced
    BY <1>1, <1>3, <2>1, <2>3, <2>4 DEF Undercut, InForce, Announced
  <2>5. CASE voiceOf[p] \notin silenced
    BY <1>1, <1>2, <2>1, <2>3, <2>5 DEF DuckInv, Relying, InForce, Announced
  <2>6. QED BY <2>4, <2>5
<1>8. QED BY <1>6, <1>7

\* Nobody else touches the ducking state.
LEMMA NextDucks == TypeOK /\ IdInv /\ DuckInv /\ [Next]_vars => DuckInv'
<1> SUFFICES ASSUME TypeOK, IdInv, DuckInv, [Next]_vars PROVE DuckInv'
  OBVIOUS
<1> USE DEF taskVars, voiceVars, duckVars, sampleVars, scanVars, history
<1>1. ASSUME NEW p \in Plays, PlayCommand(p) PROVE DuckInv'
  BY <1>1, SameDucks, SMT DEF PlayCommand, TypeOK
<1>2. CASE Command
  BY <1>1, <1>2, SameDucks
     DEF Command, StopAllBump, StopAllFade, VoiceStop, VoiceFadeOut, FadeIds,
         VoiceVolume, ApplyVolume, StopMatching, Reposition
<1>3. ASSUME NEW p \in Plays, PlayTask(p) \/ Loader(p) PROVE DuckInv'
  BY <1>3, PlayTaskDucks, SameDucks DEF Loader, LoaderFails, LoaderCompletes
<1>4. CASE Callback
  BY <1>4, RetainDucks, SameDucks DEF Callback, CallbackMix, CallbackCollect
<1>5. CASE Housekeep
  BY <1>5, SameDucks DEF Housekeep, HousekeepTake, HousekeepPrune
<1>6. CASE UNCHANGED vars
  BY <1>6, SameDucks DEF vars
<1>7. QED BY <1>2, <1>3, <1>4, <1>5, <1>6 DEF Next

\* Whatever plays has its voice in the ducking engine or a task about to put it
\* there, but for a play that relied on a sample gone before it started.
THEOREM DuckingInForce == Spec => []DuckInForce
<1>1. Init => DuckInv
  BY DEF Init, DuckInv, Relying
<1>2. TypeOK /\ DuckInv => DuckInForce
  BY DEF DuckInv, DuckInForce, Relying, InForce, TypeOK
<1>3. QED
  BY <1>1, <1>2, NextDucks, TypeCorrect, IdsConsistent, PTL DEF Spec

Superseded(p) == playPc[p] = "loading" /\ generation[p] < stopGeneration
Discarded(p) == Superseded(p) \/ playPc[p] \in {"cancelled", "failed"}

\* A superseded load stays superseded and never gets past the check.
LEMMA DiscardedStays ==
  ASSUME NEW p \in Plays
  PROVE  TypeOK /\ Discarded(p) /\ [Next]_vars => Discarded(p)'
<1> SUFFICES ASSUME TypeOK, Discarded(p), [Next]_vars PROVE Discarded(p)'
  OBVIOUS
<1> USE DEF Discarded, Superseded, taskVars
<1>1. CASE Command
  <2>1. CASE StopAllBump BY <2>1, SMT DEF StopAllBump, TypeOK
  <2>2. ASSUME NEW q \in Plays, PlayCommand(q) PROVE Discarded(p)'
    BY <2>2, SMT DEF PlayCommand, TypeOK
  <2>3. QED
    BY <1>1, <2>1, <2>2
       DEF Command, StopAllFade, VoiceStop, VoiceFadeOut, FadeIds,
           VoiceVolume, ApplyVolume, StopMatching, Reposition
<1>2. ASSUME NEW q \in Plays, PlayTask(q) PROVE Discarded(p)'
  <2>1. CASE LoadReturns(q) BY <2>1, SMT DEF LoadReturns, StopArrived, TypeOK
  <2>2. CASE LoadFails(q) BY <2>2, SMT DEF LoadFails, TypeOK
  <2>3. CASE AddToVoice(q) \/ MarkActive(q) \/ Push(q)
    BY <2>3, SMT DEF AddToVoice, MarkActive, Push, TypeOK
  <2>4. QED BY <1>2, <2>1, <2>2, <2>3 DEF PlayTask
<1>3. ASSUME NEW q \in Plays, Loader(q) PROVE Discarded(p)'
  BY <1>3 DEF Loader, LoaderFails, LoaderCompletes
<1>4. CASE Callback \/ Housekeep \/ UNCHANGED vars
  BY <1>4 DEF Callback, CallbackMix, CallbackCollect, CallbackRetain,
       Housekeep, HousekeepTake, HousekeepPrune, vars
<1>5. QED BY <1>1, <1>2, <1>3, <1>4 DEF Next

\* A play whose load was in flight when a stop came never reaches the mixer.
THEOREM LateLoadsAreDiscarded == Spec => LateLoadsDiscarded
<1>1. SUFFICES ASSUME NEW p \in Plays
               PROVE  Spec => [](playPc[p] = "loading"
                                   /\ generation[p] < stopGeneration
                                 => [](p \notin active))
  BY DEF LateLoadsDiscarded
<1>2. playPc[p] = "loading" /\ generation[p] < stopGeneration => Discarded(p)
  BY DEF Discarded, Superseded
<1>3. IdInv /\ Discarded(p) => p \notin active
  BY DEF IdInv, ActiveStarted, Discarded, Superseded
<1>4. TypeOK /\ Discarded(p) /\ [Next]_vars => Discarded(p)'
  BY DiscardedStays
<1>5. QED BY <1>2, <1>3, <1>4, TypeCorrect, IdsConsistent, PTL DEF Spec

-----------------------------------------------------------------------------
(* Volumes.  VolumeInForce says nothing while a volume command is between  *)
(* its two sections, nor of plays on their way to the mixer; the part      *)
(* below does.                                                             *)

Present(p) == Starting(p) \/ p \in active
Pending(p) == command.op = "volume" /\ command.voice = voiceOf[p]

VolumeInv ==
  \A p \in Plays \ missed :
    Present(p) /\ ~Pending(p) /\ idOf[p] \in voiceIds[voiceOf[p]]
      => targetVolume[p] = voiceVolume[voiceOf[p]]

\* A voice that keeps a sample keeps its volume.
LEMMA VolumeKept ==
  ASSUME NEW v \in Voices, NEW ids, ids[v] # {}
  PROVE  VolumeAfter(ids)[v] = voiceVolume[v]
  BY DEF VolumeAfter

\* A step that brings no play, gives no id and touches neither volumes nor the
\* command keeps the volumes in force.
LEMMA SameVolumes ==
  ASSUME VolumeInv,
         UNCHANGED <<voiceOf, idOf, voiceIds, voiceVolume, command, missed>>,
         \A p \in Plays : Present(p)' =>
                            Present(p) /\ targetVolume'[p] = targetVolume[p]
  PROVE  VolumeInv'
  BY DEF VolumeInv, Pending

\* A step of a play task or of its loader keeps the volumes in force: a play
\* that registers gets the volume of its voice.
LEMMA PlayVolumes ==
  ASSUME TypeOK, IdInv, VolumeInv, NEW q \in Plays, PlayTask(q) \/ Loader(q)
  PROVE  VolumeInv'
<1> USE DEF taskVars, voiceVars, duckVars, sampleVars, scanVars, history
<1>1. CASE LoadReturns(q)
  BY <1>1, SameVolumes, SMT DEF LoadReturns, Present, Starting, TypeOK
<1>2. CASE LoadFails(q)
  BY <1>2, SameVolumes, SMT DEF LoadFails, Present, Starting, TypeOK
<1>3. CASE AddToVoice(q)
  <2>1. SUFFICES ASSUME NEW p \in Plays, p \notin missed', Present(p)',
                        ~Pending(p)', idOf'[p] \in voiceIds'[voiceOf'[p]]
                 PROVE  targetVolume'[p] = voiceVolume'[voiceOf'[p]]
    BY DEF VolumeInv
  <2>2. CASE p = q
    BY <1>3, <2>2 DEF AddToVoice, TypeOK
  <2>3. CASE p # q
    <3>1. Present(p) /\ ~Pending(p) /\ p \notin missed
      BY <1>3, <2>1, <2>3, SMT DEF AddToVoice, Present, Starting, Pending, TypeOK
    <3>2. idOf[p] \in voiceIds'[voiceOf[p]] /\ UNCHANGED <<voiceOf, voiceVolume>>
      BY <1>3, <2>1, <2>3, SMT DEF AddToVoice, TypeOK
    <3>3. targetVolume'[p] = targetVolume[p]
      BY <1>3, <2>3, SMT DEF AddToVoice, TypeOK
    <3>5. Registered(p)
      BY <3>1 DEF Present, Registered, IdInv, ActiveStarted
    <3>6. idOf[p] # nextSampleId
      BY <3>5, SMT DEF IdInv, IdsFresh, TypeOK
    <3>7. idOf[p] \in voiceIds[voiceOf[p]]
      BY <1>3, <3>2, <3>6, SMT DEF AddToVoice, TypeOK
    <3>8. QED BY <3>1, <3>2, <3>3, <3>7 DEF VolumeInv
  <2>4. QED BY <2>2, <2>3
<1>4. CASE MarkActive(q)
  BY <1>4, SameVolumes, SMT DEF MarkActive, Present, Starting, TypeOK
<1>5. CASE Push(q)
  BY <1>5, SameVolumes, SMT DEF Push, Present, Starting, TypeOK
<1>6. CASE Loader(q)
  BY <1>6, SameVolumes
     DEF Loader, LoaderFails, LoaderCompletes, Present, Starting
<1>7. QED BY <1>1, <1>2, <1>3, <1>4, <1>5, <1>6 DEF PlayTask

\* A command keeps them: it leaves the volumes alone, drops a voice without
\* samples, has a volume pending, or applies it.
LEMMA CommandVolumes ==
  ASSUME TypeOK, VolumeInv, Command
  PROVE  VolumeInv'
<1> USE DEF taskVars, voiceVars, duckVars, sampleVars, scanVars, history
<1>1. ASSUME NEW q \in Plays, PlayCommand(q) PROVE VolumeInv'
  BY <1>1, SameVolumes, SMT DEF PlayCommand, Present, Starting, TypeOK
<1>2. CASE StopAllBump \/ StopAllFade \/ FadeIds
  BY <1>2
     DEF StopAllBump, StopAllFade, FadeIds, NoCommand, VolumeInv, Present,
         Starting, Pending
<1>3. ASSUME NEW v \in Voices, VoiceStop(v) PROVE VolumeInv'
  <2>1. SUFFICES ASSUME NEW p \in Plays, p \notin missed', Present(p)',
                        idOf'[p] \in voiceIds'[voiceOf'[p]]
                 PROVE  targetVolume'[p] = voiceVolume'[voiceOf'[p]]
    BY DEF VolumeInv
  <2>2. voiceOf[p] \in Voices /\ voiceIds'[voiceOf[p]] \subseteq voiceIds[voiceOf[p]]
    BY <1>3, SMT DEF VoiceStop, TypeOK
  <2>3. voiceVolume'[voiceOf[p]] = voiceVolume[voiceOf[p]]
    BY <1>3, <2>1, <2>2, VolumeKept DEF VoiceStop
  <2>4. Present(p) /\ ~Pending(p) /\ p \notin missed
    BY <1>3, <2>1 DEF VoiceStop, Present, Starting, Pending, NoCommand
  <2>5. QED BY <1>3, <2>1, <2>2, <2>3, <2>4 DEF VoiceStop, VolumeInv
<1>4. ASSUME NEW v \in Voices, VoiceFadeOut(v) PROVE VolumeInv'
  BY <1>4
     DEF VoiceFadeOut, NoCommand, VolumeInv, Present, Starting, Pending
<1>5. ASSUME NEW v \in Voices, NEW x \in Volumes, VoiceVolume(v, x)
      PROVE  VolumeInv'
  <2>1. SUFFICES ASSUME NEW p \in Plays, p \notin missed', Present(p)',
                        ~Pending(p)', idOf'[p] \in voiceIds'[voiceOf'[p]]
                 PROVE  targetVolume'[p] = voiceVolume'[voiceOf'[p]]
    BY DEF VolumeInv
  <2>2. voiceOf[p] \in Voices /\ voiceOf[p] # v
    BY <1>5, <2>1 DEF VoiceVolume, Pending, TypeOK
  <2>3. voiceVolume'[voiceOf[p]] = voiceVolume[voiceOf[p]]
    BY <1>5, <2>2, SMT DEF VoiceVolume, TypeOK
  <2>4. Present(p) /\ ~Pending(p) /\ p \notin missed
    BY <1>5, <2>1 DEF VoiceVolume, Present, Starting, Pending, NoCommand
  <2>5. QED BY <1>5, <2>1, <2>3, <2>4 DEF VoiceVolume, VolumeInv
<1>6. CASE ApplyVolume
  <2>1. SUFFICES ASSUME NEW p \in Plays, p \notin missed', Present(p)',
                        idOf'[p] \in voiceIds'[voiceOf'[p]]
                 PROVE  targetVolume'[p] = voiceVolume'[voiceOf'[p]]
    BY DEF VolumeInv
  <2>2. /\ Present(p) /\ UNCHANGED <<voiceOf, voiceVolume, idOf, voiceIds>>
        /\ p \notin Overtaken(command.voice, command.volume)
    BY <1>6, <2>1 DEF ApplyVolume, Present, Starting
  <2>3. CASE voiceOf[p] = command.voice
    <3>1. voiceVolume[voiceOf[p]] = command.volume
      BY <2>2, <2>3 DEF Overtaken, Present
    <3>2. p \in active \/ targetVolume[p] = command.volume
      BY <2>2, <2>3 DEF Overtaken, Present
    <3>3. targetVolume'[p] = command.volume
      BY <1>6, <2>3, <3>2 DEF ApplyVolume
    <3>4. QED BY <2>2, <3>1, <3>3
  <2>4. CASE voiceOf[p] # command.voice
    <3>1. targetVolume'[p] = targetVolume[p] /\ p \notin missed /\ ~Pending(p)
      BY <1>6, <2>1, <2>4 DEF ApplyVolume, Pending
    <3>2. QED BY <2>1, <2>2, <3>1 DEF VolumeInv
  <2>5. QED BY <2>3, <2>4
<1>7. ASSUME NEW S \in SUBSET active, StopMatching(S) \/ Reposition(S)
      PROVE  VolumeInv'
  BY <1>7, SameVolumes DEF StopMatching, Reposition, Present, Starting
<1>8. QED
  BY <1>1, <1>2, <1>3, <1>4, <1>5, <1>6, <1>7 DEF Command

\* Every step keeps the volumes in force.
LEMMA NextVolumes ==
  TypeOK /\ IdInv /\ VolumeInv /\ [Next]_vars => VolumeInv'
<1> SUFFICES ASSUME TypeOK, IdInv, VolumeInv, [Next]_vars PROVE VolumeInv'
  OBVIOUS
<1> USE DEF taskVars, voiceVars, duckVars, sampleVars, scanVars, history
<1>1. CASE Command BY <1>1, CommandVolumes
<1>2. ASSUME NEW q \in Plays, PlayTask(q) \/ Loader(q) PROVE VolumeInv'
  BY <1>2, PlayVolumes
<1>3. CASE Callback
  <2>1. CASE CallbackRetain
    <3>1. \A p \in Plays : Present(p)' => Present(p) /\ targetVolume'[p] = targetVolume[p]
      BY <2>1, SMT DEF CallbackRetain, Present, Starting, IdInv, ActiveStarted
    <3>2. QED BY <2>1, <3>1, SameVolumes DEF CallbackRetain
  <2>2. QED
    BY <1>3, <2>1, SameVolumes
       DEF Callback, CallbackMix, CallbackCollect, Present, Starting
<1>4. CASE HousekeepTake
  BY <1>4, SameVolumes DEF HousekeepTake, Present, Starting
<1>5. CASE HousekeepPrune
  <2>1. SUFFICES ASSUME NEW p \in Plays, p \notin missed', Present(p)',
                        ~Pending(p)', idOf'[p] \in voiceIds'[voiceOf'[p]]
                 PROVE  targetVolume'[p] = voiceVolume'[voiceOf'[p]]
    BY DEF VolumeInv
  <2>2. voiceOf[p] \in Voices /\ voiceIds'[voiceOf[p]] \subseteq voiceIds[voiceOf[p]]
    BY <1>5, SMT DEF HousekeepPrune, Without, TypeOK
  <2>3. voiceVolume'[voiceOf[p]] = voiceVolume[voiceOf[p]]
    BY <1>5, <2>1, <2>2, VolumeKept DEF HousekeepPrune
  <2>4. Present(p) /\ ~Pending(p) /\ p \notin missed
    BY <1>5, <2>1 DEF HousekeepPrune, Present, Starting, Pending
  <2>5. QED BY <1>5, <2>1, <2>2, <2>3, <2>4 DEF HousekeepPrune, VolumeInv
<1>6. CASE UNCHANGED vars
  BY <1>6, SameVolumes DEF vars, Present, Starting
<1>7. QED
  BY <1>1, <1>2, <1>3, <1>4, <1>5, <1>6 DEF Next, Housekeep

\* Between volume commands every playing sample its voice lists has the volume
\* of the voice, but for those a volume command missed in its two sections.
THEOREM VolumesInForce == Spec => []VolumeInForce
<1>1. Init => VolumeInv
  BY SMT DEF Init, VolumeInv, Present, Starting
<1>2. TypeOK /\ VolumeInv => VolumeInForce
  BY DEF VolumeInv, VolumeInForce, Present, Pending, TypeOK
<1>3. QED
  BY <1>1, <1>2, NextVolumes, TypeCorrect, IdsConsistent, PTL DEF Spec

\* The ids of voices are kept true by everyone who works on them, for any
\* plays and voices.
THEOREM BookkeepingKept == Spec => []Bookkeeping
<1>1. TypeOK /\ PruneSparesLiving /\ TrackedUntilStopped => Bookkeeping
  BY DEF Bookkeeping
<1>2. QED BY <1>1, TypeCorrect, PruningIsSafe, LivingStayTracked, PTL

-----------------------------------------------------------------------------
(* What has ended leaves nothing behind.  A sample leaves the mixer when    *)
(* the last of three scans finds it finished, and is recorded when the      *)
(* second did; a sample whose buffer is complete cannot become finished     *)
(* between the two.                                                         *)

\* A loaded sample has no buffer or a complete one, never a loading one.
LoadedAtOnce ==
  \A p \in Plays \ StreamingPlays : load[p] \in {"none", "complete"}

\* An id is given with the registration, never before.
IdsGivenOnce == \A p \in Plays : ~Registered(p) => idOf[p] = 0

\* Before the last scan, the second recorded every loaded sample that ended.
FinishedCollected ==
  callback = "retain" =>
    \A p \in active \ StreamingPlays : IsFinished(p) => p \in collected

LeftInv == /\ LoadedAtOnce
           /\ IdsGivenOnce
           /\ FinishedCollected
           /\ NoGhostSamples
           /\ DuckOnlyWhilePlaying

\* The variables LeftInv is about.
leftVars == <<playPc, voiceOf, idOf, load, voiceIds, engineActive, active,
              ended, finished, callback, collected, taken>>

\* At first nothing is registered, playing or ducking.
LEMMA InitLeft == Init => LeftInv
  BY SMT DEF Init, LeftInv, LoadedAtOnce, IdsGivenOnce, FinishedCollected,
             NoGhostSamples, DuckOnlyWhilePlaying, Registered, Starting

\* A step that touches none of leftVars leaves LeftInv alone.
LEMMA SameLeft == LeftInv /\ UNCHANGED leftVars => LeftInv'
  BY DEF leftVars, LeftInv, LoadedAtOnce, IdsGivenOnce, FinishedCollected,
         NoGhostSamples, DuckOnlyWhilePlaying, Registered, Starting,
         IsFinished, VoicesOf

\* A step of a play task: only AddToVoice gives an id, to a play without one.
LEMMA PlayTaskLeft ==
  ASSUME NEW p \in Plays, TypeOK, IdInv, LeftInv, PlayTask(p)
  PROVE  LeftInv'
<1> USE DEF LeftInv, Registered, Starting, taskVars, voiceVars, duckVars,
            sampleVars, scanVars
<1>1. CASE LoadReturns(p)
  <2>1. /\ UNCHANGED <<voiceOf, idOf, voiceIds, engineActive, active, ended,
                       finished, callback, collected, taken>>
        /\ \A q \in Plays : Registered(q)' <=> Registered(q)
        /\ \A q \in Plays : Starting(q)' <=> Starting(q)
        /\ \A q \in Plays \ StreamingPlays : load'[q] \in {load[q], "complete"}
    BY <1>1, SMT DEF LoadReturns, TypeOK
  <2>2. LoadedAtOnce'
    BY <2>1 DEF LoadedAtOnce
  <2>3. \A q \in Plays \ StreamingPlays : IsFinished(q)' => IsFinished(q)
    BY <2>1, <2>2 DEF LoadedAtOnce, IsFinished
  <2>4. FinishedCollected'
    BY <2>1, <2>3 DEF FinishedCollected, TypeOK
  <2>5. IdsGivenOnce' /\ NoGhostSamples' /\ DuckOnlyWhilePlaying'
    BY <2>1 DEF IdsGivenOnce, NoGhostSamples, DuckOnlyWhilePlaying, VoicesOf
  <2>6. QED BY <2>2, <2>4, <2>5
<1>2. CASE LoadFails(p)
  BY <1>2, SMT
     DEF LoadFails, TypeOK, LoadedAtOnce, IdsGivenOnce, FinishedCollected,
         NoGhostSamples, DuckOnlyWhilePlaying, IsFinished, VoicesOf
<1>3. CASE AddToVoice(p)
  <2>1. /\ idOf' = [idOf EXCEPT ![p] = nextSampleId]
        /\ playPc' = [playPc EXCEPT ![p] = "added"]
        /\ voiceIds' = [voiceIds EXCEPT ![voiceOf[p]] = @ \cup {nextSampleId}]
        /\ UNCHANGED <<voiceOf, load, engineActive, active, ended, finished,
                       callback, collected, taken>>
        /\ playPc[p] = "checked"
    BY <1>3 DEF AddToVoice
  <2>2. LoadedAtOnce' /\ FinishedCollected' /\ DuckOnlyWhilePlaying'
    BY <2>1 DEF LoadedAtOnce, FinishedCollected, DuckOnlyWhilePlaying,
                IsFinished, VoicesOf
  <2>3. IdsGivenOnce'
    BY <2>1, SMT DEF IdsGivenOnce, TypeOK
  <2>4. NoGhostSamples'
    <3>1. SUFFICES ASSUME NEW q \in Plays \ StreamingPlays, NEW v \in Voices,
                          idOf'[q] \in voiceIds'[v], q # p
                   PROVE  Starting(q)' \/ q \in active' \/ idOf'[q] \in finished' \cup taken'
      BY <2>1, SMT DEF NoGhostSamples, TypeOK
    <3>2. CASE idOf[q] \in voiceIds[v]
      BY <2>1, <3>1, <3>2, SMT DEF NoGhostSamples, TypeOK
    <3>3. CASE idOf[q] = nextSampleId
      BY <2>1, <3>1, <3>3, SMT DEF IdsGivenOnce, IdsFresh, IdInv, TypeOK
    <3>4. QED BY <2>1, <3>1, <3>2, <3>3, SMT DEF TypeOK
  <2>5. QED BY <2>2, <2>3, <2>4
<1>4. CASE MarkActive(p)
  BY <1>4, SMT
     DEF MarkActive, TypeOK, LoadedAtOnce, IdsGivenOnce, FinishedCollected,
         NoGhostSamples, DuckOnlyWhilePlaying, IsFinished, VoicesOf
<1>5. CASE Push(p)
  <2>1. /\ playPc' = [playPc EXCEPT ![p] = "started"]
        /\ active' = active \cup {p}
        /\ engineActive' \subseteq engineActive \cup {voiceOf[p]}
        /\ callback = "idle"
        /\ UNCHANGED <<voiceOf, idOf, load, voiceIds, ended, finished,
                       callback, collected, taken>>
    BY <1>5 DEF Push, MixerFree
  <2>2. LoadedAtOnce' /\ FinishedCollected'
    BY <2>1 DEF LoadedAtOnce, FinishedCollected
  <2>3. IdsGivenOnce' /\ NoGhostSamples'
    BY <1>5, <2>1, SMT DEF IdsGivenOnce, NoGhostSamples, TypeOK, Push
  <2>4. DuckOnlyWhilePlaying'
    BY <2>1 DEF DuckOnlyWhilePlaying, VoicesOf
  <2>5. QED BY <2>2, <2>3, <2>4
<1>6. QED BY <1>1, <1>2, <1>3, <1>4, <1>5 DEF PlayTask

\* Loaders have nothing left to do for a buffer that came complete.
LEMMA LoaderLeft ==
  ASSUME NEW p \in Plays, TypeOK, LeftInv, Loader(p)
  PROVE  LeftInv'
<1> USE DEF LeftInv
<1>1. /\ UNCHANGED <<playPc, voiceOf, idOf, voiceIds, engineActive, active,
                     finished, callback, collected, taken>>
      /\ load[p] = "loading"
      /\ \A q \in Plays : q # p => /\ load'[q] = load[q]
                                   /\ q \in ended' => q \in ended
  BY SMT DEF Loader, LoaderFails, LoaderCompletes, Loadable, TypeOK, taskVars,
             voiceVars, duckVars, sampleVars, scanVars
<1>2. p \in StreamingPlays
  BY <1>1 DEF LoadedAtOnce
<1>3. LoadedAtOnce'
  BY <1>1, <1>2 DEF LoadedAtOnce
<1>4. FinishedCollected'
  BY <1>1, <1>2 DEF FinishedCollected, IsFinished, TypeOK
<1>5. IdsGivenOnce' /\ NoGhostSamples' /\ DuckOnlyWhilePlaying'
  BY <1>1 DEF IdsGivenOnce, NoGhostSamples, DuckOnlyWhilePlaying, Registered,
              Starting, VoicesOf
<1>6. QED BY <1>3, <1>4, <1>5

\* What the callback removes it has recorded, but for streamed samples, and a
\* voice it leaves active has a sample that stays.
LEMMA CallbackLeft ==
  ASSUME TypeOK, LeftInv, Callback
  PROVE  LeftInv'
<1> USE DEF LeftInv, Registered, Starting, taskVars, voiceVars, duckVars,
            sampleVars
<1>1. ASSUME NEW S \in SUBSET active, CallbackMix(S) PROVE LeftInv'
  BY <1>1, SMT
     DEF CallbackMix, LoadedAtOnce, IdsGivenOnce, FinishedCollected,
         NoGhostSamples, DuckOnlyWhilePlaying, VoicesOf
<1>2. CASE CallbackCollect
  BY <1>2, SMT
     DEF CallbackCollect, LoadedAtOnce, IdsGivenOnce, FinishedCollected,
         NoGhostSamples, DuckOnlyWhilePlaying, VoicesOf, IsFinished
<1>3. CASE CallbackRetain
  <2> DEFINE remaining == {p \in active : ~IsFinished(p)}
  <2>1. /\ UNCHANGED <<playPc, voiceOf, idOf, voiceIds, taken>>
        /\ load' = [p \in Plays |-> IF p \in active \ remaining THEN "none"
                                                              ELSE load[p]]
        /\ callback = "retain" /\ callback' = "idle"
        /\ active' = remaining
        /\ engineActive' = engineActive \ Silenced(remaining)
        /\ finished' = finished \cup Recorded
    BY <1>3 DEF CallbackRetain, AfterScan
  <2>2. \A p \in active \ StreamingPlays : p \in remaining \/ p \in collected
    BY <2>1 DEF FinishedCollected
  <2>3. LoadedAtOnce' /\ IdsGivenOnce' /\ FinishedCollected'
    BY <2>1 DEF LoadedAtOnce, IdsGivenOnce, FinishedCollected
  <2>4. NoGhostSamples'
    BY <2>1, <2>2 DEF NoGhostSamples, Recorded
  <2>5. DuckOnlyWhilePlaying'
    <3>1. SUFFICES ASSUME NEW v \in engineActive, v \notin Silenced(remaining),
                          v \notin VoicesOf(StreamingPlays)
                   PROVE  v \in VoicesOf(remaining)
      BY <2>1 DEF DuckOnlyWhilePlaying, VoicesOf
    <3>2. PICK p \in active : v = voiceOf[p]
      BY <3>1 DEF DuckOnlyWhilePlaying, VoicesOf
    <3>3. p \notin StreamingPlays
      BY <3>1, <3>2 DEF VoicesOf
    <3>4. CASE p \in collected
      BY <3>1, <3>2, <3>4 DEF Silenced, VoicesOf
    <3>5. QED BY <2>2, <3>2, <3>3, <3>4 DEF VoicesOf
  <2>6. QED BY <2>3, <2>4, <2>5
<1>4. QED BY <1>1, <1>2, <1>3 DEF Callback

\* Commands take ids away or leave them, and no sample.
LEMMA CommandLeft ==
  ASSUME TypeOK, LeftInv, Command
  PROVE  LeftInv'
<1> USE DEF taskVars, voiceVars, duckVars, sampleVars, scanVars
<1>1. ASSUME NEW p \in Plays, PlayCommand(p) PROVE LeftInv'
  BY <1>1, SMT
     DEF PlayCommand, TypeOK, LeftInv, LoadedAtOnce, IdsGivenOnce,
         FinishedCollected, NoGhostSamples, DuckOnlyWhilePlaying, Registered,
         Starting, IsFinished, VoicesOf
<1>2. CASE StopAllBump BY <1>2, SameLeft DEF StopAllBump, leftVars
<1>3. CASE StopAllFade BY <1>3, SameLeft DEF StopAllFade, leftVars
<1>4. ASSUME NEW v \in Voices, VoiceStop(v) PROVE LeftInv'
  <2>1. /\ UNCHANGED <<playPc, voiceOf, idOf, load, engineActive, active,
                       ended, finished, callback, collected, taken>>
        /\ \A w \in Voices : voiceIds'[w] \subseteq voiceIds[w]
    BY <1>4, SMT DEF VoiceStop, TypeOK
  <2>2. QED BY <2>1
        DEF LeftInv, LoadedAtOnce, IdsGivenOnce, FinishedCollected,
            NoGhostSamples, DuckOnlyWhilePlaying, Registered, Starting,
            IsFinished, VoicesOf
<1>5. ASSUME NEW v \in Voices, VoiceFadeOut(v) PROVE LeftInv'
  BY <1>5, SameLeft DEF VoiceFadeOut, leftVars
<1>6. CASE FadeIds BY <1>6, SameLeft DEF FadeIds, leftVars
<1>7. ASSUME NEW v \in Voices, NEW x \in Volumes, VoiceVolume(v, x)
      PROVE  LeftInv'
  BY <1>7, SameLeft DEF VoiceVolume, leftVars
<1>8. CASE ApplyVolume BY <1>8, SameLeft DEF ApplyVolume, leftVars
<1>9. ASSUME NEW S \in SUBSET active, StopMatching(S) PROVE LeftInv'
  BY <1>9, SameLeft DEF StopMatching, leftVars
<1>10. ASSUME NEW S \in SUBSET active, Reposition(S) PROVE LeftInv'
  BY <1>10
     DEF Reposition, MixerFree, LeftInv, LoadedAtOnce, IdsGivenOnce,
         FinishedCollected, NoGhostSamples, DuckOnlyWhilePlaying, Registered,
         Starting, VoicesOf
<1>11. QED
  BY <1>1, <1>2, <1>3, <1>4, <1>5, <1>6, <1>7, <1>8, <1>9, <1>10
     DEF Command

\* Housekeeping hands on what it takes, and forgets it in the end.
LEMMA HousekeepLeft ==
  ASSUME TypeOK, LeftInv, Housekeep
  PROVE  LeftInv'
<1> USE DEF taskVars, voiceVars, duckVars, sampleVars, scanVars, LeftInv,
            LoadedAtOnce, IdsGivenOnce, FinishedCollected, NoGhostSamples,
            DuckOnlyWhilePlaying, Registered, Starting, IsFinished, VoicesOf
<1>1. CASE HousekeepTake BY <1>1, SMT DEF HousekeepTake
<1>2. CASE HousekeepPrune BY <1>2, SMT DEF HousekeepPrune, Without
<1>3. QED BY <1>1, <1>2 DEF Housekeep

\* Every step keeps what is owed to the samples that have ended.
LEMMA NextLeft == TypeOK /\ IdInv /\ LeftInv /\ [Next]_vars => LeftInv'
<1> SUFFICES ASSUME TypeOK, IdInv, LeftInv, [Next]_vars PROVE LeftInv'
  OBVIOUS
<1>1. CASE UNCHANGED vars
  BY <1>1, SameLeft DEF vars, leftVars, taskVars, voiceVars, duckVars,
                        sampleVars, scanVars
<1>2. QED
  BY <1>1, PlayTaskLeft, LoaderLeft, CallbackLeft, CommandLeft,
     HousekeepLeft DEF Next

\* No id of a gone sample stays in the voice manager and no voice ducks others
\* without playing, whatever the interleaving, but for streamed samples.
THEOREM NothingIsLeftBehind == Spec => []NothingLeftBehind
<1>1. LeftInv => NothingLeftBehind
  BY DEF LeftInv, NothingLeftBehind
<1>2. QED BY <1>1, InitLeft, NextLeft, TypeCorrect, IdsConsistent, PTL DEF Spec
=============================================================================
