--------------------------- MODULE LiveInputProofs ---------------------------
(* For any ring, block and callback sizes every captured frame is accounted  *)
(* for, the backlog stays under its ceiling, trimming it starves nobody, and *)
(* unmute restores what could be heard.                                      *)
EXTENDS LiveInput, TLAPS

Assumptions ==
  /\ Capacity \in Nat /\ Chunks \subseteq Nat
  /\ BlockSizes \subseteq Nat /\ ChunkYields \subseteq Nat
  /\ CallbackSizes \subseteq Nat \ {0}
  /\ Rate \in Nat \ {0} /\ MaxGain \in Nat /\ Asked \subseteq Int
  /\ Wrap \in Nat \ {0}

LEMMA AssumptionsHold == Assumptions
BY RingAssumption, SizesAssumption, CallbackAssumption, VolumeAssumption, WrapAssumption
DEF Assumptions

\* Half of the capacity, rounded down.
LEMMA Halved == MaxBacklog \in Nat /\ 2 * MaxBacklog <= Capacity /\ Capacity <= 2 * MaxBacklog + 1
BY AssumptionsHold DEF Assumptions, MaxBacklog

\* A counter stays below Wrap.
LEMMA CountedBelow == \A c, n \in Nat : Counted(c, n) \in 0 .. (Wrap - 1)
BY AssumptionsHold DEF Assumptions, Counted

\* The values of the ring and of the two callbacks: a push fits what was free
\* when it was measured, as the other side only makes room.
RingKept ==
  /\ chunk \in Chunks
  /\ capture \in {"idle", "chunks", "look", "push"}
  /\ pending \in Nat /\ offered \in Nat
  /\ room \in 0 .. Capacity
  /\ backlog \in 0 .. Capacity
  /\ mix \in {"idle", "trim", "look", "read"}
  /\ frames \in CallbackSizes \cup {0}
  /\ excess \in 0 .. Capacity /\ cut \in 0 .. Capacity /\ toRead \in 0 .. Capacity
  /\ since \in Nat
  /\ capture = "push" => room + backlog <= Capacity

\* What the audio callback knows between its looks at the ring: a backlog it
\* trims is more than it needs, since the ring holds at most twice the ceiling.
CallbackKnows ==
  /\ mix # "idle" => frames \in CallbackSizes
  /\ mix = "trim" => /\ cut = 0 /\ frames <= MaxBacklog
                     /\ backlog = MaxBacklog + excess + since
  /\ mix = "look" =>
       /\ backlog <= MaxBacklog + frames + since
       /\ cut > 0 => backlog >= frames /\ backlog <= MaxBacklog + since
  /\ mix = "read" =>
       /\ toRead <= frames /\ toRead <= backlog
       /\ backlog - toRead <= MaxBacklog + since
       /\ cut > 0 => toRead = frames

\* The volumes stay within their range, and unmute knows the audible one.
VolumesKept ==
  /\ {volume, targetVolume, unmutedVolume, audible} \subseteq 0 .. MaxGain
  /\ UnmuteRestores
  /\ targetVolume > 0 => targetVolume = audible

CountersKept == {dropped, trimmed, underrun, captured, played} \subseteq 0 .. (Wrap - 1)

IInv == RingKept /\ CallbackKnows /\ VolumesKept /\ CountersKept

\* The initial state satisfies the invariant.
LEMMA InitInv == Init => IInv
<1> SUFFICES ASSUME Init PROVE IInv
  OBVIOUS
<1> USE AssumptionsHold DEF Assumptions, Init
<1>1. RingKept
  BY DEF RingKept
<1>2. CallbackKnows
  BY DEF CallbackKnows
<1>3. VolumesKept
  BY DEF VolumesKept, UnmuteRestores
<1>4. CountersKept
  BY DEF CountersKept
<1>q. QED
  BY <1>1, <1>2, <1>3, <1>4 DEF IInv

\* The counters of a step that adds natural numbers to them.
LEMMA NextCounters == IInv /\ [Next]_vars => CountersKept'
<1> SUFFICES ASSUME IInv, [Next]_vars PROVE CountersKept'
  OBVIOUS
<1> USE AssumptionsHold, CountedBelow DEF Assumptions, IInv, RingKept, CallbackKnows, CountersKept, captureVars, mixVars, volumeVars, Least, Pushed, Skipped
<1>0. /\ dropped \in 0 .. (Wrap - 1) /\ trimmed \in 0 .. (Wrap - 1) /\ underrun \in 0 .. (Wrap - 1)
      /\ captured \in 0 .. (Wrap - 1) /\ played \in 0 .. (Wrap - 1)
      /\ 0 .. (Wrap - 1) \subseteq Nat
  OBVIOUS
<1>1. ASSUME NEW n \in BlockSizes, CaptureBlock(n) PROVE CountersKept'
  <2>1. n \in Nat
    BY <1>1
  <2>2. captured' = captured \/ captured' = Counted(captured, n)
    BY <1>1 DEF CaptureBlock
  <2>3. Counted(captured, n) \in 0 .. (Wrap - 1)
    BY <2>1, <1>0
  <2>4. captured' \in 0 .. (Wrap - 1)
    BY <2>2, <2>3, <1>0, Zenon
  <2>q. QED
    BY <1>1, <2>4, <1>0 DEF CaptureBlock
<1>2. CASE NextChunk
  <2>1. chunk \in Nat
    OBVIOUS
  <2>2. Counted(captured, chunk) \in 0 .. (Wrap - 1) /\ Counted(dropped, chunk) \in 0 .. (Wrap - 1)
    BY <2>1, <1>0
  <2>3. \A y \in ChunkYields : Counted(captured, y) \in 0 .. (Wrap - 1)
    BY <1>0
  <2>q. QED
    BY <1>2, <2>2, <2>3, <1>0 DEF NextChunk
<1>3. CASE NoChunk
  BY <1>3 DEF NoChunk
<1>4. CASE MeasureRoom
  BY <1>4 DEF MeasureRoom
<1>5. CASE PushFrames
  <2>1. offered - Pushed \in Nat
    OBVIOUS
  <2>2. Counted(dropped, offered - Pushed) \in 0 .. (Wrap - 1)
    BY <2>1, <1>0
  <2>q. QED
    BY <1>5, <2>2, <1>0 DEF PushFrames
<1>6. ASSUME NEW f \in CallbackSizes, StartMix(f) PROVE CountersKept'
  BY <1>6 DEF StartMix, OverCeiling
<1>7. CASE TrimBacklog
  <2>1. Skipped \in Nat
    OBVIOUS
  <2>2. Counted(trimmed, Skipped) \in 0 .. (Wrap - 1)
    BY <2>1, <1>0
  <2>q. QED
    BY <1>7, <2>2, <1>0 DEF TrimBacklog
<1>8. CASE MeasureBacklog
  BY <1>8 DEF MeasureBacklog
<1>9. CASE ReadFrames
  <2>1. Least(toRead, backlog) \in Nat /\ frames - Least(toRead, backlog) \in Nat
    BY <1>9 DEF ReadFrames
  <2>2. /\ Counted(played, Least(toRead, backlog)) \in 0 .. (Wrap - 1)
        /\ Counted(underrun, frames - Least(toRead, backlog)) \in 0 .. (Wrap - 1)
    BY <2>1, <1>0
  <2>q. QED
    BY <1>9, <2>2, <1>0 DEF ReadFrames
<1>10. ASSUME NEW v \in Asked, SetTargetVolume(v) PROVE CountersKept'
  BY <1>10 DEF SetTargetVolume
<1>11. ASSUME NEW b \in BOOLEAN, SetMuted(b) PROVE CountersKept'
  BY <1>11 DEF SetMuted
<1>12. CASE UNCHANGED vars
  BY <1>12 DEF vars
<1>q. QED
  BY <1>1, <1>2, <1>3, <1>4, <1>5, <1>6, <1>7, <1>8, <1>9, <1>10, <1>11, <1>12
  DEF Next, Capturing, Mixing, Commanded

\* The ring and both callbacks keep to their values.
LEMMA NextRing == IInv /\ [Next]_vars => RingKept'
<1> SUFFICES ASSUME IInv, [Next]_vars PROVE RingKept'
  OBVIOUS
<1> USE AssumptionsHold, Halved DEF Assumptions, IInv, RingKept, CallbackKnows, captureVars, mixVars, volumeVars, Least, Pushed, Skipped
<1>1. ASSUME NEW n \in BlockSizes, CaptureBlock(n) PROVE RingKept'
  BY <1>1 DEF CaptureBlock
<1>2. CASE NextChunk
  BY <1>2 DEF NextChunk
<1>3. CASE NoChunk
  BY <1>3 DEF NoChunk
<1>4. CASE MeasureRoom
  BY <1>4 DEF MeasureRoom
<1>5. CASE PushFrames
  BY <1>5 DEF PushFrames
<1>6. ASSUME NEW f \in CallbackSizes, StartMix(f) PROVE RingKept'
  BY <1>6 DEF StartMix, OverCeiling
<1>7. CASE TrimBacklog
  BY <1>7 DEF TrimBacklog
<1>8. CASE MeasureBacklog
  BY <1>8 DEF MeasureBacklog
<1>9. CASE ReadFrames
  BY <1>9 DEF ReadFrames
<1>10. ASSUME NEW v \in Asked, SetTargetVolume(v) PROVE RingKept'
  BY <1>10 DEF SetTargetVolume
<1>11. ASSUME NEW b \in BOOLEAN, SetMuted(b) PROVE RingKept'
  BY <1>11 DEF SetMuted
<1>12. CASE UNCHANGED vars
  BY <1>12 DEF vars
<1>q. QED
  BY <1>1, <1>2, <1>3, <1>4, <1>5, <1>6, <1>7, <1>8, <1>9, <1>10, <1>11, <1>12
  DEF Next, Capturing, Mixing, Commanded

\* Pushes of the other thread add to the backlog what they add to since.
LEMMA NextCallback == IInv /\ [Next]_vars => CallbackKnows'
<1> SUFFICES ASSUME IInv, [Next]_vars PROVE CallbackKnows'
  OBVIOUS
<1> USE AssumptionsHold, Halved DEF Assumptions, IInv, RingKept, CallbackKnows, captureVars, mixVars, volumeVars, Least, Pushed, Skipped
<1>1. ASSUME NEW n \in BlockSizes, CaptureBlock(n) PROVE CallbackKnows'
  BY <1>1 DEF CaptureBlock
<1>2. CASE NextChunk
  BY <1>2 DEF NextChunk
<1>3. CASE NoChunk
  BY <1>3 DEF NoChunk
<1>4. CASE MeasureRoom
  BY <1>4 DEF MeasureRoom
<1>5. CASE PushFrames
  BY <1>5 DEF PushFrames
<1>6. ASSUME NEW f \in CallbackSizes, StartMix(f) PROVE CallbackKnows'
  BY <1>6 DEF StartMix, OverCeiling
<1>7. CASE TrimBacklog
  BY <1>7 DEF TrimBacklog
<1>8. CASE MeasureBacklog
  BY <1>8 DEF MeasureBacklog
<1>9. CASE ReadFrames
  BY <1>9 DEF ReadFrames
<1>10. ASSUME NEW v \in Asked, SetTargetVolume(v) PROVE CallbackKnows'
  BY <1>10 DEF SetTargetVolume
<1>11. ASSUME NEW b \in BOOLEAN, SetMuted(b) PROVE CallbackKnows'
  BY <1>11 DEF SetMuted
<1>12. CASE UNCHANGED vars
  BY <1>12 DEF vars
<1>q. QED
  BY <1>1, <1>2, <1>3, <1>4, <1>5, <1>6, <1>7, <1>8, <1>9, <1>10, <1>11, <1>12
  DEF Next, Capturing, Mixing, Commanded

\* A ramp stays between its ends.
LEMMA RampBetween ==
  ASSUME NEW a \in 0 .. MaxGain, NEW b \in 0 .. MaxGain, NEW n \in Nat
  PROVE  Ramped(a, b, n) \in 0 .. MaxGain
<1>1. Rate * n \in Nat
  BY AssumptionsHold DEF Assumptions
<1>q. QED
  BY <1>1, AssumptionsHold DEF Assumptions, Ramped, Least

\* Volumes stay in range, and the audible one is remembered.
LEMMA NextVolumes == IInv /\ [Next]_vars => VolumesKept'
<1> SUFFICES ASSUME IInv, [Next]_vars PROVE VolumesKept'
  OBVIOUS
<1> USE AssumptionsHold DEF Assumptions, IInv, VolumesKept, UnmuteRestores, captureVars, mixVars, volumeVars
<1>1. ASSUME NEW n \in BlockSizes, CaptureBlock(n) PROVE VolumesKept'
  BY <1>1 DEF CaptureBlock
<1>2. CASE NextChunk
  BY <1>2 DEF NextChunk
<1>3. CASE NoChunk
  BY <1>3 DEF NoChunk
<1>4. CASE MeasureRoom
  BY <1>4 DEF MeasureRoom
<1>5. CASE PushFrames
  BY <1>5 DEF PushFrames
<1>6. ASSUME NEW f \in CallbackSizes, StartMix(f) PROVE VolumesKept'
  BY <1>6 DEF StartMix, OverCeiling
<1>7. CASE TrimBacklog
  BY <1>7 DEF TrimBacklog
<1>8. CASE MeasureBacklog
  BY <1>8 DEF MeasureBacklog
<1>9. CASE ReadFrames
  <2>1. frames \in Nat
    BY <1>9 DEF ReadFrames, RingKept
  <2>2. volume \in 0 .. MaxGain /\ targetVolume \in 0 .. MaxGain
    OBVIOUS
  <2>3. Ramped(volume, targetVolume, frames) \in 0 .. MaxGain
    BY <2>1, <2>2, RampBetween
  <2>q. QED
    BY <1>9, <2>3 DEF ReadFrames
<1>10. ASSUME NEW v \in Asked, SetTargetVolume(v) PROVE VolumesKept'
  <2>1. Clamp(v) \in 0 .. MaxGain
    BY <1>10 DEF Clamp, Least
  <2>q. QED
    BY <1>10, <2>1 DEF SetTargetVolume
<1>11. ASSUME NEW b \in BOOLEAN, SetMuted(b) PROVE VolumesKept'
  BY <1>11 DEF SetMuted
<1>12. CASE UNCHANGED vars
  BY <1>12 DEF vars
<1>q. QED
  BY <1>1, <1>2, <1>3, <1>4, <1>5, <1>6, <1>7, <1>8, <1>9, <1>10, <1>11, <1>12
  DEF Next, Capturing, Mixing, Commanded

\* The invariant holds in every reachable state.
LEMMA Invariance == Spec => []IInv
<1>1. Init => IInv
  BY InitInv
<1>2. IInv /\ [Next]_vars => IInv'
  BY NextCounters, NextRing, NextCallback, NextVolumes DEF IInv
<1>q. QED
  BY <1>1, <1>2, PTL DEF Spec

\* Every variable keeps to its values: the ring never overflows, although the
\* room is measured before it is used.
THEOREM TypeCorrect == Spec => []TypeOK
<1>1. IInv => TypeOK
  BY DEF IInv, RingKept, VolumesKept, CountersKept, TypeOK
<1>q. QED
  BY <1>1, Invariance, PTL

\* Unmute restores the last level that could be heard.
THEOREM UnmuteKnowsLevel == Spec => []UnmuteRestores
<1>1. IInv => UnmuteRestores
  BY DEF IInv, VolumesKept
<1>q. QED
  BY <1>1, Invariance, PTL

\* The step that ends the audio callback.
LEMMA EndOfCallback ==
  IInv /\ [Next]_vars /\ mix = "read" /\ mix' = "idle" => ReadFrames
BY DEF Next, Capturing, Mixing, Commanded, CaptureBlock, NextChunk, NoChunk, MeasureRoom,
  PushFrames, StartMix, TrimBacklog, MeasureBacklog, SetTargetVolume, SetMuted, vars, mixVars

\* For any ring and any block and callback sizes, a callback leaves at most the
\* ceiling and what was pushed while it ran.
THEOREM LatencyIsBounded == Spec => LatencyBounded
<1>1. IInv /\ [Next]_vars =>
        [mix = "read" /\ mix' = "idle" => backlog' <= MaxBacklog + since]_vars
  BY EndOfCallback DEF IInv, RingKept, CallbackKnows, ReadFrames, Least
<1>q. QED
  BY <1>1, Invariance, PTL DEF Spec, LatencyBounded

\* For any sizes, a callback that discarded a backlog still fills its output.
THEOREM TrimStarvesNobody == Spec => TrimNeverStarves
<1>1. IInv /\ [Next]_vars =>
        [mix = "read" /\ mix' = "idle" /\ cut > 0 => underrun' = underrun]_vars
  <2> SUFFICES ASSUME IInv, [Next]_vars, mix = "read", mix' = "idle", cut > 0
               PROVE underrun' = underrun
    OBVIOUS
  <2>1. underrun' = Counted(underrun, frames - Least(toRead, backlog))
    BY EndOfCallback DEF ReadFrames
  <2>2. frames - Least(toRead, backlog) = 0
    BY AssumptionsHold DEF Assumptions, IInv, RingKept, CallbackKnows, Least
  <2>3. underrun \in 0 .. (Wrap - 1)
    BY DEF IInv, CountersKept
  <2>q. QED
    BY <2>1, <2>2, <2>3, AssumptionsHold DEF Assumptions, Counted
<1>q. QED
  BY <1>1, Invariance, PTL DEF Spec, TrimNeverStarves

\* For any ring, block and callback sizes the trim bounds the latency and
\* starves no callback.
THEOREM TrimIsSound == Spec => TrimSound
<1>1. LatencyBounded /\ TrimNeverStarves => TrimSound
  BY DEF TrimSound
<1>2. QED BY <1>1, LatencyIsBounded, TrimStarvesNobody, PTL

-----------------------------------------------------------------------------
(* Counters that wrap: equal up to multiples of Wrap.                        *)

Multiples == {Wrap * k : k \in Int}

\* Multiples of Wrap are integers, closed under sum and difference.
LEMMA MultiplesClosed ==
  /\ Multiples \subseteq Int
  /\ 0 \in Multiples
  /\ \A a, b \in Multiples : a + b \in Multiples /\ a - b \in Multiples
<1>1. Wrap \in Int
  BY WrapAssumption
<1>2. 0 = Wrap * 0 /\ 0 \in Int
  BY <1>1
<1>3. ASSUME NEW a \in Multiples, NEW b \in Multiples
      PROVE  a + b \in Multiples /\ a - b \in Multiples
  <2>1. PICK j \in Int : a = Wrap * j
    BY <1>3 DEF Multiples
  <2>2. PICK k \in Int : b = Wrap * k
    BY <1>3 DEF Multiples
  <2>3. a + b = Wrap * (j + k) /\ a - b = Wrap * (j - k)
    BY <1>1, <2>1, <2>2
  <2>q. QED
    BY <2>3 DEF Multiples
<1>q. QED
  BY <1>1, <1>2, <1>3 DEF Multiples

\* A counter that has wrapped is off by a multiple of Wrap.
LEMMA WrappedBy ==
  ASSUME NEW x \in Nat
  PROVE  x % Wrap \in 0 .. (Wrap - 1) /\ (x % Wrap) - x \in Multiples
<1> DEFINE q == x \div Wrap
           r == x % Wrap
<1>1. q \in Int /\ r \in 0 .. (Wrap - 1) /\ x = Wrap * q + r
  BY WrapAssumption, Z3
<1> HIDE DEF q, r
<1>2. r - x = Wrap * (-q) /\ -q \in Int
  BY <1>1, WrapAssumption
<1>3. r - x \in Multiples
  BY <1>2 DEF Multiples
<1>q. QED
  BY <1>1, <1>3 DEF r

\* Two values below Wrap that differ by a multiple of it are equal.
LEMMA SameBelowWrap ==
  ASSUME NEW r \in 0 .. (Wrap - 1), NEW s \in 0 .. (Wrap - 1), r - s \in Multiples
  PROVE  r = s
<1>1. PICK k \in Int : r - s = Wrap * k
  BY DEF Multiples
<1>2. k >= 1 => Wrap * k >= Wrap
  BY WrapAssumption
<1>3. k <= -1 => Wrap * k <= -Wrap
  BY WrapAssumption
<1>4. k = 0
  BY <1>1, <1>2, <1>3, WrapAssumption
<1>q. QED
  BY <1>1, <1>4, WrapAssumption

\* What a wrapping counter says of a natural number.
LEMMA WrappedEqual ==
  ASSUME NEW c \in 0 .. (Wrap - 1), NEW x \in Nat
  PROVE  c = x % Wrap <=> c - x \in Multiples
<1>1. x % Wrap \in 0 .. (Wrap - 1) /\ (x % Wrap) - x \in Multiples
  BY WrappedBy
<1>2. ASSUME c - x \in Multiples PROVE c = x % Wrap
  <2>1. (c - x) - ((x % Wrap) - x) \in Multiples
    BY <1>1, <1>2, MultiplesClosed
  <2>2. (c - x) - ((x % Wrap) - x) = c - (x % Wrap)
    BY <1>1, WrapAssumption
  <2>q. QED
    BY <1>1, <2>1, <2>2, SameBelowWrap
<1>q. QED
  BY <1>1, <1>2

\* Counting n adds n, up to a multiple of Wrap.
LEMMA CountedBy ==
  ASSUME NEW c \in Nat, NEW n \in Nat
  PROVE  Counted(c, n) \in 0 .. (Wrap - 1) /\ Counted(c, n) - (c + n) \in Multiples
BY WrappedBy DEF Counted

-----------------------------------------------------------------------------
(* The balance of frames.                                                    *)

\* The frames the capture callback is about to push.
OnTheirWay == IF capture \in {"look", "push"} THEN offered ELSE 0

\* What was captured and what has become of it differ by wrapped counters only.
Balanced == captured - (played + trimmed + dropped + backlog + OnTheirWay) \in Multiples

LEMMA BalanceIsAccount == IInv => (FramesAccounted <=> Balanced)
<1> SUFFICES ASSUME IInv PROVE FramesAccounted <=> Balanced
  OBVIOUS
<1>1. /\ captured \in 0 .. (Wrap - 1)
      /\ played \in Nat /\ trimmed \in Nat /\ dropped \in Nat
      /\ backlog \in Nat /\ OnTheirWay \in Nat
  BY AssumptionsHold DEF Assumptions, IInv, CountersKept, RingKept, OnTheirWay
<1>2. played + trimmed + dropped + backlog + OnTheirWay \in Nat
  BY <1>1
<1>3. FramesAccounted <=>
        captured = (played + trimmed + dropped + backlog + OnTheirWay) % Wrap
  BY DEF FramesAccounted, OnTheirWay
<1>q. QED
  BY <1>1, <1>2, <1>3, WrappedEqual DEF Balanced

\* A step that makes a frames ready, reads b, trims c and drops d of them, and
\* leaves the rest in the ring or on their way, keeps the balance.
LEMMA BalanceStep ==
  ASSUME IInv, IInv', Balanced,
         NEW a \in Nat, NEW b \in Nat, NEW c \in Nat, NEW d \in Nat,
         captured' - (captured + a) \in Multiples,
         played' - (played + b) \in Multiples,
         trimmed' - (trimmed + c) \in Multiples,
         dropped' - (dropped + d) \in Multiples,
         backlog' + OnTheirWay' + b + c + d = backlog + OnTheirWay + a
  PROVE  Balanced'
<1>1. /\ captured \in Int /\ played \in Int /\ trimmed \in Int /\ dropped \in Int
      /\ backlog \in Int /\ OnTheirWay \in Int
  BY AssumptionsHold DEF Assumptions, IInv, CountersKept, RingKept, OnTheirWay
<1>2. PICK c2 \in Int, p2 \in Int, t2 \in Int, d2 \in Int, k2 \in Int, w2 \in Int :
        /\ captured' = c2 /\ played' = p2 /\ trimmed' = t2 /\ dropped' = d2
        /\ backlog' = k2 /\ OnTheirWay' = w2
  <2>1. /\ captured' \in Int /\ played' \in Int /\ trimmed' \in Int /\ dropped' \in Int
        /\ backlog' \in Int /\ OnTheirWay' \in Int
    BY AssumptionsHold DEF Assumptions, IInv, CountersKept, RingKept, OnTheirWay
  <2>q. QED
    BY <2>1, Zenon
<1> DEFINE v == captured - (played + trimmed + dropped + backlog + OnTheirWay)
           x == c2 - (captured + a)
           y == p2 - (played + b)
           z == t2 - (trimmed + c)
           u == d2 - (dropped + d)
<1>3. x \in Multiples /\ y \in Multiples /\ z \in Multiples /\ u \in Multiples /\ v \in Multiples
  BY <1>2 DEF Balanced
<1>4. k2 + w2 + b + c + d = backlog + OnTheirWay + a
  BY <1>2
<1>5. (((v + x) - y) - z) - u = c2 - (p2 + t2 + d2 + k2 + w2)
  BY <1>1, <1>4
<1> HIDE DEF v, x, y, z, u
<1>6. (((v + x) - y) - z) - u \in Multiples
  <2>1. v + x \in Multiples
    BY <1>3, MultiplesClosed
  <2>2. (v + x) - y \in Multiples
    BY <1>3, <2>1, MultiplesClosed
  <2>3. ((v + x) - y) - z \in Multiples
    BY <1>3, <2>2, MultiplesClosed
  <2>q. QED
    BY <1>3, <2>3, MultiplesClosed
<1>q. QED
  BY <1>2, <1>5, <1>6 DEF Balanced

\* A counter that stays counts nothing.
LEMMA Uncounted == \A c \in Int : c - (c + 0) \in Multiples
BY MultiplesClosed

\* Every step keeps the balance.
LEMMA NextBalanced == IInv /\ Balanced /\ [Next]_vars => Balanced'
<1> SUFFICES ASSUME IInv, Balanced, [Next]_vars PROVE Balanced'
  OBVIOUS
<1>i. IInv'
  BY NextCounters, NextRing, NextCallback, NextVolumes DEF IInv
<1>t. /\ captured \in Nat /\ played \in Nat /\ trimmed \in Nat /\ dropped \in Nat
      /\ backlog \in Nat /\ offered \in Nat /\ room \in Nat /\ chunk \in Nat
      /\ excess \in Nat /\ toRead \in Nat /\ OnTheirWay \in Nat
  BY AssumptionsHold DEF Assumptions, IInv, CountersKept, RingKept, OnTheirWay
<1>z. /\ captured - (captured + 0) \in Multiples /\ played - (played + 0) \in Multiples
      /\ trimmed - (trimmed + 0) \in Multiples /\ dropped - (dropped + 0) \in Multiples
  BY <1>t, Uncounted
<1>k. ASSUME UNCHANGED <<captured, played, trimmed, dropped>>,
             backlog' + OnTheirWay' = backlog + OnTheirWay
      PROVE  Balanced'
  <2>1. backlog' + OnTheirWay' + 0 + 0 + 0 = backlog + OnTheirWay + 0
    BY <1>k, <1>t
  <2>2. 0 \in Nat
    OBVIOUS
  <2>q. QED
    BY <1>i, <1>z, <1>k, <2>1, <2>2, BalanceStep
<1>1. ASSUME NEW n \in BlockSizes, CaptureBlock(n) PROVE Balanced'
  <2>0. n \in Nat
    BY AssumptionsHold DEF Assumptions
  <2>1. CASE chunk = 0
    <3>1. /\ captured' = Counted(captured, n) /\ UNCHANGED <<played, trimmed, dropped, backlog>>
          /\ OnTheirWay' = n /\ OnTheirWay = 0
      BY <1>1, <2>1 DEF CaptureBlock, OnTheirWay
    <3>2. captured' - (captured + n) \in Multiples
      BY <3>1, <2>0, <1>t, CountedBy
    <3>3. backlog' + OnTheirWay' + 0 + 0 + 0 = backlog + OnTheirWay + n
      BY <3>1, <1>t, <2>0
    <3>q. QED
      BY <1>i, <1>z, <2>0, <3>1, <3>2, <3>3, BalanceStep
  <2>2. CASE chunk # 0
    BY <1>1, <1>k, <2>2 DEF CaptureBlock, OnTheirWay
  <2>q. QED
    BY <2>1, <2>2
<1>2. CASE NextChunk
  <2>1. ASSUME NEW y \in ChunkYields, capture' = "look", offered' = y,
               captured' = Counted(captured, y), UNCHANGED dropped
        PROVE  Balanced'
    <3>0. y \in Nat
      BY AssumptionsHold DEF Assumptions
    <3>1. UNCHANGED <<played, trimmed, backlog>> /\ OnTheirWay' = y /\ OnTheirWay = 0
      BY <1>2, <2>1 DEF NextChunk, OnTheirWay
    <3>2. captured' - (captured + y) \in Multiples
      BY <2>1, <3>0, <1>t, CountedBy
    <3>3. backlog' + OnTheirWay' + 0 + 0 + 0 = backlog + OnTheirWay + y
      BY <3>1, <1>t, <3>0
    <3>q. QED
      BY <1>i, <1>z, <2>1, <3>0, <3>1, <3>2, <3>3, BalanceStep
  <2>2. ASSUME dropped' = Counted(dropped, chunk), captured' = Counted(captured, chunk),
               UNCHANGED <<capture, offered>>
        PROVE  Balanced'
    <3>1. UNCHANGED <<played, trimmed, backlog>> /\ OnTheirWay' = 0 /\ OnTheirWay = 0
      BY <1>2, <2>2 DEF NextChunk, OnTheirWay
    <3>2. captured' - (captured + chunk) \in Multiples /\ dropped' - (dropped + chunk) \in Multiples
      BY <2>2, <1>t, CountedBy
    <3>3. backlog' + OnTheirWay' + 0 + 0 + chunk = backlog + OnTheirWay + chunk
      BY <3>1, <1>t
    <3>q. QED
      BY <1>i, <1>z, <1>t, <3>1, <3>2, <3>3, BalanceStep
  <2>q. QED
    BY <1>2, <2>1, <2>2 DEF NextChunk
<1>3. CASE NoChunk
  BY <1>3, <1>k DEF NoChunk, OnTheirWay
<1>4. CASE MeasureRoom
  BY <1>4, <1>k DEF MeasureRoom, OnTheirWay
<1>5. CASE PushFrames
  <2>1. Pushed \in Nat /\ offered - Pushed \in Nat
    BY <1>t DEF Pushed, Least
  <2>2. /\ backlog' = backlog + Pushed /\ dropped' = Counted(dropped, offered - Pushed)
        /\ UNCHANGED <<captured, played, trimmed>>
        /\ OnTheirWay' = 0 /\ OnTheirWay = offered
    BY <1>5 DEF PushFrames, OnTheirWay
  <2>3. dropped' - (dropped + (offered - Pushed)) \in Multiples
    BY <2>1, <2>2, <1>t, CountedBy
  <2>4. backlog' + OnTheirWay' + 0 + 0 + (offered - Pushed) = backlog + OnTheirWay + 0
    BY <2>1, <2>2, <1>t
  <2>q. QED
    BY <1>i, <1>z, <2>1, <2>2, <2>3, <2>4, BalanceStep
<1>6. ASSUME NEW f \in CallbackSizes, StartMix(f) PROVE Balanced'
  BY <1>6, <1>k DEF StartMix, OnTheirWay, captureVars
<1>7. CASE TrimBacklog
  <2>1. Skipped \in Nat /\ Skipped <= backlog
    BY <1>t DEF Skipped, Least
  <2>2. /\ backlog' = backlog - Skipped /\ trimmed' = Counted(trimmed, Skipped)
        /\ UNCHANGED <<captured, played, dropped>> /\ OnTheirWay' = OnTheirWay
    BY <1>7 DEF TrimBacklog, OnTheirWay, captureVars
  <2>3. trimmed' - (trimmed + Skipped) \in Multiples
    BY <2>1, <2>2, <1>t, CountedBy
  <2>4. backlog' + OnTheirWay' + 0 + Skipped + 0 = backlog + OnTheirWay + 0
    BY <2>1, <2>2, <1>t
  <2>q. QED
    BY <1>i, <1>z, <2>1, <2>2, <2>3, <2>4, BalanceStep
<1>8. CASE MeasureBacklog
  BY <1>8, <1>k DEF MeasureBacklog, OnTheirWay, captureVars
<1>9. CASE ReadFrames
  <2>1. Least(toRead, backlog) \in Nat /\ Least(toRead, backlog) <= backlog
    BY <1>t DEF Least
  <2>2. /\ backlog' = backlog - Least(toRead, backlog)
        /\ played' = Counted(played, Least(toRead, backlog))
        /\ UNCHANGED <<captured, trimmed, dropped>> /\ OnTheirWay' = OnTheirWay
    BY <1>9 DEF ReadFrames, OnTheirWay, captureVars
  <2>3. played' - (played + Least(toRead, backlog)) \in Multiples
    BY <2>1, <2>2, <1>t, CountedBy
  <2>4. backlog' + OnTheirWay' + Least(toRead, backlog) + 0 + 0 = backlog + OnTheirWay + 0
    BY <2>1, <2>2, <1>t
  <2>q. QED
    BY <1>i, <1>z, <2>1, <2>2, <2>3, <2>4, BalanceStep
<1>10. ASSUME NEW v \in Asked, SetTargetVolume(v) PROVE Balanced'
  BY <1>10, <1>k DEF SetTargetVolume, OnTheirWay, captureVars
<1>11. ASSUME NEW m \in BOOLEAN, SetMuted(m) PROVE Balanced'
  BY <1>11, <1>k DEF SetMuted, OnTheirWay, captureVars
<1>12. CASE UNCHANGED vars
  BY <1>12, <1>k DEF vars, OnTheirWay, captureVars
<1>q. QED
  BY <1>1, <1>2, <1>3, <1>4, <1>5, <1>6, <1>7, <1>8, <1>9, <1>10, <1>11, <1>12
  DEF Next, Capturing, Mixing, Commanded

\* For any ring, block, chunk and callback sizes and any interleaving of the
\* two callbacks, every frame that was ready is read, trimmed, counted as
\* dropped or still on its way.
THEOREM EveryFrameAccounted == Spec => []FramesAccounted
<1>1. Init => Balanced
  BY AssumptionsHold, MultiplesClosed DEF Assumptions, Init, Balanced, OnTheirWay
<1>2. IInv /\ Balanced /\ [Next]_vars => Balanced'
  BY NextBalanced
<1>3. IInv /\ Balanced => FramesAccounted
  BY BalanceIsAccount
<1>q. QED
  BY <1>1, <1>2, <1>3, Invariance, PTL DEF Spec

\* For any sizes no frame is lost unseen or counted twice between the two
\* callbacks, and unmute restores what could be heard.
THEOREM LiveInputIsSound == Spec => []LiveInputSound
<1>1. TypeOK /\ FramesAccounted /\ UnmuteRestores => LiveInputSound
  BY DEF LiveInputSound
<1>q. QED
  BY <1>1, TypeCorrect, EveryFrameAccounted, UnmuteKnowsLevel, PTL
=============================================================================
