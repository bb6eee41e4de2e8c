------------------------- MODULE StreamReaderProofs -------------------------
(* The reader of a download loses no wake-up, keeps its place within the     *)
(* bytes received, and implements the stream of ByteStream.                  *)
EXTENDS StreamReader, TLAPS

Assumptions == MaxBody \in Nat /\ MaxRead \in Nat /\ Offsets \subseteq Int /\ NoLength \notin Int

LEMMA AssumptionsHold == Assumptions
BY BodyAssumption, ReadAssumption, OffsetAssumption, NoLengthAssumption DEF Assumptions

\* Where the bytes are: appended, or in the hand of the task.  The end is
\* marked once, and a clean end has all of the body.
BytesPlaced ==
  /\ data + (IF task = "append" THEN held ELSE 0) = sent
  /\ ending = "open" <=> task \notin {"settled", "over"}
  /\ task = "finish" => sent = body
  /\ ending = "whole" => data = body

\* What the decoder thread knows about the call it is in.
CallKnows ==
  /\ call = "none" <=> task \in {"asking", "refused"}
  /\ call \in {"check", "asleep"} =>
       IF kind = "read" THEN want = 1 ELSE want = target - position
  /\ call \in {"check", "asleep", "take"} /\ kind = "read" => target > 0
  /\ call = "take" =>
       /\ kind = "read"
       /\ position < data \/ ending = "whole"
  /\ call \in {"measure", "land"} => kind = "seek"

\* A reader that is gone has left a settled download or set the flag; the one
\* chunk that may still be appended has passed the check before.
GoneKnows ==
  /\ cancelled => call = "gone"
  /\ call = "gone" => ending # "open" \/ cancelled
  /\ late = 0 \/ (late = 1 /\ call = "gone" /\ task # "append")

IInv == TypeOK /\ BytesPlaced /\ CallKnows /\ GoneKnows /\ PositionInBuffer /\ NoLostWakeup

\* The initial state satisfies the invariant.
LEMMA InitInv == Init => IInv
<1> SUFFICES ASSUME Init PROVE IInv
  OBVIOUS
<1> USE AssumptionsHold DEF Assumptions, Init
<1>1. TypeOK
  <2>1. cancelled \in BOOLEAN
    BY Zenon
  <2>q. QED
    BY <2>1 DEF TypeOK
<1>2. BytesPlaced
  BY DEF BytesPlaced
<1>3. CallKnows
  BY DEF CallKnows
<1>4. GoneKnows
  BY DEF GoneKnows
<1>5. PositionInBuffer /\ NoLostWakeup
  BY DEF PositionInBuffer, NoLostWakeup
<1>q. QED
  BY <1>1, <1>2, <1>3, <1>4, <1>5 DEF IInv

\* Every step keeps the invariant.
LEMMA NextInv == IInv /\ [Next]_vars => IInv'
<1> SUFFICES ASSUME IInv, [Next]_vars PROVE IInv'
  OBVIOUS
<1> USE AssumptionsHold DEF Assumptions, serverVars, bufferVars, taskVars, argVars, IInv, TypeOK, BytesPlaced, CallKnows, GoneKnows, PositionInBuffer, NoLostWakeup, Enough, Available
<1>1. CASE Headers
  BY <1>1 DEF Headers
<1>2. CASE Fail
  BY <1>2 DEF Fail
<1>3. CASE Append
  BY <1>3 DEF Append
<1>4. CASE BodyEnds
  BY <1>4 DEF BodyEnds
<1>5. CASE Complete
  BY <1>5 DEF Complete
<1>6. CASE Notify
  BY <1>6 DEF Notify, Woken
<1>7. CASE Passed
  BY <1>7 DEF Passed
<1>8. CASE Failed
  BY <1>8 DEF Failed, Answer
<1>9. CASE Sleep
  BY <1>9 DEF Sleep
<1>10. CASE TakeNothing
  BY <1>10 DEF TakeNothing, Answer
<1>11. CASE TakeBytes
  BY <1>11 DEF TakeBytes, Answer
<1>12. CASE Measure
  BY <1>12 DEF Measure, Land, Answer
<1>13. CASE Arrive
  BY <1>13 DEF Arrive, Land, Answer
<1>14. CASE Drop
  BY <1>14 DEF Drop
<1>15. CASE Cancel
  BY <1>15 DEF Cancel
<1>16. CASE SpuriousWake
  BY <1>16 DEF SpuriousWake
<1>17. ASSUME NEW k \in 1 .. MaxBody, ChunkArrives(k) PROVE IInv'
  BY <1>17 DEF ChunkArrives
<1>18. ASSUME NEW k \in 1 .. MaxRead, Read(k) PROVE IInv'
  BY <1>18 DEF Read
<1>19. ASSUME NEW w \in {"start", "end", "current"}, NEW o \in Offsets, Seek(w, o) PROVE IInv'
  BY <1>19 DEF Seek, Base, Answer
<1>20. CASE UNCHANGED vars
  BY <1>20 DEF vars
<1>q. QED
  BY <1>1, <1>2, <1>3, <1>4, <1>5, <1>6, <1>7, <1>8, <1>9, <1>10, <1>11, <1>12, <1>13, <1>14, <1>15, <1>16, <1>17, <1>18, <1>19, <1>20 DEF Next, Download, InCall, NewCall

\* The invariant holds in every reachable state.
LEMMA Invariance == Spec => []IInv
<1>1. Init => IInv
  BY InitInv
<1>2. IInv /\ [Next]_vars => IInv'
  BY NextInv
<1>q. QED
  BY <1>1, <1>2, PTL DEF Spec

\* Every variable keeps to its values, the results of calls included.
THEOREM TypeCorrect == Spec => []TypeOK
<1>1. IInv => TypeOK
  BY DEF IInv
<1>q. QED
  BY <1>1, Invariance, PTL

\* wait_for_data sleeps only while a notification can still come: whatever
\* made its condition true has not notified yet.
THEOREM WakeupsKept == Spec => []NoLostWakeup
<1>1. IInv => NoLostWakeup
  BY DEF IInv
<1>q. QED
  BY <1>1, Invariance, PTL

\* No seek leaves the position behind the bytes received.
THEOREM PositionKept == Spec => []PositionInBuffer
<1>1. IInv => PositionInBuffer
  BY DEF IInv
<1>q. QED
  BY <1>1, Invariance, PTL

\* A dropped reader stops its download with at most one chunk to come.
THEOREM DropStops == Spec => []DroppedStopsDownload
<1>1. IInv => DroppedStopsDownload
  BY DEF IInv, GoneKnows, DroppedStopsDownload
<1>q. QED
  BY <1>1, Invariance, PTL

-----------------------------------------------------------------------------
\* Every step of the reader and its download is a step of the stream, or
\* changes nothing a decoder can see.
LEMMA StepRefines == IInv /\ [Next]_vars => [Stream!BSNext]_(Stream!streamVars)
<1> SUFFICES ASSUME IInv, [Next]_vars PROVE [Stream!BSNext]_(Stream!streamVars)
  OBVIOUS
<1> USE AssumptionsHold DEF Assumptions, serverVars, bufferVars, taskVars, argVars,
  IInv, TypeOK, BytesPlaced, CallKnows, PositionInBuffer, Enough, Available,
  Stream!streamVars
<1>1. CASE Headers
  BY <1>1 DEF Headers
<1>2. CASE BodyEnds
  BY <1>2 DEF BodyEnds
<1>3. CASE Notify
  BY <1>3 DEF Notify, Woken
<1>4. CASE Passed
  BY <1>4 DEF Passed
<1>5. CASE Sleep
  BY <1>5 DEF Sleep
<1>6. CASE Drop
  BY <1>6 DEF Drop
<1>7. CASE Cancel
  BY <1>7 DEF Cancel
<1>8. CASE SpuriousWake
  BY <1>8 DEF SpuriousWake
<1>9. ASSUME NEW k \in 1 .. MaxBody, ChunkArrives(k) PROVE [Stream!BSNext]_(Stream!streamVars)
  BY <1>9 DEF ChunkArrives
<1>10. ASSUME NEW k \in 1 .. MaxRead, Read(k) PROVE [Stream!BSNext]_(Stream!streamVars)
  BY <1>10 DEF Read
<1>11. CASE Append
  BY <1>11 DEF Append, Stream!BSNext, Stream!Grow
<1>12. CASE Fail
  BY <1>12 DEF Fail, Stream!BSNext, Stream!End
<1>13. CASE Complete
  BY <1>13 DEF Complete, Stream!BSNext, Stream!End
<1>14. CASE Failed
  BY <1>14 DEF Failed, Answer, Stream!BSNext, Stream!Broken
<1>15. CASE TakeNothing
  BY <1>15 DEF TakeNothing, Answer, Stream!BSNext, Stream!EndOfStream
<1>16. CASE TakeBytes
  BY <1>16 DEF TakeBytes, Answer, Stream!BSNext, Stream!Bytes
<1>17. CASE Measure
  BY <1>17 DEF Measure, Land, Answer, Stream!BSNext, Stream!Moved
<1>18. CASE Arrive
  BY <1>18 DEF Arrive, Land, Answer, Stream!BSNext, Stream!Moved, Stream!Refused
<1>19. ASSUME NEW w \in {"start", "end", "current"}, NEW o \in Offsets, Seek(w, o)
      PROVE [Stream!BSNext]_(Stream!streamVars)
  BY <1>19 DEF Seek, Base, Answer, Stream!BSNext, Stream!Refused
<1>20. CASE UNCHANGED vars
  BY <1>20 DEF vars
<1>q. QED
  BY <1>1, <1>2, <1>3, <1>4, <1>5, <1>6, <1>7, <1>8, <1>9, <1>10, <1>11, <1>12, <1>13, <1>14, <1>15, <1>16, <1>17, <1>18, <1>19, <1>20
  DEF Next, Download, InCall, NewCall

\* The reader implements the stream: bytes in order and without a gap, an end
\* only behind a whole body, errors only towards bytes that never come.
THEOREM ReaderIsStream == Spec => RefinesByteStream
<1>1. Init => Stream!BSInit
  BY AssumptionsHold DEF Assumptions, Init, Stream!BSInit
<1>2. IInv /\ [Next]_vars => [Stream!BSNext]_(Stream!streamVars)
  BY StepRefines
<1>q. QED
  BY <1>1, <1>2, Invariance, PTL DEF Spec, RefinesByteStream, Stream!BSSpec

\* Reader and download keep together over their mutex, for any body, chunks,
\* slices and seeks.
THEOREM ReaderIsSound == Spec => []ReaderSound
<1>1. TypeOK /\ NoLostWakeup /\ PositionInBuffer /\ DroppedStopsDownload => ReaderSound
  BY DEF ReaderSound
<1>2. QED BY <1>1, TypeCorrect, WakeupsKept, PositionKept, DropStops, PTL
=============================================================================
