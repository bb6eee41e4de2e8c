---------------------------- MODULE StreamReader ----------------------------
(* HttpStreamReader: the bytes of a body, appended by a download task and    *)
(* read and sought by a decoder thread, over one mutex and one condition     *)
(* variable.  Every lock scope is one action; a notification, which the code *)
(* sends after it has released the mutex, is an action of its own.  A byte   *)
(* is its place in the body.  The file the task writes on the side is the    *)
(* subject of CacheLoads; the progress counter is read by nobody.            *)
EXTENDS Integers

CONSTANTS
  MaxBody,   \* bound: bytes of the largest body
  MaxRead,   \* bound: bytes of the largest slice a decoder reads into
  Offsets,   \* the offsets of the seeks a decoder asks for
  NoLength   \* the response had no Content-Length header

ASSUME BodyAssumption == MaxBody \in Nat
ASSUME ReadAssumption == MaxRead \in Nat
ASSUME OffsetAssumption == Offsets \subseteq Int
ASSUME NoLengthAssumption == NoLength \notin Int

VARIABLES
  body,       \* bytes the server sends
  contentLength,
  sent,       \* bytes of it that reached the download task
  task,       \* where the download task is
  held,       \* bytes of the chunk it is about to append
  data,       \* SharedBuffer: bytes appended
  ending,     \* its complete and error: "open", "whole" (complete, no error)
              \* or "broken" (complete, with an error)
  cancelled,  \* the flag a dropped reader sets
  late,       \* history: chunks appended after the reader was gone
  call,       \* where the decoder thread is
  kind,       \* the call it is in
  want,       \* bytes wait_for_data waits for behind the position
  target,     \* the slice of a read, the place of a seek
  position,   \* next byte to read
  answer      \* what the last call returned

serverVars == <<body, contentLength>>
bufferVars == <<data, ending>>
taskVars == <<sent, task, held, late>>
argVars == <<kind, want, target>>
vars == <<serverVars, bufferVars, taskVars, cancelled, call, argVars, position, answer>>

-----------------------------------------------------------------------------
\* The download task: "asking" for the headers, "next" chunk awaited, "append"
\* it, "notify" of it, "finish" a whole body, "settled" and notifying of the
\* end, "over".  The decoder: "outside" of any call, "check" in wait_for_data,
\* "asleep" on the condition variable, "take" the bytes of a read, "measure"
\* and "land" of a seek, "drop" and "cancel", "gone".
TypeOK ==
  /\ body \in 0 .. MaxBody
  /\ contentLength \in {body, NoLength}
  /\ sent \in 0 .. body
  /\ task \in {"asking", "next", "append", "notify", "finish", "settled", "over", "refused"}
  /\ held \in 0 .. MaxBody
  /\ data \in 0 .. MaxBody
  /\ ending \in {"open", "whole", "broken"}
  /\ cancelled \in BOOLEAN
  /\ late \in Nat
  /\ call \in {"none", "outside", "check", "asleep", "take", "measure", "land", "drop", "cancel", "gone"}
  /\ kind \in {"read", "seek"}
  /\ want \in Nat
  /\ target \in Nat
  /\ position \in Nat
  /\ answer \in {"none", "bytes", "end", "broken", "at", "refused"} \X Nat

Init ==
  /\ body \in 0 .. MaxBody
  /\ contentLength \in {body, NoLength}
  /\ sent = 0
  /\ task = "asking"
  /\ held = 0
  /\ data = 0
  /\ ending = "open"
  /\ cancelled = FALSE
  /\ late = 0
  /\ call = "none"
  /\ kind = "read"
  /\ want = 0
  /\ target = 0
  /\ position = 0
  /\ answer = <<"none", 0>>

-----------------------------------------------------------------------------
(* The download task.                                                        *)

\* The headers: a success makes the reader and spawns the task, anything else
\* or no answer in time fails the load.
Headers ==
  /\ task = "asking"
  /\ \/ task' = "next" /\ call' = "outside"
     \/ task' = "refused" /\ UNCHANGED call
  /\ UNCHANGED <<serverVars, bufferVars, sent, held, late, cancelled, argVars, position, answer>>

\* A chunk arrives, and the flag is looked at before it is used.
ChunkArrives(n) ==
  /\ task = "next"
  /\ ~cancelled
  /\ sent + n <= body
  /\ sent' = sent + n
  /\ held' = n
  /\ task' = "append"
  /\ UNCHANGED <<serverVars, bufferVars, late, cancelled, call, argVars, position, answer>>

\* Mutated form of Fail: the failure is recorded and nobody is told.
FailSilently ==
  /\ task = "next"
  /\ ending' = "broken"
  /\ task' = "over"
  /\ UNCHANGED <<serverVars, data, sent, held, late, cancelled, call, argVars, position, answer>>

\* A chunk, or an error, arrives for a cancelled download; the stream fails;
\* or no byte comes for BODY_STALL_TIMEOUT_SECS: handles.fail.
Fail ==
  /\ task = "next"
  /\ ending' = "broken"
  /\ task' = "settled"
  /\ UNCHANGED <<serverVars, data, sent, held, late, cancelled, call, argVars, position, answer>>

\* Mutated form of Append: it does not notify.
AppendSilently ==
  /\ task = "append"
  /\ data' = data + held
  /\ late' = IF call = "gone" THEN late + 1 ELSE late
  /\ task' = "next"
  /\ UNCHANGED <<serverVars, ending, sent, held, cancelled, call, argVars, position, answer>>

Append ==
  /\ task = "append"
  /\ data' = data + held
  /\ late' = IF call = "gone" THEN late + 1 ELSE late
  /\ task' = "notify"
  /\ UNCHANGED <<serverVars, ending, sent, held, cancelled, call, argVars, position, answer>>

\* The stream ends: the cache file is put in place first.
BodyEnds ==
  /\ task = "next"
  /\ sent = body
  /\ task' = "finish"
  /\ UNCHANGED <<serverVars, bufferVars, sent, held, late, cancelled, call, argVars, position, answer>>

Complete ==
  /\ task = "finish"
  /\ ending' = "whole"
  /\ task' = "settled"
  /\ UNCHANGED <<serverVars, data, sent, held, late, cancelled, call, argVars, position, answer>>

\* notify_all, after the mutex was released.
Woken == IF call = "asleep" THEN "check" ELSE call
Notify ==
  /\ \/ task = "notify" /\ task' = "next"
     \/ task = "settled" /\ task' = "over"
  /\ call' = Woken
  /\ UNCHANGED <<serverVars, bufferVars, sent, held, late, cancelled, argVars, position, answer>>

-----------------------------------------------------------------------------
(* The decoder thread.                                                       *)

\* The end of a call.
Answer(a) ==
  /\ answer' = a
  /\ call' = "outside"
  /\ UNCHANGED <<serverVars, bufferVars, taskVars, cancelled, argVars>>

\* Bytes received behind the position.
Available == IF position < data THEN data - position ELSE 0

Read(n) ==
  /\ call = "outside"
  /\ call' = "check"
  /\ kind' = "read"
  /\ want' = 1
  /\ target' = n
  /\ UNCHANGED <<serverVars, bufferVars, taskVars, cancelled, position, answer>>

\* One look at the buffer in wait_for_data, under the mutex.
Enough == Available >= want

\* Mutated form of Passed: the error of a download that is over is not looked at.
PassedOnceComplete ==
  /\ call = "check"
  /\ Enough \/ ending # "open"
  /\ call' = IF kind = "read" THEN "take" ELSE "land"
  /\ UNCHANGED <<serverVars, bufferVars, taskVars, cancelled, argVars, position, answer>>

Passed ==
  /\ call = "check"
  /\ Enough \/ ending = "whole"
  /\ call' = IF kind = "read" THEN "take" ELSE "land"
  /\ UNCHANGED <<serverVars, bufferVars, taskVars, cancelled, argVars, position, answer>>
Failed ==
  /\ call = "check"
  /\ ~Enough /\ ending = "broken"
  /\ Answer(<<"broken", position + want - 1>>)
  /\ UNCHANGED position
Sleep ==
  /\ call = "check"
  /\ ~Enough /\ ending = "open"
  /\ call' = "asleep"
  /\ UNCHANGED <<serverVars, bufferVars, taskVars, cancelled, argVars, position, answer>>

\* A condition variable may wake its waiter for no reason.
SpuriousWake ==
  /\ call = "asleep"
  /\ call' = "check"
  /\ UNCHANGED <<serverVars, bufferVars, taskVars, cancelled, argVars, position, answer>>

\* The second lock of a read: no byte is the end, else as many as fit.
TakeNothing ==
  /\ call = "take"
  /\ Available = 0
  /\ Answer(<<"end", 0>>)
  /\ UNCHANGED position
TakeBytes ==
  /\ call = "take"
  /\ Available > 0
  /\ LET n == IF target < Available THEN target ELSE Available
     IN  Answer(<<"bytes", n>>) /\ position' = position + n

\* A seek from the start, the end or the position.
Base(whence) ==
  CASE whence = "start" -> 0 [] whence = "end" -> contentLength [] OTHER -> position

Seek(whence, offset) ==
  /\ call = "outside"
  /\ IF (whence = "end" /\ contentLength = NoLength) \/ Base(whence) + offset < 0
     THEN Answer(<<"refused", 0>>) /\ UNCHANGED position
     ELSE /\ call' = "measure"
          /\ kind' = "seek"
          /\ target' = Base(whence) + offset
          /\ UNCHANGED <<serverVars, bufferVars, taskVars, cancelled, want, position, answer>>

Land ==
  /\ position' = target
  /\ Answer(<<"at", target>>)
Measure ==
  /\ call = "measure"
  /\ IF target > data
     THEN /\ want' = IF target > position THEN target - position ELSE 0
          /\ call' = "check"
          /\ UNCHANGED <<serverVars, bufferVars, taskVars, cancelled, kind, target, position, answer>>
     ELSE Land

\* The place sought is looked at again: the wait may have ended with the stream.
Arrive ==
  /\ call = "land"
  /\ IF target > data
     THEN Answer(<<"refused", 0>>) /\ UNCHANGED position
     ELSE Land

\* Mutated form of Drop: an unfinished download is left running.
DropQuietly ==
  /\ call = "outside"
  /\ call' = "gone"
  /\ UNCHANGED <<serverVars, bufferVars, taskVars, cancelled, argVars, position, answer>>

\* The decoder drops the reader: a download that has not settled is cancelled.
Drop ==
  /\ call = "outside"
  /\ call' = IF ending # "open" THEN "gone" ELSE "cancel"
  /\ UNCHANGED <<serverVars, bufferVars, taskVars, cancelled, argVars, position, answer>>
Cancel ==
  /\ call = "cancel"
  /\ cancelled' = TRUE
  /\ call' = "gone"
  /\ UNCHANGED <<serverVars, bufferVars, taskVars, argVars, position, answer>>

-----------------------------------------------------------------------------
Download ==
  \/ Headers \/ (\E n \in 1 .. MaxBody : ChunkArrives(n)) \/ Fail
  \/ Append \/ BodyEnds \/ Complete \/ Notify
InCall == Passed \/ Failed \/ Sleep \/ TakeNothing \/ TakeBytes \/ Measure \/ Arrive \/ Cancel
NewCall ==
  \/ \E n \in 1 .. MaxRead : Read(n)
  \/ \E w \in {"start", "end", "current"}, o \in Offsets : Seek(w, o)
  \/ Drop
Next == Download \/ InCall \/ NewCall \/ SpuriousWake

Spec == Init /\ [][Next]_vars

\* The task goes on until the body is over or its timeout fails it, and the
\* decoder thread goes on whenever it is awake.  Nothing makes the decoder
\* call again.
FairSpec == Spec /\ WF_vars(Download) /\ WF_vars(InCall)

-----------------------------------------------------------------------------
\* A thread never sleeps on data that is there or on a download that has
\* settled, unless the notification that will wake it is still to be sent:
\* the mutex is released before notify_all, and no wake-up is lost.
NoLostWakeup ==
  call = "asleep" /\ (Enough \/ ending # "open") => task \in {"notify", "settled"}

\* A seek never leaves the position behind the last byte received, where a
\* read would take the missing bytes for the end of the stream.
PositionInBuffer == position <= data

\* A reader that was dropped does not keep its download running: at most the
\* one chunk that had passed the check of the flag is still appended.
DroppedStopsDownload == late <= 1

\* What the decoder sees is the contract of a stream: bytes in order and
\* without a gap, an end only behind a whole body, an error only when every
\* received byte can be had.
Stream == INSTANCE ByteStream WITH got <- data, pos <- position
RefinesByteStream == Stream!BSSpec

\* Every call of the decoder returns, however the download goes.
CallsReturn == (call \notin {"none", "outside", "gone"}) ~> (call \in {"outside", "gone"})

\* Reader and download keep together over their mutex: nobody sleeps through
\* what it waits for, reads behind what came or works for a reader that is gone.
ReaderSound == TypeOK /\ NoLostWakeup /\ PositionInBuffer /\ DroppedStopsDownload
=============================================================================
