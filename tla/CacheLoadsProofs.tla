-------------------------- MODULE CacheLoadsProofs --------------------------
(***************************************************************************)
(* Theorems about CacheLoads, for any number of loads, inodes, chunks and  *)
(* versions, and whatever fails: every reachable state is well typed, the  *)
(* cached file is whole until two downloads of the URL overlap, CacheLoads *)
(* implements PublishedFile, and entry, file and memory keep in step.      *)
(***************************************************************************)
EXTENDS CacheLoads, TLAPS

Bodies == [1..Chunks -> 0..MaxVersion]
Kinds == {"none", "play", "boot", "tick", "clear"}
Pcs == {"idle", "save", "torn", "due", "ask", "refresh", "fetch", "serve",
        "request", "wipe"}

-----------------------------------------------------------------------------
(* Type correctness.                                                       *)

\* The places of an operation are well typed.
LEMMA StepType ==
  ASSUME NEW kind \in Kinds, NEW pc \in Pcs
  PROVE  Step(kind, pc) \in OpStates
<1> DEFINE k == IF pc = "idle" THEN "none" ELSE kind
<1>1. k \in Kinds
  BY DEF Kinds
<1>2. Step(kind, pc)
        = [pc |-> pc, for |-> k, ver |-> 0, sent |-> 0,
           file |-> NoFile, todo |-> {}, then |-> "idle"]
  BY DEF Step
<1>3. QED
  <2> HIDE DEF k
  <2> QED BY <1>1, <1>2, ChunksAssumption, VersionsAssumption, SMT
          DEF OpStates, Kinds, Pcs

\* The places of an operation, and a freed load, are of their types.
LEMMA IdleType == Idle \in OpStates
  BY StepType DEF Idle, Kinds, Pcs

\* An operation that saves is of its type.
LEMMA SavingType ==
  ASSUME NEW kind \in Kinds, NEW then \in {"idle", "due", "serve"}
  PROVE  Saving(kind, then) \in OpStates
<1>1. Step(kind, "save") \in OpStates
  BY StepType DEF Pcs
<1>2. QED
  <2> HIDE DEF Step
  <2> QED BY <1>1, SMT DEF Saving, OpStates

\* Freeing unused inodes leaves bodies.
LEMMA ReclaimedType ==
  ASSUME NEW c \in [Inodes -> Bodies], Reclaimed(c)
  PROVE  content' \in [Inodes -> Bodies]
<1>1. Empty \in Bodies
  BY VersionsAssumption, SMT DEF Empty, Bodies
<1>2. QED BY <1>1, SMT DEF Reclaimed

\* A file keeps its type when a chunk is written.
LEMMA WrittenType ==
  ASSUME TypeOK, NEW f \in Inodes \cup {NoFile}, NEW n \in 1..Chunks,
         NEW v \in 0..MaxVersion
  PROVE  Written(f, n, v) \in [Inodes -> Bodies]
  BY SMT DEF TypeOK, Written, Bodies, NoFile

\* A file that is created is an inode.
LEMMA CreatedType ==
  ASSUME TypeOK, CanCreate
  PROVE  /\ Created \in Inodes
         /\ Truncated \in [Inodes -> Bodies]
<1>1. Created \in Inodes
  <2>1. CASE temp # NoFile
    BY <2>1, SMT DEF Created, TypeOK
  <2>2. CASE temp = NoFile
    <3>1. \E i \in Inodes : i \notin Live(temp, final, loads, op)
      BY <2>2 DEF CanCreate
    <3>2. FreeInode \in Inodes
      BY <3>1, Zenon DEF FreeInode
    <3>3. QED BY <2>2, <3>2 DEF Created
  <2>3. QED BY <2>1, <2>2
<1>2. Empty \in Bodies
  BY VersionsAssumption, SMT DEF Empty, Bodies
<1>3. content \in [Inodes -> Bodies]
  BY DEF TypeOK, Bodies
<1>4. QED BY <1>1, <1>2, <1>3, SMT DEF Truncated

\* Loads keep their type when slots are freed.
LEMMA RetiredType ==
  ASSUME NEW ls \in [Loads -> LoadStates], NEW a
  PROVE  Retired(ls, a) \in [Loads -> LoadStates]
<1>1. NoLoad \in LoadStates
  BY ChunksAssumption, VersionsAssumption, SMT DEF NoLoad, LoadStates
<1>2. QED
  <2> HIDE DEF LoadStates
  <2> QED BY <1>1, SMT DEF Retired

\* A load that starts is of its type.
LEMMA NewLoadType ==
  ASSUME NEW v \in Versions
  PROVE  NewLoad(v) \in LoadStates
  BY ChunksAssumption, VersionsAssumption, SMT DEF NewLoad, LoadStates, Versions

\* At first everything is of its type.
LEMMA InitType == Init => TypeOK
<1> SUFFICES ASSUME Init PROVE TypeOK
  OBVIOUS
<1>1. NoLoad \in LoadStates
  BY ChunksAssumption, VersionsAssumption, SMT DEF NoLoad, LoadStates
<1>2. Empty \in [1..Chunks -> 0..MaxVersion]
  BY VersionsAssumption, SMT DEF Empty
<1>3. op \in OpStates
  BY IdleType DEF Init
<1>4. content \in [Inodes -> [1..Chunks -> 0..MaxVersion]]
  BY <1>2, Zenon DEF Init
<1>5. loads \in [Loads -> LoadStates]
  BY <1>1, Zenon DEF Init
<1>6. server \in Versions
  BY VersionsAssumption, SMT DEF Init, Versions
<1>7. QED
  BY <1>3, <1>4, <1>5, <1>6, Zenon DEF Init, TypeOK

\* Fold moves the buffer and the validators of a load into the caches.
LEMMA FoldType ==
  ASSUME TypeOK, NEW kind \in {"play", "boot", "tick"}, Fold(kind)
  PROVE  /\ mem' \in {Absent, Damaged} \cup Versions
         /\ entry' \in {Absent} \cup Versions
         /\ active' \in Loads \cup {NoSlot}
         /\ loads' \in [Loads -> LoadStates]
         /\ op' \in OpStates
<1>1. active' \in Loads \cup {NoSlot}
  BY DEF TypeOK, Fold
<1>2. loads' \in [Loads -> LoadStates]
  BY RetiredType DEF TypeOK, Fold
<1>3. op' \in OpStates
  <2>1. AfterFold(kind) \in {"idle", "due", "serve"} /\ AfterFold(kind) \in Pcs
    BY DEF AfterFold, Pcs
  <2>2. kind \in Kinds
    BY DEF Kinds
  <2>3. QED
    BY <2>1, <2>2, StepType, SavingType DEF Fold
<1>4. Completed => loads[active].ver \in {Absent} \cup Versions
  BY VersionsAssumption, SMT
     DEF TypeOK, Completed, LoadStates, Versions, Absent, NoSlot
<1>5. QED
  BY <1>1, <1>2, <1>3, <1>4 DEF TypeOK, Fold, Registers, Validators

\* What a download or a decoder does to its load leaves a load.
LEMMA LoadSet ==
  ASSUME TypeOK, NEW l \in Loads, NEW r \in LoadStates
  PROVE  [loads EXCEPT ![l] = r] \in [Loads -> LoadStates]
  BY Zenon DEF TypeOK

\* A load whose decoder stops keeps its type.
LEMMA StoppedType ==
  ASSUME TypeOK, NEW l \in Loads, NEW buf \in {"complete", "error"}
  PROVE  Stopped(l, buf) \in [Loads -> LoadStates]
<1>1. loads[l] \in LoadStates /\ Unsettled(l) \in BOOLEAN
  BY DEF TypeOK, Unsettled
<1>2. [loads[l] EXCEPT !.dec = "stopped", !.buf = buf, !.cancelled = Unsettled(l)]
        \in LoadStates
  <2> HIDE DEF Unsettled
  <2> QED BY <1>1, Zenon DEF LoadStates
<1>3. QED BY <1>2, LoadSet DEF Stopped

\* A load whose download fails keeps its type.
LEMMA FailedType ==
  ASSUME TypeOK, NEW l \in Loads
  PROVE  Failed(l) \in [Loads -> LoadStates]
<1>1. loads[l] \in LoadStates
  BY DEF TypeOK
<1>2. [loads[l] EXCEPT !.dl = "failed", !.file = NoFile] \in LoadStates
  BY <1>1, Zenon DEF LoadStates
<1>3. QED BY <1>2, LoadSet DEF Failed

\* A step of a download keeps the types.
LEMMA DownloadType ==
  ASSUME TypeOK, NEW l \in Loads, Download(l)
  PROVE  TypeOK'
<1>1. content \in [Inodes -> Bodies] /\ loads[l] \in LoadStates
  BY DEF TypeOK, Bodies
<1>2. CASE OpenTemp(l)
  <2>1. [loads[l] EXCEPT !.dl = "streaming"] \in LoadStates
    BY <1>1, SMT DEF LoadStates
  <2>2. CanCreate =>
          [loads[l] EXCEPT !.dl = "streaming", !.file = Created] \in LoadStates
    BY <1>1, CreatedType, Zenon DEF LoadStates
  <2>3. loads' \in [Loads -> LoadStates]
    BY <1>2, <2>1, <2>2, LoadSet, Zenon DEF OpenTemp
  <2>4. QED
    BY <1>2, <2>3, CreatedType, SMT DEF OpenTemp, TypeOK, Bodies
<1>3. CASE ReceiveChunk(l)
  <2> DEFINE n == loads[l].sent + 1
  <2>1. n \in 1..Chunks /\ loads[l].ver \in 0..MaxVersion
        /\ loads[l].file \in Inodes \cup {NoFile}
    BY <1>1, <1>3, ChunksAssumption, SMT DEF ReceiveChunk, LoadStates
  <2>2. [loads[l] EXCEPT !.sent = n] \in LoadStates
    BY <1>1, <2>1, ChunksAssumption, SMT DEF LoadStates
  <2>3. [loads[l] EXCEPT !.sent = n, !.file = NoFile] \in LoadStates
    <3>1. n \in 0..Chunks
      BY <2>1, ChunksAssumption, SMT
    <3>2. QED
      <4> HIDE DEF n
      <4> QED BY <1>1, <3>1, Zenon DEF LoadStates
  <2>4. loads' \in [Loads -> LoadStates]
    BY <1>3, <2>2, <2>3, LoadSet, Zenon DEF ReceiveChunk
  <2>5. content' \in [Inodes -> Bodies]
    <3>1. CASE content' = Written(loads[l].file, n, loads[l].ver)
      <4> HIDE DEF n
      <4> QED BY <2>1, <3>1, WrittenType
    <3>2. CASE Reclaimed(content)
      BY <1>1, <3>2, ReclaimedType
    <3>3. QED BY <1>3, <3>1, <3>2 DEF ReceiveChunk
  <2>6. QED
    BY <1>3, <2>4, <2>5, SMT DEF ReceiveChunk, TypeOK, Bodies
<1>4. CASE NoticeCancel(l) \/ DownloadFails(l)
  <2>1. loads' \in [Loads -> LoadStates]
    BY <1>4, FailedType, RetiredType DEF NoticeCancel, DownloadFails
  <2>2. content' \in [Inodes -> Bodies]
    BY <1>1, <1>4, ReclaimedType DEF NoticeCancel, DownloadFails
  <2>3. QED
    BY <1>4, <2>1, <2>2, Zenon
       DEF NoticeCancel, DownloadFails, TempAbandoned, TypeOK, Bodies
<1>5. CASE Finalize(l)
  <2>1. [loads[l] EXCEPT !.dl = "renamed", !.file = NoFile] \in LoadStates
    BY <1>1, Zenon DEF LoadStates
  <2>2. loads' \in [Loads -> LoadStates]
    BY <1>5, <2>1, LoadSet, Zenon DEF Finalize
  <2>3. content' \in [Inodes -> Bodies]
    BY <1>1, <1>5, ReclaimedType DEF Finalize
  <2>4. QED
    BY <1>5, <2>2, <2>3, SMT DEF Finalize, TypeOK, Bodies
<1>6. CASE MarkDownloaded(l)
  <2>1. [loads[l] EXCEPT !.dl = "complete"] \in LoadStates
    BY <1>1, SMT DEF LoadStates
  <2>2. loads' \in [Loads -> LoadStates]
    BY <1>6, <2>1, LoadSet, RetiredType DEF MarkDownloaded
  <2>3. QED
    BY <1>6, <2>2, Zenon DEF MarkDownloaded, TypeOK, fileVars
<1>7. QED
  BY <1>2, <1>3, <1>4, <1>5, <1>6 DEF Download

\* A step of a decoder keeps the types.
LEMMA DecoderType ==
  ASSUME TypeOK, NEW l \in Loads, Decoder(l)
  PROVE  TypeOK'
<1>1. loads' \in [Loads -> LoadStates]
  <2>1. [loads[l] EXCEPT !.dec = "erring", !.buf = "error"] \in LoadStates
    BY Zenon DEF TypeOK, LoadStates
  <2>2. CASE DecodeEnds(l)
    BY <2>2, StoppedType, RetiredType DEF DecodeEnds
  <2>3. CASE InitFails(l)
    BY <2>3, StoppedType, RetiredType DEF InitFails
  <2>4. CASE DecodeFails(l)
    BY <2>1, <2>4, LoadSet, Zenon DEF DecodeFails
  <2>5. CASE DropReader(l)
    BY <2>5, StoppedType, RetiredType DEF DropReader
  <2>6. QED
    BY <2>2, <2>3, <2>4, <2>5 DEF Decoder
<1>2. UNCHANGED <<server, mem, entry, saved, fileVars, active, op, booted>>
  BY DEF Decoder, DecodeEnds, InitFails, DecodeFails, DropReader
<1>3. upset' \subseteq {"fault", "command", "early", "overlap"}
  BY DEF Decoder, DecodeEnds, InitFails, DecodeFails, DropReader, TypeOK
<1>4. QED
  BY <1>1, <1>2, <1>3, SMT DEF TypeOK, fileVars

\* Opening, receiving and storing a body under the mutex.
LEMMA BodyType ==
  ASSUME TypeOK,
         Modified \/ StartFetch \/ ReceiveBody \/ BodyFails \/ StoreBody \/ StoreFails
  PROVE  TypeOK'
<1>1. /\ content \in [Inodes -> Bodies] /\ server \in 0..MaxVersion
      /\ op \in OpStates /\ op.for \in Kinds /\ op.ver \in 0..MaxVersion
  BY VersionsAssumption, SMT DEF TypeOK, Bodies, OpStates, Kinds, Versions
<1>2. GivenUp \in OpStates
  BY <1>1, StepType DEF GivenUp, Pcs
<1>3. ASSUME NEW pc \in Pcs, OpenBody(pc)
      PROVE  TypeOK'
  <2>1. Step(op.for, pc) \in OpStates /\ Created \in Inodes
    BY <1>1, <1>3, StepType, CreatedType DEF OpenBody
  <2>2. op' \in OpStates
    <3>1. [Step(op.for, pc) EXCEPT !.ver = server, !.file = Created] \in OpStates
      <4> HIDE DEF Step, Created
      <4> QED BY <1>1, <2>1, Zenon DEF OpStates
    <3>2. QED BY <1>3, <3>1 DEF OpenBody
  <2>3. content' \in [Inodes -> Bodies]
    BY <1>3, CreatedType, ReclaimedType DEF OpenBody
  <2>4. upset' \subseteq {"fault", "command", "early", "overlap"}
    BY <1>3 DEF OpenBody, TypeOK
  <2>5. QED
    BY <1>3, <2>1, <2>2, <2>3, <2>4, Zenon DEF OpenBody, TypeOK, Bodies
<1>4. CASE Modified
  BY <1>3, <1>4 DEF Modified, Pcs
<1>5. CASE StartFetch
  BY <1>3, <1>5 DEF StartFetch, Pcs
<1>6. CASE ReceiveBody
  <2>1. op.sent \in 0..Chunks /\ op.file \in Inodes \cup {NoFile}
        /\ op.sent + 1 \in 1..Chunks
    BY <1>1, <1>6, ChunksAssumption, SMT DEF ReceiveBody, OpStates
  <2>2. op' \in OpStates
    BY <1>1, <1>6, <2>1, ChunksAssumption, SMT DEF ReceiveBody, OpStates
  <2>3. content' \in [Inodes -> Bodies]
    BY <1>1, <1>6, <2>1, WrittenType DEF ReceiveBody
  <2>4. QED
    BY <1>6, <2>2, <2>3, Zenon DEF ReceiveBody, TypeOK, Bodies
<1>7. CASE BodyFails
  BY <1>1, <1>2, <1>7, ReclaimedType, Zenon DEF BodyFails, TypeOK, Bodies
<1>8. CASE StoreBody
  <2>1. Saving(op.for, "serve") \in OpStates
    BY <1>1, SavingType
  <2>2. op' \in OpStates
    <3>1. ASSUME NEW v \in 0..MaxVersion
          PROVE  [Saving(op.for, "serve") EXCEPT !.ver = v] \in OpStates
      <4> HIDE DEF Saving
      <4> QED BY <2>1, SMT DEF OpStates
    <3>2. (IF op.pc = "fetch" THEN op.ver ELSE 0) \in 0..MaxVersion
      BY <1>1, VersionsAssumption, SMT
    <3>3. QED BY <1>8, <3>1, <3>2, Zenon DEF StoreBody
  <2>3. op.ver \in {Absent} \cup Versions
    BY <1>1, VersionsAssumption, SMT DEF Absent, Versions
  <2>4. mem' \in {Absent, Damaged} \cup Versions
    BY <1>8 DEF StoreBody, StaleCopyDropped, TypeOK
  <2>5. QED
    BY <1>1, <1>8, <2>2, <2>3, <2>4, ReclaimedType, Zenon
       DEF StoreBody, TypeOK, Bodies
<1>9. CASE StoreFails
  BY <1>1, <1>2, <1>9, ReclaimedType, Zenon DEF StoreFails, TypeOK, Bodies
<1>10. QED
  BY <1>4, <1>5, <1>6, <1>7, <1>8, <1>9

\* The other steps of an operation that holds the mutex.
LEMMA OperationType ==
  ASSUME TypeOK, Operation
  PROVE  TypeOK'
<1>1. /\ op \in OpStates /\ op.for \in Kinds /\ op.then \in {"idle", "due", "serve"}
      /\ content \in [Inodes -> Bodies]
  BY SMT DEF TypeOK, OpStates, Kinds, Bodies
<1>2. \A pc \in Pcs : Step(op.for, pc) \in OpStates
  BY <1>1, StepType
<1>3. /\ Saving(op.for, "serve") \in OpStates /\ Saving("clear", "idle") \in OpStates
      /\ Idle \in OpStates
  BY <1>1, SavingType, IdleType DEF Kinds
<1>4. CASE BeginSave \/ EndSave \/ SaveFails
  <2>1. [op EXCEPT !.pc = "torn"] \in OpStates
    BY <1>1, SMT DEF OpStates
  <2>2. op.then \in Pcs /\ (IF op.ver # 0 THEN "idle" ELSE op.then) \in Pcs
    BY <1>1 DEF Pcs
  <2>3. op' \in OpStates
    BY <1>2, <1>4, <2>1, <2>2, Zenon DEF BeginSave, EndSave, SaveFails
  <2>4. QED
    BY <1>4, <2>3, Zenon DEF BeginSave, EndSave, SaveFails, TypeOK, fileVars
<1>5. CASE NotDue \/ AskServer \/ Unreachable \/ NotModified
  <2>1. op' \in OpStates
    BY <1>2, <1>3, <1>5 DEF NotDue, AskServer, Unreachable, NotModified, Pcs
  <2>2. QED
    BY <1>5, <2>1, Zenon
       DEF NotDue, AskServer, Unreachable, NotModified, TypeOK, fileVars
<1>6. CASE ServeMemory \/ Join \/ RequestFails
  BY <1>3, <1>6, Zenon
     DEF ServeMemory, Join, RequestFails, TypeOK, fileVars
<1>7. CASE ServeDisk
  <2>1. loads' \in [Loads -> LoadStates] /\ active' \in Loads \cup {NoSlot}
    BY <1>7, RetiredType DEF ServeDisk, TypeOK
  <2>2. op' \in OpStates
    BY <1>2, <1>3, <1>7 DEF ServeDisk, Pcs
  <2>3. mem' \in {Absent, Damaged} \cup Versions
    <3>1. CASE ~Cached
      BY <1>7, <3>1 DEF ServeDisk, TypeOK
    <3>2. CASE Cached
      <4>1. ASSUME NEW v \in Versions, content[final] = Whole(v)
            PROVE  content[final][1] = v
        BY <4>1, ChunksAssumption, SMT DEF Whole
      <4>2. DecodeCopy \subseteq {Absent, Damaged} \cup Versions
        <5>1. CASE \E v \in Versions : content[final] = Whole(v)
          BY <4>1, <5>1, Zenon DEF DecodeCopy
        <5>2. CASE ~ \E v \in Versions : content[final] = Whole(v)
          BY <5>2, Zenon DEF DecodeCopy
        <5>3. QED BY <5>1, <5>2
      <4>3. QED BY <1>7, <3>2, <4>2, Zenon DEF ServeDisk
    <3>3. QED BY <3>1, <3>2
  <2>4. QED
    BY <1>7, <2>1, <2>2, <2>3, Zenon DEF ServeDisk, TypeOK, fileVars
<1>8. CASE StartLoad
  <2>1. PICK l \in Loads : /\ loads' = [loads EXCEPT ![l] = NewLoad(server)]
                           /\ active' = l
    BY <1>8, Zenon DEF StartLoad
  <2>2. loads' \in [Loads -> LoadStates]
    BY <2>1, NewLoadType, LoadSet DEF TypeOK
  <2>3. upset' \subseteq {"fault", "command", "early", "overlap"}
    BY <1>8 DEF StartLoad, TypeOK
  <2>4. QED
    BY <1>3, <1>8, <2>1, <2>2, <2>3, Zenon DEF StartLoad, TypeOK, fileVars
<1>9. CASE (\E p \in {"temp", "final"} : WipeFile(p)) \/ WipeFails \/ WipeEntries
  <2>1. ASSUME NEW p \in {"temp", "final"}, WipeFile(p)
        PROVE  TypeOK'
    <3>1. op.todo \ {p} \in SUBSET {"temp", "final"}
      BY <1>1, SMT DEF OpStates
    <3>2. [op EXCEPT !.todo = @ \ {p}] \in OpStates
      BY <1>1, <3>1, SMT DEF OpStates
    <3>3. op' \in OpStates
      BY <1>3, <2>1, <3>2 DEF WipeFile
    <3>4. temp' \in Inodes \cup {NoFile} /\ final' \in Inodes \cup {NoFile}
      BY <2>1, Zenon DEF WipeFile, TypeOK
    <3>5. content' \in [Inodes -> Bodies]
      BY <1>1, <2>1, ReclaimedType DEF WipeFile
    <3>6. QED
      BY <2>1, <3>3, <3>4, <3>5, Zenon DEF WipeFile, TypeOK, Bodies
  <2>2. CASE WipeFails
    BY <1>3, <2>2, Zenon DEF WipeFails, TypeOK, fileVars
  <2>3. CASE WipeEntries
    BY <1>3, <2>3, Zenon DEF WipeEntries, TypeOK, fileVars
  <2>4. QED BY <1>9, <2>1, <2>2, <2>3
<1>10. QED
  BY <1>4, <1>5, <1>6, <1>7, <1>8, <1>9, BodyType DEF Operation

\* Every step keeps the types.
LEMMA StepPreservesType == TypeOK /\ [Next]_vars => TypeOK'
<1> SUFFICES ASSUME TypeOK, [Next]_vars PROVE TypeOK'
  OBVIOUS
<1>1. content \in [Inodes -> Bodies] /\ Idle \in OpStates
  BY IdleType DEF TypeOK, Bodies
<1>2. ASSUME NEW kind \in {"play", "boot", "tick"}, Fold(kind), UNCHANGED booted
      PROVE  TypeOK'
  BY <1>2, FoldType, Zenon DEF Fold, TypeOK, fileVars
<1>3. CASE BootPrecache \/ Play \/ Tick
  BY <1>2, <1>3 DEF BootPrecache, Play, Tick
<1>4. CASE StartServing
  BY <1>4, Zenon DEF StartServing, TypeOK, fileVars
<1>5. CASE Operation
  BY <1>5, OperationType
<1>6. CASE ClearAll
  <2>1. op' \in OpStates
    <3> DEFINE files == {p \in {"temp", "final"} : (p = "temp" /\ temp # NoFile)
                                                   \/ (p = "final" /\ final # NoFile)}
    <3>1. Step("clear", "wipe") \in OpStates
      BY StepType DEF Kinds, Pcs
    <3>2. files \in SUBSET {"temp", "final"}
      OBVIOUS
    <3>3. [Step("clear", "wipe") EXCEPT !.todo = files] \in OpStates
      <4> HIDE DEF Step, files
      <4> QED BY <3>1, <3>2, SMT DEF OpStates
    <3>4. QED BY <1>6, <3>3, Zenon DEF ClearAll
  <2>2. QED
    BY <1>6, <2>1, Zenon DEF ClearAll, TypeOK, fileVars
<1>7. CASE Invalidate
  <2>1. content' \in [Inodes -> Bodies]
    BY <1>1, <1>7, ReclaimedType DEF Invalidate
  <2>2. QED
    BY <1>7, <2>1, Zenon DEF Invalidate, TypeOK, Bodies
<1>8. CASE \E l \in Loads : Download(l) \/ Decoder(l)
  BY <1>8, DownloadType, DecoderType
<1>9. CASE Publish
  <2>1. server' \in Versions
    BY <1>9, VersionsAssumption, SMT DEF Publish, TypeOK, Versions
  <2>2. QED
    BY <1>9, <2>1, Zenon DEF Publish, TypeOK, fileVars
<1>10. CASE EvictedByOthers
  BY <1>10, Zenon DEF EvictedByOthers, TypeOK, fileVars
<1>11. CASE Restart
  <2>1. content' \in [Inodes -> Bodies]
    BY <1>1, <1>11, ReclaimedType DEF Restart
  <2>2. NoLoad \in LoadStates
    BY ChunksAssumption, VersionsAssumption, SMT DEF NoLoad, LoadStates
  <2>3. loads' \in [Loads -> LoadStates]
    BY <1>11, <2>2, Zenon DEF Restart
  <2>4. entry' \in {Absent} \cup Versions
    BY <1>11 DEF Restart, Reloaded, TypeOK
  <2>5. QED
    BY <1>1, <1>11, <2>1, <2>3, <2>4, Zenon DEF Restart, TypeOK, Bodies
<1>12. CASE UNCHANGED vars
  BY <1>12, Zenon DEF vars, TypeOK, fileVars
<1>13. QED
  BY <1>3, <1>4, <1>5, <1>6, <1>7, <1>8, <1>9, <1>10, <1>11, <1>12 DEF Next

\* Every reachable state is well typed, whatever fails and whatever commands
\* arrive: among others a load in the table has a slot, the entry's validators
\* are of a published version, and metadata.json holds an entry, nothing or a
\* torn write.
THEOREM TypeCorrect == Spec => []TypeOK
<1>1. Init => TypeOK
  BY InitType
<1>2. TypeOK /\ [Next]_vars => TypeOK'
  BY StepPreservesType
<1>3. QED
  BY <1>1, <1>2, PTL DEF Spec
-----------------------------------------------------------------------------
(* The file of the URL, until two downloads overlap.                       *)

\* What has a path or a handle keeps its content.
LEMMA ReclaimedLive ==
  ASSUME NEW c, Reclaimed(c),
         NEW i \in Inodes, i \in Live(temp, final, loads, op)'
  PROVE  content'[i] = c[i]
  BY DEF Reclaimed

\* A slot that is freed has neither a running task nor a file.
LEMMA RetiredKeeps ==
  ASSUME NEW ls, NEW a, NEW l \in Loads,
         \/ Retired(ls, a)[l].dl \in {"spawned", "streaming", "renamed"}
         \/ Retired(ls, a)[l].file # NoFile
  PROVE  Retired(ls, a)[l] = ls[l]
  BY DEF Retired, NoLoad

\* What a step may do to the file at the path: remove it, or put a version
\* there that is not older.
NewerOrGone ==
  final # NoFile /\ final' # NoFile => content[final][1] <= content'[final'][1]

\* A step leaves the writing of a load alone, whatever its decoder does.
SameWriter(l) ==
  /\ loads'[l].dl = loads[l].dl /\ loads'[l].ver = loads[l].ver
  /\ loads'[l].sent = loads[l].sent /\ loads'[l].file = loads[l].file

\* FileInv survives a step that writes no file: one that removes files, ends
\* downloads or moves the operation on to a place where it writes none.
LEMMA Kept ==
  ASSUME TypeOK, TypeOK', FileInv,
         \A l \in Loads : Running(l)' \/ loads'[l].file # NoFile => SameWriter(l),
         server' >= server,
         temp' = temp \/ (temp' = NoFile /\ op'.pc \notin {"refresh", "fetch"}),
         final' \in {final, NoFile},
         \A i \in Inodes : i \in Live(temp, final, loads, op)' => content'[i] = content[i],
         op' = op \/ op'.pc \notin {"refresh", "fetch"}
  PROVE  FileInv' /\ NewerOrGone
<1>1. \A l \in Loads : Running(l)' => Running(l)
  BY DEF Running, SameWriter
<1>2. OneWriter'
  BY <1>1 DEF FileInv, OneWriter, Busy
<1>3. final' # NoFile => final' = final /\ final \in Inodes /\ content'[final] = content[final]
  BY DEF TypeOK, Live
<1>4. \A l \in Loads : loads'[l].file # NoFile =>
        SameWriter(l) /\ content'[loads[l].file] = content[loads[l].file]
  <2>1. \A l \in Loads : loads'[l].file \in Inodes \cup {NoFile}
    BY DEF TypeOK, LoadStates
  <2>2. \A l \in Loads : loads'[l].file # NoFile => loads'[l].file = loads[l].file
    BY DEF SameWriter
  <2>3. QED BY <2>1, <2>2 DEF Live
<1>5. op'.pc \in {"refresh", "fetch"} =>
        op' = op /\ op.file # NoFile /\ content'[op.file] = content[op.file]
  <2>1. op'.file \in Inodes \cup {NoFile}
    BY DEF TypeOK, OpStates
  <2>2. QED BY <2>1 DEF Live, FileInv, WritersOfTemp
<1>6. WritersOfTemp'
  <2>1. ASSUME NEW l \in Loads, Running(l)'
        PROVE  loads'[l].ver \in Versions /\ (loads'[l].dl = "spawned" => loads'[l].sent = 0)
    BY <1>1, <2>1 DEF FileInv, WritersOfTemp, SameWriter
  <2>2. ASSUME NEW l \in Loads, loads'[l].file # NoFile
        PROVE  /\ loads'[l].dl = "streaming" /\ temp' \in {loads'[l].file, NoFile}
               /\ Writes(loads[l].file, loads[l].sent, loads[l].ver)'
    BY <1>3, <1>4, <2>2 DEF FileInv, WritersOfTemp, Writes, SameWriter
  <2>3. op'.pc \in {"refresh", "fetch"} =>
          op'.file # NoFile /\ temp' = op'.file /\ Writes(op.file, op.sent, op.ver)'
    BY <1>3, <1>5 DEF FileInv, WritersOfTemp, Writes
  <2>4. final' # NoFile => temp' # final'
    BY <1>3 DEF FileInv, WritersOfTemp
  <2>5. QED BY <2>1, <2>2, <2>3, <2>4 DEF WritersOfTemp, Running
<1>7. NeverOlder'
  <2>1. server \in Nat /\ server' \in Nat
    BY VersionsAssumption, SMT DEF TypeOK, Versions
  <2>2. final' # NoFile => content[final][1] \in Nat
    BY <1>3, ChunksAssumption, VersionsAssumption, SMT DEF TypeOK
  <2>3. ASSUME NEW ver \in Nat, NotOlder(ver)
        PROVE  NotOlder(ver)'
    BY <1>3, <2>1, <2>2, <2>3, SMT DEF NotOlder
  <2>4. \A l \in Loads : loads[l].ver \in Nat
    BY VersionsAssumption, SMT DEF TypeOK, LoadStates
  <2>5. op.ver \in Nat
    BY VersionsAssumption, SMT DEF TypeOK, OpStates
  <2>6. \A l \in Loads : Running(l)' => NotOlder(loads[l].ver)' /\ SameWriter(l)
    <3> SUFFICES ASSUME NEW l \in Loads, Running(l)'
                 PROVE  NotOlder(loads[l].ver)' /\ SameWriter(l)
      OBVIOUS
    <3>1. SameWriter(l) /\ NotOlder(loads[l].ver)
      BY <1>1 DEF FileInv, NeverOlder
    <3>2. loads'[l].ver = loads[l].ver
      BY <3>1 DEF SameWriter
    <3>3. QED BY <2>3, <2>4, <3>1, <3>2 DEF NotOlder
  <2>7. op'.pc \in {"refresh", "fetch"} => NotOlder(op.ver)'
    BY <1>5, <2>3, <2>5 DEF FileInv, NeverOlder
  <2>8. final' # NoFile => content'[final'][1] <= server'
    BY <1>3, <2>1, <2>2, SMT DEF FileInv, NeverOlder
  <2>9. QED BY <2>6, <2>7, <2>8 DEF NeverOlder
<1>8. WholeAtFinalPath'
  BY <1>3 DEF FileInv, WholeAtFinalPath, IsWhole
<1>9. NewerOrGone
  BY <1>3, ChunksAssumption, VersionsAssumption, SMT DEF NewerOrGone, TypeOK
<1>10. QED BY <1>2, <1>6, <1>7, <1>8, <1>9 DEF FileInv

\* Where Step and Saving put the operation.
LEMMA Places ==
  /\ \A kind, pc : /\ Step(kind, pc).pc = pc /\ Step(kind, pc).then = "idle"
                   /\ Step(kind, pc).for = IF pc = "idle" THEN "none" ELSE kind
  /\ \A kind, then : /\ Saving(kind, then).pc = "save" /\ Saving(kind, then).for = kind
                     /\ Saving(kind, then).then = then
  /\ Idle.pc = "idle" /\ Idle.for = "none" /\ Idle.then = "idle"
<1>1. \A kind, pc : /\ Step(kind, pc).pc = pc /\ Step(kind, pc).then = "idle"
                   /\ Step(kind, pc).for = IF pc = "idle" THEN "none" ELSE kind
  BY DEF Step
<1>2. \A kind, then : /\ Saving(kind, then).pc = "save" /\ Saving(kind, then).for = kind
                     /\ Saving(kind, then).then = then
  BY DEF Step, Saving
<1>3. Idle.pc = "idle" /\ Idle.for = "none" /\ Idle.then = "idle"
  BY DEF Idle, Step
<1>4. QED
  BY <1>1, <1>2, <1>3

\* FileInv survives a step that leaves disk and loads alone and opens no file.
LEMMA OpMoves ==
  ASSUME TypeOK, TypeOK', FileInv, UNCHANGED <<fileVars, loads>>, server' >= server,
         op' = op \/ op'.pc \notin {"refresh", "fetch"}
  PROVE  FileInv' /\ NewerOrGone
<1>1. \A l \in Loads : SameWriter(l)
  BY DEF SameWriter
<1>2. QED BY <1>1, Kept, Zenon DEF fileVars

\* Saving metadata.json leaves the URL's files alone.
LEMMA SaveKeeps ==
  ASSUME TypeOK, TypeOK', FileInv, BeginSave \/ EndSave \/ SaveFails
  PROVE  FileInv' /\ NewerOrGone
<1>1. op.then \in {"idle", "due", "serve"} /\ server' = server /\ server \in Nat
  BY VersionsAssumption, SMT
     DEF TypeOK, OpStates, Versions, BeginSave, EndSave, SaveFails
<1>2. UNCHANGED <<fileVars, loads>>
  BY DEF BeginSave, EndSave, SaveFails
<1>3. \/ op'.pc = "torn"
      \/ op' = Step(op.for, op.then)
      \/ op' = Step(op.for, "idle")
  BY DEF BeginSave, EndSave, SaveFails, TypeOK, OpStates
<1>4. op'.pc \notin {"refresh", "fetch"}
  BY <1>1, <1>3, Places
<1>5. QED BY <1>1, <1>2, <1>4, OpMoves, SMT

\* So does an operation that asks, serves or gives up.
LEMMA ServeKeeps ==
  ASSUME TypeOK, TypeOK', FileInv,
         \/ NotDue \/ AskServer \/ Unreachable \/ NotModified
         \/ ServeMemory \/ Join \/ RequestFails \/ WipeFails
  PROVE  FileInv' /\ NewerOrGone
<1>1. server' = server /\ server \in Nat
  BY VersionsAssumption, SMT
     DEF TypeOK, Versions, NotDue, AskServer, Unreachable, NotModified, ServeMemory,
         Join, RequestFails, WipeFails
<1>2. UNCHANGED <<fileVars, loads>>
  BY DEF NotDue, AskServer, Unreachable, NotModified, ServeMemory, Join, RequestFails,
         WipeFails
<1>3. \/ op' = Idle
      \/ op' = Step(op.for, "serve") \/ op' = Saving(op.for, "serve")
      \/ op' = Step(op.for, "ask")
  BY DEF NotDue, AskServer, Unreachable, NotModified, ServeMemory, Join, RequestFails,
         WipeFails
<1>4. op'.pc \notin {"refresh", "fetch"}
  BY <1>3, Places
<1>5. QED BY <1>1, <1>2, <1>4, OpMoves, SMT

\* The steps that are not of an operation and touch neither file nor load.
LEMMA WorldKeeps ==
  ASSUME TypeOK, TypeOK', FileInv,
         \/ StartServing \/ ClearAll \/ Publish \/ EvictedByOthers \/ UNCHANGED vars
  PROVE  FileInv' /\ NewerOrGone
<1>1. server' >= server
  BY VersionsAssumption, SMT
     DEF TypeOK, Versions, StartServing, ClearAll, Publish, EvictedByOthers, vars
<1>2. UNCHANGED <<fileVars, loads>>
  BY DEF StartServing, ClearAll, Publish, EvictedByOthers, vars
<1>3. op' = op \/ op'.pc = "wipe"
  BY DEF StartServing, ClearAll, Publish, EvictedByOthers, vars, Step
<1>4. QED BY <1>1, <1>2, <1>3, OpMoves

\* A load is taken from the table: its tasks may still run.
LEMMA TableKeeps ==
  ASSUME TypeOK, TypeOK', FileInv, BootPrecache \/ Play \/ Tick \/ ServeDisk
  PROVE  FileInv' /\ NewerOrGone
<1>1. \E a : loads' = Retired(loads, a)
  BY DEF BootPrecache, Play, Tick, Fold, ServeDisk
<1>2. \A l \in Loads : Running(l)' \/ loads'[l].file # NoFile => SameWriter(l)
  BY <1>1, RetiredKeeps DEF Running, SameWriter
<1>3. UNCHANGED fileVars /\ server' >= server
  BY VersionsAssumption, SMT
     DEF BootPrecache, Play, Tick, Fold, ServeDisk, TypeOK, Versions
<1>4. \E kind, pc : /\ op' = Saving(kind, pc) \/ op' = Step(kind, pc) \/ op' = Idle
                    /\ pc \notin {"refresh", "fetch"}
  <2>1. CASE ServeDisk
    BY <2>1 DEF ServeDisk
  <2>2. ASSUME NEW kind, Fold(kind)
        PROVE  /\ op' = Saving(kind, AfterFold(kind)) \/ op' = Step(kind, AfterFold(kind))
               /\ AfterFold(kind) \notin {"refresh", "fetch"}
    BY <2>2 DEF Fold, AfterFold
  <2>3. CASE BootPrecache \/ Play \/ Tick
    BY <2>2, <2>3, Zenon DEF BootPrecache, Play, Tick
  <2>4. QED BY <2>1, <2>3
<1>5. op'.pc \notin {"refresh", "fetch"}
  BY <1>4, Places
<1>6. QED BY <1>2, <1>3, <1>5, Kept DEF fileVars

\* Files are removed, or all loads end at once: nothing is written.
LEMMA RemovalKeeps ==
  ASSUME TypeOK, TypeOK', FileInv,
         \/ (\E p \in {"temp", "final"} : WipeFile(p)) \/ WipeEntries \/ Invalidate
         \/ Restart
  PROVE  FileInv' /\ NewerOrGone
<1>1. \A l \in Loads : Running(l)' \/ loads'[l].file # NoFile => SameWriter(l)
  <2>1. loads' = loads \/ loads' = [l \in Loads |-> NoLoad]
    BY DEF WipeFile, WipeEntries, Invalidate, Restart
  <2>2. QED BY <2>1 DEF Running, NoLoad, SameWriter
<1>2. server' = server /\ server' >= server
  BY VersionsAssumption, SMT
     DEF WipeFile, WipeEntries, Invalidate, Restart, TypeOK, Versions
<1>3. \/ op' = Idle \/ op' = Saving("clear", "idle") \/ op'.pc = "wipe"
  BY DEF WipeFile, WipeEntries, Invalidate, Restart, TypeOK, OpStates
<1>4. op'.pc \notin {"refresh", "fetch"}
  BY <1>3, Places
<1>5. temp' \in {temp, NoFile} /\ final' \in {final, NoFile}
  BY DEF WipeFile, WipeEntries, Invalidate, Restart, fileVars
<1>6. \A i \in Inodes : i \in Live(temp, final, loads, op)' => content'[i] = content[i]
  BY ReclaimedLive, Zenon DEF WipeFile, WipeEntries, Invalidate, Restart, fileVars
<1>7. QED BY <1>1, <1>2, <1>4, <1>5, <1>6, Kept

\* A decoder that stops leaves its download to itself, running or not.
LEMMA DecoderKeeps ==
  ASSUME TypeOK, TypeOK', FileInv, NEW l \in Loads, Decoder(l)
  PROVE  FileInv' /\ NewerOrGone
<1>1. loads \in [Loads -> LoadStates] /\ loads[l] \in LoadStates
  BY DEF TypeOK
<1>2. PICK r : /\ loads' = [loads EXCEPT ![l] = r]
                  \/ loads' = Retired([loads EXCEPT ![l] = r], active)
               /\ r.dl = loads[l].dl /\ r.file = loads[l].file
               /\ r.ver = loads[l].ver /\ r.sent = loads[l].sent
  <2>1. ASSUME NEW buf
        PROVE  \E r : /\ Stopped(l, buf) = [loads EXCEPT ![l] = r]
                     /\ r.dl = loads[l].dl /\ r.file = loads[l].file
                     /\ r.ver = loads[l].ver /\ r.sent = loads[l].sent
    <3> DEFINE s == [loads[l] EXCEPT !.dec = "stopped", !.buf = buf,
                                     !.cancelled = Unsettled(l)]
    <3>1. Stopped(l, buf) = [loads EXCEPT ![l] = s]
      BY DEF Stopped
    <3>2. /\ s.dl = loads[l].dl /\ s.file = loads[l].file
          /\ s.ver = loads[l].ver /\ s.sent = loads[l].sent
      <4> HIDE DEF Unsettled
      <4> QED BY <1>1, SMT DEF LoadStates
    <3>3. QED
      <4> HIDE DEF s
      <4> QED BY <3>1, <3>2
  <2>2. LET s == [loads[l] EXCEPT !.dec = "erring", !.buf = "error"]
        IN  /\ s.dl = loads[l].dl /\ s.file = loads[l].file
            /\ s.ver = loads[l].ver /\ s.sent = loads[l].sent
    BY <1>1, SMT DEF LoadStates
  <2>3. CASE DecodeEnds(l) \/ InitFails(l) \/ DropReader(l)
    <3>1. PICK buf : loads' = Retired(Stopped(l, buf), active)
      BY <2>3, Zenon DEF DecodeEnds, InitFails, DropReader
    <3>2. QED BY <2>1, <3>1, Zenon
  <2>4. CASE DecodeFails(l)
    BY <2>2, <2>4, Zenon DEF DecodeFails
  <2>5. QED
    BY <2>3, <2>4 DEF Decoder
<1>3. \A k \in Loads : Running(k)' \/ loads'[k].file # NoFile => SameWriter(k)
  <2>1. [loads EXCEPT ![l] = r][l] = r
        /\ \A k \in Loads \ {l} : [loads EXCEPT ![l] = r][k] = loads[k]
    BY <1>1
  <2>2. \A k \in Loads : Running(k)' \/ loads'[k].file # NoFile
           => loads'[k] = [loads EXCEPT ![l] = r][k]
    <3>1. CASE loads' = [loads EXCEPT ![l] = r]
      BY <3>1
    <3>2. CASE loads' = Retired([loads EXCEPT ![l] = r], active)
      BY <3>2, RetiredKeeps DEF Running
    <3>3. QED BY <1>2, <3>1, <3>2
  <2>3. QED BY <1>2, <2>1, <2>2 DEF SameWriter
<1>4. UNCHANGED <<server, fileVars, op>>
  BY DEF Decoder, DecodeEnds, InitFails, DecodeFails, DropReader
<1>5. server' >= server
  BY <1>4, VersionsAssumption, SMT DEF TypeOK, Versions
<1>6. QED
  BY <1>3, <1>4, <1>5, Kept DEF fileVars

\* A download that ends without a file in place removes its own at most.
LEMMA DownloadEndKeeps ==
  ASSUME TypeOK, TypeOK', FileInv, NEW l \in Loads,
         NoticeCancel(l) \/ DownloadFails(l) \/ MarkDownloaded(l)
  PROVE  FileInv' /\ NewerOrGone
<1>1. loads \in [Loads -> LoadStates] /\ loads[l] \in LoadStates
  BY DEF TypeOK
<1>2. loads[l].dl = "renamed" => loads[l].file = NoFile
  BY DEF FileInv, WritersOfTemp
<1>3. PICK r : /\ loads' = Retired([loads EXCEPT ![l] = r], active)
               /\ r.dl \in {"failed", "complete"} /\ r.file = NoFile
  <2>1. /\ [loads[l] EXCEPT !.dl = "failed", !.file = NoFile].dl = "failed"
        /\ [loads[l] EXCEPT !.dl = "failed", !.file = NoFile].file = NoFile
        /\ [loads[l] EXCEPT !.dl = "complete"].dl = "complete"
        /\ [loads[l] EXCEPT !.dl = "complete"].file = loads[l].file
    BY <1>1, Zenon DEF LoadStates
  <2>2. QED
    BY <1>2, <2>1, Zenon DEF NoticeCancel, DownloadFails, MarkDownloaded, Failed
<1>4. \A k \in Loads : Running(k)' \/ loads'[k].file # NoFile => SameWriter(k)
  <2>1. [loads EXCEPT ![l] = r][l] = r
        /\ \A k \in Loads \ {l} : [loads EXCEPT ![l] = r][k] = loads[k]
    BY <1>1
  <2>2. \A k \in Loads : Running(k)' \/ loads'[k].file # NoFile
           => loads'[k] = [loads EXCEPT ![l] = r][k]
    BY <1>3, RetiredKeeps DEF Running
  <2>3. ~(Running(l)' \/ loads'[l].file # NoFile)
    BY <1>3, <2>1, <2>2 DEF Running
  <2>4. QED BY <2>1, <2>2, <2>3 DEF SameWriter
<1>5. UNCHANGED <<server, final, op>>
  BY DEF NoticeCancel, DownloadFails, MarkDownloaded, fileVars
<1>6. temp' = temp \/ (temp' = NoFile /\ op'.pc \notin {"refresh", "fetch"})
  BY <1>5
     DEF NoticeCancel, DownloadFails, MarkDownloaded, fileVars, TempAbandoned, FileInv,
         OneWriter, Busy, Running
<1>7. \A i \in Inodes : i \in Live(temp, final, loads, op)' => content'[i] = content[i]
  BY ReclaimedLive, Zenon DEF NoticeCancel, DownloadFails, MarkDownloaded, fileVars
<1>8. server' >= server
  BY <1>5, VersionsAssumption, SMT DEF TypeOK, Versions
<1>9. QED
  BY <1>4, <1>5, <1>6, <1>7, <1>8, Kept

\* A body that could not be stored.
LEMMA BodyEndKeeps ==
  ASSUME TypeOK, TypeOK', FileInv, BodyFails \/ StoreFails
  PROVE  FileInv' /\ NewerOrGone
<1>1. UNCHANGED <<server, final, loads>>
  BY DEF BodyFails, StoreFails
<1>2. op' = GivenUp /\ temp' \in {temp, NoFile}
  BY DEF BodyFails, StoreFails
<1>3. op'.pc \in {"serve", "idle"}
  BY <1>2, Places DEF GivenUp
<1>4. \A i \in Inodes : i \in Live(temp, final, loads, op)' => content'[i] = content[i]
  BY ReclaimedLive, Zenon DEF BodyFails, StoreFails
<1>5. server' >= server
  BY <1>1, VersionsAssumption, SMT DEF TypeOK, Versions
<1>6. \A l \in Loads : SameWriter(l)
  BY <1>1 DEF SameWriter
<1>7. QED
  BY <1>1, <1>2, <1>3, <1>4, <1>5, <1>6, Kept

-----------------------------------------------------------------------------
(* The steps that write files.                                             *)

\* Nobody else writes while a streamed load does.
LEMMA OnlyOne ==
  ASSUME TypeOK, FileInv, NEW l \in Loads, Running(l)
  PROVE  /\ \A k \in Loads \ {l} : ~Running(k) /\ loads[k].file = NoFile
         /\ op.pc \notin {"refresh", "fetch"} /\ loads[l].ver \in Versions
         /\ NotOlder(loads[l].ver)
<1>1. \A k \in Loads \ {l} : ~Running(k)
  BY DEF FileInv, OneWriter
<1>2. \A k \in Loads \ {l} : loads[k].file = NoFile
  BY <1>1 DEF FileInv, WritersOfTemp, Running
<1>3. QED
  BY <1>1, <1>2 DEF FileInv, OneWriter, Busy, WritersOfTemp, NeverOlder

\* Where no streamed load runs, none has a file open.
LEMMA NoneOpen ==
  ASSUME TypeOK, FileInv, ~Busy \/ op.pc \in {"refresh", "fetch"}
  PROVE  \A l \in Loads : ~Running(l) /\ loads[l].file = NoFile
  BY DEF FileInv, OneWriter, WritersOfTemp, Busy, Running

\* A new temporary file is nobody's.
LEMMA CreatedFresh ==
  ASSUME TypeOK, FileInv, CanCreate
  PROVE  /\ Created \in Inodes
         /\ final # NoFile => Created # final /\ Truncated[final] = content[final]
<1>1. Created \in Inodes
  BY CreatedType
<1>2. final # NoFile => Created # final
  <2>1. CASE temp # NoFile
    BY <2>1 DEF Created, FileInv, WritersOfTemp
  <2>2. CASE temp = NoFile
    <3>1. FreeInode \notin Live(temp, final, loads, op)
      BY <2>2, Zenon DEF CanCreate, FreeInode
    <3>2. QED BY <2>2, <3>1 DEF Created, Live
  <2>3. QED BY <2>1, <2>2
<1>3. final # NoFile => Truncated[final] = content[final]
  BY <1>2 DEF Truncated, TypeOK
<1>4. QED BY <1>1, <1>2, <1>3

\* A load that starts while none runs is the only writer.
LEMMA StartLoadKeeps ==
  ASSUME TypeOK, TypeOK', FileInv, StartLoad, "overlap" \notin upset'
  PROVE  FileInv' /\ NewerOrGone
<1>1. PICK l \in Loads : loads' = [loads EXCEPT ![l] = NewLoad(server)]
  BY Zenon DEF StartLoad
<1>2. op' = Idle /\ UNCHANGED <<server, fileVars>> /\ ~Busy
  BY DEF StartLoad
<1>3. \A k \in Loads : ~Running(k) /\ loads[k].file = NoFile
  BY <1>2, NoneOpen
<1>4. /\ \A k \in Loads \ {l} : loads'[k] = loads[k]
      /\ loads'[l] = NewLoad(server)
  BY <1>1 DEF TypeOK
<1>5. OneWriter'
  BY <1>2, <1>3, <1>4, Places DEF OneWriter, Running
<1>6. WritersOfTemp'
  BY <1>2, <1>3, <1>4, Places
     DEF FileInv, WritersOfTemp, NewLoad, fileVars, Running, TypeOK
<1>7. NeverOlder'
  <2>1. NotOlder(server)' /\ (final' # NoFile => content'[final'][1] <= server')
    BY <1>2, VersionsAssumption, SMT
       DEF FileInv, NeverOlder, NotOlder, fileVars, TypeOK, Versions
  <2>2. \A k \in Loads : Running(k)' => loads'[k].ver = server
    BY <1>3, <1>4 DEF NewLoad, Running
  <2>3. QED
    BY <1>2, <2>1, <2>2, Places DEF NeverOlder, NotOlder
<1>8. WholeAtFinalPath'
  BY <1>2 DEF FileInv, WholeAtFinalPath, IsWhole, fileVars
<1>9. NewerOrGone
  BY <1>2, ChunksAssumption, VersionsAssumption, SMT DEF NewerOrGone, TypeOK, fileVars
<1>10. QED BY <1>5, <1>6, <1>7, <1>8, <1>9 DEF FileInv

\* So is a revalidation or a precached download.
LEMMA OpenBodyKeeps ==
  ASSUME TypeOK, TypeOK', FileInv, Modified \/ StartFetch, "overlap" \notin upset'
  PROVE  FileInv' /\ NewerOrGone
<1>1. PICK pc \in {"refresh", "fetch"} :
        OpenBody(pc)
  BY DEF Modified, StartFetch
<1>2. UNCHANGED <<server, final, loads>> /\ CanCreate /\ ~Busy
  BY <1>1 DEF OpenBody
<1>3. /\ op'.pc = pc /\ op'.sent = 0
      /\ op'.ver = server /\ op'.file = Created /\ temp' = Created
  BY <1>1 DEF OpenBody, Step
<1>4. \A l \in Loads : ~Running(l) /\ loads[l].file = NoFile
  BY <1>2, NoneOpen
<1>5. Created \in Inodes /\ Created # NoFile
  BY <1>2, CreatedFresh, NamesAssumption
<1>6. final # NoFile => final \in Inodes /\ Created # final /\ content'[final] = content[final]
  <2>1. final # NoFile => final \in Inodes /\ final \in Live(temp, final, loads, op)'
    BY <1>2 DEF Live, TypeOK
  <2>2. Reclaimed(Truncated)
    BY <1>1 DEF OpenBody
  <2>3. QED BY <1>2, <2>1, <2>2, CreatedFresh, ReclaimedLive
<1>7. OneWriter'
  BY <1>2, <1>4 DEF OneWriter, Busy, Running
<1>8. WritersOfTemp'
  <2>1. Writes(op.file, op.sent, op.ver)'
    <3>1. op'.file # final'
      BY <1>2, <1>3, <1>5, <1>6
    <3>2. op'.ver \in Versions /\ 1..op'.sent = {}
      BY <1>3, SMT DEF TypeOK
    <3>3. QED BY <3>1, <3>2 DEF Writes
  <2>2. QED
    BY <1>2, <1>3, <1>4, <1>5, <1>6, <2>1 DEF WritersOfTemp, Running
<1>9. NeverOlder'
  <2>1. NotOlder(op.ver)' /\ (final' # NoFile => content'[final'][1] <= server')
    BY <1>2, <1>3, <1>6, VersionsAssumption, SMT
       DEF FileInv, NeverOlder, NotOlder, TypeOK, Versions
  <2>2. QED
    BY <1>2, <1>4, <2>1 DEF NeverOlder, Running
<1>10. WholeAtFinalPath'
  BY <1>2, <1>6 DEF FileInv, WholeAtFinalPath, IsWhole
<1>11. NewerOrGone
  BY <1>2, <1>6, ChunksAssumption, VersionsAssumption, SMT DEF NewerOrGone, TypeOK
<1>12. QED BY <1>7, <1>8, <1>9, <1>10, <1>11 DEF FileInv

\* A chunk received extends the prefix its writer has written.
LEMMA ReceiveBodyKeeps ==
  ASSUME TypeOK, TypeOK', FileInv, ReceiveBody
  PROVE  FileInv' /\ NewerOrGone
<1>1. /\ op.pc \in {"refresh", "fetch"} /\ op \in OpStates
      /\ op.file \in Inodes /\ op.file # NoFile /\ temp = op.file
      /\ Writes(op.file, op.sent, op.ver) /\ NotOlder(op.ver)
      /\ op.sent \in 0..Chunks /\ op.sent < Chunks
  BY NamesAssumption
     DEF ReceiveBody, FileInv, WritersOfTemp, NeverOlder, TypeOK, OpStates
<1>2. /\ op'.pc = op.pc
      /\ op'.file = op.file /\ op'.ver = op.ver /\ op'.sent = op.sent + 1
  BY <1>1 DEF ReceiveBody, OpStates
<1>3. UNCHANGED <<server, temp, final, loads>>
  BY DEF ReceiveBody
<1>4. \A l \in Loads : ~Running(l) /\ loads[l].file = NoFile
  BY <1>1, NoneOpen
<1>5. /\ content'[op.file] = [content[op.file] EXCEPT ![op.sent + 1] = op.ver]
      /\ final # NoFile => content'[final] = content[final]
  BY <1>1 DEF ReceiveBody, Written, TypeOK, Writes
<1>6. OneWriter'
  BY <1>3, <1>4 DEF OneWriter, Busy, Running
<1>7. WritersOfTemp'
  <2>1. \A k \in 1..(op.sent + 1) : content'[op.file][k] = op.ver
    <3>1. content[op.file] \in Bodies
      BY <1>1 DEF TypeOK, Bodies
    <3>2. \A k \in 1..op.sent : content[op.file][k] = op.ver
      BY <1>1 DEF Writes
    <3>3. content'[op.file] = [content[op.file] EXCEPT ![op.sent + 1] = op.ver]
      BY <1>5
    <3>4. op.sent \in 0..Chunks /\ op.sent < Chunks
      BY <1>1
    <3>5. ASSUME NEW k \in 1..(op.sent + 1)
          PROVE  content'[op.file][k] = op.ver
      <4>1. CASE k = op.sent + 1
        <5>1. op.sent + 1 \in DOMAIN content[op.file]
          BY <3>1, <3>4, ChunksAssumption, SMT DEF Bodies
        <5>2. QED BY <3>3, <4>1, <5>1, Zenon
      <4>2. CASE k # op.sent + 1
        <5>1. k \in 1..op.sent /\ k \in 1..Chunks
          BY <3>4, <4>2, ChunksAssumption, SMT
        <5>2. QED BY <3>1, <3>2, <3>3, <4>2, <5>1 DEF Bodies
      <4>3. QED BY <4>1, <4>2
    <3>6. QED BY <3>5
  <2>2. Writes(op.file, op.sent, op.ver)'
    BY <1>1, <1>2, <1>3, <2>1 DEF Writes
  <2>3. QED
    BY <1>1, <1>2, <1>3, <1>4, <2>2 DEF FileInv, WritersOfTemp, Running
<1>8. NeverOlder'
  BY <1>1, <1>2, <1>3, <1>4, <1>5 DEF FileInv, NeverOlder, NotOlder, Running
<1>9. WholeAtFinalPath'
  BY <1>3, <1>5 DEF FileInv, WholeAtFinalPath, IsWhole
<1>10. NewerOrGone
  BY <1>3, <1>5, ChunksAssumption, VersionsAssumption, SMT DEF NewerOrGone, TypeOK
<1>11. QED BY <1>6, <1>7, <1>8, <1>9, <1>10 DEF FileInv

\* A file written to its end is whole.
LEMMA WrittenWhole ==
  ASSUME TypeOK, NEW file \in Inodes, NEW ver, Writes(file, Chunks, ver)
  PROVE  content[file] = Whole(ver) /\ content[file][1] = ver
<1>1. content[file] \in [1..Chunks -> 0..MaxVersion]
  BY DEF TypeOK
<1>2. content[file] = [k \in 1..Chunks |-> ver]
  BY <1>1 DEF Writes
<1>3. 1 \in 1..Chunks
  BY ChunksAssumption, SMT
<1>4. QED BY <1>2, <1>3 DEF Whole

\* A body put in place is whole and not older than the file there was.
LEMMA StoreBodyKeeps ==
  ASSUME TypeOK, TypeOK', FileInv, StoreBody
  PROVE  FileInv' /\ NewerOrGone
<1>1. /\ op.pc \in {"refresh", "fetch"} /\ op.file \in Inodes /\ temp = op.file
      /\ Writes(op.file, op.sent, op.ver) /\ NotOlder(op.ver) /\ op.sent = Chunks
  BY DEF StoreBody, BodyDone, FileInv, WritersOfTemp, NeverOlder, TypeOK, OpStates
<1>2. /\ UNCHANGED <<server, loads>>
      /\ final' = op.file /\ temp' = NoFile
  BY <1>1 DEF StoreBody
<1>3. op'.pc = "save"
  <2>1. Saving(op.for, "serve") \in OpStates
    <3>1. op.for \in Kinds
      BY DEF TypeOK, OpStates, Kinds
    <3>2. QED BY <3>1, SavingType
  <2>2. ASSUME NEW v
        PROVE  [Saving(op.for, "serve") EXCEPT !.ver = v].pc = "save"
    <3> HIDE DEF Saving
    <3> QED BY <2>1, Places, SMT DEF OpStates
  <2>3. QED BY <2>2, Zenon DEF StoreBody
<1>4. \A l \in Loads : ~Running(l) /\ loads[l].file = NoFile
  BY <1>1, NoneOpen
<1>5. content'[final'] = content[op.file]
  <2>1. op.file \in Live(temp, final, loads, op)' /\ Reclaimed(content)
    BY <1>2 DEF Live, StoreBody
  <2>2. QED BY <1>1, <1>2, <2>1, ReclaimedLive
<1>6. content[op.file] = Whole(op.ver) /\ content[op.file][1] = op.ver
  BY <1>1, WrittenWhole
<1>7. OneWriter' /\ WritersOfTemp'
  BY <1>1, <1>2, <1>3, <1>4, NamesAssumption DEF OneWriter, WritersOfTemp, Busy, Running
<1>8. NeverOlder'
  BY <1>1, <1>2, <1>3, <1>4, <1>5, <1>6 DEF NeverOlder, NotOlder, Running
<1>9. WholeAtFinalPath'
  BY <1>1, <1>5, <1>6 DEF WholeAtFinalPath, IsWhole, Writes
<1>10. NewerOrGone
  BY <1>1, <1>2, <1>5, <1>6 DEF NewerOrGone, NotOlder
<1>11. QED BY <1>7, <1>8, <1>9, <1>10 DEF FileInv

\* A download that opens its file has written nothing of it.
LEMMA OpenTempKeeps ==
  ASSUME TypeOK, TypeOK', FileInv, NEW l \in Loads, OpenTemp(l)
  PROVE  FileInv' /\ NewerOrGone
<1>1. /\ Running(l) /\ loads[l].dl = "spawned" /\ loads[l].file = NoFile
      /\ loads[l].sent = 0
  BY DEF OpenTemp, Running, FileInv, WritersOfTemp
<1>2. UNCHANGED <<server, final, op>>
  BY DEF OpenTemp
<1>3. /\ \A k \in Loads \ {l} : loads'[k] = loads[k]
      /\ loads'[l].dl = "streaming" /\ loads'[l].ver = loads[l].ver /\ loads'[l].sent = 0
      /\ \/ loads'[l].file = NoFile /\ temp' = temp /\ content' = content
         \/ /\ CanCreate /\ loads'[l].file = Created /\ temp' = Created
            /\ content' = Truncated
  <2>1. loads \in [Loads -> LoadStates] /\ loads[l] \in LoadStates
    BY DEF TypeOK
  <2>2. PICK r : loads' = [loads EXCEPT ![l] = r]
                 /\ \/ /\ r = [loads[l] EXCEPT !.dl = "streaming"]
                       /\ temp' = temp /\ content' = content
                    \/ /\ r = [[loads[l] EXCEPT !.dl = "streaming"] EXCEPT !.file = Created]
                       /\ CanCreate /\ temp' = Created /\ content' = Truncated
    BY Zenon DEF OpenTemp
  <2>3. /\ r.dl = "streaming" /\ r.ver = loads[l].ver /\ r.sent = loads[l].sent
        /\ \/ r.file = NoFile /\ temp' = temp /\ content' = content
           \/ r.file = Created /\ CanCreate /\ temp' = Created /\ content' = Truncated
    BY <1>1, <2>1, <2>2, Zenon DEF LoadStates
  <2>4. QED
    BY <1>1, <2>1, <2>2, <2>3
<1>4. /\ \A k \in Loads \ {l} : ~Running(k) /\ loads[k].file = NoFile
      /\ op.pc \notin {"refresh", "fetch"} /\ loads[l].ver \in Versions
      /\ NotOlder(loads[l].ver)
  BY <1>1, OnlyOne
<1>5. final # NoFile => content'[final] = content[final]
  BY <1>3, CreatedFresh
<1>6. OneWriter'
  BY <1>2, <1>3, <1>4 DEF OneWriter, Running
<1>7. WritersOfTemp'
  <2>1. CASE loads'[l].file = NoFile
    BY <1>1, <1>2, <1>3, <1>4, <2>1 DEF FileInv, WritersOfTemp, Running
  <2>2. CASE loads'[l].file # NoFile
    <3>1. /\ CanCreate /\ loads'[l].file = Created /\ temp' = Created
          /\ Created \in Inodes /\ (final # NoFile => Created # final)
      BY <1>3, <2>2, CreatedFresh
    <3>2. Writes(loads[l].file, loads[l].sent, loads[l].ver)'
      <4>1. loads'[l].file # final' /\ loads'[l].ver \in Versions
        BY <1>2, <1>3, <1>4, <2>2, <3>1
      <4>2. 1..loads'[l].sent = {}
        BY <1>3, SMT
      <4>3. QED BY <4>1, <4>2 DEF Writes
    <3>3. QED
      BY <1>2, <1>3, <1>4, <3>1, <3>2 DEF FileInv, WritersOfTemp, Running
  <2>3. QED BY <2>1, <2>2
<1>8. NeverOlder'
  BY <1>2, <1>3, <1>4, <1>5 DEF FileInv, NeverOlder, NotOlder, Running
<1>9. WholeAtFinalPath'
  BY <1>2, <1>5 DEF FileInv, WholeAtFinalPath, IsWhole
<1>10. NewerOrGone
  BY <1>2, <1>5, ChunksAssumption, VersionsAssumption, SMT DEF NewerOrGone, TypeOK
<1>11. QED BY <1>6, <1>7, <1>8, <1>9, <1>10 DEF FileInv

\* A chunk written through extends the prefix of its load.
LEMMA ReceiveChunkKeeps ==
  ASSUME TypeOK, TypeOK', FileInv, NEW l \in Loads, ReceiveChunk(l)
  PROVE  FileInv' /\ NewerOrGone
<1> DEFINE f == loads[l].file
           n == loads[l].sent + 1
           v == loads[l].ver
<1>1. /\ Running(l) /\ loads[l].dl = "streaming" /\ f \in Inodes \cup {NoFile}
      /\ loads[l].sent \in 0..Chunks /\ n \in 1..Chunks
      /\ loads \in [Loads -> LoadStates] /\ loads[l] \in LoadStates
  BY ChunksAssumption, SMT DEF ReceiveChunk, Running, TypeOK, LoadStates
<1>2. UNCHANGED <<server, final, op>>
  BY DEF ReceiveChunk
<1>3. /\ \A k \in Loads \ {l} : loads'[k] = loads[k]
      /\ loads'[l].dl = "streaming" /\ loads'[l].ver = v /\ loads'[l].sent = n
      /\ \/ loads'[l].file = f /\ temp' = temp /\ content' = Written(f, n, v)
         \/ loads'[l].file = NoFile /\ temp' = NoFile /\ Reclaimed(content)
  <2>1. PICK r : loads' = [loads EXCEPT ![l] = r]
                 /\ \/ /\ r = [loads[l] EXCEPT !.sent = n]
                       /\ temp' = temp /\ content' = Written(f, n, v)
                    \/ /\ r = [[loads[l] EXCEPT !.sent = n] EXCEPT !.file = NoFile]
                       /\ temp' = NoFile /\ Reclaimed(content)
    BY Zenon DEF ReceiveChunk
  <2>2. /\ r.dl = loads[l].dl /\ r.ver = v /\ r.sent = n
        /\ \/ r.file = f /\ temp' = temp /\ content' = Written(f, n, v)
           \/ r.file = NoFile /\ temp' = NoFile /\ Reclaimed(content)
    <3> HIDE DEF n
    <3> QED BY <1>1, <2>1, Zenon DEF LoadStates
  <2>3. QED
    BY <1>1, <2>1, <2>2
<1>4. /\ \A k \in Loads \ {l} : ~Running(k) /\ loads[k].file = NoFile
      /\ op.pc \notin {"refresh", "fetch"} /\ loads[l].ver \in Versions
      /\ NotOlder(loads[l].ver)
  BY <1>1, OnlyOne
<1>5. final # NoFile => content'[final] = content[final]
  <2>1. f # NoFile => f # final
    BY DEF FileInv, WritersOfTemp, Writes
  <2>2. final # NoFile => final \in Inodes /\ final \in Live(temp, final, loads, op)'
    BY <1>2 DEF TypeOK, Live
  <2>3. CASE Reclaimed(content)
    BY <2>2, <2>3, ReclaimedLive
  <2>4. CASE content' = Written(f, n, v)
    BY <2>1, <2>2, <2>4 DEF Written, TypeOK
  <2>5. QED BY <1>3, <2>3, <2>4
<1>6. OneWriter'
  BY <1>2, <1>3, <1>4 DEF OneWriter, Running
<1>7. WritersOfTemp'
  <2>1. CASE loads'[l].file = NoFile
    BY <1>1, <1>2, <1>3, <1>4, <2>1 DEF FileInv, WritersOfTemp, Running
  <2>2. CASE loads'[l].file # NoFile
    <3>1. /\ loads'[l].file = f /\ temp' = temp /\ content' = Written(f, n, v)
          /\ f \in Inodes /\ f # NoFile
      BY <1>1, <1>3, <2>2
    <3>2. Writes(f, loads[l].sent, v) /\ temp \in {f, NoFile}
      BY <3>1 DEF FileInv, WritersOfTemp
    <3>3. \A k \in 1..n : content'[f][k] = v
      <4>1. content'[f] = [content[f] EXCEPT ![n] = v]
        BY <3>1 DEF Written, TypeOK
      <4>2. content[f] \in Bodies
        BY <3>1 DEF TypeOK, Bodies
      <4>3. \A k \in 1..loads[l].sent : content[f][k] = v
        BY <3>2 DEF Writes
      <4>4. ASSUME NEW k \in 1..n
            PROVE  content'[f][k] = v
        <5>1. CASE k = n
          <6>1. DOMAIN content[f] = 1..Chunks
            BY <4>2, Zenon DEF Bodies
          <6>2. n \in 1..Chunks
            BY <1>1
          <6>3. QED BY <4>1, <5>1, <6>1, <6>2, Zenon
        <5>2. CASE k # n
          <6>1. k \in 1..loads[l].sent /\ k \in 1..Chunks
            BY <1>1, <5>2, ChunksAssumption, SMT
          <6>2. QED BY <4>1, <4>2, <4>3, <5>2, <6>1 DEF Bodies
        <5>3. QED BY <5>1, <5>2
      <4>5. QED BY <4>4
    <3>4. Writes(loads[l].file, loads[l].sent, loads[l].ver)'
      BY <1>2, <1>3, <3>1, <3>2, <3>3 DEF Writes
    <3>5. QED
      BY <1>2, <1>3, <1>4, <3>1, <3>2, <3>4 DEF FileInv, WritersOfTemp, Running
  <2>3. QED BY <2>1, <2>2
<1>8. NeverOlder'
  BY <1>2, <1>3, <1>4, <1>5 DEF FileInv, NeverOlder, NotOlder, Running
<1>9. WholeAtFinalPath'
  BY <1>2, <1>5 DEF FileInv, WholeAtFinalPath, IsWhole
<1>10. NewerOrGone
  BY <1>2, <1>5, ChunksAssumption, VersionsAssumption, SMT DEF NewerOrGone, TypeOK
<1>11. QED BY <1>6, <1>7, <1>8, <1>9, <1>10 DEF FileInv

\* A download put in place is whole and not older than the file there was.
LEMMA FinalizeKeeps ==
  ASSUME TypeOK, TypeOK', FileInv, NEW l \in Loads, Finalize(l)
  PROVE  FileInv' /\ NewerOrGone
<1> DEFINE f == loads[l].file
           v == loads[l].ver
<1>1. /\ Running(l) /\ loads[l].dl = "streaming" /\ loads[l].sent = Chunks
      /\ loads \in [Loads -> LoadStates] /\ loads[l] \in LoadStates
  BY DEF Finalize, DownloadDone, Running, TypeOK
<1>2. UNCHANGED <<server, op>> /\ Reclaimed(content)
  BY DEF Finalize
<1>3. /\ \A k \in Loads \ {l} : loads'[k] = loads[k]
      /\ loads'[l].dl = "renamed" /\ loads'[l].file = NoFile
  <2>1. PICK r : /\ loads' = [loads EXCEPT ![l] = r]
                 /\ r = [loads[l] EXCEPT !.dl = "renamed", !.file = NoFile]
    BY Zenon DEF Finalize
  <2>2. r.dl = "renamed" /\ r.file = NoFile
    BY <1>1, <2>1, Zenon DEF LoadStates
  <2>3. QED
    BY <1>1, <2>1, <2>2
<1>4. /\ \A k \in Loads \ {l} : ~Running(k) /\ loads[k].file = NoFile
      /\ op.pc \notin {"refresh", "fetch"} /\ loads[l].ver \in Versions
      /\ NotOlder(loads[l].ver)
  BY <1>1, OnlyOne
<1>5. \/ f # NoFile /\ temp # NoFile /\ final' = temp /\ temp' = NoFile
      \/ final' = final /\ temp' \in {temp, NoFile}
  BY DEF Finalize
<1>6. final' # NoFile => /\ final' \in Inodes /\ content'[final'] = content[final']
                         /\ IsWhole(final)' /\ content'[final'][1] <= server
                         /\ final # NoFile => content[final][1] <= content'[final'][1]
  <2>1. CASE f # NoFile /\ temp # NoFile /\ final' = temp
    <3>1. f \in Inodes /\ temp = f /\ Writes(f, Chunks, v)
      BY <1>1, <2>1 DEF FileInv, WritersOfTemp, TypeOK, LoadStates
    <3>2. content[f] = Whole(v) /\ content[f][1] = v
      BY <3>1, WrittenWhole
    <3>3. content'[f] = content[f]
      <4>1. f \in Live(temp, final, loads, op)'
        BY <2>1, <3>1 DEF Live
      <4>2. QED BY <1>2, <3>1, <4>1, ReclaimedLive
    <3>4. v \in Versions /\ v <= server /\ (final # NoFile => content[final][1] <= v)
      BY <1>1, <3>1 DEF Writes, FileInv, NeverOlder, NotOlder
    <3>5. QED
      BY <2>1, <3>1, <3>2, <3>3, <3>4 DEF IsWhole
  <2>2. CASE final' = final
    <3>1. final # NoFile => final \in Inodes /\ final \in Live(temp, final, loads, op)'
      BY <2>2 DEF TypeOK, Live
    <3>2. final # NoFile => content'[final] = content[final]
      BY <1>2, <3>1, ReclaimedLive
    <3>3. final # NoFile => content[final][1] <= content'[final][1]
      BY <3>1, <3>2, ChunksAssumption, VersionsAssumption, SMT DEF TypeOK
    <3>4. QED
      BY <2>2, <3>1, <3>2, <3>3 DEF FileInv, WholeAtFinalPath, IsWhole, NeverOlder
  <2>3. QED BY <1>5, <2>1, <2>2
<1>7. OneWriter'
  BY <1>2, <1>3, <1>4 DEF OneWriter, Busy, Running
<1>8. WritersOfTemp'
  BY <1>2, <1>3, <1>4, <1>5 DEF FileInv, WritersOfTemp, Running
<1>9. NeverOlder'
  BY <1>2, <1>3, <1>4, <1>6 DEF NeverOlder, Running
<1>10. WholeAtFinalPath'
  BY <1>6 DEF WholeAtFinalPath
<1>11. NewerOrGone
  BY <1>6 DEF NewerOrGone
<1>12. QED BY <1>7, <1>8, <1>9, <1>10, <1>11 DEF FileInv
-----------------------------------------------------------------------------
(* The theorems about the file.                                            *)

\* At first nobody writes.
LEMMA InitFileInv == Init => FileInv
<1> SUFFICES ASSUME Init PROVE FileInv
  OBVIOUS
<1>1. \A l \in Loads : loads[l] = NoLoad
  BY DEF Init
<1>2. OneWriter /\ NeverOlder /\ WritersOfTemp
  BY <1>1, Places DEF Init, OneWriter, NeverOlder, WritersOfTemp, Running, NoLoad
<1>3. WholeAtFinalPath
  BY DEF Init, WholeAtFinalPath
<1>4. QED BY <1>2, <1>3 DEF FileInv

\* Every step keeps the file sound, until two downloads overlap.
LEMMA StepKeeps ==
  ASSUME TypeOK, FileInv, [Next]_vars, "overlap" \notin upset'
  PROVE  FileInv' /\ NewerOrGone
<1>1. TypeOK'
  BY StepPreservesType
<1>2. CASE BootPrecache \/ Play \/ Tick
  BY <1>1, <1>2, TableKeeps
<1>3. CASE Operation
  <2>1. CASE BeginSave \/ EndSave \/ SaveFails
    BY <1>1, <2>1, SaveKeeps
  <2>2. CASE \/ NotDue \/ AskServer \/ Unreachable \/ NotModified
             \/ ServeMemory \/ Join \/ RequestFails \/ WipeFails
    BY <1>1, <2>2, ServeKeeps
  <2>3. CASE Modified \/ StartFetch
    BY <1>1, <2>3, OpenBodyKeeps
  <2>4. CASE ReceiveBody
    BY <1>1, <2>4, ReceiveBodyKeeps
  <2>5. CASE BodyFails \/ StoreFails
    BY <1>1, <2>5, BodyEndKeeps
  <2>6. CASE StoreBody
    BY <1>1, <2>6, StoreBodyKeeps
  <2>7. CASE ServeDisk
    BY <1>1, <2>7, TableKeeps
  <2>8. CASE StartLoad
    BY <1>1, <2>8, StartLoadKeeps
  <2>9. CASE (\E p \in {"temp", "final"} : WipeFile(p)) \/ WipeEntries
    BY <1>1, <2>9, RemovalKeeps
  <2>10. QED
    BY <1>3, <2>1, <2>2, <2>3, <2>4, <2>5, <2>6, <2>7, <2>8, <2>9 DEF Operation
<1>4. CASE Invalidate \/ Restart
  BY <1>1, <1>4, RemovalKeeps
<1>5. ASSUME NEW l \in Loads, Download(l)
      PROVE  FileInv' /\ NewerOrGone
  <2>1. CASE OpenTemp(l)
    BY <1>1, <2>1, OpenTempKeeps
  <2>2. CASE ReceiveChunk(l)
    BY <1>1, <2>2, ReceiveChunkKeeps
  <2>3. CASE NoticeCancel(l) \/ DownloadFails(l) \/ MarkDownloaded(l)
    BY <1>1, <2>3, DownloadEndKeeps
  <2>4. CASE Finalize(l)
    BY <1>1, <2>4, FinalizeKeeps
  <2>5. QED BY <1>5, <2>1, <2>2, <2>3, <2>4 DEF Download
<1>6. ASSUME NEW l \in Loads, Decoder(l)
      PROVE  FileInv' /\ NewerOrGone
  BY <1>1, <1>6, DecoderKeeps
<1>7. CASE StartServing \/ ClearAll \/ Publish \/ EvictedByOthers \/ UNCHANGED vars
  BY <1>1, <1>7, WorldKeeps
<1>8. QED
  BY <1>2, <1>3, <1>4, <1>5, <1>6, <1>7 DEF Next

\* What went wrong once is not forgotten; only a cache command is, with the
\* load it disturbed.
LEMMA UpsetStays ==
  ASSUME [Next]_vars
  PROVE  upset \ {"command"} \subseteq upset'
<1>1. CASE Operation
  BY <1>1
     DEF Operation, BeginSave, EndSave, SaveFails, NotDue, AskServer, Unreachable,
         NotModified, Modified, OpenBody, ReceiveBody, BodyFails, StoreBody, StoreFails,
         ServeMemory, Join, ServeDisk, RequestFails, StartLoad, StartFetch, WipeFile,
         WipeFails, WipeEntries
<1>2. CASE \E l \in Loads : Download(l) \/ Decoder(l)
  BY <1>2
     DEF Download, OpenTemp, ReceiveChunk, NoticeCancel, DownloadFails, Finalize,
         MarkDownloaded, Decoder, DecodeEnds, InitFails, DecodeFails, DropReader
<1>3. CASE \/ BootPrecache \/ StartServing \/ Play \/ Tick \/ ClearAll \/ Invalidate
           \/ Publish \/ EvictedByOthers \/ Restart \/ UNCHANGED vars
  BY <1>3
     DEF BootPrecache, StartServing, Play, Tick, Fold, ClearAll, Invalidate, Publish,
         EvictedByOthers, Restart, vars
<1>4. QED BY <1>1, <1>2, <1>3 DEF Next

\* However downloads are cancelled, fail or stall, and whatever crashes, disk
\* faults and cache commands come between: until a download of the URL starts
\* while another one runs, one task at a time writes the URL's files, from the
\* first chunk to the rename, and the file at its path is a whole body, for any
\* loads, chunks, versions and faults (PersistWriter, stream_body_to_file).
THEOREM FilesAreSound == Spec => []FilesSound
<1>1. Init => FilesSound
  BY InitType, InitFileInv DEF FilesSound
<1>2. FilesSound /\ [Next]_vars => FilesSound'
  BY StepPreservesType, StepKeeps, UpsetStays DEF FilesSound
<1>3. QED
  BY <1>1, <1>2, PTL DEF Spec

\* So CacheLoads implements PublishedFile: whatever plays, revalidations, faults
\* and commands do, the rest of the program sees a file that is absent or a whole
\* version, and that only a version that is not older replaces; once downloads
\* overlapped, nothing is claimed of it.
THEOREM ImplementsPublishedFile == Spec => RefinesPublishedFile
<1> SUFFICES Spec => Disk!Spec
  BY DEF RefinesPublishedFile
<1>1. Init => Disk!Init
  BY DEF Init, Disk!Init, PublishedVersion, Absent
<1>2. FilesSound /\ [Next]_vars => [Disk!Next]_PublishedVersion
  <2> SUFFICES ASSUME FilesSound, [Next]_vars
               PROVE  Disk!Next
    OBVIOUS
  <2>1. CASE "overlap" \in upset'
    BY <2>1 DEF Disk!Next, Disk!Withdraw, PublishedVersion, Absent
  <2>2. CASE "overlap" \notin upset'
    <3>1. TypeOK /\ FileInv /\ "overlap" \notin upset
      BY <2>2, UpsetStays DEF FilesSound
    <3>2. FileInv' /\ NewerOrGone
      BY <2>2, <3>1, StepKeeps
    <3>3. ASSUME NEW v \in Versions
          PROVE  Whole(v)[1] = v
      BY ChunksAssumption, SMT DEF Whole
    <3>4. PublishedVersion = IF final = NoFile THEN 0 ELSE content[final][1]
      BY <3>1 DEF FileInv, WholeAtFinalPath, PublishedVersion, Absent
    <3>5. final' = NoFile => Disk!Withdraw
      BY DEF Disk!Withdraw, PublishedVersion, Absent
    <3>6. CASE final' # NoFile
      <4>1. PICK v \in Versions : content'[final'] = Whole(v)
        BY <3>2, <3>6 DEF FileInv, WholeAtFinalPath, IsWhole
      <4>2. PublishedVersion' = v
        BY <2>2, <3>2, <3>3, <3>6, <4>1 DEF FileInv, WholeAtFinalPath, PublishedVersion
      <4>3. v >= PublishedVersion
        BY <3>2, <3>3, <3>4, <3>6, <4>1, VersionsAssumption, SMT
           DEF NewerOrGone, Versions
      <4>4. QED
        BY <4>2, <4>3 DEF Disk!Next, Disk!Replace, Versions
    <3>7. QED BY <3>5, <3>6 DEF Disk!Next
  <2>3. QED BY <2>1, <2>2
<1>3. QED
  BY <1>1, <1>2, FilesAreSound, PTL DEF Spec, Disk!Spec

-----------------------------------------------------------------------------
(* Index, file and memory in step, as long as nothing disturbs them.  All  *)
(* versions are measured by that of the file, which FileInv lets grow      *)
(* only: what the entry, metadata.json or a load that has arrived says is  *)
(* in the file, or will go with it.                                        *)

\* The file is at least as new as version v, if there are both.
InFile(v) == final # NoFile /\ v \in Versions => v <= content[final][1]
\* cache_clear has the URL's file before it, and nothing else.
AboutToWipe == op.pc = "wipe" /\ op.todo = {"final"}
Arrived(l) == loads[l].dl \in {"renamed", "complete"}

\* A download that runs is of the load in the table, or of one that left it.
InTable == \A l \in Loads : Running(l) => active \in {l, NoSlot}

\* Nobody knows of a version the server has not published.
KnownToServer ==
  /\ entry <= server /\ op.ver <= server
  /\ saved \in Versions => saved <= server
  /\ \A l \in Loads : loads[l].ver <= server

\* What is being fetched is not older than what the index says.
Supersedes(ver) == entry <= ver /\ (saved \in Versions => saved <= ver)
SourcesNew ==
  /\ \A l \in Loads : Running(l) => Supersedes(loads[l].ver)
  /\ op.pc \in {"refresh", "fetch"} =>
        Supersedes(op.ver) /\ (active # NoSlot => loads[active].ver <= op.ver)

\* The file is not older than the entry, in memory and as it is saved.
FileNew == InFile(entry) /\ InFile(saved)

\* Nor than a load that has arrived, unless it is about to be removed.
LoadInFile ==
  active # NoSlot /\ Arrived(active) => InFile(loads[active].ver) \/ AboutToWipe

\* A load writes through to a file that only cache_clear takes from its path.
TempWritten ==
  \A l \in Loads : loads[l].dl = "streaming" =>
    /\ loads[l].file # NoFile
    /\ temp = NoFile => "command" \in upset /\ (final = NoFile \/ AboutToWipe)
WipesOldFile ==
  op.pc = "wipe" /\ "final" \notin op.todo /\ final # NoFile => ~Busy

\* A buffer is complete only once its download is, and a load that arrived has
\* its file in place until a command or a fault takes it.
CompleteArrived == \A l \in Loads : loads[l].buf = "complete" => loads[l].dl = "complete"
ArrivedHasFile == upset = {} /\ active # NoSlot /\ Arrived(active) => final # NoFile

\* Memory is not older than the entry, and empty while the URL is fetched.
MemoryNew == mem \in Versions /\ (final # NoFile \/ Busy) => entry <= mem
MemoryEmpty == op.pc \in {"request", "fetch"} => mem = Absent

StepInv ==
  /\ InTable /\ KnownToServer /\ SourcesNew /\ FileNew /\ LoadInFile /\ TempWritten
  /\ WipesOldFile /\ CompleteArrived /\ ArrivedHasFile /\ MemoryNew /\ MemoryEmpty

\* Versions are numbers, and no version is absent or torn.
LEMMA Numbers ==
  ASSUME TypeOK
  PROVE  /\ server \in Nat /\ entry \in Nat /\ op.ver \in Nat
         /\ \A l \in Loads : loads[l].ver \in Nat
         /\ Versions \subseteq Nat /\ Absent = 0 /\ Absent \notin Versions
         /\ Torn \notin Versions
         /\ final # NoFile => content[final][1] \in Nat
         /\ entry # Absent => entry \in Versions
<1>1. server \in Nat /\ entry \in Nat /\ Versions \subseteq Nat /\ Absent = 0
      /\ Absent \notin Versions /\ Torn \notin Versions
      /\ (entry # Absent => entry \in Versions)
  BY VersionsAssumption, SMT DEF TypeOK, Versions, Absent, Torn
<1>2. op.ver \in Nat
  BY VersionsAssumption, SMT DEF TypeOK, OpStates
<1>3. \A l \in Loads : loads[l].ver \in Nat
  BY VersionsAssumption, SMT DEF TypeOK, LoadStates
<1>4. final # NoFile => content[final][1] \in Nat
  BY ChunksAssumption, VersionsAssumption, SMT DEF TypeOK
<1>5. QED BY <1>1, <1>2, <1>3, <1>4

\* What is in the file stays in it, as long as no file is put in place.
LEMMA InFileKept ==
  ASSUME TypeOK, TypeOK', NewerOrGone, final' \in {final, NoFile},
         NEW v, InFile(v)
  PROVE  InFile(v)'
<1>1. SUFFICES ASSUME final' # NoFile, v \in Versions
               PROVE  v <= content'[final'][1]
  BY DEF InFile, Versions
<1>2. v <= content[final][1] /\ content[final][1] <= content'[final'][1]
  BY <1>1 DEF InFile, NewerOrGone
<1>3. v \in Nat /\ content[final][1] \in Nat /\ content'[final'][1] \in Nat
  <2>1. content'[final'][1] \in Nat
    BY <1>1, ChunksAssumption, VersionsAssumption, SMT DEF TypeOK
  <2>2. QED BY <1>1, <2>1, Numbers
<1>4. QED BY <1>2, <1>3, SMT

\* What a step that starts no load does to the loads: their downloads go on or
\* end, and a download that opens its file has one.
LoadsGoOn ==
  \A l \in Loads :
    /\ Running(l)' => Running(l)
    /\ Arrived(l)' => Arrived(l)
    /\ Running(l)' \/ Arrived(l)' => loads'[l].ver = loads[l].ver
    /\ loads'[l].ver \in {loads[l].ver, 0}
    /\ loads'[l].buf = "complete" => loads'[l].dl = "complete"
    /\ loads'[l].dl = "streaming" =>
         \/ loads[l].dl = "streaming" /\ loads'[l].file = loads[l].file /\ temp' = temp
         \/ loads'[l].file # NoFile /\ temp' # NoFile
         \/ /\ loads[l].dl = "streaming" /\ loads'[l].file = loads[l].file
            /\ "command" \in upset' /\ (final' = NoFile \/ AboutToWipe')

\* And to the operation: it opens no file, and what cache_clear has before it
\* is removed or stays before it.
OpGoesOn ==
  /\ op'.ver \in {0, op.ver}
  /\ op'.pc \in {"request", "refresh", "fetch"} => op'.pc = op.pc /\ op'.ver = op.ver
  /\ op'.pc = "wipe" /\ "final" \notin op'.todo =>
       final' = NoFile \/ (op.pc = "wipe" /\ "final" \notin op.todo)
  /\ AboutToWipe => AboutToWipe' \/ final' = NoFile \/ \A l \in Loads : loads'[l].dl = "none"

\* StepInv survives a step that puts no file in place and fetches nothing new.
LEMMA Quiet ==
  ASSUME TypeOK, TypeOK', NewerOrGone, StepInv,
         server' >= server, upset \subseteq upset', LoadsGoOn, OpGoesOn,
         active' \in {active, NoSlot},
         saved' \in {saved, Torn, entry}, final' \in {final, NoFile},
         \/ mem' \in {mem, Absent} /\ entry' \in {entry, Absent}
         \/ mem' = Absent /\ entry' = saved /\ saved \in Versions,
         final' = final \/ upset' # {} \/ active' = NoSlot
  PROVE  StepInv'
<1>1. /\ server \in Nat /\ entry \in Nat /\ op.ver \in Nat /\ server' \in Nat
      /\ \A l \in Loads : loads[l].ver \in Nat
      /\ Versions \subseteq Nat /\ Absent = 0 /\ Absent \notin Versions
      /\ Torn \notin Versions
  BY Numbers, VersionsAssumption, SMT DEF TypeOK, Versions, Absent
<1>2. active' # NoSlot => active' = active /\ active \in Loads
  BY DEF TypeOK
<1>3. entry' \in Nat /\ (entry' = entry \/ entry' = Absent \/ (entry' = saved /\ saved \in Versions))
  <2>1. entry' \in Nat
    BY Numbers, VersionsAssumption, SMT DEF TypeOK, Versions, Absent
  <2>2. QED BY <2>1
<1>4. saved' \in Versions => saved' = saved \/ (saved' = entry /\ entry \in Versions)
  BY <1>1
<1>5. /\ op'.ver \in {0, op.ver}
      /\ op'.pc \in {"request", "refresh", "fetch"} => op'.pc = op.pc /\ op'.ver = op.ver
  BY DEF OpGoesOn
<1>6. KnownToServer'
  <2>1. /\ entry <= server /\ op.ver <= server /\ (saved \in Versions => saved <= server)
        /\ \A l \in Loads : loads[l].ver <= server
    BY DEF StepInv, KnownToServer
  <2>2. \A n \in Nat : n <= server => n <= server'
    BY <1>1, SMT
  <2>3. 0 <= server
    BY <1>1, SMT
  <2>4. \A l \in Loads : loads'[l].ver <= server'
    BY <1>1, <2>1, <2>2, <2>3 DEF LoadsGoOn
  <2>5. entry' <= server' /\ op'.ver <= server'
    BY <1>1, <1>3, <1>5, <2>1, <2>2, <2>3
  <2>6. saved' \in Versions => saved' <= server'
    BY <1>1, <1>4, <2>1, <2>2
  <2>7. QED BY <2>4, <2>5, <2>6 DEF KnownToServer
<1>7. SourcesNew'
  <2>1. ASSUME NEW ver \in Nat, Supersedes(ver) PROVE Supersedes(ver)'
    <3>1. entry' <= ver
      BY <1>1, <1>3, <2>1, SMT DEF Supersedes
    <3>2. saved' \in Versions => saved' <= ver
      BY <1>4, <2>1 DEF Supersedes
    <3>3. QED BY <3>1, <3>2 DEF Supersedes
  <2>2. \A l \in Loads : Running(l)' => Supersedes(loads[l].ver)'
    BY <1>1, <2>1 DEF StepInv, SourcesNew, LoadsGoOn
  <2>3. ASSUME op'.pc \in {"refresh", "fetch"}
        PROVE  Supersedes(op.ver)' /\ (active' # NoSlot => loads'[active'].ver <= op'.ver)
    <3>1. op'.pc = op.pc /\ op'.ver = op.ver
      BY <1>5, <2>3
    <3>2. Supersedes(op.ver) /\ (active # NoSlot => loads[active].ver <= op.ver)
      BY <2>3, <3>1 DEF StepInv, SourcesNew
    <3>3. active' # NoSlot => loads'[active].ver \in {loads[active].ver, 0}
      BY <1>2 DEF LoadsGoOn
    <3>4. active' # NoSlot => loads'[active'].ver <= op'.ver
      BY <1>1, <1>2, <3>1, <3>2, <3>3, SMT
    <3>5. QED BY <1>1, <2>1, <3>1, <3>2, <3>4
  <2>4. QED BY <2>2, <2>3 DEF SourcesNew
<1>8. FileNew'
  <2>1. InFile(entry) /\ InFile(saved)
    BY DEF StepInv, FileNew
  <2>2. InFile(Absent) /\ InFile(Torn)
    BY <1>1 DEF InFile
  <2>3. ASSUME NEW v, InFile(v) PROVE InFile(v)'
    BY <2>3, InFileKept
  <2>4. QED BY <1>3, <2>1, <2>2, <2>3 DEF FileNew
<1>9. LoadInFile'
  <2>1. SUFFICES ASSUME active' # NoSlot, Arrived(active)', ~AboutToWipe', final' # NoFile
                 PROVE  InFile(loads[active].ver)'
    BY DEF LoadInFile, InFile
  <2>2. active' = active /\ Arrived(active) /\ loads'[active].ver = loads[active].ver
    BY <1>2, <2>1 DEF LoadsGoOn, Arrived
  <2>3. ~AboutToWipe
    BY <1>2, <2>1 DEF OpGoesOn, Arrived
  <2>4. InFile(loads[active].ver)
    BY <2>1, <2>2, <2>3 DEF StepInv, LoadInFile
  <2>5. ASSUME NEW v, InFile(v) PROVE InFile(v)'
    BY <2>5, InFileKept
  <2>6. QED BY <2>2, <2>4, <2>5
<1>10. TempWritten'
  <2>1. SUFFICES ASSUME NEW l \in Loads, loads'[l].dl = "streaming"
                 PROVE  /\ loads'[l].file # NoFile
                        /\ temp' = NoFile =>
                             "command" \in upset' /\ (final' = NoFile \/ AboutToWipe')
    BY DEF TempWritten
  <2>2. CASE loads[l].dl = "streaming" /\ loads'[l].file = loads[l].file /\ temp' = temp
    <3>1. /\ loads[l].file # NoFile
          /\ temp = NoFile => "command" \in upset /\ (final = NoFile \/ AboutToWipe)
      BY <2>1, <2>2 DEF StepInv, TempWritten
    <3>2. AboutToWipe => AboutToWipe' \/ final' = NoFile
      BY <2>1 DEF OpGoesOn
    <3>3. QED BY <2>2, <3>1, <3>2
  <2>3. CASE loads'[l].file # NoFile /\ temp' # NoFile
    BY <2>3
  <2>4. CASE /\ loads[l].dl = "streaming" /\ loads'[l].file = loads[l].file
             /\ "command" \in upset' /\ (final' = NoFile \/ AboutToWipe')
    BY <2>1, <2>4 DEF StepInv, TempWritten
  <2>5. QED BY <2>1, <2>2, <2>3, <2>4 DEF LoadsGoOn
<1>11. Busy' => Busy
  BY DEF Busy, LoadsGoOn
<1>12. WipesOldFile' /\ InTable'
  BY <1>11 DEF StepInv, WipesOldFile, InTable, LoadsGoOn, OpGoesOn
<1>13. CompleteArrived'
  BY DEF CompleteArrived, LoadsGoOn
<1>14. ArrivedHasFile'
  <2>1. SUFFICES ASSUME upset' = {}, active' # NoSlot, Arrived(active)'
                 PROVE  final' # NoFile
    BY DEF ArrivedHasFile
  <2>2. upset = {} /\ active' = active /\ Arrived(active)
    BY <1>2, <2>1 DEF LoadsGoOn, Arrived
  <2>3. final' = final
    BY <2>1
  <2>4. QED BY <2>1, <2>2, <2>3 DEF StepInv, ArrivedHasFile
<1>15. MemoryNew'
  <2>1. SUFFICES ASSUME mem' \in Versions, final' # NoFile \/ Busy'
                 PROVE  entry' <= mem'
    BY DEF MemoryNew
  <2>2. mem' = mem /\ (final # NoFile \/ Busy) /\ (entry' = entry \/ entry' = 0)
    BY <1>1, <1>11, <2>1
  <2>3. entry <= mem
    BY <2>1, <2>2 DEF StepInv, MemoryNew
  <2>4. mem' \in Nat
    BY <1>1, <2>1
  <2>5. QED BY <2>2, <2>3, <2>4, SMT
<1>16. MemoryEmpty'
  <2>1. mem = Absent => mem' = Absent
    OBVIOUS
  <2>2. QED BY <1>5, <2>1 DEF StepInv, MemoryEmpty
<1>17. QED
  BY <1>6, <1>7, <1>8, <1>9, <1>10, <1>12, <1>13, <1>14, <1>15, <1>16 DEF StepInv

\* A load that is left alone goes on, if its file is.
LEMMA LoadsSame ==
  ASSUME TypeOK, StepInv, loads' = loads,
         temp' = temp \/ \A l \in Loads : ~Running(l)
  PROVE  LoadsGoOn
  BY DEF LoadsGoOn, Running, Arrived, StepInv, CompleteArrived

\* Where Step and Saving leave the operation's body and its work.
LEMMA Works ==
  /\ \A kind, pc : Step(kind, pc).ver = 0 /\ Step(kind, pc).todo = {}
  /\ \A kind, then : Saving(kind, then).ver = 0 /\ Saving(kind, then).todo = {}
  /\ Idle.ver = 0 /\ Idle.todo = {}
<1>1. \A kind, pc : Step(kind, pc).ver = 0 /\ Step(kind, pc).todo = {}
  BY DEF Step
<1>2. \A kind, then : Saving(kind, then).ver = 0 /\ Saving(kind, then).todo = {}
  BY DEF Step, Saving
<1>3. Idle.ver = 0 /\ Idle.todo = {}
  BY DEF Idle, Step
<1>4. QED BY <1>1, <1>2, <1>3

\* Steps of an operation that put no file in place.
LEMMA OperationQuiet ==
  ASSUME TypeOK, TypeOK', FileInv, NewerOrGone, StepInv, Undisturbed',
         \/ BeginSave \/ EndSave \/ SaveFails
         \/ NotDue \/ AskServer \/ Unreachable \/ NotModified
         \/ ReceiveBody \/ BodyFails \/ StoreFails
         \/ ServeMemory \/ Join \/ RequestFails \/ WipeFails \/ WipeEntries
  PROVE  StepInv'
<1>1. UNCHANGED <<server, mem, final, active, loads>> /\ upset \subseteq upset'
      /\ server' >= server
  <2>1. UNCHANGED <<server, mem, final, active, loads>> /\ upset \subseteq upset'
    BY DEF BeginSave, EndSave, SaveFails, NotDue, AskServer, Unreachable,
           NotModified, ReceiveBody, BodyFails, StoreFails, ServeMemory, Join,
           RequestFails, WipeFails, WipeEntries, fileVars
  <2>2. QED BY <2>1, Numbers, SMT
<1>2. saved' \in {saved, Torn, entry} /\ entry' \in {entry, Absent}
  BY DEF BeginSave, EndSave, SaveFails, NotDue, AskServer, Unreachable,
         NotModified, ReceiveBody, BodyFails, StoreFails, ServeMemory, Join,
         RequestFails, WipeFails, WipeEntries, fileVars
<1>3. temp' = temp \/ \A l \in Loads : ~Running(l)
  <2>1. CASE BodyFails
    BY <2>1, NoneOpen DEF BodyFails
  <2>2. CASE ~BodyFails
    BY <2>2
       DEF BeginSave, EndSave, SaveFails, NotDue, AskServer, Unreachable,
           NotModified, ReceiveBody, StoreFails, ServeMemory, Join,
           RequestFails, WipeFails, WipeEntries, fileVars
  <2>3. QED BY <2>1, <2>2
<1>4. LoadsGoOn
  BY <1>1, <1>3, LoadsSame
<1>5. OpGoesOn
  <2>1. \/ \E kind : op' \in {Step(kind, "idle"), Step(kind, "due"), Step(kind, "ask"),
                              Step(kind, "serve")}
        \/ \E kind, then : op' = Saving(kind, then)
        \/ op' = Idle
        \/ op'.pc \in {"torn", op.pc} /\ op'.ver = op.ver /\ op.pc # "wipe"
    <3>1. op.then \in {"idle", "due", "serve"} /\ op \in OpStates
      BY DEF TypeOK, OpStates
    <3>2. [op EXCEPT !.pc = "torn"].pc = "torn" /\ [op EXCEPT !.pc = "torn"].ver = op.ver
          /\ [op EXCEPT !.sent = @ + 1].pc = op.pc /\ [op EXCEPT !.sent = @ + 1].ver = op.ver
      BY <3>1 DEF OpStates
    <3>3. CASE BeginSave \/ ReceiveBody
      BY <3>2, <3>3 DEF BeginSave, ReceiveBody
    <3>4. CASE \/ EndSave \/ SaveFails
      BY <3>1, <3>4 DEF EndSave, SaveFails
    <3>5. CASE \/ NotDue \/ AskServer \/ Unreachable \/ NotModified
               \/ ServeMemory \/ Join \/ RequestFails \/ WipeFails \/ WipeEntries
      BY <3>5 DEF NotDue, AskServer, Unreachable, NotModified, ServeMemory, Join,
                  RequestFails, WipeFails, WipeEntries
    <3>6. CASE BodyFails \/ StoreFails
      BY <3>6 DEF BodyFails, StoreFails, GivenUp
    <3>7. QED BY <3>3, <3>4, <3>5, <3>6
  <2>2. op'.ver \in {0, op.ver} /\ op'.pc # "wipe"
        /\ (op'.pc \in {"request", "refresh", "fetch"} => op'.pc = op.pc /\ op'.ver = op.ver)
    BY <2>1, Places, Works
  <2>3. AboutToWipe => \A l \in Loads : loads'[l].dl = "none"
    BY DEF AboutToWipe, Undisturbed, BeginSave, EndSave, SaveFails, NotDue, AskServer,
           Unreachable, NotModified, ReceiveBody, BodyFails, StoreFails,
           ServeMemory, Join, RequestFails, WipeFails, WipeEntries
  <2>4. QED BY <2>2, <2>3 DEF OpGoesOn
<1>6. QED BY <1>1, <1>2, <1>4, <1>5, Quiet

\* cache_clear takes the URL's files away one by one.
LEMMA WipeQuiet ==
  ASSUME TypeOK, TypeOK', FileInv, NewerOrGone, StepInv,
         NEW p \in {"temp", "final"}, WipeFile(p)
  PROVE  StepInv'
<1>1. /\ UNCHANGED <<server, mem, entry, saved, active, loads>>
      /\ upset' = upset \cup {"command"} /\ op.pc = "wipe" /\ p \in op.todo
      /\ server' >= server
  <2>1. UNCHANGED <<server, mem, entry, saved, active, loads>>
    BY DEF WipeFile
  <2>2. QED BY <2>1, Numbers, SMT DEF WipeFile
<1>2. \/ op' = Idle /\ temp' = temp /\ final' = final /\ (p = "final" => final = NoFile)
      \/ /\ op'.pc = op.pc /\ op'.ver = op.ver /\ op'.todo = op.todo \ {p}
         /\ \/ p = "temp" /\ temp' = NoFile /\ final' = final
            \/ p = "final" /\ temp' = temp /\ final' = NoFile
  <2>1. [op EXCEPT !.todo = @ \ {p}].pc = op.pc /\ [op EXCEPT !.todo = @ \ {p}].ver = op.ver
        /\ [op EXCEPT !.todo = @ \ {p}].todo = op.todo \ {p}
    BY DEF TypeOK, OpStates
  <2>2. QED BY <2>1 DEF WipeFile
<1>3. op.todo \subseteq {"temp", "final"}
  BY DEF TypeOK, OpStates
<1>4. OpGoesOn
  <2>1. CASE op' = Idle
    BY <1>1, <1>2, <2>1, Places, Works DEF OpGoesOn, AboutToWipe
  <2>2. CASE op' # Idle
    BY <1>1, <1>2, <1>3, <2>2 DEF OpGoesOn, AboutToWipe
  <2>3. QED BY <2>1, <2>2
<1>5. LoadsGoOn
  <2>1. CASE temp' = temp
    BY <1>1, <2>1, LoadsSame
  <2>2. CASE temp' # temp
    <3>1. final' = final /\ op'.pc = "wipe" /\ op'.todo \subseteq {"final"}
      BY <1>1, <1>2, <1>3, <2>2
    <3>2. final' = NoFile \/ AboutToWipe' \/ \A l \in Loads : ~Running(l)
      <4>1. CASE "final" \in op.todo
        BY <1>1, <1>2, <2>2, <3>1, <4>1 DEF AboutToWipe
      <4>2. CASE "final" \notin op.todo
        BY <1>1, <3>1, <4>2 DEF StepInv, WipesOldFile, Busy
      <4>3. QED BY <4>1, <4>2
    <3>3. QED
      BY <1>1, <3>2
         DEF LoadsGoOn, Running, Arrived, StepInv, CompleteArrived
  <2>3. QED BY <2>1, <2>2
<1>6. QED BY <1>1, <1>2, <1>4, <1>5, Quiet

\* The steps that are not of an operation under way, a load or the table.
LEMMA WorldQuiet ==
  ASSUME TypeOK, TypeOK', FileInv, NewerOrGone, StepInv,
         \/ StartServing \/ Publish \/ EvictedByOthers \/ ClearAll \/ Invalidate
         \/ Restart \/ UNCHANGED vars
  PROVE  StepInv'
<1>1. server' >= server /\ upset \subseteq upset'
      /\ temp' = temp /\ final' \in {final, NoFile}
  <2>1. server' \in {server, server + 1}
    BY DEF StartServing, Publish, EvictedByOthers, ClearAll, Invalidate, Restart, vars
  <2>2. upset \subseteq upset' /\ temp' = temp /\ final' \in {final, NoFile}
    BY DEF StartServing, Publish, EvictedByOthers, ClearAll, Invalidate, Restart,
           vars, fileVars
  <2>3. QED BY <2>1, <2>2, Numbers, SMT
<1>2. CASE Restart
  <2>1. /\ active' = NoSlot /\ \A l \in Loads : loads'[l] = NoLoad
        /\ op' = Idle /\ mem' = Absent /\ saved' = saved /\ final' = final
        /\ entry' \in {Absent, saved} /\ (entry' # Absent => saved \in Versions)
    BY <1>2 DEF Restart, Reloaded, TypeOK
  <2>2. LoadsGoOn
    BY <2>1 DEF LoadsGoOn, Running, Arrived, NoLoad
  <2>3. OpGoesOn
    BY <2>1, Places, Works DEF OpGoesOn, NoLoad
  <2>4. QED BY <1>1, <2>1, <2>2, <2>3, Quiet
<1>3. CASE ~Restart
  <2>1. /\ loads' = loads /\ active' = active /\ saved' = saved
        /\ mem' \in {mem, Absent} /\ entry' \in {entry, Absent}
        /\ final' = final \/ upset' # {}
    BY <1>3 DEF StartServing, Publish, EvictedByOthers, ClearAll, Invalidate, vars, fileVars
  <2>2. \/ op' = op
        \/ /\ op = Idle /\ op'.pc = "wipe" /\ op'.ver = 0 /\ final' = final
           /\ final # NoFile => "final" \in op'.todo
    <3>1. ASSUME NEW S
          PROVE  /\ [Step("clear", "wipe") EXCEPT !.todo = S].pc = "wipe"
                 /\ [Step("clear", "wipe") EXCEPT !.todo = S].ver = 0
                 /\ [Step("clear", "wipe") EXCEPT !.todo = S].todo = S
      BY DEF Step
    <3>2. QED
      BY <1>3, <3>1
         DEF StartServing, Publish, EvictedByOthers, ClearAll, Invalidate, vars, fileVars
  <2>3. OpGoesOn
    BY <2>2, Places DEF OpGoesOn, AboutToWipe
  <2>4. LoadsGoOn
    BY <1>1, <2>1, LoadsSame
  <2>5. QED BY <1>1, <2>1, <2>3, <2>4, Quiet
<1>4. QED BY <1>2, <1>3

\* A decoder stops with an error, or once its download is over.
LEMMA DecoderQuiet ==
  ASSUME TypeOK, TypeOK', FileInv, NewerOrGone, StepInv, Undisturbed',
         NEW l \in Loads, Decoder(l)
  PROVE  StepInv'
<1>1. DecodeEnds(l) => loads[l].dl = "complete"
  BY DEF DecodeEnds, BodyOver, Undisturbed
<1>2. PICK r : /\ loads' = [loads EXCEPT ![l] = r]
                  \/ loads' = Retired([loads EXCEPT ![l] = r], active)
               /\ r.dl = loads[l].dl /\ r.ver = loads[l].ver /\ r.file = loads[l].file
               /\ r.buf = "complete" => loads[l].dl = "complete"
  <2>1. loads[l] \in LoadStates
    BY DEF TypeOK
  <2>2. ASSUME NEW buf, NEW b
        PROVE  LET s == [loads[l] EXCEPT !.dec = "stopped", !.buf = buf, !.cancelled = b]
               IN  /\ s.dl = loads[l].dl /\ s.ver = loads[l].ver
                   /\ s.file = loads[l].file /\ s.buf = buf
    BY <2>1, SMT DEF LoadStates
  <2>3. LET s == [loads[l] EXCEPT !.dec = "erring", !.buf = "error"]
        IN  /\ s.dl = loads[l].dl /\ s.ver = loads[l].ver
            /\ s.file = loads[l].file /\ s.buf = "error"
    BY <2>1, SMT DEF LoadStates
  <2>4. CASE DecodeEnds(l)
    <3> DEFINE s == [loads[l] EXCEPT !.dec = "stopped", !.buf = "complete",
                                     !.cancelled = Unsettled(l)]
    <3>1. loads' = Retired([loads EXCEPT ![l] = s], active)
      BY <2>4 DEF DecodeEnds, Stopped
    <3>2. s.dl = loads[l].dl /\ s.ver = loads[l].ver /\ s.file = loads[l].file
      BY <2>2
    <3>3. QED
      <4> HIDE DEF s
      <4> QED BY <1>1, <2>4, <3>1, <3>2
  <2>5. CASE InitFails(l) \/ DropReader(l)
    <3> DEFINE s == [loads[l] EXCEPT !.dec = "stopped", !.buf = "error",
                                     !.cancelled = Unsettled(l)]
    <3>1. loads' = Retired([loads EXCEPT ![l] = s], active)
      BY <2>5 DEF InitFails, DropReader, Stopped
    <3>2. /\ s.dl = loads[l].dl /\ s.ver = loads[l].ver /\ s.file = loads[l].file
          /\ s.buf = "error"
      BY <2>2
    <3>3. QED
      <4> HIDE DEF s
      <4> QED BY <3>1, <3>2
  <2>6. CASE DecodeFails(l)
    <3> DEFINE s == [loads[l] EXCEPT !.dec = "erring", !.buf = "error"]
    <3>1. loads' = [loads EXCEPT ![l] = s]
      BY <2>6, Zenon DEF DecodeFails
    <3>2. /\ s.dl = loads[l].dl /\ s.ver = loads[l].ver /\ s.file = loads[l].file
          /\ s.buf = "error"
      BY <2>3
    <3>3. QED
      <4> HIDE DEF s
      <4> QED BY <3>1, <3>2
  <2>7. QED BY <2>4, <2>5, <2>6 DEF Decoder
<1>3. /\ [loads EXCEPT ![l] = r][l] = r
      /\ \A k \in Loads \ {l} : [loads EXCEPT ![l] = r][k] = loads[k]
  BY DEF TypeOK
<1>4. \A k \in Loads : loads'[k] \in {[loads EXCEPT ![l] = r][k], NoLoad}
  BY <1>2 DEF Retired
<1>5. /\ loads'[l] \in {r, NoLoad}
      /\ \A k \in Loads \ {l} : loads'[k] \in {loads[k], NoLoad}
  BY <1>3, <1>4
<1>6. UNCHANGED <<server, mem, entry, saved, temp, final, active, op>>
      /\ upset \subseteq upset' /\ server' >= server
  <2>1. UNCHANGED <<server, mem, entry, saved, temp, final, active, op>>
        /\ upset \subseteq upset'
    BY DEF Decoder, DecodeEnds, InitFails, DecodeFails, DropReader, fileVars
  <2>2. QED BY <2>1, Numbers, SMT
<1>7. LoadsGoOn
  BY <1>1, <1>2, <1>5, <1>6
     DEF LoadsGoOn, Running, Arrived, StepInv, CompleteArrived, NoLoad
<1>8. OpGoesOn
  BY <1>6 DEF OpGoesOn, AboutToWipe
<1>9. QED BY <1>6, <1>7, <1>8, Quiet

\* A download opens its file, receives, and ends without a file in place.
LEMMA DownloadQuiet ==
  ASSUME TypeOK, TypeOK', FileInv, NewerOrGone, StepInv, Undisturbed',
         NEW l \in Loads,
         \/ OpenTemp(l) \/ ReceiveChunk(l)
         \/ NoticeCancel(l) \/ DownloadFails(l) \/ MarkDownloaded(l)
  PROVE  StepInv'
<1>1. UNCHANGED <<server, mem, entry, saved, final, active, op>>
      /\ upset \subseteq upset' /\ server' >= server
  <2>1. UNCHANGED <<server, mem, entry, saved, final, active, op>> /\ upset \subseteq upset'
    BY DEF OpenTemp, ReceiveChunk, NoticeCancel, DownloadFails, MarkDownloaded, fileVars
  <2>2. QED BY <2>1, Numbers, SMT
<1>2. loads \in [Loads -> LoadStates] /\ loads[l] \in LoadStates
  BY DEF TypeOK
<1>3. PICK r : /\ loads' = [loads EXCEPT ![l] = r]
                  \/ loads' = Retired([loads EXCEPT ![l] = r], active)
               /\ r.ver = loads[l].ver /\ r.buf = loads[l].buf
               /\ \/ /\ loads[l].dl = "spawned" /\ r.dl = "streaming"
                     /\ r.file # NoFile /\ temp' # NoFile
                  \/ /\ loads[l].dl = "streaming" /\ r.dl = "streaming"
                     /\ r.file = loads[l].file /\ temp' = temp
                  \/ loads[l].dl = "streaming" /\ r.dl = "failed"
                  \/ loads[l].dl = "renamed" /\ r.dl = "complete" /\ temp' = temp
  <2>1. CASE OpenTemp(l)
    <3> DEFINE s == [loads[l] EXCEPT !.dl = "streaming", !.file = Created]
               t == [loads[l] EXCEPT !.dl = "streaming"]
    <3>1. \/ loads' = [loads EXCEPT ![l] = s] /\ temp' = Created /\ CanCreate
          \/ loads' = [loads EXCEPT ![l] = t] /\ "fault" \in upset'
      BY <2>1, Zenon DEF OpenTemp
    <3>2. /\ s.dl = "streaming" /\ s.file = Created /\ s.ver = loads[l].ver
          /\ s.buf = loads[l].buf
          /\ t.dl = "streaming" /\ t.ver = loads[l].ver /\ t.buf = loads[l].buf
      <4> HIDE DEF Created
      <4> QED BY <1>2, Zenon DEF LoadStates
    <3>3. CanCreate => Created # NoFile
      BY CreatedFresh, NamesAssumption
    <3>4. loads[l].dl = "spawned"
      BY <2>1 DEF OpenTemp
    <3>5. QED
      <4> HIDE DEF s, t
      <4> QED BY <3>1, <3>2, <3>3, <3>4 DEF Undisturbed
  <2>2. CASE ReceiveChunk(l)
    <3> DEFINE n == loads[l].sent + 1
               s == [loads[l] EXCEPT !.sent = n]
               t == [loads[l] EXCEPT !.sent = n, !.file = NoFile]
    <3>1. \/ loads' = [loads EXCEPT ![l] = s] /\ temp' = temp
          \/ loads' = [loads EXCEPT ![l] = t] /\ "fault" \in upset'
      BY <2>2, Zenon DEF ReceiveChunk
    <3>2. /\ s.dl = loads[l].dl /\ s.file = loads[l].file /\ s.ver = loads[l].ver
          /\ s.buf = loads[l].buf
          /\ t.dl = loads[l].dl /\ t.ver = loads[l].ver /\ t.buf = loads[l].buf
      <4> HIDE DEF n
      <4> QED BY <1>2, Zenon DEF LoadStates
    <3>3. loads[l].dl = "streaming"
      BY <2>2 DEF ReceiveChunk
    <3>4. QED
      <4> HIDE DEF s, t
      <4> QED BY <3>1, <3>2, <3>3 DEF Undisturbed
  <2>3. CASE NoticeCancel(l) \/ DownloadFails(l)
    <3> DEFINE s == [loads[l] EXCEPT !.dl = "failed", !.file = NoFile]
    <3>1. loads' = Retired([loads EXCEPT ![l] = s], active) /\ loads[l].dl = "streaming"
      BY <2>3, Zenon DEF NoticeCancel, DownloadFails, Failed
    <3>2. s.dl = "failed" /\ s.ver = loads[l].ver /\ s.buf = loads[l].buf
      BY <1>2, Zenon DEF LoadStates
    <3>3. QED
      <4> HIDE DEF s
      <4> QED BY <3>1, <3>2
  <2>4. CASE MarkDownloaded(l)
    <3> DEFINE s == [loads[l] EXCEPT !.dl = "complete"]
    <3>1. loads' = Retired([loads EXCEPT ![l] = s], active) /\ loads[l].dl = "renamed"
          /\ temp' = temp
      BY <2>4, Zenon DEF MarkDownloaded, fileVars
    <3>2. s.dl = "complete" /\ s.ver = loads[l].ver /\ s.buf = loads[l].buf
      BY <1>2, Zenon DEF LoadStates
    <3>3. QED
      <4> HIDE DEF s
      <4> QED BY <3>1, <3>2
  <2>5. QED BY <2>1, <2>2, <2>3, <2>4
<1>4. \A k \in Loads \ {l} : loads'[k] \in {loads[k], NoLoad}
  BY <1>2, <1>3 DEF Retired
<1>5. loads'[l] \in {r, NoLoad}
  BY <1>2, <1>3 DEF Retired
<1>6. Running(l) => \A k \in Loads \ {l} : ~Running(k)
  BY OnlyOne
<1>7. loads[l].dl = "spawned" \/ loads[l].dl = "streaming" => loads[l].buf # "complete"
  BY DEF StepInv, CompleteArrived
<1>8. ASSUME NEW k \in Loads
      PROVE  /\ Running(k)' => Running(k)
             /\ Arrived(k)' => Arrived(k)
             /\ Running(k)' \/ Arrived(k)' => loads'[k].ver = loads[k].ver
             /\ loads'[k].ver \in {loads[k].ver, 0}
             /\ loads'[k].buf = "complete" => loads'[k].dl = "complete"
  BY <1>3, <1>4, <1>5, <1>7
     DEF Running, Arrived, StepInv, CompleteArrived, NoLoad
<1>9. ASSUME NEW k \in Loads, loads'[k].dl = "streaming"
      PROVE  \/ loads[k].dl = "streaming" /\ loads'[k].file = loads[k].file /\ temp' = temp
             \/ loads'[k].file # NoFile /\ temp' # NoFile
  <2>1. CASE k = l
    BY <1>3, <1>5, <1>9, <2>1 DEF NoLoad
  <2>2. CASE k # l
    BY <1>3, <1>4, <1>6, <1>9, <2>2 DEF Running, NoLoad
  <2>3. QED BY <2>1, <2>2
<1>10. LoadsGoOn
  BY <1>8, <1>9 DEF LoadsGoOn
<1>11. OpGoesOn
  BY <1>1 DEF OpGoesOn, AboutToWipe
<1>12. QED BY <1>1, <1>10, <1>11, Quiet

-----------------------------------------------------------------------------
(* The steps that put a file in place, or start or fold a load.            *)

\* A load that is folded has arrived, and what it leaves the table as is what
\* the file holds.
LEMMA FoldInStep ==
  ASSUME TypeOK, TypeOK', FileInv, StepInv, BootPrecache \/ Play \/ Tick
  PROVE  StepInv'
<1>1. PICK kind : Fold(kind) /\ op = Idle
  BY DEF BootPrecache, Play, Tick
<1>2. /\ UNCHANGED <<server, saved, temp, final, content, upset>>
      /\ active' \in {active, NoSlot} /\ (Completed => active' = NoSlot)
      /\ mem' = IF Completed THEN loads[active].ver ELSE mem
      /\ entry' = IF Registers THEN loads[active].ver ELSE entry
      /\ Registers => Completed /\ final # NoFile
      /\ Completed /\ final # NoFile => Registers
  BY <1>1 DEF Fold, Finished, Completed, Registers, Validators, fileVars
<1>3. \A l \in Loads : loads'[l] \in {loads[l], NoLoad}
  BY <1>1 DEF Fold, Retired
<1>4. /\ op'.pc \in {"save", "idle", "due"} /\ op'.ver = 0
      /\ op.pc = "idle" /\ ~AboutToWipe
  BY <1>1, Places, Works DEF Fold, AfterFold, AboutToWipe
<1>5. Completed =>
        /\ active \in Loads /\ active # NoSlot /\ loads[active].dl = "complete"
        /\ loads[active].ver \in Nat /\ loads[active].ver <= server
        /\ InFile(loads[active].ver)
  <2>1. SUFFICES ASSUME Completed
                 PROVE  /\ active \in Loads /\ active # NoSlot
                        /\ loads[active].dl = "complete"
                        /\ loads[active].ver \in Nat /\ loads[active].ver <= server
                        /\ InFile(loads[active].ver)
    OBVIOUS
  <2>2. active \in Loads /\ active # NoSlot
    BY <2>1 DEF Completed, TypeOK
  <2>3. loads[active].dl = "complete"
    BY <2>1, <2>2 DEF Completed, StepInv, CompleteArrived
  <2>4. loads[active].ver \in Nat
    BY <2>2, Numbers
  <2>5. loads[active].ver <= server
    BY <2>2 DEF StepInv, KnownToServer
  <2>6. InFile(loads[active].ver)
    BY <1>4, <2>2, <2>3 DEF StepInv, LoadInFile, Arrived
  <2>7. QED BY <2>2, <2>3, <2>4, <2>5, <2>6
<1>6. Completed => ~Busy
  BY <1>5 DEF StepInv, InTable, Busy, Running
<1>7. \A l \in Loads : Running(l)' => Running(l) /\ loads'[l] = loads[l] /\ ~Completed
  BY <1>3, <1>6 DEF Running, Busy, NoLoad
<1>8. \A v : InFile(v)' <=> InFile(v)
  BY <1>2 DEF InFile, Versions
<1>9. active' # NoSlot => active' = active /\ active \in Loads
  BY <1>2 DEF TypeOK
<1>10. InTable'
  BY <1>2, <1>7 DEF StepInv, InTable
<1>11. KnownToServer'
  BY <1>2, <1>3, <1>4, <1>5, Numbers, SMT
     DEF StepInv, KnownToServer, NoLoad, Versions
<1>12. SourcesNew'
  <2>1. \A l \in Loads : Running(l)' => entry' = entry /\ saved' = saved
    BY <1>2, <1>7
  <2>2. QED
    BY <1>2, <1>4, <1>7, <2>1 DEF StepInv, SourcesNew, Supersedes, Versions
<1>13. FileNew'
  BY <1>2, <1>5, <1>8 DEF StepInv, FileNew
<1>14. LoadInFile'
  BY <1>3, <1>4, <1>8, <1>9 DEF StepInv, LoadInFile, Arrived, NoLoad
<1>15. TempWritten'
  <2>1. \A l \in Loads : loads'[l].dl = "streaming" => loads'[l] = loads[l]
    BY <1>7 DEF Running
  <2>2. QED
    BY <1>2, <1>4, <2>1 DEF StepInv, TempWritten
<1>16. WipesOldFile' /\ MemoryEmpty'
  BY <1>4 DEF WipesOldFile, MemoryEmpty
<1>17. CompleteArrived' /\ ArrivedHasFile'
  BY <1>2, <1>3, <1>9
     DEF StepInv, CompleteArrived, ArrivedHasFile, Arrived, NoLoad
<1>18. MemoryNew'
  <2>1. Busy' => Busy
    BY <1>7 DEF Busy
  <2>2. CASE Completed
    <3>1. final' # NoFile \/ Busy' => Registers
      BY <1>2, <1>6, <2>1, <2>2
    <3>2. QED BY <1>2, <1>5, <2>2, <3>1, SMT DEF MemoryNew
  <2>3. CASE ~Completed
    BY <1>2, <2>1, <2>3 DEF StepInv, MemoryNew, Versions
  <2>4. QED BY <2>2, <2>3
<1>19. QED
  BY <1>10, <1>11, <1>12, <1>13, <1>14, <1>15, <1>16, <1>17, <1>18 DEF StepInv

\* What is decoded from the file is as new as the file.
LEMMA ServeDiskInStep ==
  ASSUME TypeOK, TypeOK', FileInv, StepInv, ServeDisk
  PROVE  StepInv'
<1>1. /\ UNCHANGED <<server, entry, saved, temp, final, content, upset>>
      /\ active' = NoSlot /\ op.pc = "serve" /\ mem = Absent
      /\ ~Cached => mem' = Absent /\ op' = Step(op.for, "request")
      /\ Cached => mem' \in DecodeCopy /\ op' = Idle
  BY DEF ServeDisk, fileVars
<1>2. \A l \in Loads : loads'[l] \in {loads[l], NoLoad}
  BY DEF ServeDisk, Retired
<1>3. \A l \in Loads : Running(l)' => Running(l) /\ loads'[l] = loads[l]
  BY <1>2 DEF Running, NoLoad
<1>4. op'.pc \in {"idle", "request"} /\ op'.ver = 0 /\ (Cached => op'.pc = "idle")
  BY <1>1, Places, Works
<1>5. KnownToServer'
  BY <1>1, <1>2, <1>4, Numbers, SMT DEF StepInv, KnownToServer, NoLoad, Versions
<1>6. SourcesNew'
  BY <1>1, <1>3, <1>4 DEF StepInv, SourcesNew, Supersedes, Versions
<1>7. TempWritten'
  <2>1. ~AboutToWipe
    BY <1>1 DEF AboutToWipe
  <2>2. \A l \in Loads : loads'[l].dl = "streaming" => loads'[l] = loads[l]
    BY <1>3 DEF Running
  <2>3. QED BY <1>1, <2>1, <2>2 DEF StepInv, TempWritten
<1>8. InTable' /\ WipesOldFile' /\ LoadInFile' /\ ArrivedHasFile'
  BY <1>1, <1>4 DEF InTable, WipesOldFile, LoadInFile, ArrivedHasFile
<1>9. FileNew'
  BY <1>1 DEF StepInv, FileNew, InFile, Versions
<1>10. CompleteArrived'
  BY <1>2 DEF StepInv, CompleteArrived, NoLoad
<1>11. MemoryNew'
  <2>1. SUFFICES ASSUME mem' \in Versions
                 PROVE  entry <= mem'
    BY <1>1 DEF MemoryNew, Versions
  <2>2. Cached
    BY <1>1, <2>1, Numbers
  <2>3. PICK v \in Versions : content[final] = Whole(v)
    BY <2>2 DEF FileInv, WholeAtFinalPath, IsWhole, Cached
  <2>4. mem' = content[final][1]
    BY <1>1, <2>2, <2>3, Zenon DEF DecodeCopy
  <2>5. entry \in Versions
    BY <2>2, Numbers DEF Cached
  <2>6. QED BY <2>2, <2>4, <2>5 DEF StepInv, FileNew, InFile, Cached
<1>12. MemoryEmpty'
  BY <1>1, <1>4 DEF MemoryEmpty
<1>13. QED
  BY <1>5, <1>6, <1>7, <1>8, <1>9, <1>10, <1>11, <1>12 DEF StepInv

\* A body that is asked for is of the version the server has.
LEMMA OpenBodyInStep ==
  ASSUME TypeOK, TypeOK', FileInv, NewerOrGone, StepInv, Undisturbed',
         Modified \/ StartFetch
  PROVE  StepInv'
<1>1. PICK pc \in {"refresh", "fetch"} :
        /\ OpenBody(pc) /\ op.pc \in {"ask", "request"}
        /\ pc = "fetch" => op.pc = "request"
  BY DEF Modified, StartFetch
<1>2. ~Busy
  BY <1>1 DEF OpenBody, Undisturbed
<1>3. UNCHANGED <<server, mem, entry, saved, final, active, loads, upset>>
  BY <1>1, <1>2 DEF OpenBody
<1>4. op'.pc = pc /\ op'.ver = server
  BY <1>1 DEF OpenBody, Step
<1>5. \A l \in Loads : ~Running(l) /\ ~Running(l)'
  BY <1>2, <1>3 DEF Busy, Running
<1>6. \A v : InFile(v) => InFile(v)'
  BY <1>3, InFileKept
<1>7. KnownToServer'
  BY <1>3, <1>4, Numbers, SMT DEF StepInv, KnownToServer, Versions
<1>8. SourcesNew'
  <2>1. active # NoSlot => active \in Loads
    BY DEF TypeOK
  <2>2. QED
    BY <1>3, <1>4, <1>5, <2>1
       DEF StepInv, KnownToServer, SourcesNew, Supersedes, Versions
<1>9. FileNew' /\ LoadInFile'
  <2>1. ~AboutToWipe
    BY <1>1 DEF AboutToWipe
  <2>2. InFile(loads[active].ver) => InFile(loads[active].ver)'
    BY <1>3, <1>6
  <2>3. QED
    BY <1>3, <1>6, <2>1, <2>2 DEF StepInv, FileNew, LoadInFile, Arrived
<1>10. InTable' /\ TempWritten' /\ WipesOldFile' /\ CompleteArrived' /\ ArrivedHasFile'
  BY <1>1, <1>3, <1>4, <1>5
     DEF StepInv, InTable, TempWritten, WipesOldFile, CompleteArrived, ArrivedHasFile,
         Running, Arrived
<1>11. MemoryNew' /\ MemoryEmpty'
  BY <1>1, <1>3, <1>4, <1>5 DEF StepInv, MemoryNew, MemoryEmpty, Busy, Versions
<1>12. QED
  BY <1>7, <1>8, <1>9, <1>10, <1>11 DEF StepInv

\* A body that is stored is not older than anything the index knows.
LEMMA StoreBodyInStep ==
  ASSUME TypeOK, TypeOK', FileInv, StepInv, StoreBody
  PROVE  StepInv'
<1>1. /\ op.pc \in {"refresh", "fetch"} /\ op.file \in Inodes /\ temp = op.file
      /\ Writes(op.file, op.sent, op.ver) /\ op.sent = Chunks
  BY DEF StoreBody, BodyDone, FileInv, WritersOfTemp, TypeOK, OpStates
<1>2. /\ UNCHANGED <<server, saved, active, loads, upset>> /\ entry' = op.ver
      /\ final' = op.file /\ temp' = NoFile /\ final' # NoFile
      /\ mem' = IF op.pc = "refresh" THEN Absent ELSE mem
  BY <1>1 DEF StoreBody, StaleCopyDropped
<1>3. op'.pc = "save" /\ op'.ver \in {0, op.ver}
  <2>1. ASSUME NEW v
        PROVE  /\ [Saving(op.for, "serve") EXCEPT !.ver = v].pc = "save"
               /\ [Saving(op.for, "serve") EXCEPT !.ver = v].ver = v
    BY DEF Saving, Step
  <2>2. QED BY <2>1, Zenon DEF StoreBody
<1>4. content'[final'][1] = op.ver /\ op.ver \in Versions
  <2>1. content[op.file][1] = op.ver
    BY <1>1, WrittenWhole
  <2>2. op.file \in Live(temp, final, loads, op)'
    BY <1>2 DEF Live
  <2>3. content'[op.file] = content[op.file]
    BY <1>1, <2>2, ReclaimedLive DEF StoreBody
  <2>4. QED BY <1>1, <1>2, <2>1, <2>3 DEF Writes
<1>5. \A l \in Loads : ~Running(l) /\ ~Running(l)'
  BY <1>1, <1>2, NoneOpen DEF Running
<1>6. \A v : v <= op.ver => InFile(v)'
  BY <1>4 DEF InFile
<1>7. /\ Supersedes(op.ver)
      /\ active # NoSlot => active \in Loads /\ loads[active].ver <= op.ver
  BY <1>1 DEF StepInv, SourcesNew, TypeOK
<1>8. KnownToServer'
  BY <1>2, <1>3, Numbers, SMT DEF StepInv, KnownToServer, Versions
<1>9. /\ InTable' /\ SourcesNew' /\ TempWritten' /\ WipesOldFile'
      /\ CompleteArrived' /\ ArrivedHasFile'
  BY <1>2, <1>3, <1>5
     DEF StepInv, InTable, SourcesNew, TempWritten, WipesOldFile, CompleteArrived,
         ArrivedHasFile, Running
<1>10. FileNew'
  <2>1. InFile(entry)'
    BY <1>2, <1>4, Numbers, SMT DEF InFile
  <2>2. saved \in Versions => saved <= op.ver
    BY <1>7 DEF Supersedes
  <2>3. InFile(saved)'
    BY <1>2, <1>4, <2>2 DEF InFile, Versions
  <2>4. QED BY <2>1, <2>3 DEF FileNew
<1>11. LoadInFile'
  BY <1>2, <1>4, <1>7 DEF LoadInFile, InFile
<1>12. MemoryNew' /\ MemoryEmpty'
  <2>1. mem' = Absent
    BY <1>1, <1>2 DEF StepInv, MemoryEmpty
  <2>2. QED BY <2>1, Numbers DEF MemoryNew, MemoryEmpty, Versions
<1>13. QED
  BY <1>8, <1>9, <1>10, <1>11, <1>12 DEF StepInv

\* A load that starts is of the version the server has, and memory is empty.
LEMMA StartLoadInStep ==
  ASSUME TypeOK, TypeOK', FileInv, StepInv, Undisturbed', StartLoad
  PROVE  StepInv'
<1>1. PICK l \in Loads : /\ loads[l] = NoLoad
                         /\ loads' = [loads EXCEPT ![l] = NewLoad(server)]
                         /\ active' = l
  BY Zenon DEF StartLoad
<1>2. ~Busy
  BY DEF StartLoad, Undisturbed
<1>3. /\ op.pc = "request" /\ op' = Idle
      /\ UNCHANGED <<server, mem, entry, saved, temp, final, content>>
  BY DEF StartLoad, fileVars
<1>4. /\ \A k \in Loads \ {l} : loads'[k] = loads[k]
      /\ loads'[l].dl = "spawned" /\ loads'[l].ver = server /\ loads'[l].buf = "loading"
  BY <1>1 DEF TypeOK, NewLoad
<1>5. \A k \in Loads : ~Running(k) /\ (Running(k)' => k = l)
  BY <1>2, <1>4 DEF Busy, Running
<1>6. mem = Absent
  BY <1>3 DEF StepInv, MemoryEmpty
<1>7. op'.pc = "idle" /\ op'.ver = 0
  BY <1>3, Places, Works
<1>8. KnownToServer'
  BY <1>3, <1>4, <1>7, Numbers, SMT DEF StepInv, KnownToServer, Versions
<1>9. SourcesNew'
  <2>1. Supersedes(server)
    BY DEF StepInv, KnownToServer, Supersedes
  <2>2. \A k \in Loads : Running(k)' => loads'[k].ver = server
    BY <1>4, <1>5
  <2>3. QED
    BY <1>3, <1>7, <2>1, <2>2 DEF SourcesNew, Supersedes, Versions
<1>10. FileNew' /\ MemoryNew' /\ MemoryEmpty'
  BY <1>3, <1>6, <1>7, Numbers
     DEF StepInv, FileNew, InFile, MemoryNew, MemoryEmpty, Versions
<1>11. InTable' /\ LoadInFile' /\ ArrivedHasFile'
  BY <1>1, <1>4, <1>5 DEF InTable, LoadInFile, ArrivedHasFile, Arrived
<1>12. TempWritten' /\ WipesOldFile' /\ CompleteArrived'
  <2>1. \A k \in Loads : loads'[k].dl # "streaming"
    BY <1>4, <1>5 DEF Running
  <2>2. \A k \in Loads : loads'[k].buf = "complete" => loads'[k].dl = "complete"
    BY <1>4 DEF StepInv, CompleteArrived
  <2>3. QED
    BY <1>7, <2>1, <2>2 DEF TempWritten, WipesOldFile, CompleteArrived
<1>13. QED
  BY <1>8, <1>9, <1>10, <1>11, <1>12 DEF StepInv

\* A download that is over puts its version in place, or had its file taken
\* away by a cache command.
LEMMA FinalizeInStep ==
  ASSUME TypeOK, TypeOK', FileInv, NewerOrGone, StepInv, Undisturbed',
         NEW l \in Loads, Finalize(l)
  PROVE  StepInv'
<1> DEFINE f == loads[l].file
           v == loads[l].ver
<1>1. /\ Running(l) /\ loads[l].dl = "streaming" /\ loads[l].sent = Chunks
      /\ loads \in [Loads -> LoadStates] /\ loads[l] \in LoadStates
  BY DEF Finalize, DownloadDone, Running, TypeOK
<1>2. UNCHANGED <<server, mem, entry, saved, active, op>> /\ Reclaimed(content)
  BY DEF Finalize
<1>3. /\ \A k \in Loads \ {l} : loads'[k] = loads[k]
      /\ loads'[l].dl = "renamed" /\ loads'[l].ver = v /\ loads'[l].buf = loads[l].buf
  <2> DEFINE r == [loads[l] EXCEPT !.dl = "renamed", !.file = NoFile]
  <2>1. loads' = [loads EXCEPT ![l] = r]
    BY DEF Finalize
  <2>2. r.dl = "renamed" /\ r.ver = v /\ r.buf = loads[l].buf
    BY <1>1, Zenon DEF LoadStates
  <2>3. QED
    <3> HIDE DEF r
    <3> QED BY <1>1, <2>1, <2>2
<1>4. /\ \A k \in Loads \ {l} : ~Running(k)
      /\ op.pc \notin {"refresh", "fetch"} /\ v \in Versions
  BY <1>1, OnlyOne
<1>5. active \in {l, NoSlot} /\ loads[l].buf # "complete"
  BY <1>1 DEF StepInv, InTable, CompleteArrived
<1>6. \A k \in Loads : ~Running(k)'
  BY <1>3, <1>4 DEF Running
<1>7. \/ final' # NoFile /\ content'[final'][1] = v
      \/ final' = final /\ "command" \in upset' /\ (final = NoFile \/ AboutToWipe)
  <2>1. CASE f # NoFile /\ temp # NoFile /\ final' = temp
    <3>1. f \in Inodes /\ temp = f /\ Writes(f, Chunks, v)
      BY <1>1, <2>1 DEF FileInv, WritersOfTemp, TypeOK, LoadStates
    <3>2. content[f][1] = v
      BY <3>1, WrittenWhole
    <3>3. f \in Live(temp, final, loads, op)'
      BY <2>1, <3>1 DEF Live
    <3>4. content'[f] = content[f]
      BY <1>2, <3>1, <3>3, ReclaimedLive
    <3>5. QED BY <2>1, <3>1, <3>2, <3>4
  <2>2. CASE (f = NoFile \/ temp = NoFile) /\ final' = final /\ upset' = upset
    BY <1>1, <2>2 DEF StepInv, TempWritten
  <2>3. QED BY <2>1, <2>2 DEF Finalize, Undisturbed
<1>8. Supersedes(v)
  BY <1>1 DEF StepInv, SourcesNew
<1>9. KnownToServer'
  <2>1. \A k \in Loads : loads'[k].ver = loads[k].ver
    BY <1>3
  <2>2. QED BY <1>2, <2>1 DEF StepInv, KnownToServer, Versions
<1>10. InTable' /\ SourcesNew' /\ WipesOldFile' /\ TempWritten'
  BY <1>2, <1>4, <1>6 DEF InTable, SourcesNew, WipesOldFile, TempWritten, Busy, Running
<1>11. FileNew'
  <2>1. SUFFICES ASSUME NEW u \in {entry, saved}, u \in Versions, final' # NoFile
                 PROVE  u <= content'[final'][1]
    BY <1>2 DEF FileNew, InFile, Versions
  <2>2. u <= v
    BY <1>8, <2>1 DEF Supersedes
  <2>3. CASE content'[final'][1] = v
    BY <2>2, <2>3
  <2>4. CASE final' = final
    <3>1. InFile(u)
      BY <2>1 DEF StepInv, FileNew
    <3>2. InFile(u)'
      BY <2>4, <3>1, InFileKept
    <3>3. QED BY <2>1, <3>2 DEF InFile, Versions
  <2>5. QED BY <1>7, <2>3, <2>4
<1>12. LoadInFile'
  <2>1. SUFFICES ASSUME active' = l, ~AboutToWipe', final' # NoFile
                 PROVE  InFile(loads[l].ver)'
    BY <1>2, <1>5 DEF LoadInFile, InFile
  <2>2. content'[final'][1] = v
    BY <1>2, <1>7, <2>1 DEF AboutToWipe
  <2>3. v \in Nat
    BY Numbers
  <2>4. QED BY <1>3, <2>2, <2>3, SMT DEF InFile
<1>13. CompleteArrived'
  BY <1>3, <1>5 DEF StepInv, CompleteArrived
<1>14. ArrivedHasFile'
  BY <1>7 DEF ArrivedHasFile
<1>15. MemoryNew' /\ MemoryEmpty'
  BY <1>1, <1>2 DEF StepInv, MemoryNew, MemoryEmpty, Busy, Versions
<1>16. QED
  BY <1>9, <1>10, <1>11, <1>12, <1>13, <1>14, <1>15 DEF StepInv

\* At first nobody knows of anything.
LEMMA InitInStep == Init => StepInv
<1> SUFFICES ASSUME Init PROVE StepInv
  OBVIOUS
<1>1. \A l \in Loads : loads[l] = NoLoad
  BY DEF Init
<1>2. TypeOK
  BY InitType
<1>3. KnownToServer
  BY <1>1, <1>2, Works, Numbers, SMT DEF Init, KnownToServer, NoLoad
<1>4. InTable /\ SourcesNew /\ TempWritten /\ WipesOldFile /\ CompleteArrived
  BY <1>1, Places
     DEF Init, InTable, SourcesNew, TempWritten, WipesOldFile, CompleteArrived,
         Running, NoLoad
<1>5. FileNew /\ LoadInFile /\ ArrivedHasFile
  BY DEF Init, FileNew, LoadInFile, ArrivedHasFile, InFile
<1>6. MemoryNew /\ MemoryEmpty
  BY <1>1, Numbers, <1>2 DEF Init, MemoryNew, MemoryEmpty
<1>7. QED BY <1>3, <1>4, <1>5, <1>6 DEF StepInv

\* Every step keeps them in step.
LEMMA NextInStep ==
  ASSUME TypeOK, FileInv, StepInv, [Next]_vars, Undisturbed'
  PROVE  StepInv'
<1>1. TypeOK' /\ FileInv' /\ NewerOrGone
  BY StepPreservesType, StepKeeps DEF Undisturbed
<1>2. CASE BootPrecache \/ Play \/ Tick
  BY <1>1, <1>2, FoldInStep
<1>3. CASE Operation
  <2>1. CASE \/ BeginSave \/ EndSave \/ SaveFails
             \/ NotDue \/ AskServer \/ Unreachable \/ NotModified
             \/ ReceiveBody \/ BodyFails \/ StoreFails
             \/ ServeMemory \/ Join \/ RequestFails \/ WipeFails \/ WipeEntries
    BY <1>1, <2>1, OperationQuiet
  <2>2. CASE Modified \/ StartFetch
    BY <1>1, <2>2, OpenBodyInStep
  <2>3. CASE StoreBody
    BY <1>1, <2>3, StoreBodyInStep
  <2>4. CASE ServeDisk
    BY <1>1, <2>4, ServeDiskInStep
  <2>5. CASE StartLoad
    BY <1>1, <2>5, StartLoadInStep
  <2>6. CASE \E p \in {"temp", "final"} : WipeFile(p)
    BY <1>1, <2>6, WipeQuiet
  <2>7. QED
    BY <1>3, <2>1, <2>2, <2>3, <2>4, <2>5, <2>6 DEF Operation
<1>4. ASSUME NEW l \in Loads, Download(l) PROVE StepInv'
  BY <1>1, <1>4, DownloadQuiet, FinalizeInStep DEF Download
<1>5. ASSUME NEW l \in Loads, Decoder(l) PROVE StepInv'
  BY <1>1, <1>5, DecoderQuiet
<1>6. CASE \/ StartServing \/ Publish \/ EvictedByOthers \/ ClearAll \/ Invalidate
           \/ Restart \/ UNCHANGED vars
  BY <1>1, <1>6, WorldQuiet
<1>7. QED
  BY <1>2, <1>3, <1>4, <1>5, <1>6 DEF Next

\* Entry, file and memory of a URL keep in step, whatever crashes, cancelled
\* and failed loads, revalidations and cache commands come between: validators
\* are not newer than the file, memory is not older than the disk, and a
\* complete buffer has a file; until a disk fault, a decoder that leaves a
\* running download or two downloads at once disturb them.
THEOREM CachesKeepStep == Spec => []CachesInStep
<1> DEFINE IInv == FilesSound /\ (Undisturbed => StepInv)
<1>1. Init => IInv
  BY InitType, InitFileInv, InitInStep DEF FilesSound
<1>2. IInv /\ [Next]_vars => IInv'
  <2> SUFFICES ASSUME FilesSound, Undisturbed => StepInv, [Next]_vars
               PROVE  IInv'
    OBVIOUS
  <2>1. TypeOK' /\ ("overlap" \notin upset' => FileInv')
    BY StepPreservesType, StepKeeps, UpsetStays DEF FilesSound
  <2>2. Undisturbed' => Undisturbed
    BY UpsetStays DEF Undisturbed
  <2>3. Undisturbed' => StepInv'
    BY <2>2, NextInStep DEF FilesSound, Undisturbed
  <2>4. QED BY <2>1, <2>3 DEF FilesSound
<1>3. IInv => CachesInStep
  <2> SUFFICES ASSUME FilesSound, Undisturbed => StepInv PROVE CachesInStep
    OBVIOUS
  <2>1. TypeOK /\ (Undisturbed => FileInv /\ StepInv) /\ (upset = {} => Undisturbed)
    BY DEF FilesSound, Undisturbed
  <2>2. ValidatorsNotNewer
    <3>1. SUFFICES ASSUME Undisturbed, Cached
                   PROVE  \E v \in Versions : v >= entry /\ content[final] = Whole(v)
      BY DEF ValidatorsNotNewer
    <3>2. PICK v \in Versions : content[final] = Whole(v)
      BY <2>1, <3>1 DEF FileInv, WholeAtFinalPath, IsWhole, Cached
    <3>3. content[final][1] = v
      BY <3>2, ChunksAssumption, SMT DEF Whole
    <3>4. entry \in Versions
      BY <2>1, <3>1, Numbers DEF Cached
    <3>5. entry <= v
      BY <2>1, <3>1, <3>3, <3>4 DEF StepInv, FileNew, InFile, Cached
    <3>6. QED BY <2>1, <3>2, <3>4, <3>5, Numbers, SMT
  <2>3. MemoryFollowsDisk
    <3>1. mem \in Versions => (entry <= mem => mem >= entry)
      BY <2>1, Numbers, SMT
    <3>2. QED BY <2>1, <3>1 DEF MemoryFollowsDisk, StepInv, MemoryNew, Cached
  <2>4. CompleteHasFile
    BY <2>1
       DEF CompleteHasFile, StepInv, CompleteArrived, ArrivedHasFile, Arrived, TypeOK
  <2>5. QED BY <2>2, <2>3, <2>4 DEF CachesInStep
<1>4. QED
  BY <1>1, <1>2, <1>3, PTL DEF Spec
=============================================================================
