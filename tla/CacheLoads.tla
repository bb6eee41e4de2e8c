----------------------------- MODULE CacheLoads -----------------------------
(***************************************************************************)
(* One URL in mqttaudio's caches.  The cache manager (memory cache, disk   *)
(* cache, table of active loads) works under one async mutex that it keeps *)
(* across its awaits; a streamed load adds a download task, which writes   *)
(* the body through to a temporary file, and a decoder thread, which reads *)
(* the downloaded bytes.  Both tasks run without the mutex and share the   *)
(* paths of the URL's two files with every other download of that URL.     *)
(*                                                                         *)
(* Files are inodes: a path names an inode or nothing, a writer keeps its  *)
(* handle when the path is renamed, removed or truncated by someone else.  *)
(* A body is a sequence of chunks of one version of the resource.  The     *)
(* memory budget, which may drop this URL's buffer because of another      *)
(* URL, is the action EvictedByOthers.                                     *)
(***************************************************************************)
EXTENDS Naturals

CONSTANTS
  Loads,        \* bound: slots for streamed loads whose tasks still run
  Inodes,       \* bound: files that exist at a time
  Chunks,       \* chunks of a body
  MaxVersion,   \* bound: versions of the resource the server publishes
  EndsAfter,    \* chunks after which a decoder may find the end of the audio;
                \*   Chunks + 1: only at the end of the body
  Faults,       \* what may fail: "network", "disk", "decode", "crash"
  Commands      \* cache commands in use: "clear", "invalidate"

NoFile == 0
NoSlot == 0
Absent == 0

ASSUME ChunksAssumption == Chunks \in Nat \ {0}
ASSUME VersionsAssumption == MaxVersion \in Nat \ {0}
ASSUME EndsAssumption == EndsAfter \subseteq 1..(Chunks + 1)
ASSUME NamesAssumption == NoFile \notin Inodes /\ NoSlot \notin Loads

Versions == 1..MaxVersion
Damaged == MaxVersion + 1    \* audio decoded from a file that is not whole
Torn == MaxVersion + 2       \* metadata.json truncated and not yet written

VARIABLES
  server,    \* version of the resource the server has
  mem,       \* memory cache: version of the decoded buffer, Absent, Damaged
  entry,     \* DiskCache.metadata: version the entry's validators are of
  saved,     \* what metadata.json holds of the entry
  temp,      \* inode at the URL's ".part" path
  final,     \* inode at the URL's path in the disk cache
  content,   \* content of an inode: the version of each chunk, 0 if not there
  active,    \* active_loads: slot of the URL's load
  loads,     \* the load of each slot: download task, decoder, buffer
  op,        \* the operation that holds the cache mutex
  booted,    \* startup precaching is over
  upset      \* history: "fault" once a write or removal failed, "command" once a
             \*   cache command removed files of the load in the table, "early"
             \*   once a decoder left a download that ran, "overlap" once a
             \*   download started while another one ran

fileVars == <<temp, final, content>>
vars == <<server, mem, entry, saved, fileVars, active, loads, op, booted, upset>>

NoLoad == [dl |-> "none", ver |-> 0, sent |-> 0, file |-> NoFile,
           cancelled |-> FALSE, dec |-> "none", buf |-> "none"]
NewLoad(v) == [dl |-> "spawned", ver |-> v, sent |-> 0, file |-> NoFile,
               cancelled |-> FALSE, dec |-> "reading", buf |-> "loading"]
LoadStates ==
  [dl: {"none", "spawned", "streaming", "renamed", "complete", "failed"},
   ver: 0..MaxVersion, sent: 0..Chunks, file: Inodes \cup {NoFile},
   cancelled: BOOLEAN, dec: {"none", "reading", "erring", "stopped"},
   buf: {"none", "loading", "complete", "error"}]

Step(kind, pc) == [pc |-> pc, for |-> IF pc = "idle" THEN "none" ELSE kind,
                   ver |-> 0, sent |-> 0, file |-> NoFile, todo |-> {},
                   then |-> "idle"]
Idle == Step("none", "idle")
Saving(kind, then) == [Step(kind, "save") EXCEPT !.then = then]
OpStates ==
  [pc: {"idle", "save", "torn", "due", "ask", "refresh", "fetch", "serve",
        "request", "wipe"},
   for: {"none", "play", "boot", "tick", "clear"}, ver: 0..MaxVersion,
   sent: 0..Chunks, file: Inodes \cup {NoFile},
   todo: SUBSET {"temp", "final"}, then: {"idle", "due", "serve"}]

Empty == [k \in 1..Chunks |-> 0]
Whole(v) == [k \in 1..Chunks |-> v]

Init ==
  /\ server = 1 /\ mem = Absent /\ entry = Absent /\ saved = Absent
  /\ temp = NoFile /\ final = NoFile /\ content = [i \in Inodes |-> Empty]
  /\ active = NoSlot /\ loads = [l \in Loads |-> NoLoad]
  /\ op = Idle /\ booted = FALSE /\ upset = {}

-----------------------------------------------------------------------------
(* Files.                                                                  *)

Live(t, f, ls, o) == {t, f, o.file} \cup {ls[l].file : l \in Loads}

\* An inode without a path and without a handle is free again.
Reclaimed(c) ==
  content' = [i \in Inodes |->
                IF i \in Live(temp', final', loads', op') THEN c[i] ELSE Empty]

\* File::create at the temporary path: truncates the file that is there.
FreeInode == CHOOSE i \in Inodes : i \notin Live(temp, final, loads, op)
CanCreate == temp # NoFile \/ \E i \in Inodes : i \notin Live(temp, final, loads, op)
Created == IF temp # NoFile THEN temp ELSE FreeInode
Truncated == [content EXCEPT ![Created] = Empty]

Written(f, n, v) ==
  IF f = NoFile THEN content ELSE [content EXCEPT ![f] = [@ EXCEPT ![n] = v]]

\* is_cached: an entry, and a file at its path.
Cached == entry # Absent /\ final # NoFile

\* A download that writes, or is about to write, to the temporary path.
Running(l) == loads[l].dl \in {"spawned", "streaming"}
Busy == \E l \in Loads : Running(l)

-----------------------------------------------------------------------------
(* The table of active loads.                                              *)

\* A slot is free once both tasks are over and the table dropped the load.
Retired(ls, a) ==
  [l \in Loads |->
     IF l # a /\ ls[l].dl \in {"complete", "failed"} /\ ls[l].dec = "stopped"
       THEN NoLoad ELSE ls[l]]

\* Mutated form of Finished: a failed load stays in the table.
FinishedWell == active # NoSlot /\ loads[active].buf = "complete"
Finished == active # NoSlot /\ loads[active].buf \in {"complete", "error"}
Completed == active # NoSlot /\ loads[active].buf = "complete"

\* Mutated form of Validators: those of the resource when the load is folded.
ValidatorsNow(l) == server
\* The validators kept with a load come from the response it started with.
Validators(l) == loads[l].ver

Registers == Completed /\ final # NoFile

AfterFold(kind) == IF kind = "tick" THEN "idle" ELSE "due"

\* cleanup_completed_loads: a completed load becomes the memory entry and,
\* if its file is in place, a disk entry; a failed one is dropped.
Fold(kind) ==
  /\ active' = IF Finished THEN NoSlot ELSE active
  /\ mem' = IF Completed THEN loads[active].ver ELSE mem
  /\ entry' = IF Registers THEN Validators(active) ELSE entry
  /\ loads' = Retired(loads, active')
  /\ op' = IF Registers THEN Saving(kind, AfterFold(kind))
                        ELSE Step(kind, AfterFold(kind))
  /\ UNCHANGED <<server, saved, fileVars, upset>>

-----------------------------------------------------------------------------
(* Operations of the cache manager.  op is the mutex and the place the     *)
(* operation that holds it has reached.                                    *)

\* Startup precaching in blocking mode: get_or_load, before anything plays.
BootPrecache == op = Idle /\ ~booted /\ Fold("boot") /\ UNCHANGED booted

StartServing ==
  /\ op = Idle /\ ~booted /\ booted' = TRUE
  /\ UNCHANGED <<server, mem, entry, saved, fileVars, active, loads, op, upset>>

\* A play or a precache command: get_or_load_streaming.
Play == op = Idle /\ booted /\ Fold("play") /\ UNCHANGED booted

\* The housekeeping task, every five seconds.
Tick == op = Idle /\ booted /\ Fold("tick") /\ UNCHANGED booted

\* save_metadata is fs::write: the old content goes before the new is there.
BeginSave ==
  /\ op.pc = "save"
  /\ saved' = Torn /\ op' = [op EXCEPT !.pc = "torn"]
  /\ UNCHANGED <<server, mem, entry, fileVars, active, loads, booted, upset>>

EndSave ==
  /\ op.pc = "torn"
  /\ saved' = entry /\ op' = Step(op.for, op.then)
  /\ UNCHANGED <<server, mem, entry, fileVars, active, loads, booted, upset>>

\* A failed save is logged, except that download_and_cache returns it (its
\* save is the one that carries a version).
SaveFails ==
  /\ op.pc \in {"save", "torn"} /\ "disk" \in Faults
  /\ op' = Step(op.for, IF op.ver # 0 THEN "idle" ELSE op.then)
  /\ UNCHANGED <<server, mem, entry, saved, fileVars, active, loads, booted, upset>>

\* maybe_revalidate: not cached, checked recently, or the request goes out.
\* The clock is not modelled: a cached URL may or may not be due.
NotDue ==
  /\ op.pc = "due" /\ op' = Step(op.for, "serve")
  /\ UNCHANGED <<server, mem, entry, saved, fileVars, active, loads, booted, upset>>

AskServer ==
  /\ op.pc = "due" /\ Cached /\ op' = Step(op.for, "ask")
  /\ UNCHANGED <<server, mem, entry, saved, fileVars, active, loads, booted, upset>>

\* No answer in five seconds, one that is not a success, or no file to put
\* the new body in.
Unreachable ==
  /\ op.pc = "ask" /\ Faults \cap {"network", "disk"} # {}
  /\ op' = Step(op.for, "serve")
  /\ UNCHANGED <<server, mem, entry, saved, fileVars, active, loads, booted, upset>>

NotModified ==
  /\ op.pc = "ask" /\ server = entry /\ op' = Saving(op.for, "serve")
  /\ UNCHANGED <<server, mem, entry, saved, fileVars, active, loads, booted, upset>>

\* stream_body_to_file creates the temporary file.
OpenBody(pc) ==
  /\ CanCreate
  /\ temp' = Created /\ UNCHANGED final
  /\ op' = [Step(op.for, pc) EXCEPT !.ver = server, !.file = Created]
  /\ upset' = IF Busy THEN upset \cup {"overlap"} ELSE upset
  /\ UNCHANGED <<server, mem, entry, saved, active, loads, booted>>
  /\ Reclaimed(Truncated)

\* The server sends the resource again; an entry without validators is sent
\* again even when it did not change.
Modified == op.pc = "ask" /\ OpenBody("refresh")

\* Mutated form of GivenUp: the server is asked again, with no end to it.
AskedAgain == Step(op.for, IF op.pc = "refresh" THEN "ask" ELSE "idle")

\* Where a body that could not be stored leaves the operation: revalidate
\* serves the cached copy, download_and_cache fails.
GivenUp == Step(op.for, IF op.pc = "refresh" THEN "serve" ELSE "idle")

ReceiveBody ==
  /\ op.pc \in {"refresh", "fetch"} /\ op.sent < Chunks
  /\ op' = [op EXCEPT !.sent = @ + 1]
  /\ content' = Written(op.file, op.sent + 1, op.ver)
  /\ UNCHANGED <<server, mem, entry, saved, temp, final, active, loads, booted, upset>>

\* A read error, a stall of a minute or a failed write removes the file.
BodyFails ==
  /\ op.pc \in {"refresh", "fetch"} /\ Faults \cap {"network", "disk"} # {}
  /\ temp' = NoFile /\ UNCHANGED final
  /\ op' = GivenUp
  /\ UNCHANGED <<server, mem, entry, saved, active, loads, booted, upset>>
  /\ Reclaimed(content)

\* Replaced: the memory entry of the old version goes.
StaleCopyDropped == IF op.pc = "refresh" THEN Absent ELSE mem

\* Mutated form of BodyDone: the body ends one chunk early.
BodyDoneEarly == op.sent + 1 >= Chunks
BodyDone == op.sent = Chunks

StoreBody ==
  /\ op.pc \in {"refresh", "fetch"} /\ BodyDone /\ temp # NoFile
  /\ final' = temp /\ temp' = NoFile
  /\ entry' = op.ver /\ mem' = StaleCopyDropped
  /\ op' = [Saving(op.for, "serve") EXCEPT !.ver = IF op.pc = "fetch" THEN op.ver ELSE 0]
  /\ UNCHANGED <<server, saved, active, loads, booted, upset>>
  /\ Reclaimed(content)

\* sync_all or rename fails: the temporary file, if any, stays.
StoreFails ==
  /\ op.pc \in {"refresh", "fetch"} /\ BodyDone
  /\ temp = NoFile \/ "disk" \in Faults
  /\ op' = GivenUp
  /\ UNCHANGED <<server, mem, entry, saved, temp, final, active, loads, booted, upset>>
  /\ Reclaimed(content)

\* decode_file on the cached copy.  What is not a whole body may decode to
\* less audio, or not at all.
DecodeCopy ==
  IF \E v \in Versions : content[final] = Whole(v)
    THEN {content[final][1]} ELSE {Absent, Damaged}

ServeMemory ==
  /\ op.pc = "serve" /\ mem # Absent /\ op' = Idle
  /\ UNCHANGED <<server, mem, entry, saved, fileVars, active, loads, booted, upset>>

\* A play joins the load in progress unless it failed.
Joinable == op.for = "play" /\ active # NoSlot /\ loads[active].buf # "error"

Join ==
  /\ op.pc = "serve" /\ mem = Absent /\ Joinable /\ op' = Idle
  /\ UNCHANGED <<server, mem, entry, saved, fileVars, active, loads, booted, upset>>

\* Past the table: a failed load is dropped, then the disk copy is decoded or
\* the server is asked.
ServeDisk ==
  /\ op.pc = "serve" /\ mem = Absent /\ ~Joinable
  /\ active' = NoSlot /\ loads' = Retired(loads, NoSlot)
  /\ IF Cached THEN mem' \in DecodeCopy /\ op' = Idle
               ELSE mem' = mem /\ op' = Step(op.for, "request")
  /\ UNCHANGED <<server, entry, saved, fileVars, booted, upset>>

RequestFails ==
  /\ op.pc = "request"
  /\ "network" \in Faults \/ (op.for = "boot" /\ "disk" \in Faults)
  /\ op' = Idle
  /\ UNCHANGED <<server, mem, entry, saved, fileVars, active, loads, booted, upset>>

\* start_streaming_load: the response is there, the tasks are spawned.
StartLoad ==
  /\ op.pc = "request" /\ op.for = "play"
  /\ \E l \in Loads :
       /\ loads[l] = NoLoad
       /\ loads' = [loads EXCEPT ![l] = NewLoad(server)]
       /\ active' = l
  /\ op' = Idle
  /\ upset' = (IF Busy THEN upset \cup {"overlap"} ELSE upset) \ {"command"}
  /\ UNCHANGED <<server, mem, entry, saved, fileVars, booted>>

\* download_and_cache
StartFetch == op.pc = "request" /\ op.for = "boot" /\ OpenBody("fetch")

\* cache_clear: memory first, then the files of the directory one by one,
\* then the entries.  A file that is gone when its turn comes ends it.
ClearAll ==
  /\ op = Idle /\ booted /\ "clear" \in Commands
  /\ mem' = Absent
  /\ op' = [Step("clear", "wipe") EXCEPT !.todo =
              {p \in {"temp", "final"} : (p = "temp" /\ temp # NoFile)
                                          \/ (p = "final" /\ final # NoFile)}]
  /\ UNCHANGED <<server, entry, saved, fileVars, active, loads, booted, upset>>

WipeFile(p) ==
  /\ op.pc = "wipe" /\ p \in op.todo
  /\ IF (IF p = "temp" THEN temp ELSE final) = NoFile
       THEN op' = Idle /\ UNCHANGED <<temp, final>>
       ELSE /\ op' = [op EXCEPT !.todo = @ \ {p}]
            /\ temp' = IF p = "temp" THEN NoFile ELSE temp
            /\ final' = IF p = "final" THEN NoFile ELSE final
  /\ upset' = upset \cup {"command"}
  /\ UNCHANGED <<server, mem, entry, saved, active, loads, booted>>
  /\ Reclaimed(content)

WipeFails ==
  /\ op.pc = "wipe" /\ op.todo # {} /\ "disk" \in Faults /\ op' = Idle
  /\ upset' = upset \cup {"fault"}
  /\ UNCHANGED <<server, mem, entry, saved, fileVars, active, loads, booted>>

WipeEntries ==
  /\ op.pc = "wipe" /\ op.todo = {}
  /\ entry' = Absent /\ op' = Saving("clear", "idle")
  /\ UNCHANGED <<server, mem, saved, fileVars, active, loads, booted, upset>>

\* cache_invalidate: both entries and the file.  metadata.json keeps the entry.
Invalidate ==
  /\ op = Idle /\ booted /\ "invalidate" \in Commands
  /\ mem' = Absent /\ entry' = Absent
  /\ \/ final' = (IF Cached THEN NoFile ELSE final) /\ upset' = upset \cup {"command"}
     \/ Cached /\ "disk" \in Faults /\ final' = final /\ upset' = upset \cup {"fault"}
  /\ UNCHANGED <<server, saved, temp, active, loads, op, booted>>
  /\ Reclaimed(content)

-----------------------------------------------------------------------------
(* The download task of a streamed load.                                   *)

Unsettled(l) == loads[l].dl \in {"spawned", "streaming", "renamed"}

\* PersistWriter::new; a file that cannot be created leaves it without one.
OpenTemp(l) ==
  /\ loads[l].dl = "spawned"
  /\ \/ /\ CanCreate /\ temp' = Created
        /\ loads' = [loads EXCEPT ![l] = [@ EXCEPT !.dl = "streaming", !.file = Created]]
        /\ content' = Truncated /\ UNCHANGED upset
     \/ /\ "disk" \in Faults
        /\ loads' = [loads EXCEPT ![l] = [@ EXCEPT !.dl = "streaming"]]
        /\ UNCHANGED <<temp, content>> /\ upset' = upset \cup {"fault"}
  /\ UNCHANGED <<server, mem, entry, saved, final, active, op, booted>>

\* abandon: the path is removed, whichever file is there.
TempAbandoned(l) == IF loads[l].file # NoFile THEN NoFile ELSE temp

\* A chunk arrives: write through, then append.
ReceiveChunk(l) ==
  LET n == loads[l].sent + 1 IN
  /\ loads[l].dl = "streaming" /\ n <= Chunks /\ ~loads[l].cancelled
  /\ UNCHANGED <<server, mem, entry, saved, final, active, op, booted>>
  /\ \/ /\ loads' = [loads EXCEPT ![l] = [@ EXCEPT !.sent = n]]
        /\ UNCHANGED <<temp, upset>>
        /\ content' = Written(loads[l].file, n, loads[l].ver)
     \/ /\ loads[l].file # NoFile /\ "disk" \in Faults
        /\ loads' = [loads EXCEPT ![l] = [@ EXCEPT !.sent = n, !.file = NoFile]]
        /\ temp' = NoFile /\ upset' = upset \cup {"fault"}
        /\ Reclaimed(content)

Failed(l) == [loads EXCEPT ![l] = [@ EXCEPT !.dl = "failed", !.file = NoFile]]

\* The flag is read only when a chunk has arrived.
NoticeCancel(l) ==
  /\ loads[l].dl = "streaming" /\ loads[l].sent < Chunks /\ loads[l].cancelled
  /\ temp' = TempAbandoned(l)
  /\ loads' = Retired(Failed(l), active)
  /\ UNCHANGED <<server, mem, entry, saved, final, active, op, booted, upset>>
  /\ Reclaimed(content)

\* A read error, or no data for a minute.
DownloadFails(l) ==
  /\ loads[l].dl = "streaming" /\ "network" \in Faults
  /\ temp' = TempAbandoned(l)
  /\ loads' = Retired(Failed(l), active)
  /\ UNCHANGED <<server, mem, entry, saved, final, active, op, booted, upset>>
  /\ Reclaimed(content)

\* Mutated form of DownloadDone: the temporary file is renamed at once.
DownloadDoneEarly(l) == loads[l].sent + 1 >= Chunks
DownloadDone(l) == loads[l].sent = Chunks

\* finalize: sync, rename what is at the temporary path; on an error, remove it.
Finalize(l) ==
  LET written == loads[l].file # NoFile IN
  /\ loads[l].dl = "streaming" /\ DownloadDone(l)
  /\ loads' = [loads EXCEPT ![l] = [@ EXCEPT !.dl = "renamed", !.file = NoFile]]
  /\ \/ written /\ temp # NoFile /\ final' = temp /\ temp' = NoFile /\ UNCHANGED upset
     \/ (~written \/ temp = NoFile) /\ UNCHANGED <<temp, final, upset>>
     \/ /\ written /\ "disk" \in Faults
        /\ temp' = NoFile /\ final' = final /\ upset' = upset \cup {"fault"}
  /\ UNCHANGED <<server, mem, entry, saved, active, op, booted>>
  /\ Reclaimed(content)

\* handles.complete()
MarkDownloaded(l) ==
  /\ loads[l].dl = "renamed"
  /\ loads' = Retired([loads EXCEPT ![l] = [@ EXCEPT !.dl = "complete"]], active)
  /\ UNCHANGED <<server, mem, entry, saved, fileVars, active, op, booted, upset>>

-----------------------------------------------------------------------------
(* The decoder thread.  Dropping the reader of a download that is not      *)
(* settled cancels the download.                                           *)

\* The reader reports the end of the body once the download is complete.
BodyOver(l) == loads[l].dl = "complete"

AudioOver(l) == BodyOver(l) \/ \E k \in EndsAfter : k <= loads[l].sent
AudioBroken(l) == loads[l].dl = "failed" \/ ("decode" \in Faults /\ loads[l].sent > 0)

\* The reader is gone with the decoder.
Stopped(l, buf) ==
  [loads EXCEPT ![l] = [@ EXCEPT !.dec = "stopped", !.buf = buf,
                                 !.cancelled = Unsettled(l)]]

\* The loop over the decoder ends; it consumed the decoder, so the reader is
\* gone before the buffer is marked complete.
DecodeEnds(l) ==
  /\ loads[l].dec = "reading" /\ AudioOver(l)
  /\ loads' = Retired(Stopped(l, "complete"), active)
  /\ UNCHANGED <<server, mem, entry, saved, fileVars, active, op, booted>>
  /\ upset' = IF BodyOver(l) THEN upset ELSE upset \cup {"early"}

\* StreamingDecoder::new fails: the reader it took is gone before the error
\* is recorded.
InitFails(l) ==
  /\ loads[l].dec = "reading" /\ AudioBroken(l)
  /\ loads' = Retired(Stopped(l, "error"), active)
  /\ UNCHANGED <<server, mem, entry, saved, fileVars, active, op, booted, upset>>

\* A chunk fails: the error is recorded, then the decoder is dropped.
DecodeFails(l) ==
  /\ loads[l].dec = "reading" /\ AudioBroken(l)
  /\ loads' = [loads EXCEPT ![l] = [@ EXCEPT !.dec = "erring", !.buf = "error"]]
  /\ UNCHANGED <<server, mem, entry, saved, fileVars, active, op, booted, upset>>

DropReader(l) ==
  /\ loads[l].dec = "erring"
  /\ loads' = Retired(Stopped(l, "error"), active)
  /\ UNCHANGED <<server, mem, entry, saved, fileVars, active, op, booted, upset>>

-----------------------------------------------------------------------------
(* The rest of the world.                                                  *)

Publish ==
  /\ server < MaxVersion /\ server' = server + 1
  /\ UNCHANGED <<mem, entry, saved, fileVars, active, loads, op, booted, upset>>

\* MemoryCache.put of another URL evicts this one.
EvictedByOthers ==
  /\ op = Idle /\ mem # Absent /\ mem' = Absent
  /\ UNCHANGED <<server, entry, saved, fileVars, active, loads, op, booted, upset>>

\* DiskCache::new starts without entries if it cannot parse metadata.json.
Reloaded == IF saved = Torn THEN Absent ELSE saved

\* The process dies and starts again.
Restart ==
  /\ "crash" \in Faults
  /\ mem' = Absent /\ active' = NoSlot /\ loads' = [l \in Loads |-> NoLoad]
  /\ op' = Idle /\ booted' = FALSE
  /\ entry' = Reloaded
  /\ UNCHANGED <<server, saved, temp, final, upset>>
  /\ Reclaimed(content)

Operation ==
  \/ BeginSave \/ EndSave \/ SaveFails
  \/ NotDue \/ AskServer \/ Unreachable \/ NotModified \/ Modified
  \/ ReceiveBody \/ BodyFails \/ StoreBody \/ StoreFails
  \/ ServeMemory \/ Join \/ ServeDisk \/ RequestFails \/ StartLoad \/ StartFetch
  \/ (\E p \in {"temp", "final"} : WipeFile(p)) \/ WipeFails \/ WipeEntries

Download(l) ==
  \/ OpenTemp(l) \/ ReceiveChunk(l) \/ NoticeCancel(l) \/ DownloadFails(l)
  \/ Finalize(l) \/ MarkDownloaded(l)

Decoder(l) == DecodeEnds(l) \/ InitFails(l) \/ DecodeFails(l) \/ DropReader(l)

Next ==
  \/ BootPrecache \/ StartServing \/ Play \/ Tick \/ Operation
  \/ ClearAll \/ Invalidate
  \/ \E l \in Loads : Download(l) \/ Decoder(l)
  \/ Publish \/ EvictedByOthers \/ Restart

Spec == Init /\ [][Next]_vars

\* Every await under the mutex and every step of a download is bounded by a
\* timeout, the runtime schedules both tasks of a load, and the mutex is
\* handed out in the order it was asked for, so the housekeeping task, which
\* asks every five seconds, gets it however often others do.
Fairness ==
  /\ WF_vars(Operation)
  /\ \A l \in Loads : WF_vars(Download(l)) /\ WF_vars(Decoder(l))
  /\ SF_vars(Tick)

FairSpec == Spec /\ Fairness

-----------------------------------------------------------------------------
(* Properties.                                                             *)

TypeOK ==
  /\ server \in Versions /\ upset \subseteq {"fault", "command", "early", "overlap"}
  /\ mem \in {Absent, Damaged} \cup Versions
  /\ entry \in {Absent} \cup Versions
  /\ saved \in {Absent, Torn} \cup Versions
  /\ temp \in Inodes \cup {NoFile} /\ final \in Inodes \cup {NoFile}
  /\ content \in [Inodes -> [1..Chunks -> 0..MaxVersion]]
  /\ active \in Loads \cup {NoSlot}
  /\ loads \in [Loads -> LoadStates]
  /\ op \in OpStates /\ booted \in BOOLEAN

IsWhole(i) == \E v \in Versions : content[i] = Whole(v)

\* As long as no download of the URL started while another one ran, what is at
\* the URL's path in the disk cache is a whole body, also after downloads that
\* were cancelled, failed or stalled, their retries, faults, crashes and cache
\* commands (PersistTarget, stream_body_to_file).  Where they do overlap it need
\* not be: PartialNeverCached.
WholeAtFinalPath == final # NoFile => IsWhole(final)

\* Why it holds: FileInv, which is inductive (CacheLoadsProofs) as long as no
\* downloads overlap.  Only one download of the URL runs, and none beside the
\* transfer of a revalidation or of startup precaching.
OneWriter ==
  /\ \A l, k \in Loads : Running(l) /\ Running(k) => l = k
  /\ op.pc \in {"refresh", "fetch"} => ~Busy

\* Whoever has the temporary file open has written a prefix of its version.
Writes(file, sent, ver) ==
  file # final /\ ver \in Versions /\ \A k \in 1..sent : content[file][k] = ver

WritersOfTemp ==
  /\ \A l \in Loads : Running(l) => loads[l].ver \in Versions
  /\ \A l \in Loads : loads[l].dl = "spawned" => loads[l].sent = 0
  /\ \A l \in Loads : loads[l].file # NoFile =>
        /\ loads[l].dl = "streaming" /\ temp \in {loads[l].file, NoFile}
        /\ Writes(loads[l].file, loads[l].sent, loads[l].ver)
  /\ op.pc \in {"refresh", "fetch"} =>
        op.file # NoFile /\ temp = op.file /\ Writes(op.file, op.sent, op.ver)
  /\ final # NoFile => temp # final

\* What is being written is not older than what it will replace.
NotOlder(ver) ==
  ver <= server /\ (final # NoFile => content[final][1] <= ver)

NeverOlder ==
  /\ final # NoFile => content[final][1] <= server
  /\ \A l \in Loads : Running(l) => NotOlder(loads[l].ver)
  /\ op.pc \in {"refresh", "fetch"} => NotOlder(op.ver)

\* One writer at a time, which writes a prefix of one version to the temporary
\* file; the file it will replace is whole and not newer.
FileInv == OneWriter /\ WritersOfTemp /\ NeverOlder /\ WholeAtFinalPath

\* No write or removal failed, no decoder left a download before its end
\* without an error, and no two downloads overlapped.
Undisturbed == upset \subseteq {"command"}

\* The validators of a cached entry are never newer than its file: a server
\* that answers "not modified" never keeps an old file in service.  (As long
\* as nothing disturbed it: a load whose own file is not there registers the
\* one an earlier crash or a failed removal left at the path.)
ValidatorsNotNewer ==
  Undisturbed /\ Cached =>
     \E v \in Versions : v >= entry /\ content[final] = Whole(v)

\* When an operation is over, the memory cache never holds an older version
\* than the disk entry: a play served from memory is as fresh as the last
\* revalidation made the disk copy.  (As above.)
MemoryFollowsDisk ==
  Undisturbed /\ op = Idle /\ mem \in Versions /\ Cached => mem >= entry

\* A complete buffer implies that the cache file is in place, so the load is
\* registered when it is folded (start_http_stream_with_persist); only a disk
\* fault, a cache command or another download may take the file away.
CompleteHasFile ==
  upset = {} /\ active # NoSlot /\ loads[active].buf = "complete" => final # NoFile

\* The disk file as the rest of the program may think of it: absent, or a
\* whole version that only ever gives way to a newer one or to nothing.
PublishedVersion ==
  IF final = NoFile \/ "overlap" \in upset THEN Absent
  ELSE IF IsWhole(final) THEN content[final][1] ELSE Damaged
Disk == INSTANCE PublishedFile WITH file <- PublishedVersion
RefinesPublishedFile == Disk!Spec

\* Every streamed load leaves the table of active loads, so a failed one does
\* not poison its URL and a complete one comes under the memory budget.
LoadsSettle == \A l \in Loads : active = l ~> active # l

\* The cache mutex, which cache_clear and cache_invalidate wait for in the
\* command loop, is always released.
MutexReleased == op # Idle ~> op = Idle

\* Until two downloads of a URL overlap, one task at a time writes its files
\* and the file at its path is whole at every instant, whatever is cancelled,
\* fails, crashes or is removed in between.
FilesSound == TypeOK /\ ("overlap" \notin upset => FileInv)

\* The bytes land in the temporary file "and are renamed to final_path only
\* when the download completes, so a partial download can never be mistaken for
\* a cached file" (PersistTarget).
PartialNeverCached == Cached => IsWhole(final)

\* Index, file and memory of a URL keep in step: validators are not newer than
\* the file, memory not older than the disk, and a complete buffer has a file.
CachesInStep == ValidatorsNotNewer /\ MemoryFollowsDisk /\ CompleteHasFile
=============================================================================
