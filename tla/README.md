# Verification of mqttaudio

TLA+ models of mqttaudio, a daemon that plays audio files on commands from
MQTT and HTTP, with TLC configurations and TLAPS proofs. Paths below are
relative to the repository (`src/main.rs` is the daemon's main file).

1. [Inventory](#inventory)
2. [Modules](#modules)
3. [Runs](#runs)
4. [Fairness](#fairness)
5. [Proofs](#proofs)
6. [What the code does not keep](#what-the-code-does-not-keep)
7. [Not modelled](#not-modelled)
8. [Plan](#plan)

To check everything:

    tlc -workers 2 -config MCStreamReader.cfg MCStreamReader.tla   # etc.
    tlapm StreamReaderProofs.tla                                   # etc.

## Inventory

The daemon is one process: a tokio runtime with a command loop and several
tasks, blocking threads that decode, and the audio device's callback thread.

| Part | State | Operations | What is hard | What makes it correct |
|---|---|---|---|---|
| Command loop (`src/main.rs`) | `cmd_rx` (100), stop generation | one arm per command; plays and precaches are handed to tasks | waits for the cache mutex; races with the tasks it spawned | commands in order, every request answered, a stop stops |
| Play task (`src/main.rs:1025`) | its generation, id, buffer | load, compare generation, register, mark voice active, push | four lock scopes, interleaved with commands and the callback | a late load is discarded; a sample that plays is tracked |
| Voice manager (`src/voice.rs`) | ids and volume of each voice | add, remove, clear, volume | ids are pruned from lists made earlier | no living id is pruned, no dead one kept |
| Audio callback (`src/main.rs:741`) | `MixerState` | mix, collect finished, retain, notify ducking | the loader changes a buffer between two scans of one callback | a sample is recorded or it stays |
| Playback (`src/audio/mixer.rs`) | position, speed, fade, pitch corrector of a sample | mix, advance, wrap, is_finished, seek, set speed, stop | contended `try_read`s, loops over growing buffers, reverse play, crossfades | not cut short, ends when it should, a loop keeps time |
| Ducking (`src/audio/ducking.rs`) | active voices, a duck state per voice | notify, advance | overlapping rules in any order | level follows the rules of the active voices |
| Cache manager (`src/cache/mod.rs`) | active loads, under one async mutex held across awaits | play, precache, revalidate, fold, clear, invalidate | mutex held across requests; loads outlive it | entry, file and memory buffer agree; loads leave the table |
| Downloads (`src/cache/http_stream.rs`) | temporary file, bytes, flags | receive, write through, finalize, cancel | two downloads of one URL share paths; crash between steps | the cached file is whole |
| Stream reader (`src/cache/http_stream.rs`) | received bytes, position, condition variable | append, complete, fail; `Read`, `Seek`, drop | a decoder thread sleeps on bytes that may never come | no lost wakeup; the bytes in order, then the end or an error |
| Disk cache (`src/cache/disk.rs`) | `metadata.json`, files | save, revalidate, download, wipe | in-place writes, partial failures, crashes | validators not newer than the file |
| Memory cache (`src/cache/memory.rs`) | LRU map with a byte budget | get, put, evict, remove, clear, pin | entries larger than the budget, pinned ones, equal times | exact accounts, within the budget, the oldest goes |
| MQTT (`src/mqtt/client.rs`) | connection, request channel (10) | poll, resubscribe, forward | the task that polls is also a sender of the channel polls empty | resubscribes; forwards in order |
| MQTT logs (`src/mqtt/logger.rs`) | log channel (100) | try_send, publish | shares the MQTT client | never blocks the daemon |
| HTTP (`src/http/`) | one task per request | send command, await reply, 30 s timeout | a reply that comes late or never | every request gets an answer; the same command as over MQTT |
| Commands (`src/mqtt/commands.rs`, selectors in `src/main.rs`) | — | parse, expand macros, select | two formats, aliases, nulls, defaults, two transports | a command means the same however it is sent |
| WebSocket (`src/http/websocket.rs`) | broadcast channel | forward log lines | slow clients | — |
| Live inputs (`src/audio/input.rs`, mixer) | ring buffer, counters, volume | capture, resample, push, trim, read, mute | two clocks; a ring without a lock | bounded delay, no frame unaccounted |
| Activity bridge (`src/main.rs:640`, `src/audio/activity.rs`) | detector per input | poll, report transitions to ducking | polls against capture callbacks, commands and samples on the same voice | ducks while speaking, holds through pauses |
| Decoding and resampling (`src/audio/*decoder.rs`, `*resampler.rs`) | a filter per stream | chunks of packets, flush | delay and hold-back of the filter, ends and errors | in time and whole |
| Mix (`src/audio/mixer.rs`, `bass_management.rs`, `channel_map.rs`) | — | loops, maps, bass, gains | seams, routes out of range | every channel where its map says, no bass lost |
| Configuration (`src/config.rs`) and devices (`src/audio/{input,engine,device,alsa_probe}.rs`) | read at start-up | merge, validate, resolve, select | what validates must resolve; a device list that changes between two readings | starts as configured, on the device meant |

Who calls whom: MQTT's event loop task and the HTTP handlers send to the
command channel; the command loop locks the mixer, the voice manager and the
cache manager, and spawns play tasks; a play task asks the cache manager for a
buffer (complete, or streaming with a download task and a decoder thread
behind it), registers with the voice manager and pushes to the mixer; the
callback mixes, and tells the ducking engine and, through `finished_samples`,
the housekeeping task what ended; housekeeping prunes the voice manager and
folds completed loads into the caches. `PROJECT.json` lists the hazards of all
this line by line, each with the properties that watch it.

## Modules

| Module | Models | Composition |
|---|---|---|
| `VoiceLifecycle` | play tasks, voice manager, audio callback's bookkeeping, housekeeping, stop/fade/volume commands | the buffers' loading states stand for the loaders |
| `CacheLoads` | one URL in memory cache, disk cache, table of loads; its downloads and decoders; restarts | implements `PublishedFile` |
| `PublishedFile` | what the disk cache promises of a file: absent or whole, replaced in one step, never by an older version | abstract |
| `SamplePlayback` | one sample's playhead, fade and end against its loader, at the callback's reads | — |
| `DuckingEngine` | rules, duck states, fades | — |
| `MicDucking` | peak levels, activity detectors and the bridge task, driving the engine | extends `DuckingEngine` |
| `ControlPath` | MQTT event loop task, request channel, log publisher, HTTP requests, command channel and loop; broker and rumqttc external | — |
| `StreamReader` | `HttpStreamReader`: download task and decoder thread over one mutex and one condition variable | implements `ByteStream` |
| `ByteStream` | what a decoder may rely on when it reads a body that is still coming | abstract |
| `MemoryCache` | the LRU cache with its budget and its pins | — |
| `LiveInput` | capture callback, resampler chunks, ring, drift trim, volume and mute | — |
| `Commands` | parsing, both formats, macros, REST bodies, selectors, status codes | operators |
| `Config` | command line over file, validation, resolution, local paths | operators |
| `Devices` | device names, formats, suggestions | operators, used with the routes of a configuration |
| `Mixdown` | loop seams, channel maps, bass management, gains | operators |
| `Decoding` | packets to frames, streamed and whole, with the resampler between | operators |
| `Decisions` | one question to these operators and its answer | extends the five above |

Each `MC…` module gives a module's constants small values; each `…Proofs`
module holds its theorems. `PROJECT.json`'s `map` gives the lines each
definition translates.

### VoiceLifecycle

One action is one critical section. `PlayCommand`, `StopArrived`,
`LoadReturns`, `LoadFails`, `AddToVoice`, `MarkActive` and `Push` are the
stations of a play task (`playPc`). The callback holds the mixer's mutex from
`CallbackMix` to `CallbackRetain`, but asks `is_finished` in three separate
scans, between which a loader (`LoaderCompletes`, `LoaderFails`) may change
the answer; `IsFinished` reads the loading state at each. `HousekeepTake` and
`HousekeepPrune` are the two lock scopes of the housekeeping task. A command
that needs two locks is two actions with `command` in between
(`StopAllBump`/`StopAllFade`, `VoiceStop`/`FadeIds`, `VoiceVolume`/
`ApplyVolume`). A voice whose last id goes is dropped, so an absent voice is
one without ids. A selector is the set of samples it matches. `active_voices`
and the ducking engine's active voices are two variables, as in the code: a play
looks at the first under its lock and tells the second under the mixer's.
`DuckInForce` relates them: a sample that plays has its voice in the engine, or
a task is about to put it there. It excepts the plays in `undercut`, which found
their voice active by a sample the callback removed before their push. The
reports of the microphone bridge are `MicDucking`'s.

### CacheLoads

`op` is the operation that holds the cache mutex: it stays taken across
awaits, so the steps of an operation are actions (`ask` a server, `refresh` or
`fetch` a body, `serve`, `save` the index, `wipe`), while the download task
and the decoder of every load in `loads` go on without it. Files are inodes:
`temp` and `final` are what the two paths name, `content` what an inode holds,
and a writer keeps its handle through renames and truncations by others. That
is what makes the shared temporary file of two downloads visible: `upset`
remembers an `"overlap"`, that a download or a transfer of the cache manager
started while the task of another one still ran. What `FilesSound` and
`RefinesPublishedFile` say of the file ends there; a load that is cancelled and
gives up before the next one starts is no overlap. A body is `Chunks` chunks of
one version of the resource. `saved` is what `metadata.json` holds (possibly
`Torn`), which a `Restart` reloads. `CachesInStep` also ends with a fault of
the disk and with a decoder that leaves a running download without an error
(`Undisturbed`).

### SamplePlayback

A position counts units of `1/Unit` frame, as `position` and
`fractional_position` do together; the callback is split at its `try_read`s
(`Mix`, `AdvancePosition`, `CheckFailed`, `CheckComplete`, `CheckEnd`), and a
read that meets the loader in the lock answers 0 frames (`Frames`).
`WrapLoop` is `wrap_loop_position` with its crossfade, for both directions.
Sample values are left out: `Mixed` is how many frames were mixed, which is
what advances a fade.

### DuckingEngine

`Updated` is the recomputation of every voice at each notification
(`update_duck_states`), `Advanced` the interpolation of a callback. A level is
an integer out of `Full`; the code's `f32` interpolation is replaced by integer
division, which ends at the same targets.

### MicDucking

Time passes in ticks of the bridge's 50 ms; a deadline is the ticks that
remain to it and a peak is whether it reaches the threshold. `Capture` is
`fetch_max`, `Poll` takes the peak and puts it through `ActivityDetector::update`
with the one reading of the clock the bridge takes for all inputs (`Wake`), and
`Report` is the notification under the mixer's mutex, for which the bridge may
wait up to `MaxLag` ticks. Everything else is `DuckingEngine`'s, whose
invariants are checked in this composition.

### ControlPath

`requests` is the channel between `AsyncClient` and `EventLoop`. rumqttc's
`poll` is one step of its own: connect, send the oldest request, receive,
or report an error after which the library drops what the channel held
(`AfterError`). `eventLoop` says where `process_mqtt_events` is: polling,
awaiting `subscribe`, awaiting `send`, or asleep. Log lines are written at any
time; what they say is left out. HTTP requests (`http`) are `sending`,
`waiting`, `answered` or `timed out`; the 30 s timer runs in `waiting` only.

### StreamReader and ByteStream

Every lock scope of `HttpStreamReader` is an action, and `notify_all`, which
the code calls after it has released the mutex, is one more: between the two a
reader may go to sleep. `Passed`, `Failed` and `Sleep` are one look of
`wait_for_data`; `SpuriousWake` is what a condition variable is allowed.
`ByteStream` has the answers only: bytes in order from the position, the end
only behind a whole body, an error only for bytes that never came. The
refinement mapping is the identity on what was received, the position and the
answers. `CacheLoads` relies on it where it lets a decoder end or fail.

### MemoryCache

An operation begins when no other runs (the cache manager's mutex); a `put`
takes out what it replaces, evicts in rounds (`EvictOne`) and inserts. Two uses
may read the same time from the clock. `usedAt` is the true order of uses.

### LiveInput

The ring is counted in frames. Each look at it and each change of it, by the
capture callback or by the audio callback, is a step, so that both may meet
between `StartMix`, `TrimBacklog`, `MeasureBacklog` and `ReadFrames`. The
resampler takes whole chunks and makes one of `ChunkYields` frames of them, or
fails. The health counters are kept modulo `Wrap`, which is enough to compare
them. Commands change the volume under the mixer's mutex, thus only when no
callback holds it.

### Decisions

What the daemon decides without state of its own is written as operators in
`Commands`, `Config`, `Devices`, `Mixdown` and `Decoding`, translated function
by function. `Decisions` makes a specification of them: a behaviour puts one
question (`ask`) and answers it in one step; every property compares the answer
with a definition of its own of what it should be, or the answers of two paths
with each other. A message is a record of tagged values (`<<"str", …>>`,
`<<"num", …>>`), with `serde`'s rules for fields, aliases, nulls and unknown
names as an external definition. A path is the sequence of its components on a
small file system with links. A frame of a loop is the set of source frames it
blends with their weights; a channel's content is so much bass and so much
treble, with ideal filters; a decoded frame is its number in the output of the
filter.

## Runs

Passing runs. States are distinct states, times on two workers. A run checks
few named properties, each a conjunction of named parts, given in brackets and
commented in the modules.

| Run | Question | Bounds | States | Time |
|---|---|---|---|---|
| `voices` | Do the bookkeeping of ids, volumes and ducking survive every interleaving, is every play answered, every sample forgotten, no voice left ducking? `Bookkeeping` (`TypeOK`, `PruneSparesLiving`, `TrackedUntilStopped`), `VolumeInForce`, `DuckInForce`, `NothingLeftBehind` (`NoGhostSamples`, `DuckOnlyWhilePlaying`), `LateLoadsDiscarded`, `PlaysRunTheirCourse` (`EveryPlayAnswered`, `FinishedForgotten`) | a loaded and a streamed play, of one voice or of two, 2 volumes, 1 `stopall` | 540,579 | 2 min |
| `sample_playback` | Is a sample never cut short, does a loop keep time, does what should end end? `PlaybackSound` (`TypeOK`, `PlaybackInv` with `LoopInsideBuffer`), `NeverCutShort`, `LoopKeepsTime`, `SoundsEnd` (`StopEnds`, `OneShotEnds`) | lengths 1 and 3, crossfades 0 and 1, four speeds, 2 commands, callbacks of 2 frames, half-frame units | 354,023 | 23 s |
| `cache_files` | Is the cached file always whole, do entry, file and memory agree, through cancelled loads, crashes, faults and cache commands? `FilesSound` (`TypeOK`, `FileInv` with `WholeAtFinalPath`), `CachesInStep` (`ValidatorsNotNewer`, `MemoryFollowsDisk`, `CompleteHasFile`), `RefinesPublishedFile` | 2 loads, 5 inodes, 2 chunks, 2 versions, decoders that fail or read to the end, until two downloads overlap | 1,998,517 | 80 s |
| `cache_live` | Does every load leave the table (`LoadsSettle`), is the mutex released (`MutexReleased`), if decoders fail or stop early and downloads overlap? Is the file whole until they do (`FilesSound`)? | 2 loads, 2 chunks, 1 version | 375,392 | 3 min |
| `control_path` | Do commands arrive in order, at most once, and does everything received get done; does the subscription come back? `PipelineSound` (`TypeOK`, `PipelineInv`, `RoomToSubscribe`), `CommandsInOrder`, `ReceivedExecuted`, `HttpAnswered`, `Resubscribed` | 3 messages, 1 HTTP request, 2 lost connections, command channel of 1, request channel of 2 | 88,336 | 52 s |
| `stream_reader` | Does a decoder get a download's bytes as a stream, and does every call return? `ReaderSound` (`TypeOK`, `NoLostWakeup`, `PositionInBuffer`, `DroppedStopsDownload`), `RefinesByteStream`, `CallsReturn` | bodies of up to 4 bytes with and without a length, reads of up to 3, seeks by -3, -1, 0, 2, 5 from start, end and position | 183,708 | 11 s |
| `memory_cache` | Are the accounts exact and the budget kept, and does what was used longest ago go first? `AccountsKept` (`TypeOK`, `SizeExact`), `BudgetKept`, `EvictionFair` (`PlayingStays`, `LeastRecentGoes`) | 3 keys, sizes 1, 2 and 5 in a budget of 4, 6 operations | 414,312 | 7 s |
| `live_input` | Is the delay bounded, every frame accounted for, the volume the one asked for? `LiveInputSound` (`TypeOK`, `FramesAccounted`, `UnmuteRestores`), `TrimSound` (`LatencyBounded`, `TrimNeverStarves`), `VolumeReaches` | ring of 5, blocks of 2 and 4, callbacks of 1 and 3, no resampler or chunks of 3 that yield 1 or 3, volumes asked -1, 1, 9 | 809,760 | 42 s |
| `ducking` | Does every level follow the rules of the active voices, and do microphones duck while and only while somebody speaks? `DuckingSound` (`TypeOK`, `MicTypeOK`, `HeadedByRules`, `MicMatches`), `RestartedByRulesOnly`, `LevelsSettle`, `SpeechDucks`, `HoldRespected` (`HoldKept`, `SilenceReleases`) | 3 voices, 3 rules that overlap and chain, 2 microphones, hold of 2 ticks, bridge late by up to 1 | 210,489 | 2 min |
| `decisions` | Does a command mean the same however it is sent; does what validates start; is the right device opened; does the mix hold what was routed; is decoded sound in time? `CommandsUnderstood` (`AnswerOK`, `FormatsAgree`, `MacrosFill`, `HttpAsMqtt`, `OnlyNamedTargets`), `StartsAsConfigured` (`ValidStarts`, `CommandLineDecides`, `PathsStayInside`), `DevicesServe` (`DeviceAsNamed`, `InputServesRoutes`, `OutputAsOffered`, `SuggestionsUsable`), `MixAccounted` (`Seamless`, `PitchLoopAsPlain`, `MixAsRouted`, `BassAccounted`), `DecodedInTime` (`StreamInTime`, `WholeAsStream`) | every command with all bodies of up to 3 fields (2 beside macros), ill-typed and null values among them; the configurations, device lists, formats and paths of `MCDecisions`; loops of up to 8 frames; outputs of 2, 3 and 6 channels; files of up to 4 packets at 5 pairs of rates | 111,780 | 20 s |

Why these bounds are enough for the interesting cases:

- Two plays are one that is being collected and one that starts, on the same
  voice or on two (`OneOrTwoVoices`; the voices are alike), and one of the two
  is a stream, whose end the loader may change between two scans of a callback;
  a second `stopall` finds nothing a first did not.
- Two loads are a failed download that still runs and its retry. The constraint
  `Alone` of `cache_files` cuts off what comes after two downloads overlapped,
  of which its properties say little; `cache_live` goes on behind it and
  `shared_temp` is about it. Of two chunks
  one can be written and one missing; two versions are an old and a new body;
  five inodes are two files and three that only handles keep.
- Length 1 is the shortest audio there is, 3 has a first, a middle and a last
  frame; the crossfade of 1 is shorter and as long as half of a loop;
  speed -4 is two frames backwards per frame, more than a whole period of the
  short audio in one callback. A starving playhead stops counting at
  `MaxPosition`, beyond everything the audio or a seek can reach.
- The rules have a voice ducked by two others, a rule at full volume, one
  without a fade, and a primary that is itself ducked. One microphone has its
  voice for itself, the other shares it with samples; a hold of two ticks can
  be interrupted, restarted and outlived.
- Four bytes in reads of up to three are a read that takes part of what is
  there, one that takes all and one that waits; the offsets reach before the
  start, behind what has come and behind the end.
- A buffer of 5 is larger than the budget of 4; of those of 1 and 2 two or three
  fit. Six operations fill three keys, use one, pin one and put again.
- A ring of 5 has a ceiling of 2: blocks of 4 overfill it, callbacks of 3
  starve, and both trim and starving meet a push at each of their steps.
- A crossfade of up to half of 8 frames and one longer than the loop; a filter
  whose delay is shorter and longer than the file; packets without frames, of
  other tracks, corrupt, and after which nothing can be read.
- A command channel of one is full as soon as a second sender comes; a request
  channel of two is the smallest for which the daemon without logs works.

`CHECK_DEADLOCK FALSE` stands where the environment is bounded and the daemon
really comes to rest: all plays done, all commands used, nothing to receive.
History variables are read by properties only, never by a step's guard:
`clearedIds` (ids a `voice_stop` took), `missed` (plays a volume command was
overtaken by), `undercut` (plays whose voice the callback made inactive between
their look at the active voices and their push), `upset` (a fault, a cache
command, a decoder that ended early or two overlapping downloads), `late` (chunks
appended for a reader that is gone), `usedAt` (the order of uses), `since`,
`captured`, `played` and `audible` (frames and volumes of an input) and `heard`
(how long an input has been quiet).

Two runs expect a violation:

| Run | Says | Shows |
|---|---|---|
| `log_deadlock` | "It now resubscribes on every reconnect" (`CHANGELOG.md:14`) | with `logging.mqtt_topic` set, the request channel is full when the event loop task must subscribe, and only that task's polls would empty it |
| `shared_temp` | "a partial download can never be mistaken for a cached file" (`src/cache/http_stream.rs:325-327`): `PartialNeverCached` | all downloads of a URL share one temporary path (`src/cache/mod.rs:266-268`): the download of a load whose decoder failed has its last chunk and waits for the end of the body while the retry succeeds and a revalidation begins the same file anew; it then renames what the revalidation has just begun, and the index lists it |

## Fairness

Every assumption is on a step the code's scheduler or a timer takes by itself;
commands, messages, faults, crashes, lost connections and microphones are
never assumed to happen.

- `VoiceLifecycle`: play tasks run (tokio), their loads end (the stall timeout
  of a download), the callback returns, housekeeping is on a timer. Loaders of
  buffers that already play are not assumed to end.
- `CacheLoads`: weak fairness of the operation that holds the mutex (every
  await in it has a timeout), of each load's download and decoder; strong
  fairness of `Tick`, because tokio's mutex is fair: housekeeping, which asks
  every five seconds, is not overtaken for ever.
- `SamplePlayback`: the callback is called and a load ends. A stream that
  never ends (internet radio) is outside the model.
- `DuckingEngine` and `MicDucking`: the callback is called, time passes and
  the bridge task is scheduled. Nobody has to speak.
- `StreamReader`: the download task goes on until the body ends or its stall
  timeout fails it, and a decoder thread that is awake goes on. Nothing makes
  the decoder call again.
- `LiveInput`: the audio callback is called. The capture device may stop.
- `MemoryCache` and `Decisions` have safety properties only.
- `ControlPath`: the event loop task, the command loop and timers run; strong
  fairness where a task awaits room in a channel, because tokio's and flume's
  channels serve their senders in order. A play's load (`TaskEnds`) is not
  assumed to end: `HttpAnswered` must hold by the timeout.

## Proofs

TLAPS checks the theorems for every value of the constants that the named
assumptions allow; nothing is left out or assumed beyond them. Where a run's property is a
conjunction, a theorem of its own puts the parts together (`BookkeepingKept`,
`PlaybackIsSound`, `FilesAreSound`, `PipelineIsSound`, `ReaderIsSound`,
`EvictionIsFair`, `TrimIsSound`, `AccountsAreKept`, `LiveInputIsSound`,
`DuckingIsSound`, `MixIsAccounted`, `StartIsAsConfigured`,
`DevicesAreServed`, `CommandsAreUnderstood`).

- `VoiceLifecycleProofs`. `TypeCorrect`; `LivingStayTracked`
  (`TrackedUntilStopped`), `PruningIsSafe` (`PruneSparesLiving`),
  `VolumesInForce`, `DuckingInForce`, `LateLoadsAreDiscarded`,
  `NothingIsLeftBehind`. None of the invariants is inductive alone: that housekeeping prunes no living id needs to know that
  ids are fresh and distinct, that only what has been started is active, that
  the callback collects only finished samples, and that what was finished at
  the first scan has not come back at the second. `IdInv` is the conjunction
  of these parts (`IdsFresh`, `IdsDistinct`, `ActiveStarted`,
  `CollectedFinished`, `PruneSparesLiving`, `LivingTracked`). `VolumeInv`
  extends `VolumeInForce` to plays on their way to the mixer and to the voices
  no pending volume command is about. `DuckInv` says what `DuckInForce` rests on:
  every voice in the set of active voices is in the ducking engine or announced
  to it (`InForce`), and so is the voice of every play that found it active and
  was not undercut (`Relying`). `LeftInv` adds to `NothingLeftBehind` that a
  loaded sample has its whole buffer from the start (`LoadedAtOnce`), so none can
  become finished between the scan that records it and the one that removes it
  (`FinishedCollected`); streamed samples can, which is why the property leaves
  them out.
- `CacheLoadsProofs`. `TypeCorrect`, `FilesAreSound` (`FilesSound`),
  `ImplementsPublishedFile` (`RefinesPublishedFile`) and `CachesKeepStep`
  (`CachesInStep`), for any loads, chunks and versions, any decoders and
  whatever fails. Downloads may be cancelled, fail and be retried; only what
  the properties say ends with the first overlap of two downloads, because
  there the code breaks it (`shared_temp`). `FileInv` says why it holds until
  then: one download runs, and none beside a transfer of the cache manager
  (`OneWriter`), and whoever has the temporary file open has written a prefix of
  one version that is not older than what it replaces. `UpsetStays` says that an
  overlap is not forgotten. A step that writes nothing leaves all of this alone
  (`Kept`, `SameWriter`); a step that puts a file in place puts a whole one
  there, of a version that is not older (`NewerOrGone`). The refinement maps
  `final` to `PublishedFile`'s `file`; every step is a replacement, a
  withdrawal or a stutter. `CachesKeepStep` needs a second invariant, `StepInv`,
  as long as the caches are `Undisturbed`: the version of the file, which
  `FileInv` lets only grow, bounds whatever the entry, `metadata.json` or a load
  that has arrived is of (`FileNew`, `LoadInFile`), what is being fetched
  supersedes them (`SourcesNew`), a download that runs is the table's or of a
  load that left it (`InTable`), so a load folded as complete leaves none behind
  that could bring an older file; memory is empty while the URL is asked for
  (`MemoryEmpty`), and the file a load writes is at its path until
  `cache_clear` takes it (`TempWritten`, `WipesOldFile`). One lemma (`Quiet`)
  covers all steps that put no file in place and fetch nothing new.
- `SamplePlaybackProofs`. `TypeCorrect`, `PlaybackInvariant`,
  `LoopStaysInside`, `PlaysToTheEnd`, `LoopsKeepTime`, for any lengths, speeds,
  units and crossfades. `PlaybackInv` adds to `LoopInsideBuffer` what a
  buffer's state says of its frames and what `is_finished` has learnt when it
  reaches each of its reads. The loop arithmetic (remainders of either sign,
  crossfades at most half the audio) is in lemmas of its own.
- `DuckingEngineProofs`. `TypeCorrect`, `VoicesHeadedByRules`,
  `FadesRestartByRules`, for any set of rules. `HeadedByRules` is inductive
  together with the types; least elements come from lemmas on finite sets of
  levels. The second half is about `MicDucking`: `InputsDriveEngine`, every step
  of the live inputs is a step of the engine or leaves it alone, so the engine's
  theorems hold below them; `DuckingIsSound` (`DuckingSound`), that voices
  are ducked exactly when an input holds them; `InputsRestartByRules` and
  `PausesKeepDucking` (`HoldKept`). `MicInv` adds to `MicMatches` that the bridge
  task knows no activity that is not an input's or on its way to it
  (`BridgeKnows`) and that a hold is counted only while one runs
  (`HoldCounted`).
- `ControlPathProofs`. `TypeCorrect`, `PipelineInvariant`, `ExecutedInOrder`
  (`CommandsInOrder`), `AlwaysRoomToSubscribe` (`RoomToSubscribe`), for any
  capacities (two requests at least), messages, requests and lost
  connections. `PipelineInv` is the order of everything between the broker and
  the last command executed, with a bound on queued requests: one when a
  connection is made, two afterwards. `StuckForEver` proves the other half of
  `log_deadlock`: once the task finds the channel full, no step of anyone
  frees it.

- `StreamReaderProofs`. `TypeCorrect`, `WakeupsKept` (`NoLostWakeup`),
  `PositionKept`, `DropStops`, `ReaderIsSound` and `ReaderIsStream`
  (`RefinesByteStream`), for bodies, reads and offsets of any size. No lost
  wakeup is inductive by itself; that a seek lands on received bytes and that
  an end is reported only behind a whole body need to know what each station
  of a call has already learnt (`CallKnows`), that what was received is
  what was sent up to the chunk in hand (`BytesPlaced`), and that the download
  of a reader that is gone has at most one chunk past the flag (`GoneKnows`).
- `AccountingProofs`, what must add up, in the memory cache and in the mix,
  how the program starts, which devices it opens, what it makes of commands and
  how files are decoded, which share the theory of sums and folds. `TypeCorrect`, `PutsKeepBudget`
  (`BudgetKept`), `PutsKeepPlaying`, `PutsEvictOldest`, `EvictionIsFair`, for
  any keys, sizes and budget. That eviction by access time is eviction by order
  of use needs the times to be ordered as the uses are (`ClockOrdered`), that
  no two keys were used by the same operation (`UsesApart`) and that the key of
  a put under way is the next to be the latest (`PutLatest`). `TotalIsExact`,
  `TotalNeverNegative` and `AccountsAreKept` (`AccountsKept`): the running total
  is the sum of the sizes of what is in the cache, whatever is replaced or
  evicted, so it never wraps below zero.
  `MixIsAccounted` (`MixAccounted`), for loops of any length and crossfade, any
  parts, channel maps and gains and every configuration that validates:
  positions follow each other as `After` and `Before` say across the seam
  (`PathGoesOn`), where the weights of two frames in succession differ by a
  step at most (`WeightMovesOn`); the stretcher's arithmetic comes to the same
  frames (`PathIsFed`); after `j` routes of part `p` every channel holds the
  sum of what they brought there (`MixedUpTo`); after `k` sources the bass of
  the first `k`, each once because no two of them resolve to one channel, is in
  the sum and out of its channel where asked for (`TakenUpTo`).
  `StartIsAsConfigured` (`StartsAsConfigured`), for any configurations, command
  lines, directories, links and paths. A configuration that validates resolves
  at start-up and leaves a way to be told what to do; an option of the command
  line is what the merged configuration holds; a path that is let through leads
  to a file below an allowed directory, since each name of a path followed
  (`Visit`) leads to what exists or to nothing (`CanonicalExists`), and the
  check is a comparison of prefixes of what comes out (`IsBelow`). It assumes that configurations have
  their fields (`ConfigAssumption`), references to channels are numbers or
  strings (`MapAssumption`), and what exists has a parent that exists, as what a
  link leads to (`PathAssumption`).
  `DevicesAreServed` (`DevicesServe`), for any lists of devices, formats, routes
  and requests. A position that is resolved is that of the name, the number or a
  card, in this order (`PositionOf`), and the second enumeration is searched for
  what stood there; a rate that is chosen is in the range of the format it is
  chosen for (`RateInRange`), which is one with the fewest channels that suffice
  (`InputFormat`); after each hint the list names every device once and a
  suggestion stands right before the entry of its device (`IsListing`,
  `HintListed`). It assumes that devices have names (`DeviceAssumption`), ranges
  are not empty, and a preferred rate is at most the cap of 384 kHz
  (`FormatAssumption`).
  `CommandsAreUnderstood` (`CommandsUnderstood`), for any bodies, macros, samples
  and voices of inputs. The macros beside a message come to one set of fields, in
  which the first macro that has a field decides (`FirstMacroDecides`, over the
  fold that merges them); filling it in before or after the parameters are nested
  makes no difference (`FlattenedExpands`, `NestedExpands`), so both formats come
  to one parse (`Parse`) and part only where there are no parameters at all
  (`BareFadeAll`, `EmptyRefused`). Of the REST handlers, every field of an endpoint
  is one of its message, of the same type and required if it is (`PassesOn`,
  `Endpoints`, schema by schema), so what decodes arrives under its MQTT name
  (`BodyPassedOn`) and what does not is no message either (`RefusedNoMessage`). It
  assumes (`CommandAssumption`) that neither parameters nor macros have a field
  named `command`, `message` or `macro`: a macro with a `message` would turn a
  flattened command into a nested one. Fields are merged by `FillIn`, not by the
  standard `@@`, which the provers cannot expand.
  `DecodingIsInTime` (`DecodedInTime`), for any packets, chunks and pairs of rates.
  A resampler has put out what its filter put out past the delay (`InTime`), and
  what it hands out goes from the frame it stopped at before (`HasOut`); after
  every chunk, every push (`Waiting`) and every zero of a flush. So the chunks of
  a stream join to one row of frames (`Run`, `RunIsHeard`), and after `k` packets
  what was read is the sum of those of audio before anything broke (`IsReadTo`).
  How many come out is integer arithmetic of the two rates (`HeardExpected`,
  `DrainedEnough`, `ResampledWhole`). It assumes that `DrainLimit` chunks of zeroes
  push out what the filter holds back (`DecodeAssumption`), as the code says of
  its guard (`src/audio/chunked_resampler.rs:252`): below that a flush gives up
  and the end of the file is missing.
  The library's induction theorems take an operator. Induction over the length
  of a sequence or the size of a set goes by a least counterexample instead
  (`AllUpTo`, `SmallestSet`): that what `SumFunctionOnSet` and `FoldLeft` yield exists at
  all (`SumExists`, `FoldExists`), and that a sum changes by one element's value
  at a time (`SumByElement`).
- `LiveInputProofs`. `TypeCorrect`, `UnmuteKnowsLevel` (`UnmuteRestores`),
  `LatencyIsBounded`, `TrimStarvesNobody`, `TrimIsSound`, for any ring, blocks,
  callbacks and volumes. The invariant says what the callback has learnt of the
  backlog when it reaches each of its looks, given that the capture side can
  only have added since (`CallbackKnows`), that the ring never overflows
  (`RingKept`), and the same of volumes and counters (`VolumesKept`,
  `CountersKept`). `EveryFrameAccounted` (`FramesAccounted`) and
  `LiveInputIsSound` (`LiveInputSound`): each statistic is the number of frames it
  counts up to multiples of `Wrap`, and the frames of the device are those played,
  trimmed, refused, in the ring or on their way (`Balanced`), so the wrapped
  counters balance too.

Only model-checked: all liveness properties (`PlaysRunTheirCourse`,
`SoundsEnd`, `LoadsSettle`, `MutexReleased`, `LevelsSettle`, `SpeechDucks`,
`SilenceReleases`, `ReceivedExecuted`, `HttpAnswered`, `Resubscribed`,
`CallsReturn`, `VolumeReaches`), since fairness is out of the prover's reach.
All other properties of the runs are theorems (of `HoldRespected` the half
`HoldKept`), but for those that `log_deadlock` and `shared_temp` refute.

## What the code does not keep

Besides `log_deadlock` and `shared_temp`, the models brought up these; no run is listed for them,
and the properties except what they say.

Against the documents.

- "Cancel any loads still in flight so nothing starts playing after the stop"
  (`src/main.rs:1181`). A play task compares its generation once, at
  `src/main.rs:1033`, before it pushes its sample at 1154: a `stopall` in
  between fades what plays and the sample starts after it.
- "whenever the presenter speaks, music ducks" (`docs/features/ducking.md:174`).
  A sample that ends on the microphone's voice makes the voice inactive
  (`src/main.rs:773`) while somebody speaks, and the bridge reports transitions
  only. `SpeechDucks` and `MicMatches` are about inputs with a voice to
  themselves.
- A seek beyond what is loaded waits for the data (`src/main.rs:1478-1482`,
  `docs/features/caching.md:32`). The next `advance_position` of a looping
  sample (`src/audio/mixer.rs:440`, 804) wraps the position at the frames
  loaded so far.
- "command wins" over macros (`docs/commands.md:473`). A command with `time`
  and a macro with its alias `fade_out_ms` are a duplicate field and an error.

Voices. A `voice_stop` between a sample's registration and its push takes its
id and fades nothing, so the sample plays on out of reach of voice commands
(`TrackedUntilStopped` excepts it); a `voice_volume` there is missed, and one
whose voice is forgotten and made anew before it reaches the mixer gives the
new voice's samples a volume the manager does not have (`VolumeInForce`
excepts both). A stream
that fails between two scans of one callback leaves the mixer unrecorded and
its id stays in the voice manager (`NoGhostSamples` excepts streamed plays). A
play task that found its voice active may push after the callback made the
voice inactive: the voice plays and ducks nobody until its next play
(`src/main.rs:1144-1157`, against `src/audio/ducking.rs:10`; `DuckInForce`
excepts such a play and no other).

Caches. A load in the table when its URL is invalidated is folded in
afterwards and served (`src/cache/mod.rs:628`, against
`docs/features/caching.md:155`). A decoder whose format ends before the body
(`EndsAfter` below `Chunks + 1`) completes its buffer before the file is
renamed, so the load is folded without a disk entry. A file without an entry,
left by a crash, is registered with the validators of a later response.
`cache_clear` and `cache_invalidate` wait in the command loop for a mutex that
plays hold across requests.

Playback. A one-shot stream that starves has its position run on; what arrives
is compared with that position. A length estimated when a load began is never
corrected, so later seeks stay clamped to it. A refused negative speed leaves
the new pitch mode with the old speed, and a sample that played in reverse
keeps its negative speed under pitch correction. A looping stream that
completes with no frames never ends (`Lengths` excludes 0). A fade-out started
during a fade-in begins at full gain, and a repeated stop starts its fade
again. Playing in reverse from the start ends at once.

Ducking. A rule without a fade restores over 2000 ms.

Commands. `fadeall` over HTTP ignores `fade_out_ms`, which MQTT takes for
`time`. `"pitch_correction": null` is left out over HTTP and refused over MQTT.
A macro with a key `message` hides the flattened parameters of the command that
names it. Two channels of a `channel_volumes` map (by number and by label) or
two labels of one channel are decided by the order of a `HashMap`. `-v` sets
the level to `debug` even where the file says `trace` (against the comment at
`src/main.rs:188`). A path that begins with `~/` is checked expanded and opened
as written (`src/audio/decoder.rs:72`).

Devices. `find_input_config`'s closest rate is that of the first match; a
requested channel count is cut to 16 bits; `find_output_config` panics if a
device's lowest rate is above 384 kHz (no stream opens); two ALSA names match by card whatever
their `DEV`; the ring of an input with `latency_ms` 5 is smaller than one chunk
of its resampler. An input whose voice is a number below the count of inputs
cannot be reached by that voice.

Sound. At the seam of a loop with a crossfade the interpolation towards the
next frame uses frame 0 rather than the end of the crossfade. A file shorter
than the resampler's filter may come out short when decoded whole
(`WholeAsStream` is about longer ones).

Control. An HTTP handler's wait for room in the command channel is outside
its 30 s timeout: `HttpAnswered` holds because the command loop keeps taking
commands. Commands published while the daemon is disconnected are lost: the
session is clean.

## Not modelled

- The WebSocket log stream: a broadcast channel whose slow receivers skip
  lines, and a task per client; it shares nothing with playback.
- HTTP routes, authentication and the status endpoints, which read under short
  locks and change nothing; the query commands.
- Codecs (symphonia), the resampling filter (rubato), the time stretcher and
  the crossover filters as signal processing; conversion of sample formats;
  volume ramps of samples; saturation; the `voice_volume` of live inputs, a
  factor like their own.
- Building, probing and printing of audio streams and devices against the
  operating system; the health monitor of `src/main.rs:94-154`, which logs
  counters; set-up of logging and shutdown.
- Parsing of the configuration file, its defaults and its search path, the
  expansion of precache entries, and a `message` given as a JSON array.
- Local files in the cache manager, which are decoded without a download.

## Plan

The order was: what every command depends on first (voices, caches, playback,
ducking, control path), then the parts that stand behind an abstraction of an
earlier module (stream reader, memory cache, live inputs, detector and bridge),
then what is decided without state (commands, configuration, devices, mix,
decoding). All of it is done, with its runs. Left:

1. `VoiceLifecycle` composed with `DuckingEngine`, so that levels and not only
   active voices are followed from a play to the end of its sample.
2. What stays true of a URL's file once two of its downloads have overlapped;
   so far nothing but its type is claimed there.

Runs are kept to a dozen, one for each distinct question, and their properties
to what is worth saying of each.
