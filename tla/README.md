# A TLA+ model of Arisa

Arisa turns a rooted Android device with KakaoTalk into a chat-bot server. A
Rust process on the device reads KakaoTalk's SQLite databases, streams new chat
rows to bots over gRPC, and sends replies and media by starting KakaoTalk's
services and activities through Android's activity manager. `airi` is the
asynchronous Python client bots are written with; `arisa_control` installs and
drives the server from a PC.

This directory holds TLA+ modules that model the server, the client and the
control script, TLC configurations that check them on small instances, and
proofs checked by TLAPS. Paths below are relative to the repository;
`PROJECT.json` maps every definition to the lines it models.

## Inventory

| Component | State | Operations | Talks to | What is hard | What makes it correct |
| --- | --- | --- | --- | --- | --- |
| Poller (`src/database/poller.rs`, `messages.rs`) | `last_database_id`, the batch in hand | read `MAX(_id)` once; poll 100 rows; map and send each | the messenger's table (shared with KakaoTalk), the broadcast channel | the messenger inserts and deletes while it runs; a start may fail to read the maximum; one unreadable row fails a whole query | rows leave in table order, once; none is stepped over silently; history is not replayed |
| Broadcast channel and event streams (`src/main.rs`, `src/service.rs`) | ring of 128 events, one position per receiver | send, subscribe, receive, lag, drop | poller thread, HTTP/2 streams | slow receivers are overrun, and `filter_map` hides it; no receiver means the event is dropped | loss only by overrun or absence |
| Message mapping (`src/database/mapping.rs`, `feed.rs`, `channels.rs`, `members.rs`) | pool of 10 connections | map a row with its author, channel and, for feeds, the messages it is about | SQLite, shared with KakaoTalk | feeds refer to feeds, in circles too; rows vanish between queries; queries made while another holds a connection | only a circle of feeds overflows the stack, no pool deadlock, an event tells the right earlier texts |
| Bot client (`python/src/airi/client.py`) | channel, stub, `_closed`, handler lists | connect, run, dispatch, reply, close | server | reconnect loop, concurrent `connect`, `close` during `connect` | no leaked channel, `close` ends `run`, the loop comes back |
| Media store (`src/media.rs`) | temporary files, one upload state per call | store, store_chunks, remove_stored, cleanup | action thread (paths), KakaoTalk (opens the files later) | cleanup races with uploads, queue and messenger; writes finish after `write_all` returns; cancelled calls | files live while needed, go when not |
| Action thread (`src/android/action.rs`, `api.rs`, `intent.rs`) | mpsc queue, JNI environment | reply, mark read, enter, send media | activity manager | thread may die at start; each call has a fallback; a result that declines is not looked at; media sends stop half way | in order, at most once; what was offered is known |
| Start (`src/config.rs`, `src/main.rs`, `src/android/art.rs`) | environment, Android VM | find the data, open, poll, create the VM, register natives, serve | file system, dynamic linker | nested fallbacks; a thread that attaches meanwhile and may take the process down; which Android user's data is opened | serves only where it can; one VM; data and actions belong to one user |
| Control script (`scripts/arisa_control`) | files, packages and processes on the device | install, start, stop, config, remove, all_remove | adb | an adb error looks like the answer "no"; no lock on the device; every command can stop half way | settings survive all but a cut write, one server, messages of success are true |
| Read requests (`src/service.rs`, `members.rs`, `channels.rs`, `messages.rs`) | a connection of the pool while a statement runs | get user(s), channel, message(s), members | SQLite, shared with KakaoTalk; decryption | one answer comes from several statements, each of which sees other tables; members move between tables; ids in chunks of 500 through a hash set | one entry per id, in request order, from the right table, of rows that were there; never a halt |
| Raw query (`src/database/raw.rs`), credential (`src/credential.rs`) | - | run the caller's SQL up to a limit; read two files | SQLite, the messenger's files | files change while they are read | the first rows and no more; each file as it once was |
| Decryption (`src/crypto/crypto.rs`) | key cache behind a mutex | decrypt, derive key | all threads that map or answer | concurrent fills, carries in the key derivation | cached key = key of RFC 7292; a text is never shown under a wrong key |
| Control script for Windows, bot helpers, protocol, build scripts, file provider | - | - | - | - | - |

How they interact: handlers run as tasks of one tokio runtime, queries on its
blocking threads; the poller and the action thread are operating-system threads
of their own. The poller hands events to streams through the broadcast channel,
handlers hand actions to the action thread through an unbounded queue and answer
before anything is done, and media reach KakaoTalk as paths in intents, so that
only time tells when a file is no longer needed. KakaoTalk writes the databases
the whole time and knows nothing of Arisa.

## Modules

| Module | Models | Kind | Uses |
| --- | --- | --- | --- |
| `EventFeed` | what a bot may rely on: published rows, in order, at most once | abstract specification | - |
| `EventPipeline` | table, poller, broadcast channel, streams, bot loop, process life cycle | composes four components around one table | implements `EventFeed` |
| `MediaStore` | temporary files: uploads, cleanup, crash; of queue, action thread and messenger what the files see of them | component, and abstract specification of the delivery | - |
| `ActionProcessor` | the action thread with its queue and fallbacks | component | - |
| `MediaDelivery` | the store and the action thread in one process | composition | extends `ActionProcessor`, implements `MediaStore` |
| `Feed` | what `feed::parse` makes of a row | operators | - |
| `MessageMapping` | `map_message`, its queries, the pool, the recursion through feeds | component | `Feed` |
| `Decryptor` | salts, key derivation, key cache and its mutex; RFC 7292 as the reference | operators and the actions of the cache | - |
| `ReadContract` | what an answer may tell, given what was there since the request | abstract specification | - |
| `ReadRequests` | every read request, statement by statement | component | extends `Decryptor`, implements `ReadContract` |
| `BotClient` | `connect`, `run`, `dispatch`, `close` on one event loop | component | - |
| `Startup` | configuration, order of `main`, Android VM | component | - |
| `Control` | `arisa_control`, call by call, from several terminals | component | - |
| `*Proofs` | inductive invariants, refinement steps, theorems | proofs | the module they are named after, TLAPS |
| `MC*` | the instances TLC runs | instances | the module they are named after |

### EventPipeline

A row is its id (its index in `rows`: SQLite's AUTOINCREMENT never reuses one)
and a kind: `msg`, `sync` (skipped for its origin) or `bad` (unreadable).

| Code | Model |
| --- | --- |
| `chat_logs`, written by KakaoTalk | `rows`, `deleted`; `Insert`, `Delete` at any time |
| `start_poller` up to the loop | `StartPollerOk`; `StartPollerFallback` is `unwrap_or(0)` |
| the query of a round, and its failure | `PollOk`, `PollAgain` |
| the `for` over the rows | `SkipRow`, `SendRow`, `FailRow`; each begins by moving `last` |
| `broadcast::channel(128)` | `sent`, `next[c]`; `Capacity` bounds how far a receiver may fall behind, then `Lag` |
| `subscribe_events` | `Subscribe`, `Forward` |
| `Airi.run` | `Dispatch`, `Disconnect`, `Reset` |
| process | `Start`, `StdinClosed`, `Exit` (graceful), `Crash` |

`got`, `since`, `mark`, `overrun`, `base`, `failed`, `published` and `replay`
are history: no guard reads them.

### MediaStore

A file is `<<u, k>>`, the k-th file of upload u. `WriteBegin`/`WriteEnd` are
`tokio::fs::write` of SendMedia; `FileMetadata`/`Chunk`/`ChunkError` are
`store_chunks`, where `write_all` returns before its data is written, so `Land`
and `LandError` happen later, seen by the next operation on that file or by
nobody. `RemoveStored` may fail for any subset of the files. The cleanup task is
`ScanStart` (cutoff), `Visit` (compare mtime) and `Remove` (later, without
looking again). Time is `Tick`, the age of each file since it was last written.
Of the action thread the store sees `receiver` (attaching, up or gone: it
decides between `Accept` and `Refuse`), `queued` and `handed`: `Process` names
some files of an upload to the messenger and may end its action or not.

### ActionProcessor

One variable for each stage an action passes: accepted (answered OK), taken
from the queue, its current part, what the activity manager has started, and what
it has declined. `Build`, `Call` and `Fallback` each have an error action (an
exception), and the two calls one more, `CallDeclined` and `FallbackDeclined`:
`startActivity` returns a negative code, or `startService` nothing, and `api.rs`
takes the call for done. Single-mode SendMedia is one call per file and stops at
the first call that throws, not at a file that is declined.

### MediaDelivery

The process has both components. A step of one of them is that module's action
with the other's variables unchanged: `Upload`, `Disk`, `Cleanup`, `Quiet`. Steps
of both are `Accept` (the last file is stored and an action of one or several
parts is enqueued: `send_media`, `send_media_by_chunk`), `Refuse`, `Deliver` (the
activity manager takes an intent, and the messenger the files it names) and
`Crash`. `owner` says whose files an action carries; `EnqueueOther` is every
action without files. `Store!Spec`, with `queued` and `receiver` computed from
the thread (`Queued`, `Receiver`), is checked as a property: what `MediaStore`
leaves open about the thread, the real thread keeps to.

### MessageMapping

Each task has a stack of messages it is mapping, because a feed about other
messages maps those in turn. `Acquire` waits for a connection; `Author`,
`Channel` and `Row` are the queries; `QueryError` is any of them failing; `Ask`
takes the next id on the innermost feed's list, skips it if it is the feed's own
and maps its message otherwise (`Descend`); `Return` is the end of one
`map_message`. KakaoTalk may delete rows in between. A row is what is stored: a
type, the feed's number, which fields have a usable value, the ids in them and the
fields of the metadata. `Feed` decides, as `parse` does, which of them a feed cannot
do without (`Required`) and which messages it is about, in the order of its list.

A feed may list any messages: earlier and later ones, itself, one of them twice.
Nothing in the code cuts a circle of feeds. `StackDepth` stands for the size of the
thread's stack; a mapping it has no room for sets `overflow`, and the process is gone.

A room is open in two ways that the code asks for separately: by its type
(`room.om`, in `get_channel`) and by a bit of its id (`room.open`, in
`get_users_with_connection`). `Rooms` has all four kinds.

### ReadRequests

| Code | Model |
| --- | --- |
| the handler's checks before `blocking` | `Ask`, `AnswerAtOnce` |
| `pool.get()`, and its release when the closure returns | `Acquire`, `Return` |
| `get_users_with_connection` | `Own`, `LoadChunk` for each chunk of each table, `UserDone`, `LoadDone`, `Collect` |
| `Decryptor::decrypt` | `DecryptInvalid`, `DecryptHit`, or `DecryptMiss` then `DecryptInsert`, the mutex held in between |
| `get_channel`, `get_channel_members` | `ChannelRow`, `OpenLink`, `NoRow`, `ChannelMembers` |
| `get_messages` | `MessageChunk`, `MessagesRead` (gives the connection back), `MapMessages` |
| `raw_query` | `RawQuery` |
| `credential::read` | `ReadFile`, once for each of the two files |
| anything failing: statement, pool, file, panic of the closure | `Breaks` |
| KakaoTalk | `InsertRow`, `RemoveRow`, between any two of these |

A row is `<<table, key>>`. `always` and `ever` are history: the rows that have
been there all the time, and at some time, since the call. `ReadContract` judges
an answer by them alone, with no connection, chunk, file or key in it.

### Decryptor

Bytes are digits of a small base and all lengths are constants, so the carry of
`pkcs12_sha1_kdf` runs through every case with blocks of three digits.
`DeriveKey` follows the code digit by digit, on the blocks that
`chunks_exact_mut` makes of its input (`Input`, one entry per round);
`ReferenceKey` is RFC 7292 with blocks as numbers (`Numbers`) and
`(I + B + 1) mod 2^v`.

### BotClient

One task runs until its next `await`: an action is the code between two awaits.
`connect` has one await (the health check) between reading `_channel` and
setting it. Exceptions are either of those `run` reconnects on or others
(`Endings`). Callers are tasks that use `reply` and the like.

### Startup

The device (which users have KakaoTalk, which libraries exist and work, which of
the other things `main` needs are not in order) is chosen in `Init`; every step of
`main` then is one action, down to the address, the reflection service and the port
(`ParseAddress`, `BuildReflection`, `Listen`), and the return when stdin is closed.
The action thread (`worker`) attaches at any moment after `Spawn`. If it cannot, its
panic ends the process in a release build (`AbortOnPanic`) and the thread alone
otherwise.

### Control

Every adb call of `arisa_control` is an action. A lost *order* (push, rm, kill)
exits non-zero, whether or not the device carried it out; a lost *question*
(pidof, test, pm path) looks like "no". `excuse` records that a
session has taken a lost question for an answer, or that another terminal was
in a command at the same time; the properties name them as the only excuses.
`cat > file` is two steps, `OpenConfig` (the shell empties the file) and
`FillConfig`; `cut` records that a connection was lost between them, or in either,
so that the file is empty and the settings in it are gone.

## Runs

| Run | Instance | Shows |
| --- | --- | --- |
| `pipeline_safety` | 2 interchangeable bots, 2 rows of any kind, 2 starts, poll limit 2, capacity 1, window 1 | `ImplementsFeed`, `InOrderOnce` across reconnects and restarts, `SessionInOrder` even after a fallback to position 0, `NoHistoryReplay`, `NoSilentGap` for each bot whatever the other does, `StopsAtBadRow`, `TypeOK` |
| `pipeline_liveness` | 1 bot, 2 rows, 2 starts | `MessageArrives`, `DrainEnds` |
| `media_one_upload` | 1 upload, up to 2 files of 2 chunks | `FailureCleansUp`, `QueuedFilesWritten`, `FilesReclaimed` (liveness), `TypeOK` |
| `media_delivery` | store and action thread: 1 upload of up to 2 files of one chunk, 1 other action in front of it or behind | `ImplementsStore`: the real queue and thread keep to `MediaStore`; `NeededFilesStay`: no failure and no overlapping scan takes a file before RETENTION that the queue or the messenger still needs |
| `media_accepted_is_stored` | 1 upload, 1 file | violation, see findings |
| `actions` | 3 actions of any kind, 2 parts | `StartedInOrder`, `StartedUnlessDeclined`, `AcceptedIsWorkedOff`, `TypeOK` |
| `message_mapping` | poller and one handler, one connection, 3 messages, feeds about feeds, circles of two and of three, broken feeds, 1 deletion, every kind of room | `RecursesOnlyInCircles`, `PreviousIsRight`, `FailsForAReason`, `MappingEnds`, `TypeOK` |
| `bot_client` | `run` and two callers, 2 handlers, 3 channels | `LeaksOnlyByOverlap`, `HandlersAreIsolated`, `CloseEndsRun`, `Resubscribes`, `TypeOK` |
| `startup_devices` | every device with up to two users, a release build | `ServesIffItCan`, `TypeOK` |
| `startup_data_user` | the same | violation, see findings |
| `read_requests` | pairs of requests of every kind, one connection, statements of 2 ids, 2 writes by the messenger | `ImplementsContract`, `KeysAreDerived`, `RequestsEnd`, `TypeOK` |
| `control` | 2 terminals, 2 processes, 2 settings with 2 values | `OneServer`, `SettingsKept`, `InstalledIsUsable`, `RemovedIsGone`, `TypeOK` |

### Bounds

Every bound is a constant of its module. Why they suffice to meet the hazards:

- *Rows 2.* Order takes two events; a bot is overrun by the second (capacity 1),
  a deletion lowers the maximum, a row that cannot be read stands in front of or
  behind another. Two starts give one restart with everything of the first life
  in history. 128, 100 and the flow-control window appear only in comparisons;
  the proofs hold for all of them, and for any number of rows.
- *Files 2, chunks 2.* A failure after a complete file, a write in flight
  followed by another operation, and one followed by none.
- *Retention 1* (`media_one_upload`). One tick below, at and above the limit are
  told apart. In `media_delivery` it is 0, a tick being longer than RETENTION: a
  file is either fresh or expired.
- *One upload.* Uploads share the cleanup task and the thread and nothing else:
  each file has a fresh UUID as its name and is removed by its own upload or by
  the cleanup, which looks at each file by itself. Other actions come before and
  after the upload's.
- *Actions 3, parts 2.* An action before, in and behind the thread; a media
  action failing at its first or second part.
- *One connection.* The smallest pool is the hardest: a query that took a second
  connection while holding one would stop at once.
- *Pairs of requests.* `MCReadRequests` lists them: each kind with itself or with
  one it shares tables, keys or the connection with, and the rows that come and
  go meanwhile. Lists have duplicates, are in no order, and need two statements
  (4 ids, 2 per statement). Two writes let a member leave one table and enter
  another, or a file be rewritten.
- *Messages 3, stack 3.* A feed about a feed about a message, circles of two and of
  three, a list with the feed's own id, with an id twice, and out of order. The
  stack is as high as there are messages: whatever overflows it, is a circle.
- *Three-digit blocks, base 4.* Passwords, prefixes and users that give a carry
  through a whole block, a salt cut off, filled up, and shared by two users.
- *Three channels.* One in use and two replaced; `Resubscribes` names the case
  that leaks have used all of them.
- *Two terminals.* All promises of `Control` relate one command to one other.

Deadlock is not checked where the system may come to rest: the server has been
started as often as the bound allows, all actions are done, all messages are
mapped, the start has ended. It is checked for `MediaStore` and `Control`.
Symmetry is used only in runs without liveness properties.

### Fairness

- Pipeline: weak fairness of the poller's steps, of each stream and of each bot's
  dispatch: they are a thread and tasks of a running scheduler. `PollOk` is
  fair, its failure is not: a query that fails for ever is covered by
  `Blocked` in `MessageArrives`. Nobody is obliged to subscribe, to insert or to
  start the server.
- Media: time passes, a blocking write ends, the interval ticks. Strong fairness
  of a file's visit and of its removal: each scan may end early on a read error
  or fail to remove a file, but not every scan for ever.
- Actions: the thread is scheduled and the activity manager answers.
- Mapping: some task makes a step as long as one can; every task maps one
  message, so none can starve. Errors are never needed to make progress.
- Read requests: each call that has been made goes on when it can. That a wait for
  a connection times out is `Breaks`, which is not fair: no call needs it to end.
- Bot: the loop runs tasks that are ready. The health check and the stream's end
  are strongly fair, because the server and close() can disable them again and
  again.

## Findings

1. `media.rs:125` (run `media_accepted_is_stored`). After its last chunk a file is
   dropped without a flush. tokio's `write_all` returns when the data is handed
   to a blocking task, so SendMediaByChunk is answered OK and the action queued
   while the file is short, and a failed last write is never reported, though
   the function has an error for it.
2. `config.rs:75` (run `startup_data_user`). README.md:124 describes `ARISA_UID` as
   the Android user for dual messenger, work profile or secure folder. The
   data path tries `/data/data` (user 0) first; with KakaoTalk installed for
   both users the server reads user 0's messages and sends as the other.

Seen while modelling, with no run of their own:

- Feeds that refer to each other are mapped without end: `enrich_feed`
  (`mapping.rs:54`, `61` and `72`) leaves out a feed's reference to itself only. Two
  hidden feeds that list each other overflow the thread's stack, which ends the
  process. `RecursesOnlyInCircles` says that nothing else does.
- The results of `startActivity` and `startService` are dropped (`api.rs:59`,
  `api.rs:122`): what the manager declines without an exception counts as sent.
- README.md:17 promises messages of up to 300 MiB; `MAX_GRPC_MESSAGE_BYTES`
  (`config.rs:7`) is 64 MiB in both directions.
- README.md:124 gives `0` as the default of `ARISA_UID`; the server without the
  control script uses -3, the current user (`api.rs:32`).
- Two tasks that connect at once leak the first one's channel, and `close()` during
  a health check, or after `run`'s channel was replaced, does not end `run`. The
  bot's properties name these cases as their only exceptions. The exception of a
  filter or a middleware, unlike a handler's, leaves the stream.
- A `test -f` that gets no answer makes `arisa_control` overwrite the settings
  with the defaults; lost questions make `all_remove` report success for what is
  still there; a connection lost while the configuration is written costs every
  setting, and the empty file it leaves is accepted by `install` and refused by
  `start` and `config` until `all_remove`; of two `config` commands at once one
  loses its change. `Control` states what holds apart from them.
- `arisa_control:310` announces "Using default" for an invalid address and keeps
  the current one.

## Proofs

A theorem holds for every value of the constants, not only for the instance that
TLC runs: any number of bots, rows, uploads, files, actions, terminals, server
processes, settings, tasks, handlers, channels, messages and restarts, any poll
limit, channel capacity, window, pool size and RETENTION. The only assumptions
are the named ones on the constants (`PipelineConstants`, `MediaConstants`,
`DeliveryConstants`, `ActionConstants`, `ControlConstants`, `ClientConstants`,
`MappingConstants`, `InputsAreDatabases`, `DecryptorConstants`, `ReadConstants`,
`InputsAreRequests`, `StartupConstants`), which TLC evaluates on every run of their
module, and one hypothesis that three theorems of `ReadRequestsProofs` state
themselves, on the type of the parameter that stands for SHA-1: it makes a digest, a
sequence of `HashLength` bytes, of every sequence of bytes (`HashMakesDigests`; it
speaks of all sequences, so TLC cannot evaluate it as an assumption). The
assumptions say that bounds are natural numbers
(those the code fixes, such as a channel of 128, above zero), that texts are made of
bytes, that markers such as
`NoUpload` or `Absent` are none of the values they stand beside, and of
`MediaDelivery` that a SendMedia with as many parts as an upload has files is an
action the thread's model knows.

Each proof module defines one inductive invariant (`SessionInv` of the pipeline
and `OwnerInv` of the delivery come on top of another), has one lemma for each
action or group of actions, and ends in its theorems. TLC has checked each
invariant on the module's run before it was proved.

| Module | Theorem | States |
| --- | --- | --- |
| `EventPipelineProofs` | `TypeCorrect` | `Spec => []TypeOK` |
| | `OrderTheorem` | `Spec => []InOrderOnce` |
| | `NoReplayTheorem` | `Spec => []NoHistoryReplay` |
| | `BadRowTheorem` | `Spec => []StopsAtBadRow` |
| | `Refinement` | `Spec => ImplementsFeed`, that is `EventFeed`'s specification |
| | `SessionOrderTheorem` | `Spec => []SessionInOrder` |
| | `NoSilentGapTheorem` | `Spec => []NoSilentGap` |
| `MediaStoreProofs` | `TypeCorrect` | `Spec => []TypeOK` |
| | `FailureTheorem` | `Spec => []FailureCleansUp` |
| | `WrittenTheorem` | `Spec => []QueuedFilesWritten` |
| | `NeededTheorem` | `Spec => []NeededFilesStay` (`MediaStore`'s) |
| `MediaDeliveryProofs` | `ThreadTypeCorrect` | `Spec => []TypeOK` (`ActionProcessor`'s) |
| | `StartOrderTheorem` | `Spec => []StartedInOrder` |
| | `StartTheorem` | `Spec => []StartedUnlessDeclined` |
| | `StoreRefinement` | `DeliverySpec => ImplementsStore`, that is `MediaStore`'s specification |
| | `DeliveredFilesTheorem` | `DeliverySpec => []NeededFilesStay` |
| `MessageMappingProofs` | `TypeCorrect` | `Spec => []TypeOK` |
| | `RecursionTheorem` | `Spec => []RecursesOnlyInCircles` |
| | `ReasonTheorem` | `Spec => []FailsForAReason` |
| | `PreviousTheorem` | `Spec => []PreviousIsRight` |
| `ReadRequestsProofs` | `TypeCorrect` | `Spec => []TypeOK` |
| | `DerivationTheorem` | `HashMakesDigests => DeriveKey = ReferenceKey` |
| | `Refinement` | `Spec => ImplementsContract`, that is `ReadContract`'s specification, under `HashMakesDigests` |
| | `CacheTheorem` | `Spec => []CacheIsFaithful`: each cached key is the one derived from its salt |
| | `KeysDerived` | `Spec => []KeysAreDerived` under `HashMakesDigests` |
| `BotClientProofs` | `TypeCorrect` | `Spec => []TypeOK` |
| | `LeakTheorem` | `Spec => []LeaksOnlyByOverlap` |
| | `HandlersTheorem` | `Spec => []HandlersAreIsolated` |
| `StartupProofs` | `TypeCorrect` | `Spec => []TypeOK` |
| | `ServeTheorem` | `Spec => []ServesIffItCan` |
| `ControlProofs` | `TypeCorrect` | `Spec => []TypeOK` |
| | `OneServerTheorem` | `Spec => []OneServer` |
| | `SettingsTheorem` | `Spec => []SettingsKept` |
| | `InstallTheorem` | `Spec => []InstalledIsUsable` |
| | `RemoveTheorem` | `Spec => []RemovedIsGone` |

### The pipeline

`InOrderOnce` is not inductive: it speaks of what bots have dispatched, and a
step of the poller that picks up an old row disturbs it only several steps
later. The invariant `IInv` adds what lies in between. `PollerInv` holds the
core: whatever the poller may still pick up, in its batch or in the table above
its position, is younger than everything ever published. It survives deletions
and restarts because a start puts the position at the end of the table and ids
are never reused; the fallback to 0 breaks it, hence `replay`. `ChannelInv` says
the accepted events ascend and are published; `BotInv` that what a bot has
dispatched, what is on its way and what its receiver has still to read follow
each other. `BadRowInv` needs the batch to be free of unreadable rows and without
holes. Each part has a lemma for its step; `LatestRowFact` and `RowsAfterFact`
say what the two queries return. The refinement takes each step of the pipeline to
`Publish`, `Deliver`, `LoseTrack` or a stutter.

`SessionInOrder` holds after a fallback too, where `PollerInv` says nothing: a
receiver starts at the end of the channel, so `SessionInv` only has to follow one
poller's events from that point. `NoSilentGap` is inductive together with the
two: a row of the subscription's time that the position passes was in the batch
(`RowsAfterFact`: a batch has no holes), so it was sent to this receiver, failed,
or was not a message.

### Store and action thread

Which files of an upload exist, and which are written, is told by how far its
handler has come (`JobInv`, `DiskInv`, `WriteInv`), except for what the cleanup
took; and the cleanup, between its comparison of the times and the removal, only
holds files that were once idle for too long (`CleanInv`). `WorkInv` says the same of the
thread: what was started or declined is everything before the part it is at.

`MediaDelivery` extends the thread and instantiates the store; its proof module
instantiates the store's *proofs* with the same substitution (`SP`), so that a
step that is a step of the store needs no second proof. What is new is `OwnerInv`: the
upload of an action in the queue is done, and a SendMedia has a part for each file.
With it each step of the composition is a step of `MediaStore` or a stutter
(`StoreRefinement`), and the store's `NeededTheorem` carries over.

### Message mapping

`StackInv`: every message on a task's stack leads to each one above it, through the
feeds in between, and the one the task set out to map leads to all of them. So a
message that is twice on a stack refers to itself through other feeds; and a stack
higher than there are messages has one twice, by counting (`RecursesOnlyInCircles`).
`FrameInv`: what a frame has found stands on its list at places that had their turn,
and for each place that had its turn and gave nothing there is a reason (deleted, or
no text to tell). When a frame returns, that is `PreviousIsRight` for its message, and
the answer that the frame below needs. `Reachable` is a least closed set, so that
"however indirectly" needs no induction. `RoomIsWhole`, the reason that
`FailsForAReason` allows for a channel, says which rows of the tables a channel needs
and not what the code asks for; `WholeRoomIsFound` is that the code asks for no more.

### Read requests

A call's answer is put together by statements that each see the tables at another
moment. `IInv` says what those so far have settled: what was found may be told
(`TellInv`), and for an id whose turn is over and that was not found, there is a row
that was not there all the time (`MissInv`, `MessageInv`); `PlaceInv` says on which
list a call works at each stage. All of it is about `always` and `ever`, so it only
becomes truer when the messenger writes (`WriteKeeps`), and a step of one call leaves
the others' parts alone (`OthersKeep`). Each action then has two lemmas: one that it
keeps the invariant (`...Keeps`), and one that what it answers is allowed, or that the
contract does not see it (`...Allowed`). For `raw_query`, `FirstFact` counts: when a row
is left out, the answer is full and all of it in front of that row.

The contract promises readable texts, so `Refinement` also needs the keys to be
those of RFC 7292 (`DerivationTheorem`). The code adds a digest to a block byte by
byte, from the last to the first, and hands a carry on; the RFC adds numbers modulo
2^v. `LeadingDigits` says what a number is when its last digits are cut off;
`SumCut`, that the sum cut off at any digit is the sum of what is cut off the two
plus the code's carry into that digit; `DigitOfRest`, that the reduction leaves a
block's digits alone. So `AddDigestSum`: the code's block is the number of the RFC.
Then the inputs of all rounds agree (`RoundsAgree`), hence their digests and the key.
The cache hands out what was derived from that salt (`CacheTheorem`), which makes
the two `KeysDerived`.

The prover has no induction scheme with a predicate as a parameter, and takes a
recursive function for whatever value satisfies its equation, if there is one. The
module therefore has its own: `SetInduction` is induction for a *set* of numbers
(from the least element of its complement), and `Recursion` and `RecursionFromOne`
say that a function exists for every recursion from one number to the next.
`PowerFact`, `ValueFact`, `CarryFact`, `FlattenType` and `InputFact` apply them to
`Power`, `Value`, `Carries`, the library's `FlattenSeq` and `Input`.

### Bot client, start, control script

`DispatchInv` tells from the place in the loop which handlers have been called.
For leaks the lemma is about one step: a channel leaves the client's hands by
being closed or by an overlap that is counted. `Found` says which conjuncts of
`CanServe` each step of `main` has settled, and that a start that has ended
had one that does not hold, or an action thread that took the process down. Of the
control script the argument is `Alone`: a
command with no excuse has run alone since it began, so what it found out and did
(`StartInv`, `WriteInv`, `InstallInv`, `RemoveInv`) still holds at each later call. An
empty file is kept apart by `TornStill`: whoever is about to fill it stays so until it
does or loses the connection.

### What the proofs have changed

- Two `CASE` expressions had overlapping arms, of which TLC takes the first and TLA+
  any: `Receiver` of `MediaDelivery` and `About` of `Feed`.
- `Merge` of `MessageMapping` replaced every snapshot of a message and `Snapshot` took
  all of them, where the code replaces and takes the first (`find`). There is never a
  second one, which is now part of the invariant instead of the model.
- `RawQuery` of `ReadRequests` sorted with a library operator that chooses among
  sequences; it now says what the order is (ascending ids, each once).
- `ReadConstants` left the types of rooms, messages and logins open, and nothing said
  which ids a request may carry (`InputsAreRequests`).
- `DeliveryConstants` did not tie the number of files to the number of parts.
- `Decryptor` kept the input of a round as bytes and cut it into blocks with operators
  of its own; it now keeps the blocks, and the reference keeps numbers, as the
  RFC does. `DecryptorConstants` said nothing of the digits of ids and of the password.

### Only model-checked

- Liveness (`MessageArrives`, `DrainEnds`, `FilesReclaimed`, `AcceptedIsWorkedOff`,
  `MappingEnds`, `CloseEndsRun`, `Resubscribes`, `RequestsEnd`): fairness and ENABLED
  are out of the prover's reach.

Every safety property of the runs has a theorem.

## Refinements

| Detailed | Abstract | Mapping | Shown by |
| --- | --- | --- | --- |
| `EventPipeline` | `EventFeed` | history variables | run `pipeline_safety`, theorem `Refinement` |
| `ReadRequests` | `ReadContract` | same names, constants computed | run `read_requests`, theorem `Refinement` |
| `MediaDelivery` | `MediaStore` | `queued`, `receiver` from the thread | run `media_delivery`, theorem `StoreRefinement` |

## Not modelled

- AES, SHA-1 and base64 are external; the database key (`crypto_user.rs`) is
  derived once, in the `Load` step of `Startup`.
- `map_modify_log`: a filter and a stable sort of the revisions in the metadata.
- The SQL of a raw query but for one SELECT over the messages, and the values in
  its rows; the formats of the credential files.
- The size limits and the byte counts of the chunk protocol: a chunk that does
  not fit is one of the errors of `ChunkError`.
- `current_user_id` is read once; the model has no second login in the database.
- The bot helpers (`context.py`, `media.py`): sugar without state.
- Texts, names, attachments, intent extras, SQL: no property depends on them.
- `arisa_control.ps1` (the same commands), `status`, `install_redroid`, build
  scripts, generated code, the prebuilt file provider.
- Undocumented behaviour of Android and KakaoTalk beyond "takes an intent or
  fails" and "writes its databases when it likes".

## Plan

Order of work: the pipeline first, since the bots depend on it, then what can
lose or damage data (media, actions, mapping), then the edges (client, start,
control), then the read requests and the composition of store and thread. Done:
all modules above, and the proof of every safety property. Next:

1. Proofs: new safety properties come with new models.
2. Models: `map_modify_log`; the settings from `Control` through to `Startup`;
   `MessageMapping` against an abstract "map one message" step used by the poller
   and by `MapMessages`.
