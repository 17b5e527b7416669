# RelayDesk: models, checks and proofs

RelayDesk is a serverless chat and file-transfer program for a local network.
Every instance finds the others by UDP broadcast, talks to them over short TCP
connections, and keeps everything it knows in files. This directory holds TLA+
models of its core logic, the configurations that TLC checks, and proofs that
TLAPS checks. Paths and line numbers refer to the sources beside this directory
(`src/src/...` is the implementation, `src/tests/...` its tests).

## 1. Inventory

| Component | State it keeps | Operations | What is hard |
|---|---|---|---|
| Task runtime, `core/platform/async` | table of keys (status, generation, cancel flag), worker queue, completion queue, stopping flag | `runOnce`, `restart`, `cancel`, `running`, worker loop, `finishTask`, `dispatchReady`, `shutdown` | callers, workers and the UI thread interleave; late finishes, cancels between two token reads, shutdown at any point |
| Receiver of transfers, `app_runtime` | `pendingIncomingTransfers_`, files and folders, the message's state in history and view, two update queues, pending chat messages | handlers of Offer, resume request, Chunk, Complete, Cancel, end of connection; accept, reject, cancel, auto-receive; drains | TCP thread, UI thread and workers share it in many small locked sections; streams are cut and resumed; crash |
| Sender of transfers, `app_runtime` | outgoing tasks, the message's state, the manifest of a folder | send, push, handle accept, resume, cancel, retry | restarts of a send while it streams; accept and resume frames that cross |
| Outgoing chat, `app_runtime` | view and history of messages, one task key per message | send, retry, completion | completion after the view changed; failure after partial sending; crash |
| TCP transport, `net/boost_asio_tcp_peer_transport` | listening socket, one receive thread | accept, receive frames until the end, call back; connect and send; stop | one connection at a time; a stream cut in the middle; a frame that does not parse |
| Discovery, `net/discovery_*` | broadcast schedule, hello reply times, local announcement | start, stop, broadcast, receive, reply, announce offline | timers, a stop that races a request, reply limits, sends that fail |
| Peer profiles and unread counts, `net/discovery_peer_profile`, `storage/peer_profile`, `app_runtime` | one file per peer, the peer list | upsert from an announcement, count, mark read, expiry | load-change-save on three threads; crash while writing; old announcements |
| Application update, `app_runtime`, `platform/github_app_update` | the prompt, incoming downloads, the one scheduled for the exit, helper processes | offer, check, request, stream, schedule, install | two sources of one version, retries, failures between the locked sections of a chunk |
| Screen shake, `app_runtime` | cooldown tables, bounded queue | send, receive, show | limits on both sides with two clocks and two preferences |
| Avatars, `app_runtime`, `storage/avatar_store` | own image and identity, images and paths of peers | choose, clear, announce, ask, answer, store, remove | three threads store and remove images; restarts |
| History store, `storage/history_store` | one JSONL file per peer; the page shown | append, replace, load, page back | crash between removing and renaming; partial lines |
| Codecs, `net/peer_frame`, `net/peer_message`, `net/discovery_message`, stored records | none | parse, format | fields that one side writes and the other does not take |
| Start-up entry and preferences, `platform/startup_launch`, `storage/ui_preferences` | the Run value, the approval of Windows, `config.json` | synchronise at the start, toggle, save | three places changed one after the other, several copies of the program, crash |
| Crash reports, `platform/crash_*` | report folders, the reporter and uploader processes | capture, prune, ask, pack, upload | processes that share folders and may end anywhere; two threads that crash |
| User interface and tray; UDP sockets; clipboard and drag-and-drop; time, identifiers, log | windows, sockets | draw, send, convert | input and output, or stateless |

How they interact:

- The **TCP thread** calls the runtime's frame handler. It changes shared maps
  under `chatHistoryStorageMutex_` and related locks, writes files between them, queues chat
  messages, transfer updates, avatars and shakes, and asks for a UI refresh.
- The **UI thread** runs the user's actions, drains those queues in
  `refreshPeersIfNeeded`, and runs the completions in `dispatchReady`.
- **Workers** of the task runtime send frames and download from GitHub; their
  completions go back to the UI thread.
- The **discovery thread** updates profiles, cleans avatar images and queues
  profiles for the UI thread.
- **Other processes** of the same executable install an update, show a crash
  report or upload it. They share nothing with the program but files.

What makes each part correct, in a sentence: the runtime tells at most one run
of a key to go on and its status is true; a received file is always an intact
beginning of the sent one, and its count agrees with it; a decision about a
transfer or a message stays decided; a completion that was queued is recorded;
the history keeps what was stored and can be read back to its beginning;
discovery answers, announces changes, and is silent after its goodbye; a peer
that left comes back only by something newer; what is installed is a whole
file and every download is shown; what one version writes another can read; a
crash report is sent only with the user's consent; a start-up entry that was
switched off stays off. The hazards behind these sentences are listed with
their lines in `PROJECT.json`.

## 2. What is modelled

### `AsyncTasks` - the task runtime

One action per locked section of `async.cpp`: `BeginTask` and `EnqueueWorker`
(the two halves of `runOnce` and `restart`), `Cancel`, `TakeWork`,
`CheckToken`, `DoWork`, `SampleToken` (the parts of `detail::start` on the worker),
`FinishTask`, `DispatchReady`, `RunCallback`, `Shutdown`, `ClearTasks`. An
accepted start is a *run* with a number. The number stands for the shared cancel flag that
the code allocates, so the flags that are up form the set `raised`. `phase[r]` is how far a
run has come. The lazy creation of the worker pool is left out.

### `TransferRules` - states of a transfer

The states, which of them are terminal, and `shouldIgnoreTransferStateUpdate`,
the rule every queued update is checked against.

### `IncomingTransfers`, `MC_IncomingTransfers` - the receiver

The handler of a frame is cut where the code releases a lock: an Offer is
`ReadOffer`, `SearchHistory`, `WriteRecovered` (if the history had to be
recovered), `MeasureOffered`, `PrepareOffered` or `InstallFails`, and
`ReplaceOffered`: the file is measured and created without the lock, and the entry
replaced under it later. A chunk is `ReadChunk`, `WriteChunk` or
`WriteFails`, and `CountChunk`; a completion is `ReadComplete`,
`PublishComplete`, `EraseCompleted`. A refresh is `DrainChatMessages`,
`DrainTransferUpdates`, `DrainStateUpdates`, with one `ApplyUpdate` per update.
The user's actions run only between refreshes, as on the UI thread. `SelectPeer`,
`RejectTransfer` and `CancelTransfer` are one step each. An accept is cut as an
Offer is: `BeginAccept` measures what an interrupted transfer has, `PrepareAccepted`
makes the file of any other, `ReplaceAccepted` publishes the entry, and
`RecordAccepted` stores the record and sends the accept; `accepting` is what the
handler holds in between. An automatic accept is one step, because the message is
not shown yet and nobody else knows its transfer. A crash is `Restart`.

A transfer is the one file part of a message; a file is the sequence of the
chunk offsets written to it; a path is the index of the name tried. The sender
is the environment: it opens connections with content from an offset it may
have (0, when the user pushes; or an accepted one) or with a resume request,
and may cut them after any frame.

Abstractions: chunks have one size, so the check against the expected size
cannot fire; a removed file and an empty one are the same, and so is one that is to be
created by its first chunk; a history write does not fail; images,
progress updates and the frames that report a failure to the sender are left
out; "save as" is an accept with another path and is left out, and so are the
migration of payloads of older versions (`app_runtime.cpp:4319`) and an accept that
cannot create its file. An interrupted transfer whose file is gone is resumed
without making the file in the code, and with an empty one here; its first chunk
makes it. Folders are in `FolderTransfers`.

### `OutgoingChat` - sending and retrying messages

Extends `AsyncTasks` with its keys as the messages (the code's key is
`relaydesk.chat.send.` and the message id). `SendMessage`, `ResendMessage`,
`Transmit` (the work), `CompleteSend` (the completion), `SwitchPeer`,
`StopStep`, `Restart`. It tracks what the view shows, what the history stores,
how many lines a message has there, and how many copies reached the network.

### `OutgoingTransfers` - the sender

Extends `AsyncTasks` with its keys as the transfers (the code's key is
`relaydesk.transfer.send.` and the transfer id). The message that offers the
file: `SendMessage`, `ChatFrameOut`, `ChatDone`. The user: `PushTransfer`,
`CancelTransfer`, `SwitchPeer`. The peer's frames, on the TCP thread:
`ReceiveAccept`, `ReceiveReject`, `ReceiveCancel` and `QueueCancel` (the handler
cancels the task first and queues the state afterwards). The refresh:
`DrainTransferUpdates`, `DrainStateUpdates` and `DrainRequests` each swap a
queue, under its lock, into the batch of the UI thread, which then takes it one by one:
`ApplyTransferUpdate`, `ApplyStateUpdate`, and `SendRequest` or
`SendRequestFails`, each of which starts a task. The task: `Prepare`, `Stream`,
`CompleteSend`.

Abstractions: a stream is one step that writes all of the content or not; the
peer answers anything at any time once the offer has reached it; the chat task
itself is not a run of `AsyncTasks` (its key is another one and it is never
cancelled); sending a failed message again is left out here (it is in
`OutgoingChat`). When a chat completion appends a second line for a message that is stored already,
`disk` is the first one, which every reader and writer by id uses.

### `FolderTransfers` - a folder on its way

Both sides of one folder: what the sender streams from an offset of the
folder's bytes (`StartStream`, `SendOffer`, `SendEmptyEntry`, `SendFileChunk`,
`SendComplete`) and what the receiver makes of it (`AcceptOffered`, also over a
folder that is there; `AcceptInterrupted`; `ResumeRequest`; `LoseAnswer`;
`Cut`). Each frame is one step with its handling, and so is an accept, because the
interleaving inside the handlers is the subject of `IncomingTransfers`. An answer
remembers what its loss makes of the message: an accept fails, one of an interrupted
transfer is interrupted again (`app_runtime.cpp:4411-4425`), and the loss of an answer
to a request is only logged. A later accept supersedes the report of an earlier one
(`Superseded`). The sender asks to resume only what it has `streamed`. A file is a sequence of
chunks that are `"new"` (of this transfer) or `"old"` (there before).

### `Discovery`, `Announcer` - the discovery worker

`Broadcast`, `PollHello`, `Reply`, `Tick` and the steps of the loop with its
one deadline; `RequestBurst`, `ChangeIdentity`, `RaiseStopping`, `FinishStop`
of the UI thread. A request asks for as many broadcasts as a start sends or, where a
start sends none, for `ManualCount` (`RequestedCount`). The clock is a set of countdowns: one tick is the startup
interval of the code, and the two intervals of 60 s are `Interval` ticks. A
send may fail at any time. `Announcer` is what a program promises to others: it
says who it is, then at most once that it leaves, then nothing. `Discovery`
implements it: `phase` is whether the socket is closed, `said` is the last thing sent.

### `PeerProfiles` - profiles, the list and the unread counters

`Receive`, `Upsert`, `Purge`, `PurgeFails` (discovery thread), `ReceiveMessage`,
`CountUnread` (TCP thread), `DrainProfile`, `BeginChats`, `DrainChat`, `Select`,
`LoadForUnread`, `RefreshOnline`, `Expire` (UI thread). A save is `Truncate` and then
`Write`, as the file is written in place and without a lock: a `Crash` may fall
between, and a second thread, whose longer text leaves its end behind a shorter one
(`Flushed`). A behaviour starts with any profiles an earlier run may have left
(`StoredProfiles`).

A profile holds a set of addresses (`known`) and which of them comes first (`at`),
because the two removals of an older installation look at different ones: the disk is
searched for any address of the older profile (`StaleFor`), the list for the one it
shows (`ReplacesPeer`). All devices have one host name. All other fields of a profile are one version
stamp. Loading is one step, and a save does not fail.

### `AppUpdate` - getting a newer version

The prompt with what opens, starts, dismisses and fails it; requests to a peer,
whose stream is handled in a locked check, an append and a locked count; the
GitHub check and download as tasks; what is scheduled for the exit; the helper
process. A program file is its number of chunks.

### `HistoryStore` - the chat history

Append and replace as the file operations they consist of, each with the faults
that a crash, an error or an unnoticed failure of the last flush leave; loading
with damaged lines; the page the user sees and the pages before it, while
messages arrive and are drained.

### `Codecs` - what is written and what is read

For every frame, message part, stored record, announcement, profile and
identity: its fields, the values each may hold, what the writer writes, what
the reader takes and what the reader forgets. Values are classes that the code
treats alike. A behaviour fills a message with up to `MaxOdd` unusual fields, writes
it, may change the written form as another version would have written it, and reads it.

### `PeerTransport` - connections and the one reader

Senders `Connect`, `WriteFrame`, `CloseLink` or `ResetLink`. The reader:
`AcceptLink`, `ReadFrame`, `ReadMalformed` (with and without an open stream,
which the code reports differently), `NoticeCut`, `ReadEnd`, `CheckStop`; the
stop: `CallStop`, `Joined`. A frame is only whether it opens or closes a
stream or does not parse.

### `CrashReports` - captures, reporter, uploader

The steps of `writeCrashReport` on each crashing thread (`WriteDump`, the
texts, pruning, launching the reporter), the handlers that begin a capture
(`Crashes`, `InvalidParameter`), the reporter that selects a report and asks,
and the uploader that packs, sends and marks. Each process may end between any two
steps, and a report id may be taken twice, as it is the local second. A dump that
fails half-way leaves a part of one (`PartDump`), which is asked about and sent like a
whole one, as the uploader only looks for the name.

### `ScreenShake`, `Avatars`, `StartupLaunch`

`ScreenShake`: `SendShake`, `ReceiveShake`, `ApplyShake`, `Tick` over the two
cooldown tables. `Avatars`: an owner that chooses and clears (`ChooseAvatar`,
`SaveIdentity`, `RemoveOwnImages`, `Announce`, `AnswerRequest`), a viewer with
three threads (`Upsert`, `CleanImages`, `QueueProfile`; `ReceiveImage`,
`StoreImage`, `RemoveImages`, `QueueImage`; `ApplyProfile`, `DrainImages`), and restarts of both.
`StartupLaunch`: the start's `Synchronize`, the settings page (`OpenSettings`,
`ToggleLaunch`), the entry's changes (`WriteEntry`, `ClearEntry`, `VerifyEntry`), a
save as `SaveBegins` and `SaveEnds` or `SaveFails`, the switches of Windows, the
moving of a copy to another folder, and the end of the program at any point.

### `MC_Outgoing`, `MC_Services`, `MC_Records`, `MC_Local`

Each checks several components *side by side*: one component is chosen in the
initial state and runs alone, the others keep their initial states. This is not a composition
(the components in one such module share no state) but lets
one run ask the questions of several of them; each state space is the sum of the
components', not their product. The initial choices of a component are pinned
where another one runs. In `MC_Services` and `MC_Outgoing` nothing
that fairness is stated of is enabled in the initial state of the resting
components or it is stated for the chosen one only, so fairness is void for the others.
`MC_Outgoing` differs in that its two sides share the task runtime: the
runtime under callers that do anything, and under `OutgoingTransfers`. `MC_Local`
counts the receiver's failing steps in `failures` (`StepFails`: a file that cannot be
made or written, an accept that does not reach the sender) and allows `MaxFailures`
of them in a behaviour; connections are cut without such a bound.

## 3. What is checked

| Run | Instance | Shows |
|---|---|---|
| `local` (`MC_Local`) | incoming: 1 file of 2 chunks, 2 connections, 2 accepts, at most 1 failing step of the receiver, auto-receive on; crash: 1 program with 2 crashing threads, 2 ids, 1 retained; shakes: 2 senders, cooldowns 0 or 2, time up to 3; avatars: 2 images, 2 choices, 1 restart; start-up: 2 copies (1.9 million states) | `FilesMatchCounts`, `FinalStateKept`, `AnswersAreKept`, `AskedIsWhole`, `PoliteShakeIsTaken`, `ShownAvatarExists`, `OffStaysOff` |
| `incoming_records` | 1 file of 1 chunk, 2 peers to select, 1 connection, 1 accept, 1 crash, auto-receive on or off | under fairness `CompletionRecorded` |
| `outgoing_transfers` | 1 transfer, 3 runs, 2 workers, 1 push, 2 answers, 1 restart | `CompletedWasSent`, `CancelledIsNotSent`, `FinalStateKept` |
| `outgoing_settled` (`MC_Outgoing`) | 1 key, 2 calling threads, 2 workers, 3 runs; for the sender 1 push, 1 answer, 1 restart | `OneLiveRunPerKey`, `RunningIffLive`, `CompletionsInOrder`, `CancelledNeverCompletes`, and under fairness `EveryQueuedRunEnds`, `StreamIsSettled` |
| `services` (`MC_Services`) | chat: 2 messages, 2 workers, 2 runs, 2 requests per message, 1 restart; discovery: 2 identities, 1 address, burst 2, requests of 1 if a start sends none, interval 2, 2 changes, 2 failing sends; transport: 2 connections, 2 frames | `HistoryLineIsTrue`, `SentIsFinal`, `ImplementsAnnouncer`, `HandledInOrder`, `CutStreamIsNoticed`, and under fairness `AcceptedSendIsSettled`, `IdentityIsAnnounced`, `HelloIsAnswered`, `StopReturns`, `TransportGoesOn` |
| `records` (`MC_Records`) | profiles: 2 devices, 2 addresses, stamps up to 2, 2 deliveries or 1 and a stored profile of both addresses, 1 message, 1 crash; update: 1 peer, 2 newer versions, 2 requests of 1 chunk, 2 checks; history: 3 messages, pages of 1, 1 fault; folders: 2 entries of size up to 3, 2 cuts, 2 answers; codecs: 2 unusual fields (2.8 million states) | `ListedIsStored`, `ResurrectedByNewer`, `InstalledIsWhole`, `DownloadIsShown`, `HistoryKept`, `OldestReachable`, `CompletedFilesAreWhole`, `CodecsAgree` |
| `incoming_ended` | as `incoming_records`, no crash | violated: a transfer that ended can show Transferring for good |
| `incoming_consent` | as above, auto-receive off | violated: pushed content is stored without an accept |
| `chat_retry` | 1 message | violated: a retry in the same process never starts an attempt |
| `outgoing_rejected` | 1 transfer, 1 answer | violated: a shown rejection is replaced by Offered |
| `history_lost` | 2 messages, 1 crash | violated: a crash in a replacement loses the chat's history |
| `folder_incomplete` | 2 entries of size up to 2, 2 cuts, 2 answers | violated: a folder is completed with old content |

Each run also has the type invariants of its components.

Why the bounds are enough. Keys of the task runtime do not touch each other's
entries; what can go wrong needs a run, the one that supersedes it and a third
that supersedes that one, two of them executing at once. Two callers are needed
for a shutdown between the halves of one start and a cancel from elsewhere. A file of two chunks
distinguishes missing, doubled and misplaced chunks and has a resume offset
strictly inside the file; two connections are a stream and its resumption, and
two accepts the original and one after an interruption. One step of the receiver that
fails, at any point, is enough to leave a count behind its file or a file behind its
count; the theorem covers any number of them. For the sender, three
runs are a push and two answers that supersede each other. Two folder entries are a
file that a resumption skips and one that it begins or goes on with, a size of 3
chunks has an offset inside on both sides of a cut, and either entry may be an empty
file or a directory. Three
messages with pages of one are a page, the one before and a message that comes
in between. Two installations of one machine are an older and a newer one, and two addresses one
they share and one that the older has for itself. The file of a run with auto-receive on is
accepted by the user only after an interruption, so `local` has no `PrepareAccepted`;
`incoming_records` has it, and the theorem covers it for both values. Two
update requests are a download and the one that replaces it. Two identities and two changes
let a change be taken back. Two copies of the program are the one that owns the
start-up entry and one that may take it over. `RequestSymmetry` (`records`) permutes update requests and
`WorkerSymmetry` (`outgoing_transfers`) workers, which are told apart by name
only; the properties of both runs are invariants and action properties, and no
run with liveness has symmetry. `CHECK_DEADLOCK` is off because every instance stops
when its bounds are used up or after shutdown.

Fairness.

- `AsyncTasks`: a caller that has begun a task goes on to enqueue it
  (straight-line code), workers keep working and work returns, the UI loop
  dispatches on every frame. `OutgoingChat`: the same.
- `IncomingTransfers`: only that the UI loop ends the handler it is in and keeps
  refreshing; nothing is assumed of peers, workers or the user.
- `OutgoingTransfers`: as `AsyncTasks`, the TCP thread finishes a handler it
  has entered, and the dispatch is strongly fair, because a frame of the UI loop
  calls `dispatchReady` before it refreshes (`skiaui_app.cpp:5758-5769`) and
  a dispatch is enabled only between refreshes.
- `Discovery`: the worker goes on, time passes, a call of the UI thread that
  has begun is finished; a hello of an address that may be answered, and is sent again and again, is
  received at last (strong fairness, because the worker polls in between other work).
- `PeerTransport`: the reader goes on, and the join of `stop` returns when it has
  ended. Nothing is assumed of senders: `TransportGoesOn` says that either the reader
  stays for ever with one that never ends its connection (`Held`), or every peer is
  heard to its end or refused by the stop, and `stop` returns. See "reader" below.

No fairness is put on the user, on shutdown, on failures or on a crash.

Exceptions stated in the properties, where the code itself gives the guarantee
up:

- `raced`: a transfer that both threads held at once, the UI thread from measuring
  to publishing in an accept, the TCP thread from measuring to publishing in an Offer,
  a chunk or a Complete. Accepts before or after such a handler, by whatever steps,
  are not excepted. `FinalStateKept` of the receiver leaves out a
  message that is shown twice and the step that writes a recovered record loaded before.
  `CompletionRecorded` leaves out a message still waiting in `pendingChatMessages_`.
- `FinalStateKept` of the sender leaves out a message whose list copy differs
  from the stored one, and `CancelledIsNotSent` ends when the user pushes the
  transfer again or a completion offers it anew. It says nothing of cancels by
  the peer: a cancel frame handled between `DrainStateUpdates` and
  `DrainRequests` finds no task to cancel, and the request starts the stream.
- `begunAnew`, `overwritten`: folders accepted over an existing one and streams
  that a late second answer (offset 0) begins over received bytes.
- `excused`, `missed`: a record lost in the very operation a fault hit, or
  behind a line it left without its end; a message that is in the file behind an
  open page that lacks it, stored by another thread or by a drain whose storing was
  reported as failed after its line was written.
- `plain`: a retry of an update asks for the version its peer has by now. Such a
  download is not shown, may end as a newer version than was asked for, and may then
  take the prompt of one that was begun from the same peer meanwhile.
- `spared`: a listed device whose profile was removed for an installation that was
  never seen at the address the list shows, and one whose removal failed half-way.
  `ListedIsStored` speaks of profiles that a crash tore, not of those that two threads
  wrote at once. `ResurrectedByNewer` speaks of listed devices: it leaves out a purged
  one that a delayed hello puts back on the list.
- `CodecsAgree` names the one thing that is written and never read: a chunk with an
  empty path.
- `overtaken`: an avatar image on its way while the profile changes.
- `AskedIsWhole` leaves out reports of which a file could not be written, whose
  name another capture took too, that were pruned, or that somebody is uploading.
- `OffStaysOff` forgets that the entry was switched off when Windows is told
  while the program is between reading and writing it, when the save of the setting failed (the page says so), or
  when another copy, with settings of its own, takes the entry over.

### Disagreements found

1. **An ended transfer may be shown as under way** (`incoming_ended`,
   `app_runtime.cpp:4076`). The refresh applies the queue with the end of the
   transfer before the queue with its start; Interrupted and Failed give way to
   Transferring. The design asks that every failure is shown
   (`docs/file-folder-transfer-design.md:12`).
2. **A pushed file needs no consent** (`incoming_consent`,
   `app_runtime.cpp:5910`), against the assumption of
   `docs/file-folder-transfer-design.md:327-328`.
3. **A failed message cannot be retried** (`chat_retry`,
   `app_runtime.cpp:4888`), against `RelayDesk_Project_Plan.md:658`: `runOnce`
   accepts a key only while it is Idle, and a finished key never is again.
4. **A rejection is overwritten** (`outgoing_rejected`, `app_runtime.cpp:4932`),
   against `docs/file-folder-transfer-design.md:90-92`: the completion of the
   chat task writes the record captured when the message was sent.
5. **A crash can lose a chat's history** (`history_lost`,
   `history_store.cpp:690`), against `RelayDesk_Project_Plan.md:799`: the file
   is removed before its replacement is renamed, and nothing looks for the
   temporary file at the next start.
6. **A completed folder may be incomplete** (`folder_incomplete`,
   `app_runtime.cpp:2345`), against `docs/file-folder-transfer-design.md:30` and
   `RelayDesk_Project_Plan.md:832`: sums of sizes stand for the entries. An accept over an
   existing folder that is cut before its offer makes the next one count the old content.
   Without any old content, a resume leaves out empty files and directories at its offset.

Met while modelling, without a statement of the repository that they contradict:

- **Transfers.** An accept measures the file at `app_runtime.cpp:4318` and publishes
  the count at 4349; a content offer truncates it at 6049 and publishes 0 at 6130.
  When the offer comes in between, the entry counts chunks that are gone. If then the
  first chunk of the stream cannot be written, the next one fits the stale count, is
  appended to the empty file, and the transfer completes without its beginning: only
  counts are compared (6289), and the SHA-256 of the file, which the project plan
  (`RelayDesk_Project_Plan.md:578`, `595`) compares at the end, is not. TLC finds this
  behaviour in `IncomingTransfers` with three connections and three accepts, when `raced` is not
  excepted. An accept over a folder that is not empty fails when it is not
  cut. A late second accept answer begins anew over received bytes. A
  folder that is changed between a cut and its resumption can lose a new file.
- **Messages.** The unread count is lost to a concurrent upsert
  (`app_runtime.cpp:7256`). A message that was sent while the user left and
  reopened the chat is not shown after its completion. A recovered record that
  cannot be written back shows an empty chat. Paging skips the records between the
  lines of an id that is in the file twice. A drained message whose storing fails
  after its line was written is in the file but not shown.
- **Reader.** One thread reads one connection at a time without a timeout, so a peer that keeps a
  connection open and silent keeps every other from being heard, and `stop`
  and the exit hang (`boost_asio_tcp_peer_transport.cpp:245`).
- **Update.** A retry after an upgrade, and a Complete that names a newer
  version, leave the prompt behind; the latter can take the prompt of a later
  download from the same peer, which goes on unseen; a restart with a scheduled update starts
  two helpers; a cut stream of a peer is never noticed.
- **Profiles.** The removal of older installations takes the other
  installation's directory with its history (`discovery_peer_profile.cpp:127`), also
  that of a device that stays listed because the list compares another address
  (`app_runtime.cpp:146`). It fails when another thread has a file there open, and the
  announcement that caused it is lost. Two threads that write one profile at once can
  leave a file that cannot be read until the next announcement (`peer_profile.cpp:232`).
- **Avatars.** One is asked for and answered at most once per peer and run of
  the program (`runOnce` keys, `app_runtime.cpp:3171` and `3307`). The
  path shown may name a removed image when the profile changes while the image is
  on its way (`app_runtime.cpp:3389`).
- **Shakes.** The cooldown of a sender begins before its shake finds the
  queue full (`app_runtime.cpp:7363`), and stays when sending fails.
- **Files in place.** `identity.json`, `config.json` and `profile.json` are
  truncated and written. After a crash in between, an unreadable identity fails every later
  start, and an unreadable config refuses every later save.
- **Start-up.** A Windows switch between the program's read and write of the
  entry is undone; a copy in another folder has its own setting, on by default,
  and takes the entry over; disabling removes the approval first, so a crash before the Run
  value is gone enables an entry that was disabled.
- **Crash reports.** A second crash while a capture runs ends the process and
  cuts the report, and nothing looks for such reports at the next start. Handled
  exceptions use up the only capture. An upload that finds no report ends as a
  success. A report whose folder name was already answered is never asked about. The
  marking of an uploaded report keeps the dump that `crash_report.h` says it removes.
- **Codecs.** A chunk with an empty `folder_relative_path` is written
  (`peer_message.cpp:291`) and refused by its reader (307-313); the sender of a folder
  builds none, as it checks its paths (`app_runtime.cpp:1520-1546`). The transferred size and hash of a folder part and the manifest
  path of an image or file are written and not read back; the writer of an
  update chunk refuses an empty file and its reader does not.

## 4. What is proved

Every theorem below is of the form `Spec => []Inv` or `Spec => [][A]_vars`, for
every value of the constants that the named assumptions allow; TLC evaluates
the assumptions on each run. None of the properties is inductive. Each proof
states an inductive invariant as a conjunction of named parts, shows that the
initial states have it and that every action keeps it (one lemma or step per
action), and concludes the property. TLC checked the invariants on small
instances before they were proved: those of section 3 or, where a third actor
shows more, larger ones (`ShownInv` on 3 versions and 3 requests, which is how the
second exception of `plain` was found).

**Task runtime** (`AsyncTasks_proofs`; `KeysAssumption`, `MaxRunsAssumption`).
`TypeCorrect`, `OneLiveRun`, `RunningMeansLive`, `NoCompletionAfterCancel` and
`CompletionsKeepOrder`. The invariant `Inv` is `TypeOK` with

- `RunsAreNumbered`: exactly the runs up to `started` have left `unused`, and
  flags exist only for them;
- `LiveRunOwnsKey`: a live run is the one the table's cancel flag names and has
  the generation the table holds;
- `RunningKeyHasRun`, `FlagMeansRunning`: a key that is Running holds the flag
  of a live run of its own, and no other key holds a flag;
- `RaisedRunIsDisowned`: an unfinished run whose flag is up has a smaller
  generation than its key, so that `finishTask` will ignore it;
- `QueuesMatchPhases`: a run that is being started or queued is there once and
  its phase says so, and the completion queues hold finished runs only.

The order of completions needs `OrderInv` on top: each completion queue lists
exactly the runs of its phase (`ListsPhase`) and those of one key by age
(`KeyOrder`); a live run is the newest of its key (`LiveRunIsLatest`), which is why
an older one cannot be finished behind it; and no newer completion is further on its
way than an older one of its key (`HandedOverInOrder`). The last section states what
modules that extend the runtime need of it: a completed restart empties it
(`ResetTasksInv`), what a completion finds (`CallbackRun`).

**Chat messages** (`OutgoingChat_proofs`; also `UiAssumption`,
`ChatBoundsAssumption`). `ChatTypesHold`, `HistoryLinesAreTrue` and `SentStaysSent`.
Every step of the chat is a step of the runtime or a new process, so `Inv` and
`OrderInv` are kept; `MessagesInv` relates tasks and lines. `OneRunPerMessage` is
the key fact: a process runs at most one task of a message, because `runOnce`
refuses a key that was ever used. `UnaskedIsUntouched`, `LinesAreCounted` and
`UnreportedIsUnsent` say when a line exists and that a task that is to report finds
none, or one that does not say Sent, as it was when the task was started;
`DoneReachedTheWire` ties Sent to the network.

**Receiving files** (`IncomingTransfers_proofs`; the assumptions of the module:
finitely many transfers, a file of at least one chunk, one sender for each).
`TransferTypesHold`, `ReceivedFilesAreIntact` and `FinalStatesAreKept`, in layers,
each resting on the ones before:

- `TypeInv`: the types, and `HandlerRemembers`, what a handler still knows of its
  frame between two locked sections;
- `PathsExist`: every path in an entry, record, update or handler is of a file
  that was made, or is the next name and the handler is about to make it
  (`TcpNamesPath`, `UiNamesPath`);
- `AcceptRemembers`: while an accept is handled nothing is drained, so the copy that
  was accepted is still shown as it was;
- `FilesAreIntact`, of every transfer that is not `raced`: files hold the first chunks
  in order (`Beginnings`); the length of the file is counted by the entry, unless a
  handler is about to replace that (`EntryCounts`), and then by the handler's new one
  (`UiCounts`, `TcpCounts`); and the two threads do not both hold the transfer,
  without which neither count would survive the other's step;
- `OneVerdict`: a sender ends a transfer once, so Completed and Cancelled are
  never both on their way, and nothing follows;
- `CopiesAgree`: the only shown copy of a message whose stored state is final agrees with it, or is
  in another final state that no update will ask for. Without that clause
  an update that the shown copy takes could overwrite the stored one.

**Sending files** (`OutgoingTransfers_proofs`; `ThreadsAssumption`,
`ReasonsAssumption`, `RunsSuffice`). `SendTypesHold`, `CompletedTransfersWereSent`,
`CancelledTransfersAreNotSent` and `FinalStatesStay`. `SentInv` follows the word
Completed: it is in no record (`RecordsWereSent`), queue, batch or handler
(`UpdatesWereSent`) of a transfer whose content was not written, and a stream that
returned well wrote all of it (`StreamsWereWhole`). `CancelInv`: a transfer
cancelled by the user has a record that no update changes (`CancelledStays`), so no
completion offers it anew, and one that was never offered has none
(`NewIsUnrecorded`). Steps that start no task share one argument: no run comes alive
in them (`Carried`).

**Network** (`Network_proofs`). From `DiscoveryAssumption`,
`WorkerImplementsAnnouncer`: `DiscSpec => ImplementsAnnouncer`, the refinement.
Every step of the worker maps to an announcement or a stutter (`WorkerImplements`),
the closing of the socket to the goodbye (`CloseImplements`). It needs two
invariants: there is an identity (`Identified`), and the worker is done once it was
joined (`JoinedIsDone`), without which a reply could follow the goodbye.

From `LinksAssumption`, `LinkTypesHold`, `FramesAreHandledInOrder` and
`CutStreamsAreNoticed` of the TCP transport. `LinkInv`: one connection is accepted
at a time and it is the one that is read (`CurrentIsAccepted`), the backlog holds
each waiting connection once (`BacklogWaits`) and an earlier one before a later one
(`BacklogInOrder`), so that the earlier ones are over when a later one is read
(`EarlierAreOver`); `transferStreamOpen` is what the handled frames say
(`StreamIsKnown`).

**Crash reports** (`LocalServices_proofs`; `CrashAssumption`). `CrashTypesHold`,
`AnswersAreAlwaysKept` and `WhatIsAskedIsWhole`. `CrashInv` follows the consent
along the chain of processes: a reporter that was launched belongs to a capture that
ended (`ReportersAreLaunched`), an uploader works on one report, which the user
agreed to (`UploadersAreAgreed`), the server's answer is about it (`SentIsStored`),
and a mark is put on refused or stored reports only (`MarkedIsAnswered`).
`WrittenSoFar` says what an undisturbed capture has written at each step.

**Application updates** (`Records_proofs`; `UpdateAssumption`,
`RequestsAssumption`). `InstalledFilesAreWhole`: `UpdInv` says that a program file
that was given to the exit, a helper or its place is whole and that nothing which
writes or removes files has a reason left to touch it (`GivenIsWhole`), that the TCP
thread between its locked sections either holds the next chunk of a pending request
or one of a dismissed request (`HandlerIsSound`), and that the count is the length,
but for the chunk being counted (`ChunksAreCounted`). `DownloadsAreShown` (also
`PeerNamesAssumption`) rests on `UpdInv` and on `ShownInv`: a GitHub download is
shown, reported and alone (`GitHubIsShown`); a prompt for GitHub names the release
found last and no check is running (`ReleaseIsPrompted`); the completion of a
dismissed GitHub download runs before a release is prompted again
(`OrphansEndFirst`), so its failure takes no prompt from a later download; and a
download that is shown is the only one from its source (`PlainIsAlone`), so that no
other one's end takes its prompt. All steps that begin and offer nothing share one
argument about what they may do to the prompt (`LeavingShows`). `UpdateTypesHold`
needs more than types: `VersionsAreNew` (every version that is prompted, asked for,
dismissed or scheduled is above the program's own, and what the prompt's peer has by
now is known, because a retry asks for that one) and `StatesAreShown` (*Checking* is
shown only while a check is under way).

**Peer profiles** (`Records_proofs`; `ProfilesAssumption`).
`ListedProfilesAreStored` and `GoodbyesHold`. `ProfInv` has three parts beside
types. `MissingIsForgotten`: a device whose profile was removed is not listed, or is
shown at an address it was `spared` at, or what will take it off the list or spare it (the
profile of the other installation) is being saved or is queued. `TornIsSaved`: a torn profile of a device that was
heard of is in the hands of a thread that will write it. `NotesFit` and
`GoodbyesAreKept`: what is queued is not older than its announcement and what is
listed not older than the goodbye, so that a delayed hello is stale to the list even
where the file was overwritten.

`ProfileTypesHold` bounds the counters of unread messages, which are counted up from
two threads and carried from file to list and back by three. A count that is
anywhere (in a file, the list, the queue, or the hands of a thread) is at most
`Room`: what earlier runs stored and twice the messages received, less the counts still owed (`Owed`) for those
in the queue, in the batch being drained, or held by the TCP thread. A step that
counts pays one of them, and every other step only carries counts along, so none
exceeds `StoredUnread + 2 * MaxMessages`. The code may lose counts, and the theorem does not say
otherwise.

**Screen shakes** (`LocalServices_proofs`; `ShakeAssumption`: a shake is on its way
no longer than the tolerance). `PoliteShakes`. `ShakeInv` follows the shakes from
sender to receiver: `ShakesAreRecent` and `ShakesAreApart` for those on their way,
`EntriesHaveShakes` for the receiver's table, where the shake that made an entry is
a cooldown apart from those that are still to come. `LimitedIsImpolite` is the
arithmetic: a shake that meets an entry less than the receiver's interval old comes
from a sender with a shorter interval.

**Start-up entry** (`LocalServices_proofs`; `FoldersAssumption`: no folder is named
like one of the three other actors). `OffIsKept`. `StartInv` says what the program
that is between two of its writes may be about to do: `DutyHasProgram`,
`WindowsIsHeard` (no write of the entry is under way that was begun before Windows
switched it off), `OwnerRemembers` (the copy whose page switched it off remembers it
unless its file is damaged, and writes nothing else), `PageSavesLast` (a page saves
*off* only after the entry is gone).

**Avatars** (`LocalServices_proofs`; `AvatarAssumption`). `ShownAvatarsExist`.
`AvatarInv` follows a profile's hash and an image on their two ways to the item: the
last announcement heard will reach it (`ProfileIsComing`); unless the profile
changed meanwhile, the image on its way is the profile's and stays where the item
looks for it (`ComingIsCurrent`); then the path is right (`PathIsRight`), or empty
(`ClearedShowsNothing`).

**Chat history** (`Files_proofs`; `HistoryAssumption`, `DamagedAssumption`).
`HistoryIsKept`, `OldestIsReachable` and `HistTypesHold`. What a file holds is the
ids of its valid lines; lemmas say what loading, appending, replacing, cutting off a
page and a fault in each of them do to that set and to the first record. `HistInv`
is `HistTypeOK`, `HistoryKept` and two parts about the open page. `HeadIsStored`:
while there is more to load, the first record of the page is in the file or was lost
by a fault, so the next page is found by it. `FirstIsKnown`: when there is no more,
the first record of the file is on the page, on its way there, or in `missed`. A
replacement keeps the order of lines, an append adds behind them and a fault cuts
off the end, so another record becomes the first only in a file that had none.

**Folders** (`Files_proofs`; `FolderAssumption`). `CompletedFilesAreWholeAlways` and
`FolderTypesHold`. The code keeps one number for a whole folder, so the proof
relates sums of sizes to entries: `StreamOK` (a stream's offset is where its next
chunk lies in the sequence of all entries), `BeginningHeld` (unless the folder was
there before or was begun anew, every file of the target has the size that a
beginning of that many bytes gives it, and the count is that number) and
`OfferIsUntouched`. Lemmas show that a stream resumed at an offset skips exactly the
files below it, and that what the chunk handler adds keeps a beginning. Completing
compares sums, which together with `BeginningHeld` means every file.

**Codecs** (`Files_proofs`; `CodecAssumption`). `WritersAndReadersAgree` and
`CodecTypesHold`. TLC checks two unusual fields at a time, the theorem any number of
them, also in a form that another version has written. A chunk with an empty path is
refused in every form, and the other fields do not matter then. Each type of field agrees
with itself (what is written of a value is read as it, and what is read of a form
can be written), the fields of every kind are of such types, and `FormsMatch` says
that the written form and the one read are those of the message.

**Types.** Every component's type invariant is a theorem. Some say more than the
type of a variable: beside those above, `DiscTypesHold` (also `AddressesAssumption`:
the name that stands for no address is none) bounds a burst by its length and every
date by the interval, and `ShakeTypesHold` keeps the table of senders and the queue
of shakes within their limits for any number of senders.

Sums and loops over files are recursive functions inside a `LET`, and induction over
their length is by `NumbersByInduction`: a set that holds 0 and, with every number,
the next one holds all. It is proved in `Files_proofs` from the well-foundedness of
`<` (`LeastNumber`) and takes a set where the library's theorem takes an operator,
which none of the provers can instantiate.

**Only model-checked.** The liveness properties, which are out of the prover's
reach: `CompletionRecorded`, `EveryQueuedRunEnds`, `StreamIsSettled`,
`AcceptedSendIsSettled`, `IdentityIsAnnounced`, `HelloIsAnswered`, `StopReturns` and
`TransportGoesOn`. The type invariants `LocalTypeOK`, `ServicesTypeOK` and
`RecordsTypeOK` of the `MC_` modules only put side by side the type invariants of
components, each of which is a theorem about its own specification. The violated
properties, of course, are not provable.

## 5. Not modelled

- **UDP sockets** (`boost_asio_udp_transport`): set-up of sockets and
  enumeration of interfaces, input and output only.
- **User interface and tray**: drawing and widgets. What the user can do appears as
  actions, what the frame loop guarantees as fairness.
- **Time, identifiers, the diagnostic log**: stateless helpers.
- **Stickers** (`sticker_store`): no part of the program calls it, only tests.
- **Clipboard, drag-and-drop, text conversion**: wrappers of Windows interfaces
  without protocol state.
- Within the modelled parts: progress updates and their throttling, "save as"
  as an action of its own, several parts per message, sending a failed *transfer*
  message again, socket errors other than of a send, the HTTP and JSON syntax,
  the automatic upload of crash reports on the command line, the recent
  emojis, the first creation of the identity.

## 6. Plan

Done: all modules above, their runs, and a proof of every invariant and action
property of a component. What is left, in this order:

1. The two sides of a transfer composed as `FileTransfer`, with an abstract
   `TransferContract` (offered, accepted, a growing prefix, one end) that the
   composition implements. It will take the place of `outgoing_settled`'s sender.
2. Unread counts: a statement of what may be lost, once the code says which
   losses it accepts (the hazard at `app_runtime.cpp:7256` has no property).
