--------------------------- MODULE IncomingTransfers ---------------------------
(***************************************************************************)
(* The receiving side of RelayDesk's file transfers                         *)
(* (src/src/main/app_runtime.cpp and the receive loop of                    *)
(* src/src/net/boost_asio_tcp_peer_transport.cpp).                          *)
(*                                                                         *)
(* Three actors share the state:                                           *)
(*   - the TCP thread accepts one connection at a time and handles its      *)
(*     frames until the connection ends;                                    *)
(*   - the UI thread runs the user's actions and, on every refresh, drains   *)
(*     the queues the TCP thread fills;                                     *)
(*   - worker tasks send the accept frames.                                 *)
(* The sending peer is the environment: it opens connections that carry the  *)
(* frame streams its code can produce, and cuts them wherever it likes.     *)
(*                                                                         *)
(* A transfer is the one file part of one chat message.  A file is the       *)
(* sequence of the chunk offsets written to it, so <<0, 1, 2>> is an intact  *)
(* file of three chunks.  A path is a number: path p of transfer t is the    *)
(* p-th name tried for its file, 1 the original name, and files[t][p] its   *)
(* content.                                                                *)
(***************************************************************************)
EXTENDS Integers, Sequences, FiniteSets, TransferRules

CONSTANTS
  Transfers,       \* incoming file transfers
  Peers,           \* sending devices
  PeerOf,          \* the device that sends each transfer
  Size,            \* chunks in a file
  MaxConnections,  \* bound on the connections a peer opens for a transfer
  MaxAccepts,      \* bound on the accepts of a transfer
  MaxRestarts,     \* bound on crashes of the receiving process
  AutoReceive      \* values the auto-receive preference may take

ASSUME TransfersAssumption == IsFiniteSet(Transfers) /\ Transfers # {}
ASSUME SizeAssumption == Size \in Nat \ {0}
ASSUME PeerOfAssumption == PeerOf \in [Transfers -> Peers]
ASSUME BoundsAssumption ==
  MaxConnections \in Nat /\ MaxAccepts \in Nat /\ MaxRestarts \in Nat
ASSUME AutoReceiveAssumption == AutoReceive \subseteq BOOLEAN

NoPath == 0
NoPeer == "no peer"
ASSUME PeersAssumption == NoPeer \notin Peers
Offsets == 0 .. Size
NoRecord == [state |-> "none", path |-> NoPath]
Records == [state : States, path : Nat]
NoPending == [path |-> NoPath, received |-> 0]
Pendings == [path : Nat, received : Offsets]
Slots == {"accept", "auto_accept", "resume_accept"}
NoTask == [offset |-> -1, resuming |-> FALSE]
Tasks == [offset : Offsets, resuming : BOOLEAN]

\* An update of the pendingTransferUpdates_ queue names a path, one of the
\* pendingTransferStateUpdates_ queue does not.
Updates == [t : Transfers, state : States, path : Nat]

VARIABLES
  disk,         \* the message's line in the chat history of its peer
  shown,        \* its copies in selectedPeerMessages_
  pendingChat,  \* its entry in pendingChatMessages_
  selected,     \* selectedPeerDeviceId_
  pending,      \* pendingIncomingTransfers_
  files,        \* the files written for each transfer
  transferUpdates, stateUpdates,   \* the two update queues
  ui,           \* what the UI thread is doing, and the batch it drains
  tcp,          \* the TCP thread: its connection and the frame it handles
  acceptTask,   \* the accept frame each task key still has to send
  invited,      \* accepted offsets beyond the start that reached the sender
  sentAll,      \* transfers whose sender wrote a whole stream
  consents,     \* how often each transfer was accepted
  connections, restarts,  \* counters that bound the runs
  accepting,    \* the accept handler's transfer, file and count
  raced         \* transfers the UI thread and the TCP thread handled at once

recordVars == <<disk, shown, pendingChat, selected>>
queueVars == <<transferUpdates, stateUpdates>>
senderVars == <<invited, sentAll, connections>>
userVars == <<consents, accepting, restarts>>
vars == <<disk, shown, pendingChat, selected, pending, files, transferUpdates,
          stateUpdates, ui, tcp, acceptTask, invited, sentAll, connections,
          consents, accepting, restarts, raced>>

NoTransfer == CHOOSE t \in Transfers : TRUE
IdleTcp == [step |-> "accept", kind |-> "content",
            t |-> NoTransfer, phase |-> "offer",
            offset |-> 0, path |-> NoPath, received |-> 0, found |-> "no"]
IdleUi == [step |-> "idle", batch |-> <<>>]
NoAccept == [t |-> NoTransfer, path |-> NoPath, received |-> 0,
             resuming |-> FALSE]

Init ==
  /\ disk = [t \in Transfers |-> NoRecord]
  /\ shown = [t \in Transfers |-> <<>>]
  /\ pendingChat = [t \in Transfers |-> NoRecord]
  /\ selected = NoPeer
  /\ pending = [t \in Transfers |-> NoPending]
  /\ files = [t \in Transfers |-> <<>>]
  /\ transferUpdates = <<>>
  /\ stateUpdates = <<>>
  /\ ui = IdleUi
  /\ tcp = IdleTcp
  /\ acceptTask = [t \in Transfers |-> [s \in Slots |-> NoTask]]
  /\ invited = [t \in Transfers |-> {}]
  /\ sentAll = {}
  /\ connections = [t \in Transfers |-> 0]
  /\ consents = [t \in Transfers |-> 0]
  /\ accepting = NoAccept
  /\ restarts = 0
  /\ raced = {}

-----------------------------------------------------------------------------
(* Helpers.                                                                *)

\* isTransferActive, for an incoming transfer.
Active(t) == pending[t] # NoPending

\* makeAvailableSiblingPath: the first name that is not taken.
FreshPath(t) == Len(files[t]) + 1

\* Mutant of Emptied: an existing file is opened without truncating it.
EmptiedUntruncated(t, p) ==
  IF p = FreshPath(t) THEN [files EXCEPT ![t] = Append(@, <<>>)] ELSE files

\* createIncomingPayloadFile: the file exists afterwards and is empty.
Emptied(t, p) ==
  IF p = FreshPath(t) THEN [files EXCEPT ![t] = Append(@, <<>>)]
                      ELSE [files EXCEPT ![t][p] = <<>>]

\* existingIncomingPayloadSize: a file that is too long is removed.  (A removed
\* file and an empty one are not told apart.)
Stored(t, p) ==
  IF p \in 1 .. Len(files[t]) /\ Len(files[t][p]) <= Size
    THEN Len(files[t][p]) ELSE 0

StateUpdate(t, state) == [t |-> t, state |-> state, path |-> NoPath]

\* recoverInterruptedTransferParts: a transfer that was under way but is not
\* active any more was interrupted.
Recovers(t, record) == record.state = "Transferring" /\ ~Active(t)
Recovered(t, record) ==
  IF Recovers(t, record) THEN [record EXCEPT !.state = "Interrupted"]
                         ELSE record

\* restart of the task `slot`: a frame it has not sent yet is dropped.
StartAccept(t, slot, offset, resuming) ==
  acceptTask' = [acceptTask EXCEPT
                   ![t][slot] = [offset |-> offset, resuming |-> resuming]]

\* Both threads look at a file and its count outside the lock and publish what
\* they made of it later: the accept handler until it replaces the pending
\* entry, the handler of an Offer likewise, that of a chunk until it counts the
\* chunk, that of a Complete until it reports it.  A transfer that both hold at
\* once is raced.
UiHolds(t) == ui.step \in {"prepare", "replace"} /\ accepting.t = t
TcpHolds(t) ==
  tcp.step \in {"prepare", "replace", "write", "count", "publish"} /\ tcp.t = t

\* `raced` after a step in which one thread begins to hold t.
Races(t, held) == IF held THEN raced \union {t} ELSE raced

-----------------------------------------------------------------------------
(* The TCP thread.  The sender opens a connection; its frames are read one   *)
(* by one, and the next connection waits until this one has ended.          *)

\* acceptIncomingFileTransferForRecord, for a message that was not stored yet and
\* so cannot be an interrupted one: a new file, a new entry, and an accept task.
AutoAccept(t) ==
  /\ files' = Emptied(t, FreshPath(t))
  /\ pending' = [pending EXCEPT ![t] = [path |-> FreshPath(t), received |-> 0]]
  /\ consents' = [consents EXCEPT ![t] = @ + 1]
  /\ StartAccept(t, "auto_accept", 0, FALSE)

\* A chat message with a file part arrives (makeIncomingRecordForLocalDevice,
\* enqueueIncomingChatMessage).  With auto-receive on, the transfer is accepted
\* here, before the message is stored and can be accepted by the user: one step.
ReceiveChat(t) ==
  /\ tcp.step = "accept"
  /\ disk[t] = NoRecord
  /\ \E auto \in AutoReceive :
       LET record == IF auto
                       THEN [state |-> "Transferring", path |-> FreshPath(t)]
                       ELSE [state |-> "Offered", path |-> NoPath] IN
       /\ disk' = [disk EXCEPT ![t] = record]
       /\ pendingChat' = [pendingChat EXCEPT ![t] = record]
       /\ IF auto
            THEN AutoAccept(t)
            ELSE UNCHANGED <<files, pending, consents, acceptTask>>
  /\ UNCHANGED <<shown, selected, queueVars, ui, tcp, senderVars, accepting,
                 restarts, raced>>

\* What the sender may open: a stream from the start (the user pushed the
\* file), a stream from an offset this receiver sent it, or a question where to
\* resume.  Once a stream was written to its end the sender shows Completed.
MayOpen(t, kind, offset) ==
  /\ disk[t] # NoRecord
  /\ t \notin sentAll
  /\ connections[t] < MaxConnections
  /\ \/ kind = "content" /\ (offset = 0 \/ offset \in invited[t])
     \/ kind = "resume" /\ offset = 0

OpenConnection(t, kind, offset) ==
  /\ tcp.step = "accept"
  /\ MayOpen(t, kind, offset)
  /\ tcp' = [IdleTcp EXCEPT !.step = "read", !.kind = kind, !.t = t,
                            !.offset = offset]
  /\ connections' = [connections EXCEPT ![t] = @ + 1]
  /\ invited' = IF kind = "content"
                  THEN [invited EXCEPT ![t] = @ \ {offset}] ELSE invited
  /\ UNCHANGED <<recordVars, pending, files, queueVars, ui, acceptTask,
                 sentAll, userVars, raced>>

Reading(phase) == tcp.step = "read" /\ tcp.phase = phase

\* The handler of a frame returns, and what it remembered is gone.
Returned == [tcp EXCEPT !.step = "read", !.path = NoPath, !.received = 0,
                        !.found = "no"]

\* transferStreamOpen of receiveFrames.
StreamOpen == tcp.kind = "content" /\ tcp.phase = "body"

\* A TransferOffer frame: is the transfer already pending?
ReadOffer ==
  LET t == tcp.t IN
  /\ Reading("offer")
  /\ tcp' = IF Active(t)
              THEN [tcp EXCEPT !.step = "install", !.phase = "body",
                               !.found = "pending", !.path = pending[t].path]
              ELSE [tcp EXCEPT !.step = "history", !.phase = "body",
                               !.found = "no", !.path = NoPath]
  /\ UNCHANGED <<recordVars, pending, files, queueVars, ui, acceptTask,
                 senderVars, userVars, raced>>

\* The interrupted copies of the selected peer's messages.
InterruptedShown(t) ==
  {i \in 1 .. Len(shown[t]) : shown[t][i].state = "Interrupted"}

\* Is it a transfer that was interrupted?  The shown messages are searched
\* first, then, unless they named a path, the stored record.
SearchHistory ==
  LET t == tcp.t
      inShown == InterruptedShown(t) # {}
      shownPath == IF inShown
                     THEN shown[t][CHOOSE i \in InterruptedShown(t) :
                            \A j \in InterruptedShown(t) : i <= j].path
                     ELSE NoPath
      stored == Recovered(t, disk[t])
      inStored == shownPath = NoPath /\ stored.state = "Interrupted" IN
  /\ tcp.step = "history"
  /\ tcp' = [tcp EXCEPT
       !.step = IF shownPath = NoPath /\ Recovers(t, disk[t])
                  THEN "recover" ELSE "install",
       !.found = IF inShown \/ inStored THEN "interrupted" ELSE "no",
       !.path = IF inStored THEN stored.path ELSE shownPath]
  /\ UNCHANGED <<recordVars, pending, files, queueVars, ui, acceptTask,
                 senderVars, userVars, raced>>

\* The recovered record is written back under a second lock: whatever the UI
\* thread stored since it was loaded is overwritten.
WriteRecovered ==
  /\ tcp.step = "recover"
  /\ disk' = [disk EXCEPT ![tcp.t] = [state |-> "Interrupted",
                                      path |-> tcp.path]]
  /\ tcp' = [tcp EXCEPT !.step = "install"]
  /\ UNCHANGED <<shown, pendingChat, selected, pending, files, queueVars, ui,
                 acceptTask, senderVars, userVars, raced>>

\* The rest of the Offer: choose the file and count what it holds (only when
\* resuming), outside the lock, ...
InstallPath == IF tcp.path = NoPath THEN FreshPath(tcp.t) ELSE tcp.path
Resumes == tcp.found = "pending"
           \/ (tcp.kind = "resume" /\ tcp.found = "interrupted")
InstallSize == IF Resumes THEN Stored(tcp.t, InstallPath) ELSE 0

MeasureOffered ==
  /\ tcp.step = "install"
  /\ tcp' = [tcp EXCEPT !.step = "prepare", !.path = InstallPath,
                        !.received = InstallSize]
  /\ raced' = Races(tcp.t, UiHolds(tcp.t))
  /\ UNCHANGED <<recordVars, pending, files, queueVars, ui, acceptTask,
                 senderVars, userVars>>

\* ... create or truncate it when nothing of it is kept, ...
PrepareOffered ==
  /\ tcp.step = "prepare"
  /\ files' = IF tcp.received = 0 THEN Emptied(tcp.t, tcp.path) ELSE files
  /\ tcp' = [tcp EXCEPT !.step = "replace"]
  /\ UNCHANGED <<recordVars, pending, queueVars, ui, acceptTask, senderVars,
                 userVars, raced>>

\* ... replace the pending entry under the lock, report Transferring and, for a
\* resume request, answer with the offset.
ReplaceOffered ==
  LET t == tcp.t IN
  /\ tcp.step = "replace"
  /\ pending' = [pending EXCEPT
                   ![t] = [path |-> tcp.path, received |-> tcp.received]]
  /\ stateUpdates' = Append(stateUpdates, StateUpdate(t, "Transferring"))
  /\ IF tcp.kind = "resume"
       THEN /\ StartAccept(t, "resume_accept", tcp.received, FALSE)
            /\ tcp' = IdleTcp
       ELSE /\ tcp' = Returned
            /\ UNCHANGED acceptTask
  /\ UNCHANGED <<recordVars, files, transferUpdates, ui, senderVars, userVars,
                 raced>>

\* failIncomingTransferFromFrame: the handler of a frame threw.
FailFrame(t, isOffer) ==
  IF Active(t)
    THEN /\ pending' = [pending EXCEPT ![t] = NoPending]
         /\ transferUpdates' = Append(transferUpdates,
              [t |-> t, state |-> "Failed", path |-> pending[t].path])
         /\ UNCHANGED stateUpdates
    ELSE /\ stateUpdates' = IF isOffer
              THEN Append(stateUpdates, StateUpdate(t, "Failed"))
              ELSE stateUpdates
         /\ UNCHANGED <<pending, transferUpdates>>

\* The file cannot be created.
InstallFails ==
  /\ tcp.step = "prepare"
  /\ tcp.received = 0
  /\ FailFrame(tcp.t, TRUE)
  /\ tcp' = IF tcp.kind = "resume" THEN IdleTcp ELSE Returned
  /\ UNCHANGED <<recordVars, files, ui, acceptTask, senderVars, userVars,
                 raced>>

\* Mutant of ReadChunk: the offset of the chunk is not compared.
ReadChunkUnordered ==
  LET t == tcp.t IN
  /\ Reading("body")
  /\ tcp.offset < Size
  /\ IF Active(t)
       THEN /\ tcp' = [tcp EXCEPT !.step = "write", !.path = pending[t].path,
                                  !.received = pending[t].received]
            /\ raced' = Races(t, UiHolds(t))
            /\ UNCHANGED <<pending, queueVars>>
       ELSE /\ FailFrame(t, FALSE)
            /\ tcp' = [tcp EXCEPT !.offset = @ + 1]
            /\ UNCHANGED raced
  /\ UNCHANGED <<recordVars, files, ui, acceptTask, senderVars, userVars>>

\* A TransferChunk frame: the entry is checked and copied under the lock.
ReadChunk ==
  LET t == tcp.t IN
  /\ Reading("body")
  /\ tcp.offset < Size
  /\ IF Active(t) /\ pending[t].received = tcp.offset
       THEN /\ tcp' = [tcp EXCEPT !.step = "write", !.path = pending[t].path,
                                  !.received = pending[t].received]
            /\ raced' = Races(t, UiHolds(t))
            /\ UNCHANGED <<pending, queueVars>>
       ELSE /\ FailFrame(t, FALSE)
            /\ tcp' = [tcp EXCEPT !.offset = @ + 1]
            /\ UNCHANGED raced
  /\ UNCHANGED <<recordVars, files, ui, acceptTask, senderVars, userVars>>

\* The chunk is appended to the copied path, without the lock ...
WriteChunk ==
  /\ tcp.step = "write"
  /\ files' = [files EXCEPT ![tcp.t][tcp.path] = Append(@, tcp.offset)]
  /\ tcp' = [tcp EXCEPT !.step = "count"]
  /\ UNCHANGED <<recordVars, pending, queueVars, ui, acceptTask, senderVars,
                 userVars, raced>>

WriteFails ==
  /\ tcp.step = "write"
  /\ FailFrame(tcp.t, FALSE)
  /\ tcp' = [Returned EXCEPT !.offset = @ + 1]
  /\ UNCHANGED <<recordVars, files, ui, acceptTask, senderVars, userVars,
                 raced>>

\* ... and counted in whatever entry the transfer has by then.
CountChunk ==
  LET t == tcp.t IN
  /\ tcp.step = "count"
  /\ pending' = IF Active(t)
                  THEN [pending EXCEPT ![t].received = tcp.received + 1]
                  ELSE pending
  /\ tcp' = [Returned EXCEPT !.offset = @ + 1]
  /\ UNCHANGED <<recordVars, files, queueVars, ui, acceptTask, senderVars,
                 userVars, raced>>

\* A TransferComplete frame, once all chunks were sent: the count must be the
\* size of the offer.
ReadComplete ==
  LET t == tcp.t IN
  /\ Reading("body")
  /\ tcp.kind = "content"
  /\ tcp.offset = Size
  /\ sentAll' = sentAll \union {t}
  /\ IF Active(t) /\ pending[t].received = Size
       THEN /\ tcp' = [tcp EXCEPT !.step = "publish", !.phase = "done",
                                  !.path = pending[t].path]
            /\ raced' = Races(t, UiHolds(t))
            /\ UNCHANGED <<pending, queueVars>>
       ELSE /\ FailFrame(t, FALSE)
            /\ tcp' = [tcp EXCEPT !.phase = "done"]
            /\ UNCHANGED raced
  /\ UNCHANGED <<recordVars, files, ui, acceptTask, invited, connections,
                 userVars>>

PublishComplete ==
  /\ tcp.step = "publish"
  /\ transferUpdates' = Append(transferUpdates,
       [t |-> tcp.t, state |-> "Completed", path |-> tcp.path])
  /\ tcp' = [tcp EXCEPT !.step = "erase"]
  /\ UNCHANGED <<recordVars, pending, files, stateUpdates, ui, acceptTask,
                 senderVars, userVars, raced>>

EraseCompleted ==
  /\ tcp.step = "erase"
  /\ pending' = [pending EXCEPT ![tcp.t] = NoPending]
  /\ tcp' = Returned
  /\ UNCHANGED <<recordVars, files, queueVars, ui, acceptTask, senderVars,
                 userVars, raced>>

\* The connection ends, after the last frame or because the sender cancelled,
\* failed or vanished.  If a stream was open, every pending transfer of every
\* peer is interrupted (interruptPendingIncomingTransfers), in the order of an
\* unordered map.
ActiveTransfers == {t \in Transfers : Active(t)}

EndConnection ==
  /\ tcp.step = "read"
  /\ tcp' = IdleTcp
  /\ IF StreamOpen
       THEN /\ \E order \in [1 .. Cardinality(ActiveTransfers)
                             -> ActiveTransfers] :
                 /\ \A t \in ActiveTransfers : \E i \in DOMAIN order :
                      order[i] = t
                 /\ transferUpdates' = transferUpdates \o
                      [i \in DOMAIN order |->
                         [t |-> order[i], state |-> "Interrupted",
                          path |-> pending[order[i]].path]]
            /\ pending' = [t \in Transfers |-> NoPending]
       ELSE UNCHANGED <<pending, transferUpdates>>
  /\ UNCHANGED <<recordVars, files, stateUpdates, ui, acceptTask, senderVars,
                 userVars, raced>>

\* A TransferCancel frame of the sender's user, on a connection of its own.
ReceiveCancel(t) ==
  /\ tcp.step = "accept"
  /\ MayOpen(t, "resume", 0)
  /\ connections' = [connections EXCEPT ![t] = @ + 1]
  /\ sentAll' = sentAll \union {t}
  /\ IF Active(t)
       THEN /\ pending' = [pending EXCEPT ![t] = NoPending]
            /\ transferUpdates' = Append(transferUpdates,
                 [t |-> t, state |-> "Cancelled", path |-> pending[t].path])
            /\ UNCHANGED stateUpdates
       ELSE /\ stateUpdates' = Append(stateUpdates,
                                      StateUpdate(t, "Cancelled"))
            /\ UNCHANGED <<pending, transferUpdates>>
  /\ UNCHANGED <<recordVars, files, ui, tcp, acceptTask, invited, userVars,
                 raced>>

-----------------------------------------------------------------------------
(* The UI thread: one refresh drains the chat messages, then the transfer    *)
(* updates, then the state updates (refreshPeersIfNeeded).                  *)

\* drainPendingChatMessages: messages are already in the history; those of the
\* selected peer are shown, whether or not loading the history has shown them.
DrainChatMessages ==
  /\ ui.step = "idle"
  /\ shown' = [t \in Transfers |->
                 IF pendingChat[t] # NoRecord /\ PeerOf[t] = selected
                   THEN Append(shown[t], pendingChat[t]) ELSE shown[t]]
  /\ pendingChat' = [t \in Transfers |-> NoRecord]
  /\ ui' = [ui EXCEPT !.step = "drained"]
  /\ UNCHANGED <<disk, selected, pending, files, queueVars, tcp, acceptTask,
                 senderVars, userVars, raced>>

\* drainPendingTransferUpdates swaps its queue out ...
DrainTransferUpdates ==
  /\ ui.step = "drained"
  /\ ui' = [step |-> "transfers", batch |-> transferUpdates]
  /\ transferUpdates' = <<>>
  /\ UNCHANGED <<recordVars, pending, files, stateUpdates, tcp, acceptTask,
                 senderVars, userVars, raced>>

\* ... and drainPendingTransferStateUpdates when that batch is done.  The
\* refresh ends with the second batch.
StateBatch(batch) ==
  IF batch = <<>> THEN IdleUi ELSE [step |-> "states", batch |-> batch]

DrainStateUpdates ==
  /\ ui.step = "transfers"
  /\ ui.batch = <<>>
  /\ ui' = StateBatch(stateUpdates)
  /\ stateUpdates' = <<>>
  /\ UNCHANGED <<recordVars, pending, files, transferUpdates, tcp, acceptTask,
                 senderVars, userVars, raced>>

\* Mutant of Takes: a message in a final state takes updates too.
TakesAlways(record, update) == record # NoRecord

\* applyTransferPartUpdate, applyTransferPartStateUpdate
Takes(record, update) ==
  record # NoRecord /\ ~IgnoresUpdate(record.state, update.state)
Updated(record, update) ==
  [state |-> update.state,
   path |-> IF update.path = NoPath THEN record.path ELSE update.path]

\* updateChatMessageTransferPart and updateChatMessageTransferState: the update
\* goes to the queued chat message, else to the first shown copy that takes it
\* (and to the history), else to the history alone; an update that nothing
\* takes is put back into its queue.
ApplyUpdate ==
  LET u == Head(ui.batch)
      t == u.t
      takers == {i \in 1 .. Len(shown[t]) : Takes(shown[t][i], u)} IN
  /\ ui.batch # <<>>
  /\ ui' = IF ui.step = "states" THEN StateBatch(Tail(ui.batch))
                                ELSE [ui EXCEPT !.batch = Tail(@)]
  /\ IF Takes(pendingChat[t], u)
       THEN /\ pendingChat' = [pendingChat EXCEPT ![t] = Updated(@, u)]
            /\ UNCHANGED <<shown, disk, queueVars>>
     ELSE IF takers # {}
       THEN LET i == CHOOSE i \in takers : \A j \in takers : i <= j
                record == Updated(shown[t][i], u) IN
            /\ shown' = [shown EXCEPT ![t][i] = record]
            /\ disk' = [disk EXCEPT ![t] = record]
            /\ UNCHANGED <<pendingChat, queueVars>>
     ELSE IF Takes(disk[t], u)
       THEN /\ disk' = [disk EXCEPT ![t] = Updated(@, u)]
            /\ UNCHANGED <<shown, pendingChat, queueVars>>
     ELSE /\ IF ui.step = "transfers"
               THEN /\ transferUpdates' = Append(transferUpdates, u)
                    /\ UNCHANGED stateUpdates
               ELSE /\ stateUpdates' = Append(stateUpdates, u)
                    /\ UNCHANGED transferUpdates
          /\ UNCHANGED <<disk, shown, pendingChat>>
  /\ UNCHANGED <<selected, pending, files, tcp, acceptTask, senderVars,
                 userVars, raced>>

\* setSelectedPeerDeviceId, loadSelectedPeerMessages: the history of the peer is
\* shown, with transfers that are not active any more recovered on disk too.
SelectPeer(p) ==
  /\ ui.step = "idle"
  /\ selected # p
  /\ selected' = p
  /\ disk' = [t \in Transfers |->
                IF PeerOf[t] = p THEN Recovered(t, disk[t]) ELSE disk[t]]
  /\ shown' = [t \in Transfers |->
                 IF PeerOf[t] = p /\ disk[t] # NoRecord
                   THEN <<Recovered(t, disk[t])>> ELSE <<>>]
  /\ UNCHANGED <<pendingChat, pending, files, queueVars, ui, tcp, acceptTask,
                 senderVars, userVars, raced>>

\* The user acts on the first shown copy of a message.
UserSees(t, states) ==
  /\ ui.step = "idle"
  /\ shown[t] # <<>>
  /\ shown[t][1].state \in states

\* The user's action stores and shows the new record.
Rewrite(t, record) ==
  /\ shown' = [shown EXCEPT ![t][1] = record]
  /\ disk' = [disk EXCEPT ![t] = record]

\* The file an accepted transfer is written to: the one it was interrupted in,
\* the original name (overwrite), or a name that is free.
AcceptPath(t, overwrite) ==
  LET record == shown[t][1] IN
  IF record.state = "Interrupted" /\ record.path # NoPath THEN record.path
  ELSE IF record.state = "Interrupted" \/ overwrite THEN 1
  ELSE FreshPath(t)

\* acceptSelectedPeerFileTransferToPath.  A transfer that was interrupted goes
\* on behind what its file holds, which is counted outside the lock; ...
BeginAccept(t, overwrite) ==
  LET resuming == shown[t][1].state = "Interrupted"
      p == AcceptPath(t, overwrite)
      offset == IF resuming THEN Stored(t, p) ELSE 0 IN
  /\ UserSees(t, AcceptableStates)
  /\ consents[t] < MaxAccepts
  /\ consents' = [consents EXCEPT ![t] = @ + 1]
  /\ files' = IF resuming /\ offset = 0 THEN Emptied(t, p) ELSE files
  /\ ui' = [IdleUi EXCEPT !.step = IF resuming THEN "replace" ELSE "prepare"]
  /\ accepting' = [t |-> t, path |-> p, received |-> offset,
                   resuming |-> resuming]
  /\ raced' = Races(t, TcpHolds(t))
  /\ UNCHANGED <<recordVars, pending, queueVars, tcp, acceptTask, senderVars,
                 restarts>>

\* ... any other one gets an empty file, ...
PrepareAccepted ==
  /\ ui.step = "prepare"
  /\ files' = Emptied(accepting.t, accepting.path)
  /\ ui' = [IdleUi EXCEPT !.step = "replace"]
  /\ UNCHANGED <<recordVars, pending, queueVars, tcp, acceptTask, senderVars,
                 userVars, raced>>

\* ... the pending entry is replaced under the lock, ...
ReplaceAccepted ==
  /\ ui.step = "replace"
  /\ pending' = [pending EXCEPT ![accepting.t] =
                   [path |-> accepting.path, received |-> accepting.received]]
  /\ ui' = [IdleUi EXCEPT !.step = "record"]
  /\ UNCHANGED <<recordVars, files, queueVars, tcp, acceptTask, senderVars,
                 userVars, raced>>

\* ... the record is stored and the accept sent.
RecordAccepted ==
  /\ ui.step = "record"
  /\ Rewrite(accepting.t, [state |-> "Transferring", path |-> accepting.path])
  /\ StartAccept(accepting.t, "accept", accepting.received, accepting.resuming)
  /\ ui' = IdleUi
  /\ accepting' = NoAccept
  /\ UNCHANGED <<pendingChat, selected, pending, files, queueVars, tcp,
                 senderVars, consents, restarts, raced>>

\* rejectSelectedPeerFileTransfer
RejectTransfer(t) ==
  /\ UserSees(t, {"Offered"})
  /\ Rewrite(t, [shown[t][1] EXCEPT !.state = "Rejected"])
  /\ pending' = [pending EXCEPT ![t] = NoPending]
  /\ UNCHANGED <<pendingChat, selected, files, queueVars, ui, tcp, acceptTask,
                 senderVars, userVars, raced>>

\* cancelSelectedPeerFileTransfer, for an incoming message
CancelTransfer(t) ==
  /\ UserSees(t, {"Transferring"})
  /\ Rewrite(t, [state |-> "Cancelled",
                 path |-> IF Active(t) THEN pending[t].path
                                       ELSE shown[t][1].path])
  /\ pending' = [pending EXCEPT ![t] = NoPending]
  /\ UNCHANGED <<pendingChat, selected, files, queueVars, ui, tcp, acceptTask,
                 senderVars, userVars, raced>>

-----------------------------------------------------------------------------
(* The accept tasks, and a crash of the process.                            *)

\* The sender knows where the receiver wants it to go on.  (An accept from the
\* start adds nothing to what its user may do at any time.)
AcceptSent(t, slot) ==
  /\ acceptTask[t][slot] # NoTask
  /\ invited' = [invited EXCEPT ![t] = @ \union ({acceptTask[t][slot].offset} \ {0})]
  /\ acceptTask' = [acceptTask EXCEPT ![t][slot] = NoTask]
  /\ UNCHANGED <<recordVars, pending, files, queueVars, ui, tcp, sentAll,
                 connections, userVars, raced>>

\* The completion of the failed task runs on the UI thread.  The pending entry
\* stays; a failed answer to a resume request is only logged.
AcceptFails(t, slot) ==
  LET task == acceptTask[t][slot] IN
  /\ ui.step = "idle"
  /\ task # NoTask
  /\ acceptTask' = [acceptTask EXCEPT ![t][slot] = NoTask]
  /\ stateUpdates' =
       IF slot = "resume_accept" THEN stateUpdates
       ELSE Append(stateUpdates,
              StateUpdate(t, IF task.resuming THEN "Interrupted" ELSE "Failed"))
  /\ UNCHANGED <<recordVars, pending, files, transferUpdates, ui, tcp,
                 senderVars, userVars, raced>>

\* The process dies and is started again: the history and the files remain.
Restart ==
  /\ restarts < MaxRestarts
  /\ restarts' = restarts + 1
  /\ shown' = [t \in Transfers |-> <<>>]
  /\ pendingChat' = [t \in Transfers |-> NoRecord]
  /\ selected' = NoPeer
  /\ pending' = [t \in Transfers |-> NoPending]
  /\ transferUpdates' = <<>>
  /\ stateUpdates' = <<>>
  /\ ui' = IdleUi
  /\ accepting' = NoAccept
  /\ tcp' = IdleTcp
  /\ acceptTask' = [t \in Transfers |-> [s \in Slots |-> NoTask]]
  /\ UNCHANGED <<disk, files, senderVars, consents, raced>>

-----------------------------------------------------------------------------

TcpStep ==
  \/ ReadOffer \/ SearchHistory \/ WriteRecovered
  \/ MeasureOffered \/ PrepareOffered \/ ReplaceOffered \/ InstallFails
  \/ ReadChunk \/ WriteChunk \/ WriteFails \/ CountChunk
  \/ ReadComplete \/ PublishComplete \/ EraseCompleted
  \/ EndConnection

SenderStep ==
  \E t \in Transfers :
    \/ ReceiveChat(t)
    \/ ReceiveCancel(t)
    \/ \E kind \in {"content", "resume"}, offset \in Offsets :
         OpenConnection(t, kind, offset)

RefreshStep ==
  \/ DrainChatMessages \/ DrainTransferUpdates \/ DrainStateUpdates
  \/ ApplyUpdate

AcceptStep == PrepareAccepted \/ ReplaceAccepted \/ RecordAccepted

UiStep ==
  \/ RefreshStep
  \/ AcceptStep
  \/ \E p \in Peers : SelectPeer(p)
  \/ \E t \in Transfers :
       \/ \E overwrite \in BOOLEAN : BeginAccept(t, overwrite)
       \/ RejectTransfer(t)
       \/ CancelTransfer(t)

TaskStep ==
  \E t \in Transfers, slot \in Slots :
    AcceptSent(t, slot) \/ AcceptFails(t, slot)

Next == TcpStep \/ SenderStep \/ UiStep \/ TaskStep \/ Restart

Spec == Init /\ [][Next]_vars

\* The UI loop ends the handler it is in and keeps refreshing; nothing else is
\* assumed of anybody.
FairSpec == Spec /\ WF_vars(RefreshStep \/ AcceptStep)

-----------------------------------------------------------------------------
(* Properties.                                                             *)

TcpSteps == {"accept", "read", "history", "recover", "install", "prepare",
             "replace", "write", "count", "publish", "erase"}

TcpStates ==
  [step : TcpSteps, kind : {"content", "resume"}, t : Transfers,
   phase : {"offer", "body", "done"}, offset : Offsets, path : Nat,
   received : Offsets, found : {"no", "pending", "interrupted"}]

UiStates ==
  [step : {"idle", "drained", "transfers", "states",
           "prepare", "replace", "record"}, batch : Seq(Updates)]

Accepts ==
  [t : Transfers, path : Nat, received : Offsets, resuming : BOOLEAN]

TypeOK ==
  /\ disk \in [Transfers -> Records \union {NoRecord}]
  /\ shown \in [Transfers -> Seq(Records)]
  /\ pendingChat \in [Transfers -> Records \union {NoRecord}]
  /\ selected \in Peers \union {NoPeer}
  /\ pending \in [Transfers -> Pendings]
  /\ files \in [Transfers -> Seq(Seq(Offsets))]
  /\ transferUpdates \in Seq(Updates)
  /\ stateUpdates \in Seq(Updates)
  /\ ui \in UiStates
  /\ tcp \in TcpStates
  /\ acceptTask \in [Transfers -> [Slots -> Tasks \union {NoTask}]]
  /\ invited \in [Transfers -> SUBSET Offsets]
  /\ sentAll \subseteq Transfers
  /\ consents \in [Transfers -> Nat]
  /\ accepting \in Accepts
  /\ connections \in [Transfers -> Nat]
  /\ restarts \in Nat
  /\ raced \subseteq Transfers

-----------------------------------------------------------------------------
(* The files.  A transfer that both threads held at once (`raced`) is         *)
(* excepted: there the code itself loses track of the file.                  *)

\* The content the sender has.
Whole == [i \in 1 .. Size |-> i - 1]

\* The TCP thread is between appending a chunk of t and counting it.
Uncounted(t) == IF tcp.step = "count" /\ tcp.t = t THEN 1 ELSE 0

\* A thread is about to replace the pending entry of t.
UiReplaces(t) == ui.step = "replace" /\ accepting.t = t
TcpReplaces(t) == tcp.step = "replace" /\ tcp.t = t

\* Whatever streams were cut, resumed, started again or failed half-way, a
\* received file is at any time an intact beginning of the sent one: no chunk
\* is missing, doubled or out of place, and none at all when the transfer is
\* reported as completed.  The chunk handler appends at the end of the file and
\* relies on the count in the pending entry for that: the count, from which chunks
\* are checked and resume offsets are answered, is the length of the file the
\* entry names, also when an Offer, an accept or a resume request replaced it.
\* While one of these is on its way, the count is right in the entry it is going
\* to publish.
FilesMatchCounts ==
  \A t \in Transfers \ raced :
    /\ \A n \in 1 .. Len(files[t]) :
         files[t][n] = SubSeq(Whole, 1, Len(files[t][n]))
    /\ (Active(t) /\ ~UiReplaces(t) /\ ~TcpReplaces(t)) =>
         pending[t].received = Stored(t, pending[t].path) - Uncounted(t)
    /\ UiReplaces(t) => accepting.received = Stored(t, accepting.path)
    /\ TcpReplaces(t) => tcp.received = Stored(t, tcp.path)
    /\ (tcp.step = "publish" /\ tcp.t = t) => files[t][tcp.path] = Whole

-----------------------------------------------------------------------------
(* The records.                                                            *)

\* What the user or the sender decided about a transfer stays decided: a late
\* frame, a late accept result, a reload of the history or a restart never
\* takes a stored Completed, Cancelled or Rejected back.  Two cases are
\* excepted because the code does take it back there: the message is shown
\* twice (it was loaded from the history before it was drained from
\* pendingChatMessages_), and an Offer handler is about to write the record
\* it loaded earlier.
FinalStateKept ==
  [][\A t \in Transfers :
       (/\ disk[t].state \in FinalStates
        /\ Len(shown[t]) <= 1
        /\ ~(tcp.step = "recover" /\ tcp.t = t))
          => disk'[t].state = disk[t].state]_vars

CompletionQueued(t) ==
  \E i \in 1 .. Len(transferUpdates) :
     transferUpdates[i].t = t /\ transferUpdates[i].state = "Completed"

\* A completion that was queued reaches the history, whichever peer is
\* selected and whatever else is queued, unless the process dies first or the
\* user has cancelled.  (While the message itself still waits in
\* pendingChatMessages_ only that copy is updated, and the history is not.)
CompletionRecorded ==
  \A t \in Transfers, n \in 0 .. MaxRestarts :
    (CompletionQueued(t) /\ pendingChat[t] = NoRecord /\ restarts = n)
      ~> (disk[t].state \in FinalStates \/ restarts > n)

-----------------------------------------------------------------------------
(* Two statements of docs/file-folder-transfer-design.md.                   *)

\* Nothing is under way: no frame, no refresh, no queued update, no task.
Quiet ==
  /\ tcp.step = "accept"
  /\ ui.step = "idle"
  /\ transferUpdates = <<>> /\ stateUpdates = <<>>
  /\ \A t \in Transfers :
       /\ pendingChat[t] = NoRecord
       /\ \A slot \in Slots : acceptTask[t][slot] = NoTask

\* A transfer that ended shows how it ended (line 12): when nothing is under
\* way, a message box says Transferring only for a transfer that is active.
EndedTransferIsShown ==
  Quiet =>
    \A t \in Transfers : \A i \in 1 .. Len(shown[t]) :
       shown[t][i].state = "Transferring" => Active(t)

\* The receiver has to accept before content is stored (lines 327-328).
ContentNeedsConsent ==
  \A t \in Transfers : consents[t] = 0 =>
     \A n \in 1 .. Len(files[t]) : files[t][n] = <<>>

=============================================================================
