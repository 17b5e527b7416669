--------------------------- MODULE OutgoingTransfers ---------------------------
(***************************************************************************)
(* The sending side of RelayDesk's file transfers (src/src/main/app_runtime.cpp), *)
(* composed with the task runtime that carries its streams.                 *)
(*                                                                         *)
(* Each transfer is the one file part of a chat message and has a task key   *)
(* of its own ("relaydesk.transfer.send." + id), so the Keys of AsyncTasks    *)
(* are the transfers here.  The UI thread starts and cancels the task, the   *)
(* TCP thread cancels it too.  All messages go to one peer, whose answers     *)
(* (accept, reject, cancel) are the environment.                           *)
(*                                                                         *)
(* A refresh of the UI thread swaps the two queues of updates and the one of *)
(* requests out, each when its turn comes, and handles the elements one by   *)
(* one, while the other threads fill the queues again.                      *)
(***************************************************************************)
EXTENDS AsyncTasks, TransferRules, TLC

CONSTANTS
  Ui, Tcp,      \* the two elements of Threads
  Reasons,      \* states a cancel frame of the peer may ask for
  MaxPushes,    \* bound on the user's pushes of a transfer
  MaxAnswers,   \* bound on the peer's answers to a transfer
  MaxRestarts   \* bound on restarts of the process

ASSUME ThreadsAssumption == Ui # Tcp /\ Threads = {Ui, Tcp}
ASSUME ReasonsAssumption == Reasons \subseteq {"Cancelled", "Failed"}
\* Every request finds a run left to use.
ASSUME RunsSuffice ==
  /\ MaxPushes \in Nat /\ MaxAnswers \in Nat /\ MaxRestarts \in Nat
  /\ MaxPushes + MaxAnswers <= MaxRuns

None == "none"
NoUpdate == [t |-> None, state |-> None]
Updates == [t : Keys, state : States]
Requests == [t : Keys, kind : {"content", "resume"}]
UiIdle == [step |-> "idle", batch |-> <<>>]

VARIABLES
  chatOpen,      \* the peer is the selected one
  shown,         \* transfer state in selectedPeerMessages_
  disk,          \* transfer state in the chat history (the message's first line)
  chat,          \* the task that sends the chat message
  reached,       \* transfers whose chat message reached the peer
  transferUpdates, stateUpdates,   \* the two update queues
  requests,      \* pendingOutgoingTransferRequests_
  ui,            \* what the UI thread is doing, and what is left of its batch
  tcp,           \* the update a cancel frame still has to queue
  runKind,       \* whether a run sends the content or asks where to resume
  prepared,      \* runs that have reported the file they send
  wholeSent,     \* transfers whose content was written to its end
  userCancelled, \* transfers cancelled here and not offered or pushed again
  pushes, answers, restarts        \* counters that bound the runs

recordVars == <<chatOpen, shown, disk>>
chatVars == <<chat, reached>>
updateVars == <<transferUpdates, stateUpdates>>
workVars == <<runKind, prepared, wholeSent>>
boundVars == <<pushes, answers, restarts>>
sendVars == <<chatOpen, shown, disk, chat, reached, transferUpdates,
              stateUpdates, requests, ui, tcp, runKind, prepared, wholeSent,
              userCancelled, pushes, answers, restarts>>
allVars == <<vars, sendVars>>

SendInit ==
  /\ Init
  /\ chatOpen = TRUE
  /\ shown = [t \in Keys |-> None]
  /\ disk = [t \in Keys |-> None]
  /\ chat = [t \in Keys |-> "new"]
  /\ reached = {}
  /\ transferUpdates = <<>>
  /\ stateUpdates = <<>>
  /\ requests = <<>>
  /\ ui = UiIdle
  /\ tcp = NoUpdate
  /\ runKind = [r \in Runs |-> "content"]
  /\ prepared = {}
  /\ wholeSent = {}
  /\ userCancelled = {}
  /\ pushes = [t \in Keys |-> 0]
  /\ answers = [t \in Keys |-> 0]
  /\ restarts = 0

-----------------------------------------------------------------------------
(* The records.                                                            *)

Update(t, state) == [t |-> t, state |-> state]

\* Mutant of Takes: a final state takes updates too.
TakesAlways(current, state) == current # None

\* A record takes an update unless it is not there or ignores it.
Takes(current, state) == current # None /\ ~IgnoresUpdate(current, state)

\* replaceChatMessage: only a message that is stored is changed.
Replaced(history, t, state) ==
  IF history[t] = None THEN history ELSE [history EXCEPT ![t] = state]

\* updateChatMessageTransferPart, updateChatMessageTransferState: the shown
\* message is changed and stored, else the stored one.
Apply(u) ==
  \/ /\ Takes(shown[u.t], u.state)
     /\ shown' = [shown EXCEPT ![u.t] = u.state]
     /\ disk' = Replaced(disk, u.t, u.state)
  \/ /\ ~Takes(shown[u.t], u.state)
     /\ Takes(disk[u.t], u.state)
     /\ disk' = [disk EXCEPT ![u.t] = u.state]
     /\ UNCHANGED shown

\* Neither takes it: the update is left for the next refresh.
Untaken(u) == ~Takes(shown[u.t], u.state) /\ ~Takes(disk[u.t], u.state)

\* persistChatMessageRecord, replacing, and updateSelectedPeerMessageRecord
Record(t, state) ==
  /\ disk' = [disk EXCEPT ![t] = state]
  /\ shown' = Replaced(shown, t, state)

\* The UI thread is between two frames.
UiFree == ui = UiIdle /\ starting[Ui] = NoRun /\ callbacks = <<>>

-----------------------------------------------------------------------------
(* The chat message that offers the file.                                  *)

\* sendMessagePartsToSelectedPeer: shown as Pending, not yet stored.
SendMessage(t) ==
  /\ UiFree
  /\ chatOpen
  /\ chat[t] = "new"
  /\ chat' = [chat EXCEPT ![t] = "sending"]
  /\ shown' = [shown EXCEPT ![t] = "Pending"]
  /\ UNCHANGED <<vars, chatOpen, disk, reached, updateVars, requests, ui, tcp,
                 workVars, userCancelled, boundVars>>

\* The chat frame is out; the task may still have images to send.
ChatFrameOut(t) ==
  /\ chat[t] = "sending"
  /\ t \notin reached
  /\ reached' = reached \union {t}
  /\ UNCHANGED <<vars, recordVars, chat, updateVars, requests, ui, tcp,
                 workVars, userCancelled, boundVars>>

\* The completion of that task (recordAfterOutgoingChatSend): the record the
\* task was started with is shown and appended to the history as Offered or
\* Failed, whatever has happened to the message since.  If the history has a
\* line of the message already, that line stays the one which is read.
ChatDone(t) ==
  /\ UiFree
  /\ chat[t] = "sending"
  /\ chat' = [chat EXCEPT ![t] = "done"]
  /\ \E state \in {"Offered", "Failed"} :
       /\ state = "Offered" => t \in reached
       /\ disk' = IF disk[t] = None THEN [disk EXCEPT ![t] = state] ELSE disk
       /\ shown' = Replaced(shown, t, state)
  /\ userCancelled' = userCancelled \ {t}
  /\ UNCHANGED <<vars, chatOpen, reached, updateVars, requests, ui, tcp,
                 workVars, boundVars>>

-----------------------------------------------------------------------------
(* The user.                                                               *)

\* sendSelectedPeerFileTransfer: an interrupted transfer asks the peer where
\* to resume, another one is sent from the start.
PushTransfer(t) ==
  /\ UiFree
  /\ shown[t] \in {"Offered", "Interrupted", "Failed"}
  /\ pushes[t] < MaxPushes
  /\ pushes' = [pushes EXCEPT ![t] = @ + 1]
  /\ requests' = Append(requests,
       [t |-> t, kind |-> IF shown[t] = "Interrupted" THEN "resume"
                                                      ELSE "content"])
  /\ userCancelled' = userCancelled \ {t}
  /\ UNCHANGED <<vars, recordVars, chatVars, updateVars, ui, tcp, workVars,
                 answers, restarts>>

\* cancelSelectedPeerFileTransfer, for an outgoing message
CancelTransfer(t) ==
  /\ UiFree
  /\ shown[t] \in {"Offered", "Transferring"}
  /\ Record(t, "Cancelled")
  /\ IF status[t] = "Running" THEN Cancel(Ui, t) ELSE UNCHANGED vars
  /\ userCancelled' = userCancelled \union {t}
  /\ UNCHANGED <<chatOpen, chatVars, updateVars, requests, ui, tcp, workVars,
                 boundVars>>

\* setSelectedPeerDeviceId: opening the chat loads the history and recovers
\* transfers that are not active (isTransferActive) as interrupted.
SwitchPeer ==
  /\ UiFree
  /\ chatOpen' = ~chatOpen
  /\ IF chatOpen
       THEN /\ shown' = [t \in Keys |-> None]
            /\ UNCHANGED disk
       ELSE /\ disk' = [t \in Keys |->
                 IF disk[t] = "Transferring" /\ status[t] # "Running"
                   THEN "Interrupted" ELSE disk[t]]
            /\ shown' = disk'
  /\ UNCHANGED <<vars, chatVars, updateVars, requests, ui, tcp, workVars,
                 userCancelled, boundVars>>

-----------------------------------------------------------------------------
(* The peer's frames, on the TCP thread.                                   *)

Answer(t) ==
  /\ t \in reached
  /\ answers[t] < MaxAnswers
  /\ tcp = NoUpdate
  /\ answers' = [answers EXCEPT ![t] = @ + 1]
  /\ UNCHANGED <<recordVars, chatVars, transferUpdates, ui, workVars,
                 userCancelled, pushes, restarts>>

\* A TransferAccept frame, also the answer to a resume request.
ReceiveAccept(t) ==
  /\ Answer(t)
  /\ requests' = Append(requests, [t |-> t, kind |-> "content"])
  /\ UNCHANGED <<vars, stateUpdates, tcp>>

ReceiveReject(t) ==
  /\ Answer(t)
  /\ stateUpdates' = Append(stateUpdates, Update(t, "Rejected"))
  /\ UNCHANGED <<vars, requests, tcp>>

\* A TransferCancel frame: the task is cancelled first ...
ReceiveCancel(t) ==
  /\ Answer(t)
  /\ IF status[t] = "Running" THEN Cancel(Tcp, t) ELSE UNCHANGED vars
  /\ \E state \in Reasons : tcp' = Update(t, state)
  /\ UNCHANGED <<stateUpdates, requests>>

\* ... and the state is queued afterwards.
QueueCancel ==
  /\ tcp # NoUpdate
  /\ stateUpdates' = Append(stateUpdates, tcp)
  /\ tcp' = NoUpdate
  /\ UNCHANGED <<vars, recordVars, chatVars, transferUpdates, requests, ui,
                 workVars, userCancelled, boundVars>>

-----------------------------------------------------------------------------
(* The refresh: transfer updates, then state updates, then requests.         *)

\* drainPendingTransferUpdates swaps its queue out ...
DrainTransferUpdates ==
  /\ UiFree
  /\ ui' = [step |-> "transfers", batch |-> transferUpdates]
  /\ transferUpdates' = <<>>
  /\ UNCHANGED <<vars, recordVars, chatVars, stateUpdates, requests, tcp,
                 workVars, userCancelled, boundVars>>

\* ... applies the updates, and puts back those that nothing takes.
ApplyTransferUpdate ==
  LET u == Head(ui.batch) IN
  /\ ui.step = "transfers" /\ ui.batch # <<>>
  /\ ui' = [ui EXCEPT !.batch = Tail(@)]
  /\ \/ Apply(u) /\ UNCHANGED transferUpdates
     \/ /\ Untaken(u) /\ UNCHANGED <<shown, disk>>
        /\ transferUpdates' = Append(transferUpdates, u)
  /\ UNCHANGED <<vars, chatOpen, chatVars, stateUpdates, requests, tcp,
                 workVars, userCancelled, boundVars>>

\* drainPendingTransferStateUpdates does the same with its own queue.
DrainStateUpdates ==
  /\ ui.step = "transfers" /\ ui.batch = <<>>
  /\ ui' = [step |-> "states", batch |-> stateUpdates]
  /\ stateUpdates' = <<>>
  /\ UNCHANGED <<vars, recordVars, chatVars, transferUpdates, requests, tcp,
                 workVars, userCancelled, boundVars>>

ApplyStateUpdate ==
  LET u == Head(ui.batch) IN
  /\ ui.step = "states" /\ ui.batch # <<>>
  /\ ui' = [ui EXCEPT !.batch = Tail(@)]
  /\ \/ Apply(u) /\ UNCHANGED stateUpdates
     \/ /\ Untaken(u) /\ UNCHANGED <<shown, disk>>
        /\ stateUpdates' = Append(stateUpdates, u)
  /\ UNCHANGED <<vars, chatOpen, chatVars, transferUpdates, requests, tcp,
                 workVars, userCancelled, boundVars>>

NextRequests(batch) ==
  IF batch = <<>> THEN UiIdle ELSE [step |-> "sending", batch |-> batch]

DrainRequests ==
  /\ ui.step = "states" /\ ui.batch = <<>>
  /\ ui' = NextRequests(requests)
  /\ requests' = <<>>
  /\ UNCHANGED <<vars, recordVars, chatVars, updateVars, tcp, workVars,
                 userCancelled, boundVars>>

\* Mutant of SendableStates: any transfer may be sent.
SendableStatesAll == States

\* hasSendableTransferPartState
SendableStates == {"Offered", "Transferring", "Interrupted", "Failed"}

\* sendOutgoingTransferRequest: the record, shown or stored, must be there and
\* sendable; then it is Transferring and the task is started anew.
SendRequest ==
  LET q == Head(ui.batch)
      record == IF shown[q.t] # None THEN shown[q.t] ELSE disk[q.t] IN
  /\ ui.step = "sending"
  /\ starting[Ui] = NoRun
  /\ ui' = NextRequests(Tail(ui.batch))
  /\ IF record \in SendableStates
       THEN /\ BeginTask(Ui, q.t, TRUE)
            /\ Record(q.t, "Transferring")
            /\ runKind' = [runKind EXCEPT ![started + 1] = q.kind]
            /\ UNCHANGED stateUpdates
       ELSE /\ stateUpdates' = IF record = None
                 THEN Append(stateUpdates, Update(q.t, "Failed"))
                 ELSE stateUpdates
            /\ UNCHANGED <<vars, shown, disk, runKind>>
  /\ UNCHANGED <<chatOpen, chatVars, transferUpdates, requests, tcp, prepared,
                 wholeSent, userCancelled, boundVars>>

\* The peer is not in the list of peers any more.
SendRequestFails ==
  LET q == Head(ui.batch) IN
  /\ ui.step = "sending"
  /\ starting[Ui] = NoRun
  /\ ui' = NextRequests(Tail(ui.batch))
  /\ stateUpdates' = Append(stateUpdates, Update(q.t, "Failed"))
  /\ UNCHANGED <<vars, recordVars, chatVars, transferUpdates, requests, tcp,
                 workVars, userCancelled, boundVars>>

-----------------------------------------------------------------------------
(* The task: sendTransferPartFrames on a worker, and its completion.         *)

\* The source was found: its name and size are reported.
Prepare(w) ==
  LET r == workerRun[w] IN
  /\ r # NoRun
  /\ phase[r] = "working"
  /\ runKind[r] = "content"
  /\ r \notin prepared
  /\ prepared' = prepared \union {r}
  /\ transferUpdates' = Append(transferUpdates,
                               Update(runKey[r], "Transferring"))
  /\ UNCHANGED <<vars, recordVars, chatVars, stateUpdates, requests, ui, tcp,
                 runKind, wholeSent, userCancelled, boundVars>>

\* Connect, write the frames, close.  Success means that the content was
\* written to its end, but the last write may fail after that.
Stream(w) ==
  LET r == workerRun[w] IN
  /\ DoWork(w)
  /\ \E whole \in BOOLEAN :
       /\ whole => r \in prepared
       /\ (outcome'[r] = "Done" /\ runKind[r] = "content") => whole
       /\ wholeSent' = IF whole THEN wholeSent \union {runKey[r]}
                                ELSE wholeSent
  /\ UNCHANGED <<recordVars, chatVars, updateVars, requests, ui, tcp, runKind,
                 prepared, userCancelled, boundVars>>

\* Mutant of CompleteSend: a resume request that was sent counts as the file.
CompleteSendAll ==
  LET r == Head(callbacks) IN
  /\ RunCallback
  /\ \E state \in {"Completed", "Failed", "Interrupted"} :
       /\ state = "Completed" <=> outcome[r] = "Done"
       /\ stateUpdates' = Append(stateUpdates, Update(runKey[r], state))
  /\ UNCHANGED <<recordVars, chatVars, transferUpdates, requests, ui, tcp,
                 workVars, userCancelled, boundVars>>

\* Mutant of CompleteSend: only a success is reported.
CompleteSendOk ==
  LET r == Head(callbacks) IN
  /\ RunCallback
  /\ stateUpdates' = IF outcome[r] = "Done" /\ runKind[r] = "content"
       THEN Append(stateUpdates, Update(runKey[r], "Completed"))
       ELSE stateUpdates
  /\ UNCHANGED <<recordVars, chatVars, transferUpdates, requests, ui, tcp,
                 workVars, userCancelled, boundVars>>

\* The completion: a resume request that was sent says nothing; a failure is
\* Failed or Interrupted by its text (transferSendFailureState).
CompleteSend ==
  LET r == Head(callbacks) IN
  /\ RunCallback
  /\ IF outcome[r] = "Done" /\ runKind[r] = "resume"
       THEN UNCHANGED stateUpdates
       ELSE \E state \in {"Completed", "Failed", "Interrupted"} :
              /\ state = "Completed" <=> outcome[r] = "Done"
              /\ stateUpdates' = Append(stateUpdates, Update(runKey[r], state))
  /\ UNCHANGED <<recordVars, chatVars, transferUpdates, requests, ui, tcp,
                 workVars, userCancelled, boundVars>>

\* The steps by which the runtime carries a started task on.
TaskStep ==
  /\ \/ EnqueueWorker(Ui)
     \/ \E w \in Workers : TakeWork(w) \/ CheckToken(w) \/ SampleToken(w)
                           \/ FinishTask(w)
  /\ UNCHANGED sendVars

\* dispatchReady, between two refreshes
Dispatch == UiFree /\ DispatchReady /\ UNCHANGED sendVars

\* The process ends and is started again: the history remains.
Restart ==
  /\ restarts < MaxRestarts
  /\ restarts' = restarts + 1
  /\ ResetTasks
  /\ chatOpen' = FALSE
  /\ shown' = [t \in Keys |-> None]
  /\ chat' = [t \in Keys |-> IF chat[t] = "sending" THEN "done" ELSE chat[t]]
  /\ transferUpdates' = <<>>
  /\ stateUpdates' = <<>>
  /\ requests' = <<>>
  /\ ui' = UiIdle
  /\ tcp' = NoUpdate
  /\ prepared' = {}
  /\ UNCHANGED <<disk, reached, runKind, wholeSent, userCancelled, pushes,
                 answers>>

-----------------------------------------------------------------------------

RefreshStep ==
  \/ DrainTransferUpdates \/ ApplyTransferUpdate
  \/ DrainStateUpdates \/ ApplyStateUpdate \/ DrainRequests
  \/ SendRequest \/ SendRequestFails

SendNext ==
  \/ \E t \in Keys :
       \/ SendMessage(t) \/ ChatFrameOut(t) \/ ChatDone(t)
       \/ PushTransfer(t) \/ CancelTransfer(t)
       \/ ReceiveAccept(t) \/ ReceiveReject(t) \/ ReceiveCancel(t)
  \/ SwitchPeer
  \/ QueueCancel
  \/ RefreshStep
  \/ \E w \in Workers : Prepare(w) \/ Stream(w)
  \/ CompleteSend
  \/ TaskStep
  \/ Dispatch
  \/ Restart

\* Started work is carried on, a stream ends in success or failure (the peer
\* reads it or the connection breaks), and the UI loop runs on: a frame calls
\* dispatchReady and then refreshes, so no number of refreshes can keep a
\* queued completion from being dispatched.
SendFairness ==
  /\ WF_allVars(TaskStep)
  /\ SF_allVars(Dispatch)
  /\ WF_allVars(QueueCancel)
  /\ \A w \in Workers : WF_allVars(Stream(w))
  /\ WF_allVars(CompleteSend)
  /\ WF_allVars(RefreshStep)

SendSpec == SendInit /\ [][SendNext]_allVars
FairSendSpec == SendSpec /\ SendFairness

-----------------------------------------------------------------------------
(* Properties.                                                             *)

SendTypeOK ==
  /\ TypeOK
  /\ chatOpen \in BOOLEAN
  /\ shown \in [Keys -> States \union {None}]
  /\ disk \in [Keys -> States \union {None}]
  /\ chat \in [Keys -> {"new", "sending", "done"}]
  /\ reached \subseteq Keys
  /\ transferUpdates \in Seq(Updates)
  /\ stateUpdates \in Seq(Updates)
  /\ requests \in Seq(Requests)
  /\ ui \in [step : {"idle", "transfers", "states"}, batch : Seq(Updates)]
       \union [step : {"sending"}, batch : Seq(Requests)]
  /\ tcp \in Updates \union {NoUpdate}
  /\ runKind \in [Runs -> {"content", "resume"}]
  /\ prepared \subseteq Runs
  /\ wholeSent \subseteq Keys
  /\ userCancelled \subseteq Keys
  /\ pushes \in [Keys -> 0 .. MaxPushes]
  /\ answers \in [Keys -> 0 .. MaxAnswers]
  /\ restarts \in 0 .. MaxRestarts

\* A transfer is stored as Completed only when its content was written to its
\* end: not for a resume request, a superseded or a cancelled stream, or a
\* completion that was applied late.
CompletedWasSent ==
  \A t \in Keys : disk[t] = "Completed" => t \in wholeSent

\* Once the user has cancelled a transfer no stream of it is told to go on, and
\* none is started by a request or an answer that was queued before or comes
\* later, until the user pushes it again or its chat message, still being sent,
\* offers it anew.
CancelledIsNotSent ==
  \A t \in userCancelled : \A r \in Runs : Live(r) => runKey[r] # t

\* A Completed, Cancelled or Rejected that is stored and, if the message is
\* listed, shown is never taken back in the history, in whatever order requests,
\* answers and completions reach the UI thread.
FinalStateKept ==
  [][\A t \in Keys :
       (disk[t] \in FinalStates /\ shown[t] \in {None, disk[t]})
          => disk'[t] = disk[t]]_allVars

\* A stream that was started ends in the record: the message does not say
\* Transferring for good, unless the process ends first or another request is
\* made of the transfer.
StreamIsSettled ==
  \A t \in Keys, n \in 0 .. MaxRestarts :
    (/\ \E r \in Runs : runKey[r] = t /\ Live(r) /\ runKind[r] = "content"
     /\ restarts = n)
      ~> (disk[t] # "Transferring" \/ restarts > n)

\* docs/file-folder-transfer-design.md:90-92: after a rejection by the receiver
\* the message box shows it.  So a shown rejection is not replaced by Offered.
RejectionIsShown ==
  [][\A t \in Keys : shown[t] = "Rejected" => shown'[t] # "Offered"]_allVars

\* Workers are told apart by their names only.
WorkerSymmetry == Permutations(Workers)
=============================================================================
