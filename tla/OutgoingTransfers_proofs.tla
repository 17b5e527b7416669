------------------------ MODULE OutgoingTransfers_proofs ------------------------
(***************************************************************************)
(* Proofs about the sending of files: a transfer is stored as Completed only *)
(* if its content was written to its end, no stream of a transfer runs on    *)
(* after its user cancelled it, and a final state that is stored is kept;    *)
(* for any number of transfers, workers, requests, answers and restarts.     *)
(***************************************************************************)
EXTENDS OutgoingTransfers, AsyncTasks_proofs

-----------------------------------------------------------------------------
(* The runtime under the transfers.                                        *)

LEMMA BothAreThreads == Ui \in Threads /\ Tcp \in Threads
BY ThreadsAssumption

\* What every step that begins no task and does no work leaves: no run comes
\* alive, and none becomes one that returned well.
Carried ==
  /\ UNCHANGED <<runKey, stopping>>
  /\ \A r \in Runs : /\ Live(r)' => Live(r)
                     /\ ReturnedDone(r)' => ReturnedDone(r)

\* The steps of AsyncTasks of which this is so.
CarryingStep ==
  \/ \E c \in Threads, k \in Keys : Cancel(c, k)
  \/ EnqueueWorker(Ui)
  \/ \E w \in Workers :
       TakeWork(w) \/ CheckToken(w) \/ SampleToken(w) \/ FinishTask(w)
  \/ DispatchReady
  \/ RunCallback
  \/ UNCHANGED vars

LEMMA CarryingStepCarries ==
  ASSUME Inv, OrderInv, CarryingStep
  PROVE  Carried
<1>0. TypeOK
  BY DEF Inv
<1> USE DEF tableVars, runVars, queueVars
<1>1. ASSUME NEW c \in Threads, NEW k \in Keys, Cancel(c, k)
      PROVE  Carried
  BY <1>0, <1>1 DEF Cancel, Carried, Live, Unfinished, ReturnedDone
<1>2. CASE EnqueueWorker(Ui)
  <2>1. PICK r \in Runs : r = starting[Ui] /\ phase[r] = "begun"
    BY <1>0, <1>2, SomeRun, BothAreThreads
    DEF EnqueueWorker, Inv, TypeOK, QueuesMatchPhases
  <2>2. /\ phase'[r] \in {"over", "queued"}
        /\ \A s \in Runs \ {r} : phase'[s] = phase[s]
        /\ UNCHANGED <<raised, runKey, outcome, stopping>>
    BY <1>0, <1>2, <2>1 DEF EnqueueWorker, TypeOK
  <2> QED
    BY <2>1, <2>2
    DEF Carried, Live, Unfinished, UnfinishedPhases, ReturnedDone, ReturnedPhases
<1>3. ASSUME NEW w \in Workers, TakeWork(w)
      PROVE  Carried
  <2>1. /\ Head(workerQueue) = workerQueue[1] /\ 1 \in 1 .. Len(workerQueue)
        /\ workerQueue[1] \in Runs
    BY <1>0, <1>3, SeqTail, SeqElements DEF TakeWork, TypeOK
  <2>2. PICK r \in Runs : r = Head(workerQueue) /\ phase[r] = "queued"
    BY <2>1 DEF Inv, QueuesMatchPhases
  <2>3. /\ phase'[r] = "taken" /\ \A s \in Runs \ {r} : phase'[s] = phase[s]
        /\ UNCHANGED <<raised, runKey, outcome, stopping>>
    BY <1>0, <1>3, <2>2 DEF TakeWork, TypeOK
  <2> QED
    BY <2>2, <2>3
    DEF Carried, Live, Unfinished, UnfinishedPhases, ReturnedDone, ReturnedPhases
<1>4. ASSUME NEW w \in Workers, CheckToken(w) \/ SampleToken(w)
      PROVE  Carried
  <2>1. PICK r \in Runs : r = workerRun[w]
    BY <1>0, <1>4, SomeRun DEF CheckToken, SampleToken, TypeOK
  <2>2. /\ phase[r] \in {"taken", "returned"}
        /\ phase'[r] \in {"working", "settled"}
        /\ \A s \in Runs \ {r} : phase'[s] = phase[s] /\ outcome'[s] = outcome[s]
        /\ UNCHANGED <<raised, runKey, stopping>>
    BY <1>0, <1>4, <2>1 DEF CheckToken, SampleToken, TypeOK
  <2>3. ReturnedDone(r)' => ReturnedDone(r)
    BY <1>0, <1>4, <2>1
    DEF CheckToken, SampleToken, TypeOK, ReturnedDone, ReturnedPhases
  <2>4. Live(r)' => Live(r)
    BY <2>2 DEF Live, Unfinished, UnfinishedPhases
  <2>5. \A s \in Runs \ {r} : /\ Live(s)' => Live(s)
                              /\ ReturnedDone(s)' => ReturnedDone(s)
    BY <2>2 DEF Live, Unfinished, ReturnedDone
  <2> QED BY <2>2, <2>3, <2>4, <2>5 DEF Carried
<1>5. ASSUME NEW w \in Workers, FinishTask(w)
      PROVE  Carried
  <2>1. PICK r \in Runs : r = workerRun[w] /\ phase[r] = "settled"
    BY <1>0, <1>5, SomeRun DEF FinishTask, TypeOK
  <2>2. /\ phase'[r] \in {"ready", "over"}
        /\ \A s \in Runs \ {r} : phase'[s] = phase[s]
        /\ UNCHANGED <<raised, runKey, outcome, stopping>>
    BY <1>0, <1>5, <2>1 DEF FinishTask, TypeOK
  <2> QED
    BY <2>1, <2>2
    DEF Carried, Live, Unfinished, UnfinishedPhases, ReturnedDone, ReturnedPhases
<1>6. CASE DispatchReady
  BY <1>0, <1>6
  DEF DispatchReady, TypeOK, Carried, Live, Unfinished, UnfinishedPhases,
      ReturnedDone, ReturnedPhases
<1>7. CASE RunCallback
  <2>1. PICK r \in Runs : r = Head(callbacks) /\ phase[r] = "dispatching"
    BY <1>7, CallbackRun DEF RunCallback
  <2>2. /\ phase'[r] = "delivered" /\ \A s \in Runs \ {r} : phase'[s] = phase[s]
        /\ UNCHANGED <<raised, runKey, outcome, stopping>>
    BY <1>0, <1>7, <2>1 DEF RunCallback, TypeOK
  <2> QED
    BY <2>1, <2>2
    DEF Carried, Live, Unfinished, UnfinishedPhases, ReturnedDone, ReturnedPhases
<1>8. CASE UNCHANGED vars
  BY <1>8 DEF vars, Carried, Live, Unfinished, ReturnedDone
<1> QED
  BY <1>1, <1>2, <1>3, <1>4, <1>5, <1>6, <1>7, <1>8 DEF CarryingStep

\* A step of the transfers carries the tasks on, begins a task, does the work
\* of one, or ends the process.
LEMMA SendStepKinds ==
  ASSUME [SendNext]_allVars
  PROVE  \/ CarryingStep /\ UNCHANGED <<runKind, wholeSent>>
         \/ SendRequest
         \/ \E w \in Workers : Stream(w)
         \/ Restart
<1> USE DEF workVars
<1>1. ASSUME NEW t \in Keys,
             \/ SendMessage(t) \/ ChatFrameOut(t) \/ ChatDone(t)
             \/ PushTransfer(t) \/ ReceiveAccept(t) \/ ReceiveReject(t)
      PROVE  CarryingStep /\ UNCHANGED <<runKind, wholeSent>>
  BY <1>1
  DEF SendMessage, ChatFrameOut, ChatDone, PushTransfer, ReceiveAccept,
      ReceiveReject, Answer, CarryingStep
<1>2. ASSUME NEW t \in Keys, CancelTransfer(t) \/ ReceiveCancel(t)
      PROVE  CarryingStep /\ UNCHANGED <<runKind, wholeSent>>
  BY <1>2, BothAreThreads DEF CancelTransfer, ReceiveCancel, Answer, CarryingStep
<1>3. CASE SwitchPeer \/ QueueCancel \/ UNCHANGED allVars
  BY <1>3 DEF SwitchPeer, QueueCancel, allVars, sendVars, CarryingStep
<1>4. CASE \/ DrainTransferUpdates \/ ApplyTransferUpdate \/ DrainStateUpdates
           \/ ApplyStateUpdate \/ DrainRequests \/ SendRequestFails
  BY <1>4
  DEF DrainTransferUpdates, ApplyTransferUpdate, DrainStateUpdates,
      ApplyStateUpdate, DrainRequests, SendRequestFails, CarryingStep
<1>5. ASSUME NEW w \in Workers, Prepare(w)
      PROVE  CarryingStep /\ UNCHANGED <<runKind, wholeSent>>
  BY <1>5 DEF Prepare, CarryingStep
<1>6. CASE CompleteSend \/ TaskStep \/ Dispatch
  BY <1>6 DEF CompleteSend, TaskStep, Dispatch, sendVars, CarryingStep
<1> QED
  BY <1>1, <1>2, <1>3, <1>4, <1>5, <1>6 DEF SendNext, RefreshStep

-----------------------------------------------------------------------------
(* Types.                                                                  *)

\* What the UI thread has left to send is never empty.
SendingHasWork == ui.step = "sending" => ui.batch # <<>>

Typed == SendTypeOK /\ SendingHasWork

\* What the batch of the UI thread holds.
LEMMA BatchTypes ==
  ASSUME Typed
  PROVE  /\ ui.step \in {"transfers", "states"} => ui.batch \in Seq(Updates)
         /\ ui.step = "sending" => /\ ui.batch \in Seq(Requests) /\ ui.batch # <<>>
                                   /\ Head(ui.batch) \in Requests
                                   /\ Tail(ui.batch) \in Seq(Requests)
         /\ (ui.step \in {"transfers", "states"} /\ ui.batch # <<>>) =>
              Head(ui.batch) \in Updates /\ Tail(ui.batch) \in Seq(Updates)
<1>1. /\ ui.step \in {"transfers", "states"} => ui.batch \in Seq(Updates)
      /\ ui.step = "sending" => ui.batch \in Seq(Requests) /\ ui.batch # <<>>
  BY DEF Typed, SendTypeOK, SendingHasWork
<1>2. PICK b : b = ui.batch
  OBVIOUS
<1>3. b \in Seq(Updates) /\ b # <<>> => Head(b) \in Updates /\ Tail(b) \in Seq(Updates)
  OBVIOUS
<1>4. b \in Seq(Requests) /\ b # <<>> => Head(b) \in Requests /\ Tail(b) \in Seq(Requests)
  OBVIOUS
<1> QED
  BY <1>1, <1>2, <1>3, <1>4

\* An update is a transfer and a state.
LEMMA UpdateType ==
  ASSUME NEW t \in Keys, NEW state \in States
  PROVE  /\ Update(t, state) \in Updates
         /\ Update(t, state).t = t /\ Update(t, state).state = state
BY DEF Update, Updates

LEMMA StateNames ==
  /\ {"Pending", "Offered", "Transferring", "Completed", "Interrupted", "Failed",
      "Cancelled", "Rejected"} = States
  /\ None \notin States
BY DEF States, None

\* What is left to send, of a batch of requests.
LEMMA NextRequestsType ==
  ASSUME NEW batch \in Seq(Requests)
  PROVE  /\ NextRequests(batch) \in
              [step : {"idle", "transfers", "states"}, batch : Seq(Updates)]
                \union [step : {"sending"}, batch : Seq(Requests)]
         /\ NextRequests(batch).step = "sending" => NextRequests(batch).batch # <<>>
         /\ NextRequests(batch).step \in {"idle", "sending"}
<1>1. <<>> \in Seq(Updates)
  OBVIOUS
<1> QED
  BY <1>1 DEF NextRequests, UiIdle

\* A swap puts a whole queue in the hands of the UI thread.
LEMMA SwapType ==
  ASSUME NEW step \in {"transfers", "states"}, NEW q \in Seq(Updates),
         ui' = [step |-> step, batch |-> q]
  PROVE  /\ ui' \in
              [step : {"idle", "transfers", "states"}, batch : Seq(Updates)]
                \union [step : {"sending"}, batch : Seq(Requests)]
         /\ ui'.step = step /\ ui'.batch = q
OBVIOUS

\* The records stay records when an update is applied.
LEMMA ApplyType ==
  ASSUME Typed, NEW u \in Updates, Apply(u) \/ UNCHANGED <<shown, disk>>
  PROVE  /\ shown' \in [Keys -> States \union {None}]
         /\ disk' \in [Keys -> States \union {None}]
<1>1. u.t \in Keys /\ u.state \in States
  BY DEF Updates
<1> QED
  BY <1>1 DEF Typed, SendTypeOK, Apply, Replaced

LEMMA RecordType ==
  ASSUME Typed, NEW t \in Keys, NEW state \in States, Record(t, state)
  PROVE  /\ shown' \in [Keys -> States \union {None}]
         /\ disk' \in [Keys -> States \union {None}]
BY DEF Typed, SendTypeOK, Record, Replaced

\* A queue of updates that takes one more.
LEMMA QueueType ==
  ASSUME NEW q \in Seq(Updates), NEW u \in Updates
  PROVE  Append(q, u) \in Seq(Updates)
OBVIOUS

\* A request that is sent begins a task of its transfer and is recorded; one
\* that is not changes no record.
LEMMA SendRequestKinds ==
  ASSUME Typed, SendRequest
  PROVE  \E q \in Requests :
           /\ q = Head(ui.batch) /\ ui.step = "sending"
           /\ \/ /\ BeginTask(Ui, q.t, TRUE)
                 /\ (IF shown[q.t] # None THEN shown[q.t] ELSE disk[q.t]) \in SendableStates
                 /\ Record(q.t, "Transferring")
                 /\ runKind' = [runKind EXCEPT ![started + 1] = q.kind]
                 /\ UNCHANGED stateUpdates
              \/ /\ UNCHANGED <<vars, shown, disk, runKind>>
                 /\ \/ UNCHANGED stateUpdates
                    \/ stateUpdates' = Append(stateUpdates, Update(q.t, "Failed"))
<1>1. ui.step = "sending" /\ Head(ui.batch) \in Requests
  BY BatchTypes DEF SendRequest
<1>2. PICK q \in Requests : q = Head(ui.batch)
  BY <1>1
<1> QED
  BY <1>1, <1>2 DEF SendRequest

\* The invariants of the runtime hold across the steps of the transfers.
LEMMA SendTasksStep ==
  ASSUME Inv, OrderInv, Typed, [SendNext]_allVars
  PROVE  Inv' /\ OrderInv'
<1>1. CASE CarryingStep
  <2>1. [Next]_vars
    BY <1>1, BothAreThreads DEF CarryingStep, Next, WorkerStep
  <2> QED BY <2>1, InvStep, OrderStep
<1>2. CASE SendRequest
  <2>1. PICK q \in Requests : BeginTask(Ui, q.t, TRUE) \/ UNCHANGED vars
    BY <1>2, SendRequestKinds
  <2>2. q.t \in Keys
    BY DEF Requests
  <2>3. [Next]_vars
    BY <2>1, <2>2, BothAreThreads DEF Next
  <2> QED BY <2>3, InvStep, OrderStep
<1>3. ASSUME NEW w \in Workers, Stream(w)
      PROVE  Inv' /\ OrderInv'
  <2>1. [Next]_vars
    BY <1>3 DEF Stream, Next, WorkerStep
  <2> QED BY <2>1, InvStep, OrderStep
<1>4. CASE Restart
  BY <1>4, ResetTasksInv DEF Restart, Inv
<1> QED
  BY <1>1, <1>2, <1>3, <1>4, SendStepKinds

LEMMA TypedStep ==
  ASSUME Inv, OrderInv, Typed, [SendNext]_allVars
  PROVE  Typed'
<1>0. TypeOK /\ TypeOK'
  BY SendTasksStep DEF Inv
<1> USE DEF recordVars, chatVars, updateVars, workVars, boundVars
<1>1. ASSUME NEW t \in Keys,
             \/ SendMessage(t) \/ ChatFrameOut(t) \/ ChatDone(t)
      PROVE  Typed'
  <2>1. /\ shown' \in [Keys -> States \union {None}]
        /\ disk' \in [Keys -> States \union {None}]
    <3>1. CASE SendMessage(t) \/ ChatFrameOut(t)
      BY <3>1, StateNames DEF SendMessage, ChatFrameOut, Typed, SendTypeOK
    <3>2. CASE ChatDone(t)
      <4>1. PICK state \in {"Offered", "Failed"} :
              /\ disk' = IF disk[t] = None THEN [disk EXCEPT ![t] = state] ELSE disk
              /\ shown' = Replaced(shown, t, state)
        BY <3>2 DEF ChatDone
      <4>2. state \in States
        BY StateNames
      <4> QED BY <4>1, <4>2 DEF Replaced, Typed, SendTypeOK
    <3> QED BY <1>1, <3>1, <3>2
  <2>2. /\ chat' \in [Keys -> {"new", "sending", "done"}]
        /\ reached' \subseteq Keys /\ userCancelled' \subseteq Keys
    BY <1>1 DEF SendMessage, ChatFrameOut, ChatDone, Typed, SendTypeOK
  <2>3. UNCHANGED <<chatOpen, updateVars, requests, ui, tcp, workVars, boundVars>>
    BY <1>1 DEF SendMessage, ChatFrameOut, ChatDone
  <2> QED BY <1>0, <2>1, <2>2, <2>3 DEF Typed, SendTypeOK, SendingHasWork
<1>2. ASSUME NEW t \in Keys, PushTransfer(t)
      PROVE  Typed'
  <2>1. PICK kind \in {"content", "resume"} :
          requests' = Append(requests, [t |-> t, kind |-> kind])
    BY <1>2 DEF PushTransfer
  <2>2. requests' \in Seq(Requests)
    BY <2>1 DEF Typed, SendTypeOK, Requests
  <2>3. pushes' \in [Keys -> 0 .. MaxPushes]
    <3>1. pushes[t] \in 0 .. MaxPushes /\ pushes[t] < MaxPushes
      BY <1>2 DEF PushTransfer, Typed, SendTypeOK
    <3>2. pushes[t] + 1 \in 0 .. MaxPushes
      BY <3>1, RunsSuffice
    <3> QED BY <1>2, <3>2 DEF PushTransfer, Typed, SendTypeOK
  <2> QED BY <1>0, <1>2, <2>2, <2>3 DEF PushTransfer, Typed, SendTypeOK, SendingHasWork
<1>3. ASSUME NEW t \in Keys, CancelTransfer(t)
      PROVE  Typed'
  <2>1. /\ shown' \in [Keys -> States \union {None}]
        /\ disk' \in [Keys -> States \union {None}]
    BY <1>3, RecordType, StateNames DEF CancelTransfer
  <2> QED BY <1>0, <1>3, <2>1 DEF CancelTransfer, Typed, SendTypeOK, SendingHasWork
<1>4. CASE SwitchPeer
  <2>1. /\ shown' \in [Keys -> States \union {None}]
        /\ disk' \in [Keys -> States \union {None}]
    BY <1>4, StateNames DEF SwitchPeer, Typed, SendTypeOK
  <2> QED BY <1>0, <1>4, <2>1 DEF SwitchPeer, Typed, SendTypeOK, SendingHasWork
<1>5. ASSUME NEW t \in Keys, ReceiveAccept(t) \/ ReceiveReject(t) \/ ReceiveCancel(t)
      PROVE  Typed'
  <2>1. Answer(t)
    BY <1>5 DEF ReceiveAccept, ReceiveReject, ReceiveCancel
  <2>2. answers' \in [Keys -> 0 .. MaxAnswers]
    <3>1. answers[t] \in 0 .. MaxAnswers /\ answers[t] < MaxAnswers
      BY <2>1 DEF Answer, Typed, SendTypeOK
    <3>2. answers[t] + 1 \in 0 .. MaxAnswers
      BY <3>1, RunsSuffice
    <3> QED BY <2>1, <3>2 DEF Answer, Typed, SendTypeOK
  <2>3. requests' \in Seq(Requests)
    <3>1. [t |-> t, kind |-> "content"] \in Requests
      BY DEF Requests
    <3>2. CASE ReceiveAccept(t)
      BY <3>1, <3>2 DEF ReceiveAccept, Typed, SendTypeOK
    <3>3. CASE ReceiveReject(t) \/ ReceiveCancel(t)
      BY <3>3 DEF ReceiveReject, ReceiveCancel, Typed, SendTypeOK
    <3> QED BY <1>5, <3>2, <3>3
  <2>4. stateUpdates' \in Seq(Updates)
    <3>1. CASE ReceiveReject(t)
      BY <3>1, UpdateType, QueueType, StateNames DEF ReceiveReject, Typed, SendTypeOK
    <3>2. CASE ReceiveAccept(t) \/ ReceiveCancel(t)
      BY <3>2 DEF ReceiveAccept, ReceiveCancel, Typed, SendTypeOK
    <3> QED BY <1>5, <3>1, <3>2
  <2>5. tcp' \in Updates \union {NoUpdate}
    <3>1. CASE ReceiveCancel(t)
      <4>1. PICK state \in Reasons : tcp' = Update(t, state)
        BY <3>1 DEF ReceiveCancel
      <4>2. state \in States
        BY ReasonsAssumption, StateNames
      <4> QED BY <4>1, <4>2, UpdateType
    <3>2. CASE ReceiveAccept(t) \/ ReceiveReject(t)
      BY <3>2 DEF ReceiveAccept, ReceiveReject, Typed, SendTypeOK
    <3> QED BY <1>5, <3>1, <3>2
  <2> QED
    BY <1>0, <2>1, <2>2, <2>3, <2>4, <2>5 DEF Answer, Typed, SendTypeOK, SendingHasWork
<1>6. CASE QueueCancel
  <2>1. stateUpdates' \in Seq(Updates)
    <3>1. tcp \in Updates
      BY <1>6 DEF QueueCancel, Typed, SendTypeOK
    <3> QED BY <1>6, <3>1, QueueType DEF QueueCancel, Typed, SendTypeOK
  <2> QED BY <1>0, <1>6, <2>1 DEF QueueCancel, Typed, SendTypeOK, SendingHasWork
<1>7. CASE DrainTransferUpdates \/ DrainStateUpdates
  <2>1. /\ ui' \in [step : {"idle", "transfers", "states"}, batch : Seq(Updates)]
                     \union [step : {"sending"}, batch : Seq(Requests)]
        /\ ui'.step # "sending"
    <3>1. transferUpdates \in Seq(Updates) /\ stateUpdates \in Seq(Updates)
      BY DEF Typed, SendTypeOK
    <3> QED BY <1>7, <3>1, SwapType DEF DrainTransferUpdates, DrainStateUpdates
  <2>2. transferUpdates' \in Seq(Updates) /\ stateUpdates' \in Seq(Updates)
    <3>1. <<>> \in Seq(Updates)
      OBVIOUS
    <3> QED BY <1>7, <3>1 DEF DrainTransferUpdates, DrainStateUpdates, Typed, SendTypeOK
  <2> QED
    BY <1>0, <1>7, <2>1, <2>2
    DEF DrainTransferUpdates, DrainStateUpdates, Typed, SendTypeOK, SendingHasWork
<1>8. CASE ApplyTransferUpdate \/ ApplyStateUpdate
  <2>1. PICK u \in Updates : u = Head(ui.batch)
    BY <1>8, BatchTypes DEF ApplyTransferUpdate, ApplyStateUpdate
  <2>2. /\ shown' \in [Keys -> States \union {None}]
        /\ disk' \in [Keys -> States \union {None}]
    BY <1>8, <2>1, ApplyType DEF ApplyTransferUpdate, ApplyStateUpdate
  <2>3. transferUpdates' \in Seq(Updates) /\ stateUpdates' \in Seq(Updates)
    BY <1>8, <2>1, QueueType DEF ApplyTransferUpdate, ApplyStateUpdate, Typed, SendTypeOK
  <2>4. /\ ui' \in [step : {"idle", "transfers", "states"}, batch : Seq(Updates)]
                     \union [step : {"sending"}, batch : Seq(Requests)]
        /\ ui'.step # "sending"
    <3>1. /\ ui.step \in {"transfers", "states"} /\ ui' = [ui EXCEPT !.batch = Tail(@)]
          /\ Tail(ui.batch) \in Seq(Updates)
      BY <1>8, BatchTypes DEF ApplyTransferUpdate, ApplyStateUpdate
    <3> QED BY <3>1 DEF Typed, SendTypeOK
  <2> QED
    BY <1>0, <1>8, <2>2, <2>3, <2>4
    DEF ApplyTransferUpdate, ApplyStateUpdate, Typed, SendTypeOK, SendingHasWork
<1>9. CASE DrainRequests
  <2>1. requests \in Seq(Requests) /\ <<>> \in Seq(Requests)
    BY DEF Typed, SendTypeOK
  <2> QED
    BY <1>0, <1>9, <2>1, NextRequestsType DEF DrainRequests, Typed, SendTypeOK, SendingHasWork
<1>10. CASE SendRequest
  <2>1. PICK q \in Requests :
          /\ q = Head(ui.batch) /\ ui.step = "sending"
          /\ \/ /\ BeginTask(Ui, q.t, TRUE)
                /\ Record(q.t, "Transferring")
                /\ runKind' = [runKind EXCEPT ![started + 1] = q.kind]
                /\ UNCHANGED stateUpdates
             \/ /\ UNCHANGED <<vars, shown, disk, runKind>>
                /\ \/ UNCHANGED stateUpdates
                   \/ stateUpdates' = Append(stateUpdates, Update(q.t, "Failed"))
    BY <1>10, SendRequestKinds
  <2>2. q.t \in Keys /\ q.kind \in {"content", "resume"}
    BY DEF Requests
  <2>3. /\ shown' \in [Keys -> States \union {None}]
        /\ disk' \in [Keys -> States \union {None}]
    <3>1. CASE Record(q.t, "Transferring")
      BY <2>2, <3>1, RecordType, StateNames
    <3>2. CASE UNCHANGED <<shown, disk>>
      BY <3>2 DEF Typed, SendTypeOK
    <3> QED BY <2>1, <3>1, <3>2
  <2>4. runKind' \in [Runs -> {"content", "resume"}]
    BY <2>1, <2>2 DEF BeginTask, Typed, SendTypeOK
  <2>5. stateUpdates' \in Seq(Updates)
    <3>1. stateUpdates \in Seq(Updates) /\ Update(q.t, "Failed") \in Updates
      BY <2>2, UpdateType, StateNames DEF Typed, SendTypeOK
    <3>2. \/ stateUpdates' = stateUpdates
          \/ stateUpdates' = Append(stateUpdates, Update(q.t, "Failed"))
      BY <2>1
    <3> QED BY <3>1, <3>2, QueueType
  <2>6. ui' = NextRequests(Tail(ui.batch)) /\ Tail(ui.batch) \in Seq(Requests)
    BY <1>10, BatchTypes DEF SendRequest
  <2> QED
    BY <1>0, <1>10, <2>3, <2>4, <2>5, <2>6, NextRequestsType
    DEF SendRequest, Typed, SendTypeOK, SendingHasWork
<1>11. CASE SendRequestFails
  <2>1. PICK q \in Requests : q = Head(ui.batch)
    BY <1>11, BatchTypes DEF SendRequestFails
  <2>2. q.t \in Keys
    BY DEF Requests
  <2>3. stateUpdates' \in Seq(Updates)
    BY <1>11, <2>1, <2>2, UpdateType, QueueType, StateNames
    DEF SendRequestFails, Typed, SendTypeOK
  <2>4. ui' = NextRequests(Tail(ui.batch)) /\ Tail(ui.batch) \in Seq(Requests)
    BY <1>11, BatchTypes DEF SendRequestFails
  <2> QED
    BY <1>0, <1>11, <2>3, <2>4, NextRequestsType
    DEF SendRequestFails, Typed, SendTypeOK, SendingHasWork
<1>12. ASSUME NEW w \in Workers, Prepare(w) \/ Stream(w)
      PROVE  Typed'
  <2>1. PICK r \in Runs : r = workerRun[w]
    BY <1>0, <1>12, SomeRun DEF Prepare, Stream, DoWork, TypeOK
  <2>2. runKey[r] \in Keys
    BY <1>0 DEF TypeOK
  <2>3. CASE Prepare(w)
    <3>1. transferUpdates' \in Seq(Updates)
      BY <2>1, <2>2, <2>3, UpdateType, QueueType, StateNames DEF Prepare, Typed, SendTypeOK
    <3> QED BY <1>0, <2>1, <2>3, <3>1 DEF Prepare, Typed, SendTypeOK, SendingHasWork
  <2>4. CASE Stream(w)
    <3>1. wholeSent' \subseteq Keys
      BY <2>1, <2>2, <2>4 DEF Stream, Typed, SendTypeOK
    <3> QED BY <1>0, <2>4, <3>1 DEF Stream, Typed, SendTypeOK, SendingHasWork
  <2> QED BY <1>12, <2>3, <2>4
<1>13. CASE CompleteSend
  <2>1. PICK r \in Runs : r = Head(callbacks)
    BY <1>13, CallbackRun DEF CompleteSend, RunCallback
  <2>2. runKey[r] \in Keys
    BY <1>0 DEF TypeOK
  <2>3. stateUpdates' \in Seq(Updates)
    <3>1. CASE UNCHANGED stateUpdates
      BY <3>1 DEF Typed, SendTypeOK
    <3>2. CASE \E state \in {"Completed", "Failed", "Interrupted"} :
                 stateUpdates' = Append(stateUpdates, Update(runKey[r], state))
      BY <2>2, <3>2, UpdateType, QueueType, StateNames DEF Typed, SendTypeOK
    <3> QED BY <1>13, <2>1, <3>1, <3>2 DEF CompleteSend
  <2> QED BY <1>0, <1>13, <2>3 DEF CompleteSend, Typed, SendTypeOK, SendingHasWork
<1>14. CASE TaskStep \/ Dispatch \/ UNCHANGED allVars
  BY <1>0, <1>14 DEF TaskStep, Dispatch, allVars, sendVars, Typed, SendTypeOK, SendingHasWork
<1>15. CASE Restart
  <2>1. restarts' \in 0 .. MaxRestarts
    BY <1>15, RunsSuffice DEF Restart, Typed, SendTypeOK
  <2>2. shown' \in [Keys -> States \union {None}]
    BY <1>15 DEF Restart
  <2>3. chat' \in [Keys -> {"new", "sending", "done"}]
    BY <1>15 DEF Restart, Typed, SendTypeOK
  <2>4. <<>> \in Seq(Updates) /\ <<>> \in Seq(Requests)
    OBVIOUS
  <2>5. /\ ui' \in [step : {"idle", "transfers", "states"}, batch : Seq(Updates)]
                     \union [step : {"sending"}, batch : Seq(Requests)]
        /\ ui'.step # "sending"
    BY <1>15, <2>4 DEF Restart, UiIdle
  <2> QED
    BY <1>0, <1>15, <2>1, <2>2, <2>3, <2>4, <2>5
    DEF Restart, Typed, SendTypeOK, SendingHasWork
<1> QED
  BY <1>1, <1>2, <1>3, <1>4, <1>5, <1>6, <1>7, <1>8, <1>9, <1>10, <1>11, <1>12,
     <1>13, <1>14, <1>15
  DEF SendNext, RefreshStep

LEMMA SendInitTypes == SendInit => Inv /\ OrderInv /\ Typed
<1> SUFFICES ASSUME SendInit PROVE Inv /\ OrderInv /\ Typed
  OBVIOUS
<1>1. Inv /\ OrderInv
  BY InvInit, OrderInit DEF SendInit
<1>2. /\ <<>> \in Seq(Updates) /\ <<>> \in Seq(Requests)
      /\ UiIdle \in [step : {"idle", "transfers", "states"}, batch : Seq(Updates)]
      /\ UiIdle.step # "sending"
  BY DEF UiIdle
<1>3. Typed
  BY <1>1, <1>2, RunsSuffice DEF SendInit, Typed, SendTypeOK, SendingHasWork, Inv
<1> QED
  BY <1>1, <1>3

\* The sending side and the runtime under it stay well typed, for any number of
\* transfers, workers, pushes, answers and restarts.
THEOREM SendTypesHold == SendSpec => []SendTypeOK
<1>1. /\ Inv /\ OrderInv /\ Typed /\ [SendNext]_allVars => (Inv /\ OrderInv /\ Typed)'
      /\ Typed => SendTypeOK
  BY SendTasksStep, TypedStep DEF Typed
<1> QED
  BY SendInitTypes, <1>1, PTL DEF SendSpec
-----------------------------------------------------------------------------
(* Completed.                                                              *)

\* Nothing says Completed of a transfer whose content was not written out.
SaidOf(t, state) == state = "Completed" => t \in wholeSent
AllSaid(q) == \A i \in 1 .. Len(q) : SaidOf(q[i].t, q[i].state)

RecordsWereSent == \A t \in Keys : SaidOf(t, disk[t]) /\ SaidOf(t, shown[t])

\* Nor do the updates on their way: those of the two queues, those in the hands
\* of the UI thread and the one in the hands of the TCP thread.
UpdatesWereSent ==
  /\ AllSaid(transferUpdates)
  /\ AllSaid(stateUpdates)
  /\ ui.step \in {"transfers", "states"} => AllSaid(ui.batch)
  /\ SaidOf(tcp.t, tcp.state)

\* A stream of content that returned well wrote the whole of it.
StreamsWereWhole ==
  \A r \in Runs :
    (ReturnedDone(r) /\ runKind[r] = "content") => runKey[r] \in wholeSent

SentInv == RecordsWereSent /\ UpdatesWereSent /\ StreamsWereWhole

LEMMA SaidOfAppended ==
  ASSUME NEW q \in Seq(Updates), NEW t \in Keys, NEW state \in States,
         AllSaid(q), SaidOf(t, state)
  PROVE  AllSaid(Append(q, Update(t, state)))
<1>1. PICK u \in Updates : u = Update(t, state) /\ u.t = t /\ u.state = state
  BY UpdateType
<1>2. /\ Len(Append(q, u)) = Len(q) + 1 /\ Len(q) \in Nat
      /\ \A i \in 1 .. Len(q) : Append(q, u)[i] = q[i]
      /\ Append(q, u)[Len(q) + 1] = u
  OBVIOUS
<1> QED
  BY <1>1, <1>2 DEF AllSaid

LEMMA SaidOfTail ==
  ASSUME NEW q \in Seq(Updates), q # <<>>, AllSaid(q)
  PROVE  /\ SaidOf(Head(q).t, Head(q).state)
         /\ AllSaid(Tail(q))
<1>1. /\ Head(q) = q[1] /\ 1 \in 1 .. Len(q) /\ Len(q) \in Nat
      /\ Len(Tail(q)) = Len(q) - 1
      /\ \A i \in 1 .. Len(q) - 1 : Tail(q)[i] = q[i + 1]
  BY SeqTail, SeqElements
<1>2. \A i \in 1 .. Len(q) - 1 : i + 1 \in 1 .. Len(q)
  BY <1>1
<1> QED
  BY <1>1, <1>2 DEF AllSaid

\* A stream that returned well wrote its content; what was written stays so.
LEMMA StreamsStep ==
  ASSUME Inv, OrderInv, Typed, StreamsWereWhole, [SendNext]_allVars
  PROVE  StreamsWereWhole' /\ wholeSent \subseteq wholeSent'
<1>0. TypeOK
  BY DEF Inv
<1>1. CASE CarryingStep /\ UNCHANGED <<runKind, wholeSent>>
  BY <1>1, CarryingStepCarries DEF Carried, StreamsWereWhole
<1>2. CASE SendRequest
  <2>0. UNCHANGED wholeSent
    BY <1>2 DEF SendRequest
  <2>1. PICK q \in Requests :
          \/ /\ BeginTask(Ui, q.t, TRUE)
             /\ runKind' = [runKind EXCEPT ![started + 1] = q.kind]
          \/ UNCHANGED <<vars, runKind>>
    BY <1>2, SendRequestKinds
  <2>2. CASE UNCHANGED <<vars, runKind>>
    BY <2>0, <2>2 DEF vars, StreamsWereWhole, ReturnedDone
  <2>3. CASE BeginTask(Ui, q.t, TRUE) /\ runKind' = [runKind EXCEPT ![started + 1] = q.kind]
    <3>1. PICK new \in Runs : new = started + 1
      BY <2>3 DEF BeginTask
    <3>2. /\ phase'[new] = "begun" /\ UNCHANGED outcome
          /\ \A r \in Runs \ {new} : /\ phase'[r] = phase[r] /\ runKey'[r] = runKey[r]
                                     /\ runKind'[r] = runKind[r]
      BY <1>0, <2>3, <3>1 DEF BeginTask, TypeOK, Typed, SendTypeOK
    <3> QED BY <2>0, <3>2 DEF StreamsWereWhole, ReturnedDone, ReturnedPhases
  <2> QED BY <2>1, <2>2, <2>3
<1>3. ASSUME NEW w \in Workers, Stream(w)
      PROVE  StreamsWereWhole' /\ wholeSent \subseteq wholeSent'
  <2>1. PICK r \in Runs : r = workerRun[w]
    BY <1>0, <1>3, SomeRun DEF Stream, DoWork, TypeOK
  <2>2. /\ UNCHANGED <<runKey, runKind>>
        /\ \A s \in Runs \ {r} : phase'[s] = phase[s] /\ outcome'[s] = outcome[s]
    BY <1>0, <1>3, <2>1 DEF Stream, DoWork, TypeOK, runVars
  <2>3. /\ wholeSent \subseteq wholeSent'
        /\ (outcome'[r] = "Done" /\ runKind[r] = "content") => runKey[r] \in wholeSent'
    BY <1>3, <2>1 DEF Stream
  <2> QED BY <2>2, <2>3 DEF StreamsWereWhole, ReturnedDone
<1>4. CASE Restart
  BY <1>4 DEF Restart, ResetTasks, StreamsWereWhole, ReturnedDone, ReturnedPhases
<1> QED
  BY <1>1, <1>2, <1>3, <1>4, SendStepKinds

\* A record becomes Completed by an update only.
LEMMA RecordsSentStep ==
  ASSUME Inv, OrderInv, Typed, SentInv, [SendNext]_allVars, wholeSent \subseteq wholeSent'
  PROVE  RecordsWereSent'
<1>1. \A t \in Keys : /\ disk[t] = "Completed" => t \in wholeSent'
                      /\ shown[t] = "Completed" => t \in wholeSent'
  BY DEF SentInv, RecordsWereSent, SaidOf
<1>2. None # "Completed"
  BY DEF None
<1>3. SUFFICES ASSUME NEW t \in Keys
               PROVE  /\ disk'[t] = "Completed" => t \in wholeSent'
                      /\ shown'[t] = "Completed" => t \in wholeSent'
  BY DEF RecordsWereSent, SaidOf
<1>4. ASSUME UNCHANGED <<shown, disk>>
      PROVE  /\ disk'[t] = "Completed" => t \in wholeSent'
             /\ shown'[t] = "Completed" => t \in wholeSent'
  BY <1>1, <1>4
<1> USE DEF recordVars
<1>5. ASSUME NEW k \in Keys, NEW state \in States \ {"Completed"}, Record(k, state)
      PROVE  /\ disk'[t] = "Completed" => t \in wholeSent'
             /\ shown'[t] = "Completed" => t \in wholeSent'
  BY <1>1, <1>5 DEF Record, Replaced, Typed, SendTypeOK
<1>6. ASSUME NEW k \in Keys, SendMessage(k) \/ ChatFrameOut(k) \/ ChatDone(k)
      PROVE  /\ disk'[t] = "Completed" => t \in wholeSent'
             /\ shown'[t] = "Completed" => t \in wholeSent'
  <2>1. CASE SendMessage(k)
    BY <1>1, <2>1 DEF SendMessage, Typed, SendTypeOK
  <2>2. CASE ChatFrameOut(k)
    BY <1>4, <2>2 DEF ChatFrameOut
  <2>3. CASE ChatDone(k)
    <3>1. PICK state \in {"Offered", "Failed"} :
            /\ disk' = IF disk[k] = None THEN [disk EXCEPT ![k] = state] ELSE disk
            /\ shown' = Replaced(shown, k, state)
      BY <2>3 DEF ChatDone
    <3> QED BY <1>1, <3>1 DEF Replaced, Typed, SendTypeOK
  <2> QED BY <1>6, <2>1, <2>2, <2>3
<1>7. ASSUME NEW k \in Keys,
             \/ PushTransfer(k) \/ ReceiveAccept(k) \/ ReceiveReject(k) \/ ReceiveCancel(k)
      PROVE  UNCHANGED <<shown, disk>>
  BY <1>7 DEF PushTransfer, ReceiveAccept, ReceiveReject, ReceiveCancel, Answer
<1>8. ASSUME NEW k \in Keys, CancelTransfer(k)
      PROVE  /\ disk'[t] = "Completed" => t \in wholeSent'
             /\ shown'[t] = "Completed" => t \in wholeSent'
  BY <1>5, <1>8, StateNames DEF CancelTransfer
<1>9. CASE SwitchPeer
  <2>1. \/ shown' = [k \in Keys |-> None] /\ UNCHANGED disk
        \/ /\ disk' = [k \in Keys |->
                        IF disk[k] = "Transferring" /\ status[k] # "Running"
                          THEN "Interrupted" ELSE disk[k]]
           /\ shown' = disk'
    BY <1>9 DEF SwitchPeer
  <2> QED BY <1>1, <1>2, <2>1
<1>10. CASE ApplyTransferUpdate \/ ApplyStateUpdate
  <2>1. PICK u \in Updates : u = Head(ui.batch) /\ u.t \in Keys /\ SaidOf(u.t, u.state)
    <3>1. /\ ui.step \in {"transfers", "states"} /\ ui.batch # <<>>
          /\ ui.batch \in Seq(Updates)
      BY <1>10, BatchTypes DEF ApplyTransferUpdate, ApplyStateUpdate
    <3>2. PICK b \in Seq(Updates) : b = ui.batch /\ b # <<>> /\ AllSaid(b)
      BY <3>1 DEF SentInv, UpdatesWereSent
    <3>3. Head(b) \in Updates /\ SaidOf(Head(b).t, Head(b).state)
      BY <3>2, SaidOfTail
    <3> QED BY <3>2, <3>3 DEF Updates
  <2>2. Apply(u) \/ UNCHANGED <<shown, disk>>
    BY <1>10, <2>1 DEF ApplyTransferUpdate, ApplyStateUpdate
  <2>3. u.state = "Completed" => u.t \in wholeSent'
    BY <2>1 DEF SaidOf
  <2> QED BY <1>1, <2>1, <2>2, <2>3 DEF Apply, Replaced, Typed, SendTypeOK
<1>11. CASE SendRequest
  <2>1. PICK q \in Requests : Record(q.t, "Transferring") \/ UNCHANGED <<shown, disk>>
    BY <1>11, SendRequestKinds
  <2>2. q.t \in Keys
    BY DEF Requests
  <2> QED BY <1>4, <1>5, <2>1, <2>2, StateNames
<1>12. ASSUME \/ QueueCancel \/ DrainTransferUpdates \/ DrainStateUpdates
              \/ DrainRequests \/ SendRequestFails \/ CompleteSend \/ TaskStep \/ Dispatch
              \/ \E w \in Workers : Prepare(w) \/ Stream(w)
              \/ UNCHANGED allVars
       PROVE  UNCHANGED <<shown, disk>>
  BY <1>12
  DEF QueueCancel, DrainTransferUpdates, DrainStateUpdates, DrainRequests,
      SendRequestFails, CompleteSend, TaskStep, Dispatch, Prepare, Stream, allVars, sendVars
<1>13. CASE Restart
  BY <1>1, <1>2, <1>13 DEF Restart
<1> QED
  BY <1>4, <1>6, <1>7, <1>8, <1>9, <1>10, <1>11, <1>12, <1>13 DEF SendNext, RefreshStep
\* Updates are made by the completions and by the steps that know better than to
\* say Completed; the others only hand them on.
LEMMA UpdatesSentStep ==
  ASSUME Inv, OrderInv, Typed, SentInv, [SendNext]_allVars, wholeSent \subseteq wholeSent'
  PROVE  UpdatesWereSent'
<1>0. /\ TypeOK
      /\ transferUpdates \in Seq(Updates) /\ stateUpdates \in Seq(Updates)
      /\ AllSaid(transferUpdates) /\ AllSaid(stateUpdates)
      /\ ui.step \in {"transfers", "states"} => AllSaid(ui.batch)
      /\ SaidOf(tcp.t, tcp.state)
  BY DEF Inv, Typed, SendTypeOK, SentInv, UpdatesWereSent
<1> USE DEF updateVars
\* A queue, a batch and an update that a step leaves alone.
<1>1. /\ UNCHANGED transferUpdates => AllSaid(transferUpdates)'
      /\ UNCHANGED stateUpdates => AllSaid(stateUpdates)'
      /\ UNCHANGED ui => (ui.step \in {"transfers", "states"} => AllSaid(ui.batch))'
      /\ UNCHANGED tcp => SaidOf(tcp.t, tcp.state)'
  BY <1>0 DEF AllSaid, SaidOf
\* A queue that takes one more update.
<1>2. ASSUME NEW t \in Keys, NEW state \in States, state = "Completed" => t \in wholeSent
      PROVE  /\ transferUpdates' = Append(transferUpdates, Update(t, state))
                  => AllSaid(transferUpdates)'
             /\ stateUpdates' = Append(stateUpdates, Update(t, state))
                  => AllSaid(stateUpdates)'
  <2>1. SaidOf(t, state)
    BY <1>2 DEF SaidOf
  <2>2. /\ AllSaid(Append(transferUpdates, Update(t, state)))
        /\ AllSaid(Append(stateUpdates, Update(t, state)))
    BY <1>0, <2>1, SaidOfAppended
  <2> QED BY <2>2 DEF AllSaid, SaidOf
<1>3. ASSUME NEW t \in Keys,
             SendMessage(t) \/ ChatFrameOut(t) \/ ChatDone(t) \/ PushTransfer(t)
               \/ CancelTransfer(t) \/ ReceiveAccept(t)
      PROVE  UpdatesWereSent'
  <2>1. UNCHANGED <<transferUpdates, stateUpdates, ui, tcp>>
    BY <1>3
    DEF SendMessage, ChatFrameOut, ChatDone, PushTransfer, CancelTransfer, ReceiveAccept,
        Answer
  <2> QED BY <1>1, <2>1 DEF UpdatesWereSent
<1>4. ASSUME NEW t \in Keys, ReceiveReject(t)
      PROVE  UpdatesWereSent'
  <2>1. /\ UNCHANGED <<transferUpdates, ui, tcp>>
        /\ stateUpdates' = Append(stateUpdates, Update(t, "Rejected"))
    BY <1>4 DEF ReceiveReject, Answer
  <2> QED BY <1>1, <1>2, <2>1, StateNames DEF UpdatesWereSent
<1>5. ASSUME NEW t \in Keys, ReceiveCancel(t)
      PROVE  UpdatesWereSent'
  <2>1. /\ UNCHANGED <<transferUpdates, stateUpdates, ui>>
        /\ \E state \in Reasons : tcp' = Update(t, state)
    BY <1>5 DEF ReceiveCancel, Answer
  <2>2. SaidOf(tcp.t, tcp.state)'
    BY <2>1, ReasonsAssumption DEF SaidOf, Update
  <2> QED BY <1>1, <2>1, <2>2 DEF UpdatesWereSent
<1>6. CASE QueueCancel
  <2>1. /\ tcp \in Updates /\ UNCHANGED <<transferUpdates, ui, wholeSent>>
        /\ stateUpdates' = Append(stateUpdates, tcp) /\ tcp' = NoUpdate
    BY <1>6 DEF QueueCancel, Typed, SendTypeOK, workVars
  <2>2. PICK t \in Keys, state \in States : tcp = Update(t, state)
    BY <2>1 DEF Updates, Update
  <2>3. state = "Completed" => t \in wholeSent
    BY <1>0, <2>2 DEF SaidOf, Update
  <2>4. SaidOf(tcp.t, tcp.state)'
    BY <2>1 DEF SaidOf, NoUpdate, None
  <2> QED BY <1>1, <1>2, <2>1, <2>2, <2>3, <2>4 DEF UpdatesWereSent
<1>7. CASE DrainTransferUpdates \/ DrainStateUpdates
  <2>0. \/ /\ ui' = [step |-> "transfers", batch |-> transferUpdates]
           /\ transferUpdates' = <<>> /\ UNCHANGED <<stateUpdates, tcp>>
        \/ /\ ui' = [step |-> "states", batch |-> stateUpdates]
           /\ stateUpdates' = <<>> /\ UNCHANGED <<transferUpdates, tcp>>
    BY <1>7 DEF DrainTransferUpdates, DrainStateUpdates
  <2>1. AllSaid(ui.batch)'
    <3>1. ui'.batch \in {transferUpdates, stateUpdates}
      BY <2>0
    <3> QED BY <1>0, <3>1 DEF AllSaid, SaidOf
  <2>2. AllSaid(transferUpdates)' /\ AllSaid(stateUpdates)'
    <3>1. transferUpdates' = <<>> => AllSaid(transferUpdates)'
      BY DEF AllSaid
    <3>2. stateUpdates' = <<>> => AllSaid(stateUpdates)'
      BY DEF AllSaid
    <3> QED BY <1>1, <2>0, <3>1, <3>2
  <2> QED BY <1>1, <2>0, <2>1, <2>2 DEF UpdatesWereSent
<1>8. CASE ApplyTransferUpdate \/ ApplyStateUpdate
  <2>1. /\ ui.step \in {"transfers", "states"} /\ ui.batch # <<>>
        /\ ui.batch \in Seq(Updates)
        /\ ui'.batch = Tail(ui.batch) /\ UNCHANGED tcp
    BY <1>8, BatchTypes
    DEF ApplyTransferUpdate, ApplyStateUpdate, Typed, SendTypeOK
  <2>2. PICK b \in Seq(Updates) : b = ui.batch /\ b # <<>> /\ AllSaid(b)
    BY <1>0, <2>1
  <2>3. SaidOf(Head(b).t, Head(b).state) /\ AllSaid(Tail(b)) /\ Head(b) \in Updates
    BY <2>2, SaidOfTail
  <2>4. AllSaid(ui.batch)'
    BY <2>1, <2>2, <2>3 DEF AllSaid, SaidOf
  <2>5. PICK t \in Keys, state \in States :
          Head(b) = Update(t, state) /\ (state = "Completed" => t \in wholeSent)
    BY <2>3 DEF Updates, Update, SaidOf
  <2>6. /\ \/ UNCHANGED transferUpdates
           \/ transferUpdates' = Append(transferUpdates, Update(t, state))
        /\ \/ UNCHANGED stateUpdates
           \/ stateUpdates' = Append(stateUpdates, Update(t, state))
    BY <1>8, <2>2, <2>5 DEF ApplyTransferUpdate, ApplyStateUpdate
  <2>7. AllSaid(transferUpdates)' /\ AllSaid(stateUpdates)'
    BY <1>1, <1>2, <2>5, <2>6
  <2> QED BY <1>1, <2>1, <2>4, <2>7 DEF UpdatesWereSent
<1>9. CASE DrainRequests \/ SendRequest \/ SendRequestFails
  <2>1. ui'.step \notin {"transfers", "states"} /\ UNCHANGED <<transferUpdates, tcp>>
    <3>1. PICK batch \in Seq(Requests) : ui' = NextRequests(batch)
      <4>1. requests \in Seq(Requests)
        BY DEF Typed, SendTypeOK
      <4> QED
        BY <1>9, <4>1, BatchTypes DEF DrainRequests, SendRequest, SendRequestFails
    <3> QED
      BY <1>9, <3>1, NextRequestsType DEF DrainRequests, SendRequest, SendRequestFails
  <2>2. \/ UNCHANGED stateUpdates
        \/ \E t \in Keys : stateUpdates' = Append(stateUpdates, Update(t, "Failed"))
    <3>1. CASE DrainRequests
      BY <3>1 DEF DrainRequests
    <3>2. CASE SendRequest
      BY <3>2, SendRequestKinds DEF Requests
    <3>3. CASE SendRequestFails
      BY <3>3, BatchTypes DEF SendRequestFails, Requests
    <3> QED BY <1>9, <3>1, <3>2, <3>3
  <2>3. AllSaid(stateUpdates)'
    BY <1>1, <1>2, <2>2, StateNames
  <2> QED BY <1>1, <2>1, <2>3 DEF UpdatesWereSent
<1>10. ASSUME NEW w \in Workers, Prepare(w) \/ Stream(w)
       PROVE  UpdatesWereSent'
  <2>1. PICK r \in Runs : r = workerRun[w]
    BY <1>0, <1>10, SomeRun DEF Prepare, Stream, DoWork, TypeOK
  <2>2. runKey[r] \in Keys
    BY <1>0 DEF TypeOK
  <2>3. /\ \/ UNCHANGED transferUpdates
           \/ transferUpdates' = Append(transferUpdates, Update(runKey[r], "Transferring"))
        /\ UNCHANGED <<stateUpdates, ui, tcp>>
    BY <1>10, <2>1 DEF Prepare, Stream
  <2>4. AllSaid(transferUpdates)'
    BY <1>1, <1>2, <2>2, <2>3, StateNames
  <2> QED BY <1>1, <2>3, <2>4 DEF UpdatesWereSent
<1>11. CASE CompleteSend
  <2>1. PICK r \in Runs : r = Head(callbacks) /\ phase[r] = "dispatching"
    BY <1>11, CallbackRun DEF CompleteSend, RunCallback
  <2>2. runKey[r] \in Keys /\ runKind[r] \in {"content", "resume"}
    BY <1>0 DEF TypeOK, Typed, SendTypeOK
  <2>3. UNCHANGED <<transferUpdates, ui, tcp>>
    BY <1>11 DEF CompleteSend
  <2>4. CASE UNCHANGED stateUpdates
    BY <1>1, <2>3, <2>4 DEF UpdatesWereSent
  <2>5. CASE stateUpdates' # stateUpdates
    <3>1. PICK state \in {"Completed", "Failed", "Interrupted"} :
            /\ state = "Completed" <=> outcome[r] = "Done"
            /\ stateUpdates' = Append(stateUpdates, Update(runKey[r], state))
            /\ ~(outcome[r] = "Done" /\ runKind[r] = "resume")
      BY <1>11, <2>1, <2>5 DEF CompleteSend
    <3>2. state = "Completed" => runKey[r] \in wholeSent
      <4>1. ReturnedDone(r) /\ runKind[r] = "content" => runKey[r] \in wholeSent
        BY DEF SentInv, StreamsWereWhole
      <4> QED BY <2>1, <2>2, <3>1, <4>1 DEF ReturnedDone, ReturnedPhases
    <3>3. AllSaid(stateUpdates)'
      BY <1>2, <2>2, <3>1, <3>2, StateNames
    <3> QED BY <1>1, <2>3, <3>3 DEF UpdatesWereSent
  <2> QED BY <2>4, <2>5
<1>12. CASE SwitchPeer \/ TaskStep \/ Dispatch \/ UNCHANGED allVars
  <2>1. UNCHANGED <<transferUpdates, stateUpdates, ui, tcp>>
    BY <1>12 DEF SwitchPeer, TaskStep, Dispatch, allVars, sendVars
  <2> QED BY <1>1, <2>1 DEF UpdatesWereSent
<1>13. CASE Restart
  <2>1. /\ transferUpdates' = <<>> /\ stateUpdates' = <<>>
        /\ ui'.step = "idle" /\ tcp'.state # "Completed"
    BY <1>13 DEF Restart, UiIdle, NoUpdate, None
  <2>2. AllSaid(transferUpdates)' /\ AllSaid(stateUpdates)'
    BY <2>1 DEF AllSaid
  <2> QED BY <2>1, <2>2 DEF UpdatesWereSent, SaidOf
<1> QED
  BY <1>3, <1>4, <1>5, <1>6, <1>7, <1>8, <1>9, <1>10, <1>11, <1>12, <1>13
  DEF SendNext, RefreshStep

LEMMA SentInitially == SendInit => SentInv
<1> SUFFICES ASSUME SendInit PROVE SentInv
  OBVIOUS
<1>1. /\ \A r \in Runs : phase[r] = "unused"
      /\ \A t \in Keys : disk[t] # "Completed" /\ shown[t] # "Completed"
      /\ transferUpdates = <<>> /\ stateUpdates = <<>>
      /\ ui.step = "idle" /\ tcp.state # "Completed"
  BY DEF SendInit, Init, UiIdle, NoUpdate, None
<1>2. AllSaid(transferUpdates) /\ AllSaid(stateUpdates)
  BY <1>1 DEF AllSaid
<1> QED
  BY <1>1, <1>2
  DEF SentInv, RecordsWereSent, UpdatesWereSent, StreamsWereWhole, SaidOf, ReturnedDone,
      ReturnedPhases

\* A transfer is stored as Completed only when its content was written to its
\* end, however requests, cancels, resumptions and late completions interleave.
THEOREM CompletedTransfersWereSent == SendSpec => []CompletedWasSent
<1>1. /\ Inv /\ OrderInv /\ Typed /\ SentInv /\ [SendNext]_allVars
           => (Inv /\ OrderInv /\ Typed /\ SentInv)'
  BY SendTasksStep, TypedStep, StreamsStep, RecordsSentStep, UpdatesSentStep DEF SentInv
<1>2. SentInv => CompletedWasSent
  BY DEF SentInv, RecordsWereSent, SaidOf, CompletedWasSent
<1> QED
  BY SendInitTypes, SentInitially, <1>1, <1>2, PTL DEF SendSpec
-----------------------------------------------------------------------------
(* Cancelled.                                                              *)

\* Before its chat message is sent a transfer has no record.
NewIsUnrecorded ==
  \A t \in Keys : chat[t] = "new" => shown[t] = None /\ disk[t] = None

\* What the user cancelled is recorded so, and no update changes that.
CancelledStays ==
  \A t \in userCancelled : /\ chat[t] # "new"
                           /\ disk[t] = "Cancelled"
                           /\ shown[t] \in {None, "Cancelled"}

CancelInv == NewIsUnrecorded /\ CancelledStays /\ CancelledIsNotSent

\* A record takes no update but of the same state once it is Cancelled.
LEMMA CancelledTakesNone ==
  ASSUME NEW state, state # "Cancelled"
  PROVE  ~Takes("Cancelled", state) /\ ~Takes(None, state)
BY DEF Takes, IgnoresUpdate, TerminalStates, Replacements

\* A step under which the records are as they should be, and that brings no run
\* alive, keeps what was cancelled from being sent.
LEMMA CancelKept ==
  ASSUME Typed, CancelInv, Carried, NewIsUnrecorded', CancelledStays',
         userCancelled' \subseteq userCancelled
  PROVE  CancelInv'
BY DEF CancelInv, CancelledIsNotSent, Carried

\* An update that is applied changes only a record that is there, and none that
\* was cancelled.
LEMMA ApplyKeepsCancelled ==
  ASSUME Typed, CancelInv, NEW u \in Updates, Apply(u) \/ UNCHANGED <<shown, disk>>,
         UNCHANGED <<chat, userCancelled>>
  PROVE  NewIsUnrecorded' /\ CancelledStays'
<1>0. u.t \in Keys /\ u.state \in States /\ "Cancelled" # None
  BY DEF Updates, None
<1>1. ~Takes(None, u.state)
  BY DEF Takes
<1>2. \A s \in {None, "Cancelled"} : Takes(s, u.state) => u.state = "Cancelled"
  BY CancelledTakesNone
<1>3. NewIsUnrecorded'
  BY <1>0, <1>1 DEF Apply, Replaced, CancelInv, NewIsUnrecorded, Typed, SendTypeOK
<1>4. CancelledStays'
  <2> SUFFICES ASSUME NEW t \in userCancelled
               PROVE  disk'[t] = "Cancelled" /\ shown'[t] \in {None, "Cancelled"}
    BY DEF CancelledStays, CancelInv
  <2>1. t \in Keys /\ disk[t] = "Cancelled" /\ shown[t] \in {None, "Cancelled"}
    BY DEF CancelInv, CancelledStays, Typed, SendTypeOK
  <2> QED
    BY <1>0, <1>2, <2>1 DEF Apply, Replaced, Typed, SendTypeOK
<1> QED
  BY <1>3, <1>4

LEMMA CancelStep ==
  ASSUME Inv, OrderInv, Typed, CancelInv, [SendNext]_allVars
  PROVE  CancelInv'
<1>0. /\ TypeOK /\ userCancelled \subseteq Keys
      /\ shown \in [Keys -> States \union {None}] /\ disk \in [Keys -> States \union {None}]
      /\ chat \in [Keys -> {"new", "sending", "done"}]
      /\ \A t \in Keys : chat[t] = "new" => shown[t] = None /\ disk[t] = None
      /\ \A t \in userCancelled :
           chat[t] # "new" /\ disk[t] = "Cancelled" /\ shown[t] \in {None, "Cancelled"}
  BY DEF Inv, Typed, SendTypeOK, CancelInv, NewIsUnrecorded, CancelledStays
<1> USE DEF recordVars, chatVars
<1>1. ASSUME CarryingStep, UNCHANGED <<shown, disk, chat>>, userCancelled' \subseteq userCancelled
      PROVE  CancelInv'
  <2>1. NewIsUnrecorded' /\ CancelledStays'
    BY <1>0, <1>1 DEF NewIsUnrecorded, CancelledStays
  <2> QED BY <1>1, <2>1, CarryingStepCarries, CancelKept
<1>2. ASSUME NEW k \in Keys, SendMessage(k)
      PROVE  CancelInv'
  <2>1. k \notin userCancelled
    BY <1>0, <1>2 DEF SendMessage
  <2>2. /\ shown' = [shown EXCEPT ![k] = "Pending"] /\ chat' = [chat EXCEPT ![k] = "sending"]
        /\ UNCHANGED <<disk, userCancelled>>
    BY <1>2 DEF SendMessage
  <2>3. NewIsUnrecorded' /\ CancelledStays'
    BY <1>0, <2>1, <2>2 DEF NewIsUnrecorded, CancelledStays
  <2>4. CarryingStep
    BY <1>2 DEF SendMessage, CarryingStep
  <2> QED BY <2>2, <2>3, <2>4, CarryingStepCarries, CancelKept
<1>3. ASSUME NEW k \in Keys, ChatDone(k)
      PROVE  CancelInv'
  <2>1. PICK state \in {"Offered", "Failed"} :
          /\ disk' = IF disk[k] = None THEN [disk EXCEPT ![k] = state] ELSE disk
          /\ shown' = Replaced(shown, k, state)
          /\ chat' = [chat EXCEPT ![k] = "done"]
          /\ userCancelled' = userCancelled \ {k}
    BY <1>3 DEF ChatDone
  <2>2. NewIsUnrecorded'
    BY <1>0, <2>1 DEF NewIsUnrecorded, Replaced
  <2>3. CancelledStays'
    BY <1>0, <2>1 DEF CancelledStays, Replaced
  <2>4. CarryingStep
    BY <1>3 DEF ChatDone, CarryingStep
  <2> QED BY <2>1, <2>2, <2>3, <2>4, CarryingStepCarries, CancelKept
<1>4. ASSUME NEW k \in Keys, CancelTransfer(k)
      PROVE  CancelInv'
  <2>1. /\ shown[k] \in {"Offered", "Transferring"} /\ Record(k, "Cancelled")
        /\ userCancelled' = userCancelled \union {k} /\ UNCHANGED chat
    BY <1>4 DEF CancelTransfer
  <2>2. chat[k] # "new"
    BY <1>0, <2>1 DEF None
  <2>3. /\ disk' = [disk EXCEPT ![k] = "Cancelled"]
        /\ shown' = Replaced(shown, k, "Cancelled")
    BY <2>1 DEF Record
  <2>4. NewIsUnrecorded' /\ CancelledStays'
    BY <1>0, <2>1, <2>2, <2>3 DEF NewIsUnrecorded, CancelledStays, Replaced
  <2>5. Carried
    BY <1>4, BothAreThreads, CarryingStepCarries DEF CancelTransfer, CarryingStep
  <2>6. \A r \in Runs : Live(r)' => runKey[r] # k
    <3>1. CASE status[k] = "Running"
      <4>1. Cancel(Ui, k)
        BY <1>4, <3>1 DEF CancelTransfer
      <4>2. status'[k] # "Running" /\ UNCHANGED runKey
        BY <1>0, <4>1 DEF Cancel, TypeOK, runVars
      <4>3. LiveRunOwnsKey'
        BY SendTasksStep DEF Inv
      <4> QED BY <4>2, <4>3 DEF LiveRunOwnsKey
    <3>2. CASE status[k] # "Running"
      BY <2>5, <3>2 DEF Carried, Inv, LiveRunOwnsKey
    <3> QED BY <3>1, <3>2
  <2>7. CancelledIsNotSent'
    BY <2>1, <2>5, <2>6 DEF CancelInv, CancelledIsNotSent, Carried
  <2> QED BY <2>4, <2>7 DEF CancelInv
<1>5. CASE SwitchPeer
  <2>1. \/ shown' = [k \in Keys |-> None] /\ UNCHANGED disk
        \/ /\ disk' = [k \in Keys |->
                        IF disk[k] = "Transferring" /\ status[k] # "Running"
                          THEN "Interrupted" ELSE disk[k]]
           /\ shown' = disk'
    BY <1>5 DEF SwitchPeer
  <2>2. UNCHANGED <<chat, userCancelled>> /\ CarryingStep
    BY <1>5 DEF SwitchPeer, CarryingStep
  <2>3. NewIsUnrecorded'
    BY <1>0, <2>1, <2>2 DEF NewIsUnrecorded, None
  <2>4. CancelledStays'
    BY <1>0, <2>1, <2>2 DEF CancelledStays
  <2> QED BY <2>2, <2>3, <2>4, CarryingStepCarries, CancelKept
<1>6. CASE ApplyTransferUpdate \/ ApplyStateUpdate
  <2>1. PICK u \in Updates : u = Head(ui.batch)
    BY <1>6, BatchTypes DEF ApplyTransferUpdate, ApplyStateUpdate
  <2>2. /\ Apply(u) \/ UNCHANGED <<shown, disk>>
        /\ UNCHANGED <<chat, userCancelled>> /\ CarryingStep
    BY <1>6, <2>1 DEF ApplyTransferUpdate, ApplyStateUpdate, CarryingStep
  <2> QED BY <2>2, ApplyKeepsCancelled, CarryingStepCarries, CancelKept
<1>7. CASE SendRequest
  <2>0. UNCHANGED <<chat, userCancelled>>
    BY <1>7 DEF SendRequest
  <2>1. PICK q \in Requests :
          \/ /\ BeginTask(Ui, q.t, TRUE)
             /\ (IF shown[q.t] # None THEN shown[q.t] ELSE disk[q.t]) \in SendableStates
             /\ Record(q.t, "Transferring")
          \/ UNCHANGED <<vars, shown, disk>>
    BY <1>7, SendRequestKinds
  <2>2. q.t \in Keys
    BY DEF Requests
  <2>3. CASE UNCHANGED <<vars, shown, disk>>
    BY <1>1, <2>0, <2>3 DEF CarryingStep
  <2>4. CASE /\ BeginTask(Ui, q.t, TRUE)
             /\ (IF shown[q.t] # None THEN shown[q.t] ELSE disk[q.t]) \in SendableStates
             /\ Record(q.t, "Transferring")
    <3>1. q.t \notin userCancelled /\ chat[q.t] # "new"
      BY <1>0, <2>2, <2>4 DEF SendableStates, None
    <3>2. NewIsUnrecorded' /\ CancelledStays'
      BY <1>0, <2>0, <2>2, <2>4, <3>1
      DEF NewIsUnrecorded, CancelledStays, Record, Replaced
    <3>3. PICK new \in Runs : new = started + 1
      BY <2>4 DEF BeginTask
    <3>4. /\ runKey'[new] = q.t /\ raised \subseteq raised'
          /\ \A r \in Runs \ {new} : phase'[r] = phase[r] /\ runKey'[r] = runKey[r]
      BY <1>0, <2>2, <2>4, <3>3 DEF BeginTask, TypeOK
    <3>5. \A r \in Runs \ {new} : Live(r)' => Live(r)
      BY <3>4 DEF Live, Unfinished
    <3>6. CancelledIsNotSent'
      BY <2>0, <3>1, <3>4, <3>5 DEF CancelInv, CancelledIsNotSent
    <3> QED BY <3>2, <3>6 DEF CancelInv
  <2> QED BY <2>1, <2>3, <2>4
<1>8. ASSUME NEW w \in Workers, Stream(w)
      PROVE  CancelInv'
  <2>1. PICK r \in Runs : r = workerRun[w]
    BY <1>0, <1>8, SomeRun DEF Stream, DoWork, TypeOK
  <2>2. /\ phase[r] = "working" /\ \A s \in Runs \ {r} : phase'[s] = phase[s]
        /\ UNCHANGED <<raised, runKey, shown, disk, chat, userCancelled>>
    BY <1>0, <1>8, <2>1 DEF Stream, DoWork, TypeOK, runVars
  <2>3. \A s \in Runs : Live(s)' => Live(s)
    BY <2>2 DEF Live, Unfinished, UnfinishedPhases
  <2> QED
    BY <2>2, <2>3 DEF CancelInv, NewIsUnrecorded, CancelledStays, CancelledIsNotSent
<1>9. CASE Restart
  <2>1. /\ \A r \in Runs : ~Live(r)'
        /\ \A t \in Keys : /\ shown'[t] = None
                           /\ chat'[t] = "new" <=> chat[t] = "new"
        /\ UNCHANGED <<disk, userCancelled>>
    BY <1>0, <1>9 DEF Restart, ResetTasks, Live, Unfinished, UnfinishedPhases
  <2>2. NewIsUnrecorded' /\ CancelledStays'
    BY <1>0, <2>1 DEF NewIsUnrecorded, CancelledStays
  <2> QED BY <2>1, <2>2 DEF CancelInv, CancelledIsNotSent
\* The other steps change no record.
<1>10. ASSUME NEW k \in Keys,
              \/ ChatFrameOut(k) \/ PushTransfer(k) \/ ReceiveAccept(k)
              \/ ReceiveReject(k) \/ ReceiveCancel(k)
       PROVE  CancelInv'
  <2>1. UNCHANGED <<shown, disk, chat>> /\ userCancelled' \subseteq userCancelled
    BY <1>10
    DEF ChatFrameOut, PushTransfer, ReceiveAccept, ReceiveReject, ReceiveCancel, Answer
  <2>2. CarryingStep
    BY <1>10, BothAreThreads
    DEF ChatFrameOut, PushTransfer, ReceiveAccept, ReceiveReject, ReceiveCancel, CarryingStep
  <2> QED BY <1>1, <2>1, <2>2
<1>11. CASE \/ QueueCancel \/ DrainTransferUpdates \/ DrainStateUpdates
            \/ DrainRequests \/ SendRequestFails \/ \E w \in Workers : Prepare(w)
  <2>1. UNCHANGED <<shown, disk, chat, userCancelled>> /\ UNCHANGED vars
    BY <1>11
    DEF QueueCancel, DrainTransferUpdates, DrainStateUpdates, DrainRequests,
        SendRequestFails, Prepare
  <2> QED BY <1>1, <2>1 DEF CarryingStep
<1>12. CASE CompleteSend \/ TaskStep \/ Dispatch \/ UNCHANGED allVars
  <2>1. UNCHANGED <<shown, disk, chat, userCancelled>>
    BY <1>12 DEF CompleteSend, TaskStep, Dispatch, allVars, sendVars
  <2>2. CarryingStep
    BY <1>12 DEF CompleteSend, TaskStep, Dispatch, allVars, CarryingStep
  <2> QED BY <1>1, <2>1, <2>2
<1> QED
  BY <1>2, <1>3, <1>4, <1>5, <1>6, <1>7, <1>8, <1>9, <1>10, <1>11, <1>12
  DEF SendNext, RefreshStep

LEMMA CancelInitially == SendInit => CancelInv
BY DEF SendInit, CancelInv, NewIsUnrecorded, CancelledStays, CancelledIsNotSent

\* Once the user has cancelled a transfer no stream of it runs on and none is
\* started, whatever was queued before and whatever the peer answers later.
THEOREM CancelledTransfersAreNotSent == SendSpec => []CancelledIsNotSent
<1>1. Inv /\ OrderInv /\ Typed /\ CancelInv /\ [SendNext]_allVars
        => (Inv /\ OrderInv /\ Typed /\ CancelInv)'
  BY SendTasksStep, TypedStep, CancelStep
<1>2. CancelInv => CancelledIsNotSent
  BY DEF CancelInv
<1> QED
  BY SendInitTypes, CancelInitially, <1>1, <1>2, PTL DEF SendSpec

-----------------------------------------------------------------------------
(* Final states.                                                           *)

LEMMA FinalTakesItself ==
  ASSUME NEW s \in FinalStates, NEW state
  PROVE  /\ Takes(s, state) => state = s
         /\ s \in {"Completed", "Cancelled", "Rejected"} /\ s # None
<1>1. s \in TerminalStates /\ Replacements(s) = {}
  BY DEF FinalStates
<1>2. s \in {"Completed", "Cancelled", "Rejected"}
  BY <1>1 DEF TerminalStates, Replacements
<1> QED
  BY <1>1, <1>2 DEF Takes, IgnoresUpdate, None

\* A final state that the history holds, and that the list shows if it shows
\* the message, is never taken back.
THEOREM FinalStatesStay == SendSpec => FinalStateKept
<1> DEFINE Kept == \A t \in Keys :
             (disk[t] \in FinalStates /\ shown[t] \in {None, disk[t]})
                => disk'[t] = disk[t]
<1>1. Inv /\ OrderInv /\ Typed /\ [SendNext]_allVars => Kept
  <2> SUFFICES ASSUME Inv, OrderInv, Typed, [SendNext]_allVars, NEW t \in Keys,
                      disk[t] \in FinalStates, shown[t] \in {None, disk[t]}
               PROVE  disk'[t] = disk[t]
    OBVIOUS
  <2>0. /\ shown \in [Keys -> States \union {None}]
        /\ disk \in [Keys -> States \union {None}]
    BY DEF Typed, SendTypeOK
  <2>1. disk[t] \in {"Completed", "Cancelled", "Rejected"} /\ disk[t] # None
    BY FinalTakesItself
  <2>2. ASSUME NEW k \in Keys, ChatDone(k)
        PROVE  disk'[t] = disk[t]
    BY <2>0, <2>1, <2>2 DEF ChatDone
  <2>3. ASSUME NEW k \in Keys, CancelTransfer(k)
        PROVE  disk'[t] = disk[t]
    <3>1. k # t
      BY <2>1, <2>3 DEF CancelTransfer, None
    <3> QED BY <2>0, <2>3, <3>1 DEF CancelTransfer, Record
  <2>4. CASE SwitchPeer
    BY <2>0, <2>1, <2>4 DEF SwitchPeer
  <2>5. CASE ApplyTransferUpdate \/ ApplyStateUpdate
    <3>1. PICK u \in Updates : u = Head(ui.batch)
      BY <2>5, BatchTypes DEF ApplyTransferUpdate, ApplyStateUpdate
    <3>2. u.t \in Keys /\ (Apply(u) \/ UNCHANGED disk)
      BY <2>5, <3>1 DEF ApplyTransferUpdate, ApplyStateUpdate, Updates
    <3>3. /\ Takes(disk[t], u.state) => u.state = disk[t]
          /\ Takes(shown[t], u.state) => u.state = disk[t]
      BY FinalTakesItself DEF Takes
    <3> QED BY <2>0, <2>1, <3>2, <3>3 DEF Apply, Replaced
  <2>6. CASE SendRequest
    <3>1. PICK q \in Requests :
            \/ /\ (IF shown[q.t] # None THEN shown[q.t] ELSE disk[q.t]) \in SendableStates
               /\ Record(q.t, "Transferring")
            \/ UNCHANGED disk
      BY <2>6, SendRequestKinds
    <3>2. CASE /\ (IF shown[q.t] # None THEN shown[q.t] ELSE disk[q.t]) \in SendableStates
               /\ Record(q.t, "Transferring")
      <4>1. q.t # t
        BY <2>1, <3>2 DEF SendableStates
      <4> QED BY <2>0, <3>2, <4>1 DEF Record
    <3> QED BY <3>1, <3>2
  <2>7. ASSUME NEW k \in Keys,
               \/ SendMessage(k) \/ ChatFrameOut(k) \/ PushTransfer(k)
               \/ ReceiveAccept(k) \/ ReceiveReject(k) \/ ReceiveCancel(k)
        PROVE  disk'[t] = disk[t]
    BY <2>7
    DEF SendMessage, ChatFrameOut, PushTransfer, ReceiveAccept, ReceiveReject,
        ReceiveCancel, Answer, recordVars
  <2>8. CASE \/ QueueCancel \/ DrainTransferUpdates \/ DrainStateUpdates
             \/ DrainRequests \/ SendRequestFails \/ CompleteSend \/ TaskStep \/ Dispatch
             \/ \E w \in Workers : Prepare(w) \/ Stream(w)
             \/ Restart \/ UNCHANGED allVars
    BY <2>8
    DEF QueueCancel, DrainTransferUpdates, DrainStateUpdates, DrainRequests,
        SendRequestFails, CompleteSend, TaskStep, Dispatch, Prepare, Stream, Restart,
        allVars, sendVars, recordVars
  <2> QED
    BY <2>2, <2>3, <2>4, <2>5, <2>6, <2>7, <2>8 DEF SendNext, RefreshStep
<1>2. Inv /\ OrderInv /\ Typed /\ [SendNext]_allVars => (Inv /\ OrderInv /\ Typed)'
  BY SendTasksStep, TypedStep
<1> QED
  BY SendInitTypes, <1>1, <1>2, PTL DEF SendSpec, FinalStateKept
=============================================================================
