--------------------------- MODULE OutgoingChat_proofs ---------------------------
(***************************************************************************)
(* Proofs about the sending of chat messages: the history keeps one line of  *)
(* each message, that line says Sent only of a message that reached the      *)
(* network, and Sent is final; for any number of messages, workers, requests *)
(* and restarts.                                                            *)
(*                                                                         *)
(* The runtime is used through its own invariants (AsyncTasks_proofs): every *)
(* step of OutgoingChat is a step of AsyncTasks or leaves its state alone,    *)
(* except Restart, which forgets every task.                                *)
(***************************************************************************)
EXTENDS OutgoingChat, AsyncTasks_proofs

-----------------------------------------------------------------------------
(* The runtime under the chat.                                             *)

LEMMA UiIsThread == Ui \in Threads
BY UiAssumption

\* A step of the chat is a step of the runtime, or a new process begins.
LEMMA ChatStepIsTaskStep ==
  ASSUME [ChatNext]_allVars
  PROVE  [Next]_vars \/ Restart
<1>1. ASSUME NEW m \in Keys, NEW b \in BOOLEAN, Submit(m, b)
      PROVE  [Next]_vars
  BY <1>1, UiIsThread DEF Submit, Next
<1>2. ASSUME NEW m \in Keys, SendMessage(m) \/ ResendMessage(m)
      PROVE  [Next]_vars
  BY <1>1, <1>2 DEF SendMessage, ResendMessage
<1>3. CASE SwitchPeer \/ UNCHANGED allVars
  BY <1>3 DEF SwitchPeer, allVars
<1>4. ASSUME NEW w \in Workers, Transmit(w)
      PROVE  [Next]_vars
  BY <1>4 DEF Transmit, Next, WorkerStep
<1>5. CASE CompleteSend
  BY <1>5 DEF CompleteSend, Next
<1>6. CASE TaskStep
  BY <1>6, UiIsThread DEF TaskStep, Next, WorkerStep
<1>7. CASE StopStep
  BY <1>7 DEF StopStep, Next
<1> QED
  BY <1>2, <1>3, <1>4, <1>5, <1>6, <1>7 DEF ChatNext

\* The invariants of the runtime hold across the steps of the chat.
LEMMA TasksStep ==
  ASSUME Inv, OrderInv, [ChatNext]_allVars
  PROVE  Inv' /\ OrderInv'
<1>1. CASE [Next]_vars
  BY <1>1, InvStep, OrderStep
<1>2. CASE Restart
  BY <1>2, ResetTasksInv DEF Restart, Inv
<1> QED
  BY <1>1, <1>2, ChatStepIsTaskStep

-----------------------------------------------------------------------------
(* Types.                                                                  *)

\* What persistChatMessageRecord leaves in the file, one message apart.
LEMMA StoreType ==
  ASSUME ChatTypeOK, NEW m \in Keys, NEW state \in DeliveryStates, NEW replace,
         Store(m, state, replace)
  PROVE  /\ stored' \in [Keys -> DeliveryStates \union {Absent}]
         /\ rows' \in [Keys -> Nat]
BY DEF ChatTypeOK, Store

LEMMA ChatTypesStep ==
  ASSUME Inv, OrderInv, ChatTypeOK, [ChatNext]_allVars
  PROVE  ChatTypeOK'
<1>0. TypeOK' /\ TypeOK
  BY TasksStep DEF Inv
<1>1. "Pending" \in DeliveryStates /\ "Sent" \in DeliveryStates /\ "Failed" \in DeliveryStates
  BY DEF DeliveryStates
<1>2. ASSUME NEW m \in Keys, NEW b \in BOOLEAN, Submit(m, b), Request(m)
      PROVE  ChatTypeOK'
  <2>1. requests' \in [Keys -> 0 .. MaxRequests]
    BY <1>2, ChatBoundsAssumption DEF Request, ChatTypeOK
  <2>2. CASE Accepts(m, FALSE)
    <3>1. /\ started + 1 \in Runs
          /\ shown' = [shown EXCEPT ![m] = "Pending"]
          /\ \/ Store(m, "Pending", TRUE) /\ replacing' = replacing \union {started + 1}
             \/ UNCHANGED <<stored, rows, replacing>>
      BY <1>2, <2>2 DEF Submit, BeginTask
    <3>2. /\ stored' \in [Keys -> DeliveryStates \union {Absent}] /\ rows' \in [Keys -> Nat]
          /\ replacing' \subseteq Runs
      BY <1>1, <3>1, StoreType DEF ChatTypeOK
    <3> QED BY <1>0, <1>1, <1>2, <2>1, <3>1, <3>2 DEF ChatTypeOK, Request
  <2>3. CASE ~Accepts(m, FALSE)
    <3>1. /\ shown' = [shown EXCEPT ![m] = "Failed"]
          /\ Store(m, "Failed", b) /\ UNCHANGED replacing
      BY <1>2, <2>3 DEF Submit
    <3> QED BY <1>0, <1>1, <1>2, <2>1, <3>1, StoreType DEF ChatTypeOK, Request
  <2> QED BY <2>2, <2>3
<1>3. ASSUME NEW m \in Keys, SendMessage(m) \/ ResendMessage(m)
      PROVE  ChatTypeOK'
  BY <1>2, <1>3 DEF SendMessage, ResendMessage
<1>4. CASE SwitchPeer
  BY <1>0, <1>4 DEF SwitchPeer, ChatTypeOK
<1>5. ASSUME NEW w \in Workers, Transmit(w)
      PROVE  ChatTypeOK'
  <2>1. PICK r \in Runs : r = workerRun[w]
    BY <1>0, <1>5, SomeRun DEF Transmit, DoWork, TypeOK
  <2>2. PICK sent \in {0, 1} : wire' = [wire EXCEPT ![runKey[r]] = @ + sent]
    BY <1>5, <2>1 DEF Transmit
  <2>3. wire' \in [Keys -> Nat]
    <3>1. runKey[r] \in Keys /\ wire \in [Keys -> Nat]
      BY <1>0 DEF ChatTypeOK, TypeOK
    <3>2. sent \in Nat
      OBVIOUS
    <3> QED BY <2>2, <3>1, <3>2
  <2> QED BY <1>0, <1>5, <2>3 DEF Transmit, ChatTypeOK
<1>6. CASE CompleteSend
  <2>1. PICK r \in Runs : r = Head(callbacks)
    BY <1>6, CallbackRun DEF CompleteSend, RunCallback
  <2>2. PICK m \in Keys : m = runKey[r]
    BY <1>0 DEF TypeOK
  <2>3. PICK state \in DeliveryStates : state = ResultState(r)
    BY <1>1 DEF ResultState
  <2>4. /\ Store(m, state, r \in replacing)
        /\ shown' = IF shown[m] = Absent THEN shown
                                         ELSE [shown EXCEPT ![m] = state]
        /\ UNCHANGED <<chatOpen, wire, requests, replacing, restarts>>
    BY <1>6, <2>1, <2>2, <2>3 DEF CompleteSend
  <2>5. shown' \in [Keys -> DeliveryStates \union {Absent}]
    BY <2>3, <2>4 DEF ChatTypeOK
  <2> QED BY <1>0, <2>4, <2>5, StoreType DEF ChatTypeOK
<1>7. CASE TaskStep \/ StopStep \/ UNCHANGED allVars
  BY <1>0, <1>7 DEF TaskStep, StopStep, allVars, chatVars, ChatTypeOK
<1>8. CASE Restart
  <2>1. restarts' \in 0 .. MaxRestarts
    BY <1>8, ChatBoundsAssumption DEF Restart, ChatTypeOK
  <2>2. shown' \in [Keys -> DeliveryStates \union {Absent}]
    BY <1>8 DEF Restart
  <2> QED BY <1>0, <1>8, <2>1, <2>2 DEF Restart, ChatTypeOK
<1> QED
  BY <1>3, <1>4, <1>5, <1>6, <1>7, <1>8 DEF ChatNext

LEMMA ChatInitTypes == ChatInit => Inv /\ OrderInv /\ ChatTypeOK
<1> SUFFICES ASSUME ChatInit PROVE Inv /\ OrderInv /\ ChatTypeOK
  OBVIOUS
<1>1. Inv /\ OrderInv
  BY InvInit, OrderInit DEF ChatInit
<1>2. ChatTypeOK
  BY <1>1, ChatBoundsAssumption DEF ChatInit, ChatTypeOK, Inv
<1> QED
  BY <1>1, <1>2

\* The chat and the runtime under it stay well typed, for any messages,
\* workers, requests and restarts.
THEOREM ChatTypesHold == ChatSpec => []ChatTypeOK
<1>1. Inv /\ OrderInv /\ ChatTypeOK /\ [ChatNext]_allVars => (Inv /\ OrderInv /\ ChatTypeOK)'
  BY TasksStep, ChatTypesStep
<1> QED
  BY ChatInitTypes, <1>1, PTL DEF ChatSpec

-----------------------------------------------------------------------------
(* The messages.                                                           *)

Begun(r) == phase[r] # "unused"

\* A process runs at most one task of a message: runOnce accepts the key only
\* while the table has no entry for it, and the entry stays until shutdown.
OneRunPerMessage ==
  /\ \A r, s \in Runs : (Begun(r) /\ Begun(s) /\ runKey[r] = runKey[s]) => r = s
  /\ \A r \in Runs : (Begun(r) /\ ~stopping) => status[runKey[r]] # "Idle"

\* A message that was never asked to be sent has no line and no task.
UnaskedIsUntouched ==
  \A m \in Keys :
    requests[m] = 0 => rows[m] = 0 /\ \A r \in Runs : Begun(r) => runKey[r] # m

\* A message has a line as soon as its state was stored; what is shown as
\* Failed is stored as Failed, so that a retry finds a line to replace.
LinesAreCounted ==
  \A m \in Keys :
    /\ rows[m] <= 1
    /\ rows[m] = 0 <=> stored[m] = Absent
    /\ shown[m] = "Failed" => stored[m] = "Failed"

\* While a task has not reported, its message is not stored as Sent, and it
\* has a line exactly if the task was started to replace one.
UnreportedIsUnsent ==
  \A r \in Runs :
    (Begun(r) /\ phase[r] # "delivered") =>
      /\ stored[runKey[r]] # "Sent"
      /\ r \in replacing <=> rows[runKey[r]] > 0

ReplacingHaveBegun == \A r \in replacing : Begun(r)

\* Work that returned well, and a line that says Sent, mean a frame on the wire.
DoneReachedTheWire ==
  /\ \A r \in Runs : ReturnedDone(r) => wire[runKey[r]] > 0
  /\ \A m \in Keys : stored[m] = "Sent" => wire[m] > 0

MessagesInv ==
  /\ OneRunPerMessage
  /\ UnaskedIsUntouched
  /\ LinesAreCounted
  /\ UnreportedIsUnsent
  /\ ReplacingHaveBegun
  /\ DoneReachedTheWire

ChatInv == Inv /\ OrderInv /\ ChatTypeOK /\ MessagesInv

\* What all the steps that neither start a task nor report one have in common.
CarriedOn ==
  /\ UNCHANGED runKey
  /\ \A r \in Runs : /\ Begun(r)' <=> Begun(r)
                     /\ phase'[r] = "delivered" <=> phase[r] = "delivered"
  /\ ~stopping' => /\ ~stopping
                   /\ \A k \in Keys : status'[k] = "Idle" => status[k] = "Idle"

\* A worker's step moves one unreported run, and touches no entry but to
\* finish it.
LEMMA WorkerCarriesOn ==
  ASSUME Inv, NEW w \in Workers, WorkerStep(w)
  PROVE  /\ CarriedOn
         /\ ~DoWork(w) => \A r \in Runs : ReturnedDone(r)' => ReturnedDone(r)
<1>0. TypeOK
  BY DEF Inv
<1> USE DEF tableVars, runVars, queueVars
<1>1. CASE TakeWork(w)
  <2>1. /\ Head(workerQueue) = workerQueue[1] /\ 1 \in 1 .. Len(workerQueue)
        /\ workerQueue[1] \in Runs
    BY <1>0, <1>1, SeqTail, SeqElements DEF TakeWork, TypeOK
  <2>2. PICK r \in Runs : r = Head(workerQueue) /\ phase[r] = "queued"
    BY <2>1 DEF Inv, QueuesMatchPhases
  <2>3. /\ phase'[r] = "taken" /\ \A s \in Runs \ {r} : phase'[s] = phase[s]
        /\ UNCHANGED <<status, runKey, outcome, stopping>>
    BY <1>0, <1>1, <2>2 DEF TakeWork, TypeOK
  <2> QED BY <2>2, <2>3 DEF CarriedOn, Begun, ReturnedDone, ReturnedPhases
<1>2. CASE CheckToken(w) \/ DoWork(w) \/ SampleToken(w)
  <2>1. PICK r \in Runs : r = workerRun[w]
    BY <1>0, <1>2, SomeRun DEF CheckToken, DoWork, SampleToken, TypeOK
  <2>2. /\ phase[r] \in {"taken", "working", "returned"}
        /\ phase'[r] \in {"working", "returned", "settled"}
        /\ \A s \in Runs \ {r} : phase'[s] = phase[s] /\ outcome'[s] = outcome[s]
        /\ UNCHANGED <<status, runKey, stopping>>
    BY <1>0, <1>2, <2>1 DEF CheckToken, DoWork, SampleToken, TypeOK
  <2>3. ~DoWork(w) => (ReturnedDone(r)' => ReturnedDone(r))
    BY <1>0, <1>2, <2>1
    DEF CheckToken, SampleToken, TypeOK, ReturnedDone, ReturnedPhases
  <2> QED BY <2>2, <2>3 DEF CarriedOn, Begun, ReturnedDone
<1>3. CASE FinishTask(w)
  <2>1. PICK r \in Runs : r = workerRun[w] /\ phase[r] = "settled"
    BY <1>0, <1>3, SomeRun DEF FinishTask, TypeOK
  <2>2. /\ phase'[r] \in {"ready", "over"}
        /\ \A s \in Runs \ {r} : phase'[s] = phase[s]
        /\ UNCHANGED <<runKey, outcome, stopping>>
    BY <1>0, <1>3, <2>1 DEF FinishTask, TypeOK
  <2>3. FinishedStatus(r) # "Idle"
    BY <1>0, FinishedStatusType DEF FinalStatuses
  <2>4. \A k \in Keys : status'[k] = "Idle" => status[k] = "Idle"
    BY <1>0, <1>3, <2>1, <2>3 DEF FinishTask, TypeOK
  <2> QED BY <2>1, <2>2, <2>4 DEF CarriedOn, Begun, ReturnedDone, ReturnedPhases
<1> QED
  BY <1>1, <1>2, <1>3 DEF WorkerStep

\* The other steps of the runtime, a shutdown included.
LEMMA TaskStepCarriesOn ==
  ASSUME Inv, TaskStep \/ StopStep \/ UNCHANGED vars
  PROVE  CarriedOn /\ \A r \in Runs : ReturnedDone(r)' => ReturnedDone(r)
<1>0. TypeOK
  BY DEF Inv
<1> USE DEF tableVars, runVars, queueVars
<1>1. CASE EnqueueWorker(Ui)
  <2>1. PICK r \in Runs : r = starting[Ui] /\ phase[r] = "begun"
    BY <1>0, <1>1, SomeRun, UiIsThread DEF EnqueueWorker, Inv, TypeOK, QueuesMatchPhases
  <2>2. /\ phase'[r] \in {"over", "queued"}
        /\ \A s \in Runs \ {r} : phase'[s] = phase[s]
        /\ UNCHANGED <<status, runKey, outcome, stopping>>
    BY <1>0, <1>1, <2>1 DEF EnqueueWorker, TypeOK
  <2> QED BY <2>1, <2>2 DEF CarriedOn, Begun, ReturnedDone, ReturnedPhases
<1>2. ASSUME NEW w \in Workers,
             TakeWork(w) \/ CheckToken(w) \/ SampleToken(w) \/ FinishTask(w)
      PROVE  CarriedOn /\ \A r \in Runs : ReturnedDone(r)' => ReturnedDone(r)
  <2>1. ~DoWork(w)
    <3>1. CASE TakeWork(w)
      BY <3>1 DEF TakeWork, DoWork
    <3>2. CASE CheckToken(w) \/ SampleToken(w) \/ FinishTask(w)
      BY <3>2 DEF CheckToken, SampleToken, FinishTask, DoWork
    <3> QED BY <1>2, <3>1, <3>2
  <2> QED BY <1>2, <2>1, WorkerCarriesOn DEF WorkerStep
<1>3. CASE DispatchReady
  BY <1>0, <1>3 DEF DispatchReady, CarriedOn, Begun, ReturnedDone, ReturnedPhases
<1>4. CASE Shutdown
  BY <1>0, <1>4 DEF Shutdown, CarriedOn, Begun, ReturnedDone, ReturnedPhases
<1>5. CASE ClearTasks
  BY <1>0, <1>5 DEF ClearTasks, CarriedOn, Begun, ReturnedDone
<1>6. CASE UNCHANGED vars
  BY <1>6 DEF vars, CarriedOn, Begun, ReturnedDone
<1> QED
  BY <1>1, <1>2, <1>3, <1>4, <1>5, <1>6 DEF TaskStep, StopStep

\* Such a step keeps everything that the tasks and the history owe each other.
LEMMA CarryingKeepsMessages ==
  ASSUME ChatTypeOK, MessagesInv, CarriedOn,
         UNCHANGED <<shown, stored, rows, requests, replacing>>,
         wire' \in [Keys -> Nat], \A m \in Keys : wire'[m] >= wire[m],
         \A r \in Runs : ReturnedDone(r)' => ReturnedDone(r) \/ wire'[runKey[r]] > 0
  PROVE  MessagesInv'
<1>1. OneRunPerMessage'
  BY DEF MessagesInv, OneRunPerMessage, CarriedOn, ChatTypeOK, TypeOK
<1>2. UnaskedIsUntouched'
  BY DEF MessagesInv, UnaskedIsUntouched, CarriedOn
<1>3. LinesAreCounted'
  BY DEF MessagesInv, LinesAreCounted
<1>4. UnreportedIsUnsent'
  BY DEF MessagesInv, UnreportedIsUnsent, CarriedOn
<1>5. ReplacingHaveBegun'
  BY DEF MessagesInv, ReplacingHaveBegun, CarriedOn, ChatTypeOK
<1>6. DoneReachedTheWire'
  <2>1. \A m \in Keys : wire[m] > 0 => wire'[m] > 0
    BY DEF ChatTypeOK
  <2>2. \A r \in Runs : runKey[r] \in Keys
    BY DEF ChatTypeOK, TypeOK
  <2> QED BY <2>1, <2>2 DEF MessagesInv, DoneReachedTheWire, CarriedOn
<1> QED
  BY <1>1, <1>2, <1>3, <1>4, <1>5, <1>6 DEF MessagesInv

\* Asking for a message: a task is begun for it or it fails at once.  A new
\* message has no line yet; a retry replaces the line that says Failed.
LEMMA SubmitKeepsMessages ==
  ASSUME ChatInv, Inv', ChatTypeOK', NEW m \in Keys, NEW replace \in BOOLEAN,
         IF replace THEN shown[m] = "Failed" ELSE requests[m] = 0,
         Request(m), Submit(m, replace)
  PROVE  /\ MessagesInv'
         /\ \A k \in Keys : stored[k] = "Sent" => stored'[k] = "Sent"
<1>0. TypeOK /\ TypeOK' /\ ChatTypeOK /\ MessagesInv
  BY DEF ChatInv, Inv
<1>1. /\ UNCHANGED wire /\ requests'[m] # 0
      /\ \A k \in Keys \ {m} : requests'[k] = requests[k]
  BY <1>0, ChatBoundsAssumption DEF Request, ChatTypeOK
<1>2. \/ replace /\ rows[m] = 1 /\ stored[m] = "Failed"
      \/ ~replace /\ rows[m] = 0 /\ stored[m] = Absent
  <2>1. rows[m] \in Nat
    BY <1>0 DEF ChatTypeOK
  <2> QED
    BY <1>0, <2>1 DEF MessagesInv, LinesAreCounted, UnaskedIsUntouched, Absent
<1>3. "Sent" # Absent /\ "Pending" # Absent /\ "Failed" # Absent
  BY DEF Absent
<1>4. CASE Accepts(m, FALSE)
  <2>0. PICK new \in Runs : new = started + 1 /\ phase[new] = "unused"
    BY <1>0, <1>4 DEF Submit, BeginTask, ChatInv, Inv, TypeOK, RunsAreNumbered
  <2>1. /\ phase'[new] = "begun" /\ runKey'[new] = m /\ status'[m] = "Running"
        /\ \A r \in Runs \ {new} : phase'[r] = phase[r] /\ runKey'[r] = runKey[r]
        /\ \A k \in Keys \ {m} : status'[k] = status[k]
        /\ UNCHANGED <<outcome, stopping>> /\ ~stopping /\ status[m] = "Idle"
    BY <1>0, <1>4, <2>0 DEF Submit, BeginTask, Accepts, TypeOK
  <2>2. /\ shown'[m] = "Pending" /\ \A k \in Keys \ {m} : shown'[k] = shown[k]
        /\ stored'[m] = (IF replace THEN "Pending" ELSE stored[m])
        /\ \A k \in Keys \ {m} : stored'[k] = stored[k]
        /\ UNCHANGED rows
        /\ replacing' = replacing \union (IF replace THEN {new} ELSE {})
    <3>1. rows[m] > 0 <=> replace
      BY <1>2
    <3>2. /\ shown' = [shown EXCEPT ![m] = "Pending"]
          /\ replace => /\ stored' = [stored EXCEPT ![m] = "Pending"]
                        /\ rows' = rows
                        /\ replacing' = replacing \union {new}
          /\ ~replace => UNCHANGED <<stored, rows, replacing>>
      BY <1>4, <2>0, <3>1 DEF Submit, Store
    <3> QED BY <1>0, <3>2 DEF ChatTypeOK
  <2>3. \A r \in Runs : Begun(r) => runKey[r] # m /\ r # new
    BY <1>0, <2>0, <2>1 DEF MessagesInv, OneRunPerMessage, Begun
  <2>4. new \notin replacing
    BY <1>0, <2>0 DEF MessagesInv, ReplacingHaveBegun, Begun
  <2>5. \A r \in Runs : Begun(r)' <=> Begun(r) \/ r = new
    BY <2>0, <2>1 DEF Begun
  <2>6. OneRunPerMessage'
    <3>1. \A r \in Runs, s \in Runs :
            (Begun(r)' /\ Begun(s)' /\ runKey'[r] = runKey'[s]) => r = s
      BY <1>0, <2>1, <2>3, <2>5 DEF MessagesInv, OneRunPerMessage
    <3>2. \A r \in Runs : Begun(r)' => status'[runKey'[r]] # "Idle"
      <4> SUFFICES ASSUME NEW r \in Runs, Begun(r)'
                   PROVE  status'[runKey'[r]] # "Idle"
        OBVIOUS
      <4>1. CASE r = new
        BY <2>1, <4>1
      <4>2. CASE r # new
        <5>1. Begun(r) /\ runKey'[r] = runKey[r] /\ runKey[r] \in Keys \ {m}
          BY <1>0, <2>1, <2>3, <2>5, <4>2 DEF TypeOK
        <5> QED BY <1>0, <2>1, <5>1 DEF MessagesInv, OneRunPerMessage
      <4> QED BY <4>1, <4>2
    <3> QED BY <3>1, <3>2 DEF OneRunPerMessage
  <2>7. UnaskedIsUntouched'
    <3> SUFFICES ASSUME NEW k \in Keys, requests'[k] = 0
                 PROVE  rows'[k] = 0 /\ \A r \in Runs : Begun(r)' => runKey'[r] # k
      BY DEF UnaskedIsUntouched
    <3>1. k # m /\ requests[k] = 0
      BY <1>1
    <3>2. rows[k] = 0 /\ \A r \in Runs : Begun(r) => runKey[r] # k
      BY <1>0, <3>1 DEF MessagesInv, UnaskedIsUntouched
    <3> QED BY <2>1, <2>2, <2>5, <3>1, <3>2
  <2>8. LinesAreCounted'
    <3> SUFFICES ASSUME NEW k \in Keys
                 PROVE  /\ rows'[k] <= 1
                        /\ rows'[k] = 0 <=> stored'[k] = Absent
                        /\ shown'[k] = "Failed" => stored'[k] = "Failed"
      BY DEF LinesAreCounted
    <3>1. CASE k = m
      BY <1>2, <1>3, <2>2, <3>1
    <3>2. CASE k # m
      BY <1>0, <2>2, <3>2 DEF MessagesInv, LinesAreCounted
    <3> QED BY <3>1, <3>2
  <2>9. UnreportedIsUnsent'
    <3> SUFFICES ASSUME NEW r \in Runs, Begun(r)', phase'[r] # "delivered"
                 PROVE  /\ stored'[runKey'[r]] # "Sent"
                        /\ r \in replacing' <=> rows'[runKey'[r]] > 0
      BY DEF UnreportedIsUnsent
    <3>1. CASE r = new
      <4>1. stored'[m] # "Sent"
        BY <1>2, <1>3, <2>2
      <4>2. r \in replacing' <=> rows'[m] > 0
        BY <1>2, <2>2, <2>4, <3>1
      <4> QED BY <2>1, <3>1, <4>1, <4>2
    <3>2. CASE r # new
      <4>1. /\ Begun(r) /\ phase[r] # "delivered" /\ runKey'[r] = runKey[r]
            /\ runKey[r] \in Keys \ {m}
        BY <1>0, <2>1, <2>3, <2>5, <3>2 DEF TypeOK
      <4>2. r \in replacing' <=> r \in replacing
        BY <2>2, <3>2
      <4> QED BY <1>0, <2>2, <4>1, <4>2 DEF MessagesInv, UnreportedIsUnsent
    <3> QED BY <3>1, <3>2
  <2>10. ReplacingHaveBegun'
    BY <1>0, <2>2, <2>5 DEF MessagesInv, ReplacingHaveBegun, ChatTypeOK
  <2>11. DoneReachedTheWire'
    <3>1. \A r \in Runs : ReturnedDone(r)' => ReturnedDone(r) /\ runKey'[r] = runKey[r]
      BY <2>1 DEF ReturnedDone, ReturnedPhases
    <3>2. \A k \in Keys : stored'[k] = "Sent" => stored[k] = "Sent"
      BY <1>2, <1>3, <2>2
    <3> QED BY <1>0, <1>1, <3>1, <3>2 DEF MessagesInv, DoneReachedTheWire
  <2>12. \A k \in Keys : stored[k] = "Sent" => stored'[k] = "Sent"
    BY <1>2, <1>3, <2>2
  <2> QED
    BY <2>6, <2>7, <2>8, <2>9, <2>10, <2>11, <2>12 DEF MessagesInv
<1>5. CASE ~Accepts(m, FALSE)
  <2>1. /\ shown'[m] = "Failed" /\ \A k \in Keys \ {m} : shown'[k] = shown[k]
        /\ stored'[m] = "Failed" /\ \A k \in Keys \ {m} : stored'[k] = stored[k]
        /\ rows'[m] = 1 /\ \A k \in Keys \ {m} : rows'[k] = rows[k]
        /\ rows[m] = 0 \/ UNCHANGED rows
        /\ UNCHANGED <<vars, replacing>>
    <3>1. /\ shown' = [shown EXCEPT ![m] = "Failed"]
          /\ stored' = [stored EXCEPT ![m] = "Failed"]
          /\ replace => rows' = rows
          /\ ~replace => rows' = [rows EXCEPT ![m] = @ + 1]
          /\ UNCHANGED <<vars, replacing>>
      BY <1>2, <1>5 DEF Submit, Store
    <3>2. ~replace => rows'[m] = 1
      BY <1>0, <1>2, <3>1 DEF ChatTypeOK
    <3> QED BY <1>0, <1>2, <3>1, <3>2 DEF ChatTypeOK
  <2>2. UNCHANGED <<phase, runKey, status, stopping, outcome>>
    BY <2>1 DEF vars
  <2>3. \A r \in Runs : /\ Begun(r)' <=> Begun(r)
                        /\ ReturnedDone(r)' <=> ReturnedDone(r)
    BY <2>2 DEF Begun, ReturnedDone
  <2>4. \A r \in Runs : (Begun(r) /\ phase[r] # "delivered" /\ runKey[r] = m) => UNCHANGED rows
    <3>1. rows[m] = 0 => ~replace
      BY <1>2
    <3>2. ~replace => \A r \in Runs : Begun(r) => runKey[r] # m
      BY <1>0 DEF MessagesInv, UnaskedIsUntouched
    <3> QED BY <2>1, <3>1, <3>2
  <2>5. OneRunPerMessage'
    BY <1>0, <2>2, <2>3 DEF MessagesInv, OneRunPerMessage
  <2>6. UnaskedIsUntouched'
    <3> SUFFICES ASSUME NEW k \in Keys, requests'[k] = 0
                 PROVE  rows'[k] = 0 /\ \A r \in Runs : Begun(r)' => runKey'[r] # k
      BY DEF UnaskedIsUntouched
    <3>1. k # m /\ requests[k] = 0
      BY <1>1
    <3> QED BY <1>0, <2>1, <2>2, <2>3, <3>1 DEF MessagesInv, UnaskedIsUntouched
  <2>7. LinesAreCounted'
    <3> SUFFICES ASSUME NEW k \in Keys
                 PROVE  /\ rows'[k] <= 1
                        /\ rows'[k] = 0 <=> stored'[k] = Absent
                        /\ shown'[k] = "Failed" => stored'[k] = "Failed"
      BY DEF LinesAreCounted
    <3>1. CASE k = m
      BY <1>3, <2>1, <3>1
    <3>2. CASE k # m
      BY <1>0, <2>1, <3>2 DEF MessagesInv, LinesAreCounted
    <3> QED BY <3>1, <3>2
  <2>8. UnreportedIsUnsent'
    <3> SUFFICES ASSUME NEW r \in Runs, Begun(r), phase[r] # "delivered"
                 PROVE  /\ stored'[runKey[r]] # "Sent"
                        /\ r \in replacing <=> rows'[runKey[r]] > 0
      BY <2>1, <2>2, <2>3 DEF UnreportedIsUnsent
    <3>1. /\ stored[runKey[r]] # "Sent" /\ runKey[r] \in Keys
          /\ r \in replacing <=> rows[runKey[r]] > 0
      BY <1>0 DEF MessagesInv, UnreportedIsUnsent, TypeOK
    <3>2. CASE runKey[r] = m
      BY <2>1, <2>4, <3>1, <3>2
    <3>3. CASE runKey[r] # m
      BY <2>1, <3>1, <3>3
    <3> QED BY <3>2, <3>3
  <2>9. ReplacingHaveBegun'
    BY <1>0, <2>1, <2>3 DEF MessagesInv, ReplacingHaveBegun, ChatTypeOK
  <2>10. DoneReachedTheWire'
    <3>1. \A k \in Keys : stored'[k] = "Sent" => stored[k] = "Sent"
      BY <2>1
    <3> QED BY <1>0, <1>1, <2>2, <2>3, <3>1 DEF MessagesInv, DoneReachedTheWire
  <2>11. \A k \in Keys : stored[k] = "Sent" => stored'[k] = "Sent"
    BY <1>2, <1>3, <2>1
  <2> QED
    BY <2>5, <2>6, <2>7, <2>8, <2>9, <2>10, <2>11 DEF MessagesInv
<1> QED
  BY <1>4, <1>5

\* A completion reports for the only task of its message: it stores the result
\* over a line that does not say Sent, and no other task can follow it.
LEMMA CompleteKeepsMessages ==
  ASSUME ChatInv, ChatTypeOK', CompleteSend
  PROVE  /\ MessagesInv'
         /\ \A k \in Keys : stored[k] = "Sent" => stored'[k] = "Sent"
<1>0. TypeOK /\ ChatTypeOK /\ MessagesInv
  BY DEF ChatInv, Inv
<1>1. PICK h \in Runs : h = Head(callbacks) /\ phase[h] = "dispatching"
  BY CallbackRun DEF CompleteSend, RunCallback, ChatInv
<1>2. PICK m \in Keys : m = runKey[h]
  BY <1>0 DEF TypeOK
<1>3. /\ phase'[h] = "delivered" /\ \A r \in Runs \ {h} : phase'[r] = phase[r]
      /\ UNCHANGED <<runKey, status, stopping, outcome>>
  BY <1>0, <1>1 DEF CompleteSend, RunCallback, TypeOK, tableVars, runVars
<1>4. /\ Begun(h) /\ stored[m] # "Sent"
      /\ h \in replacing <=> rows[m] > 0
      /\ requests[m] # 0 /\ rows[m] \in Nat /\ rows[m] <= 1
  <2>1. Begun(h) /\ phase[h] # "delivered"
    BY <1>1 DEF Begun
  <2>2. rows[m] \in Nat /\ rows[m] <= 1
    BY <1>0 DEF ChatTypeOK, MessagesInv, LinesAreCounted
  <2> QED
    BY <1>0, <1>2, <2>1, <2>2 DEF MessagesInv, UnreportedIsUnsent, UnaskedIsUntouched
<1>5. PICK state \in {"Sent", "Failed"} :
        state = ResultState(h) /\ (state = "Sent" => outcome[h] = "Done")
  BY DEF ResultState
<1>6. /\ stored'[m] = state /\ \A k \in Keys \ {m} : stored'[k] = stored[k]
      /\ rows'[m] = 1 /\ \A k \in Keys \ {m} : rows'[k] = rows[k]
      /\ shown'[m] \in {Absent, state} /\ \A k \in Keys \ {m} : shown'[k] = shown[k]
      /\ UNCHANGED <<wire, requests, replacing>>
  <2>1. /\ Store(m, state, h \in replacing)
        /\ shown' = IF shown[m] = Absent THEN shown ELSE [shown EXCEPT ![m] = state]
        /\ UNCHANGED <<wire, requests, replacing>>
    BY <1>1, <1>2, <1>5 DEF CompleteSend
  <2>2. /\ stored' = [stored EXCEPT ![m] = state]
        /\ rows[m] > 0 => rows' = rows
        /\ ~(rows[m] > 0) => rows' = [rows EXCEPT ![m] = @ + 1]
    BY <1>4, <2>1 DEF Store
  <2>3. rows'[m] = 1 /\ \A k \in Keys \ {m} : rows'[k] = rows[k]
    <3>1. CASE rows[m] > 0
      BY <1>4, <2>2, <3>1
    <3>2. CASE ~(rows[m] > 0)
      <4>1. rows[m] = 0
        BY <1>4, <3>2
      <4> QED BY <1>0, <2>2, <3>2, <4>1 DEF ChatTypeOK
    <3> QED BY <3>1, <3>2
  <2> QED BY <1>0, <2>1, <2>2, <2>3 DEF ChatTypeOK
<1>7. "Sent" # Absent /\ "Failed" # Absent
  BY DEF Absent
<1>8. \A r \in Runs : Begun(r)' <=> Begun(r)
  BY <1>1, <1>3 DEF Begun
<1>9. \A r \in Runs : (Begun(r) /\ r # h) => runKey[r] # m
  BY <1>0, <1>2, <1>4 DEF MessagesInv, OneRunPerMessage
<1>10. OneRunPerMessage'
  BY <1>0, <1>3, <1>8 DEF MessagesInv, OneRunPerMessage
<1>11. UnaskedIsUntouched'
  <2> SUFFICES ASSUME NEW k \in Keys, requests[k] = 0
               PROVE  rows'[k] = 0 /\ \A r \in Runs : Begun(r) => runKey[r] # k
    BY <1>3, <1>6, <1>8 DEF UnaskedIsUntouched
  <2>1. k # m
    BY <1>4
  <2> QED BY <1>0, <1>6, <2>1 DEF MessagesInv, UnaskedIsUntouched
<1>12. LinesAreCounted'
  <2> SUFFICES ASSUME NEW k \in Keys
               PROVE  /\ rows'[k] <= 1
                      /\ rows'[k] = 0 <=> stored'[k] = Absent
                      /\ shown'[k] = "Failed" => stored'[k] = "Failed"
    BY DEF LinesAreCounted
  <2>1. CASE k = m
    BY <1>6, <1>7, <2>1
  <2>2. CASE k # m
    BY <1>0, <1>6, <2>2 DEF MessagesInv, LinesAreCounted
  <2> QED BY <2>1, <2>2
<1>13. UnreportedIsUnsent'
  <2> SUFFICES ASSUME NEW r \in Runs, Begun(r), phase'[r] # "delivered"
               PROVE  /\ stored'[runKey[r]] # "Sent"
                      /\ r \in replacing <=> rows'[runKey[r]] > 0
    BY <1>3, <1>6, <1>8 DEF UnreportedIsUnsent
  <2>1. r # h /\ phase[r] # "delivered" /\ runKey[r] \in Keys \ {m}
    BY <1>0, <1>3, <1>9 DEF TypeOK
  <2> QED BY <1>0, <1>6, <2>1 DEF MessagesInv, UnreportedIsUnsent
<1>14. ReplacingHaveBegun'
  BY <1>0, <1>6, <1>8 DEF MessagesInv, ReplacingHaveBegun, ChatTypeOK
<1>15. DoneReachedTheWire'
  <2>1. \A r \in Runs : ReturnedDone(r)' => ReturnedDone(r)
    BY <1>1, <1>3 DEF ReturnedDone, ReturnedPhases
  <2>2. state = "Sent" => wire[m] > 0
    <3>1. state = "Sent" => ReturnedDone(h)
      BY <1>1, <1>5 DEF ReturnedDone, ReturnedPhases
    <3> QED BY <1>0, <1>2, <3>1 DEF MessagesInv, DoneReachedTheWire
  <2> QED BY <1>0, <1>3, <1>6, <2>1, <2>2 DEF MessagesInv, DoneReachedTheWire
<1>16. \A k \in Keys : stored[k] = "Sent" => stored'[k] = "Sent"
  BY <1>4, <1>6
<1> QED
  BY <1>10, <1>11, <1>12, <1>13, <1>14, <1>15, <1>16 DEF MessagesInv

\* No step of the chat leaves the invariant or takes a Sent back.
LEMMA MessagesStep ==
  ASSUME ChatInv, [ChatNext]_allVars
  PROVE  /\ ChatInv'
         /\ \A k \in Keys : stored[k] = "Sent" => stored'[k] = "Sent"
<1>0. /\ Inv /\ OrderInv /\ ChatTypeOK /\ MessagesInv /\ TypeOK
      /\ Inv' /\ OrderInv' /\ ChatTypeOK'
  BY TasksStep, ChatTypesStep DEF ChatInv, Inv
<1> SUFFICES /\ MessagesInv'
             /\ \A k \in Keys : stored[k] = "Sent" => stored'[k] = "Sent"
  BY <1>0 DEF ChatInv
<1>1. ASSUME NEW m \in Keys, SendMessage(m)
      PROVE  /\ MessagesInv'
             /\ \A k \in Keys : stored[k] = "Sent" => stored'[k] = "Sent"
  BY <1>0, <1>1, SubmitKeepsMessages DEF SendMessage
<1>2. ASSUME NEW m \in Keys, ResendMessage(m)
      PROVE  /\ MessagesInv'
             /\ \A k \in Keys : stored[k] = "Sent" => stored'[k] = "Sent"
  BY <1>0, <1>2, SubmitKeepsMessages DEF ResendMessage
<1>3. CASE SwitchPeer
  <2>1. /\ UNCHANGED <<phase, runKey, status, stopping, outcome>>
        /\ UNCHANGED <<stored, rows, wire, requests, replacing>>
        /\ \A m \in Keys : shown'[m] = "Failed" => stored[m] = "Failed"
    <3>1. Absent # "Failed"
      BY DEF Absent
    <3> QED BY <1>3, <3>1 DEF SwitchPeer, vars
  <2>2. \A r \in Runs : /\ Begun(r)' <=> Begun(r)
                        /\ ReturnedDone(r)' <=> ReturnedDone(r)
    BY <2>1 DEF Begun, ReturnedDone
  <2>3. OneRunPerMessage' /\ UnaskedIsUntouched' /\ UnreportedIsUnsent'
    BY <1>0, <2>1, <2>2
    DEF MessagesInv, OneRunPerMessage, UnaskedIsUntouched, UnreportedIsUnsent
  <2>4. LinesAreCounted'
    BY <1>0, <2>1 DEF MessagesInv, LinesAreCounted
  <2>5. ReplacingHaveBegun' /\ DoneReachedTheWire'
    BY <1>0, <2>1, <2>2
    DEF MessagesInv, ReplacingHaveBegun, DoneReachedTheWire, ChatTypeOK
  <2> QED BY <2>1, <2>3, <2>4, <2>5 DEF MessagesInv
<1>4. ASSUME NEW w \in Workers, Transmit(w)
      PROVE  /\ MessagesInv'
             /\ \A k \in Keys : stored[k] = "Sent" => stored'[k] = "Sent"
  <2>1. PICK r \in Runs : r = workerRun[w]
    BY <1>0, <1>4, SomeRun DEF Transmit, DoWork, TypeOK
  <2>2. PICK sent \in {0, 1} : /\ outcome'[r] = "Done" => sent = 1
                               /\ wire' = [wire EXCEPT ![runKey[r]] = @ + sent]
    BY <1>4, <2>1 DEF Transmit
  <2>3. /\ DoWork(w) /\ CarriedOn
        /\ \A s \in Runs \ {r} : phase'[s] = phase[s] /\ outcome'[s] = outcome[s]
        /\ UNCHANGED <<shown, stored, rows, requests, replacing>>
    BY <1>0, <1>4, <2>1, WorkerCarriesOn DEF Transmit, DoWork, TypeOK, WorkerStep
  <2>4. PICK k \in Keys : k = runKey[r]
    BY <1>0 DEF TypeOK
  <2>5. wire \in [Keys -> Nat] /\ wire' = [wire EXCEPT ![k] = wire[k] + sent]
    BY <1>0, <2>2, <2>4 DEF ChatTypeOK
  <2>6. /\ wire' \in [Keys -> Nat] /\ \A m \in Keys : wire'[m] >= wire[m]
        /\ sent = 1 => wire'[k] > 0
    BY <2>5
  <2>7. \A s \in Runs : ReturnedDone(s)' => ReturnedDone(s) \/ wire'[runKey[s]] > 0
    BY <2>2, <2>3, <2>4, <2>6 DEF ReturnedDone
  <2> QED BY <1>0, <2>3, <2>6, <2>7, CarryingKeepsMessages
<1>5. CASE CompleteSend
  BY <1>0, <1>5, CompleteKeepsMessages
<1>6. CASE TaskStep \/ StopStep \/ UNCHANGED allVars
  <2>1. CarriedOn /\ \A r \in Runs : ReturnedDone(r)' => ReturnedDone(r)
    BY <1>0, <1>6, TaskStepCarriesOn DEF allVars
  <2>2. UNCHANGED <<shown, stored, rows, wire, requests, replacing>>
    BY <1>6 DEF TaskStep, StopStep, allVars, chatVars
  <2>3. wire' \in [Keys -> Nat] /\ \A m \in Keys : wire'[m] >= wire[m]
    BY <1>0, <2>2 DEF ChatTypeOK
  <2> QED BY <1>0, <2>1, <2>2, <2>3, CarryingKeepsMessages
<1>7. CASE Restart
  <2>1. /\ \A r \in Runs : phase'[r] = "unused"
        /\ \A m \in Keys : shown'[m] = Absent
        /\ replacing' = {} /\ UNCHANGED <<stored, rows, wire, requests>>
    BY <1>7 DEF Restart, ResetTasks
  <2>2. \A r \in Runs : ~Begun(r)' /\ ~ReturnedDone(r)'
    BY <2>1 DEF Begun, ReturnedDone, ReturnedPhases
  <2>3. OneRunPerMessage' /\ UnreportedIsUnsent' /\ ReplacingHaveBegun'
    BY <2>1, <2>2 DEF OneRunPerMessage, UnreportedIsUnsent, ReplacingHaveBegun
  <2>4. UnaskedIsUntouched'
    BY <1>0, <2>1, <2>2 DEF MessagesInv, UnaskedIsUntouched
  <2>5. LinesAreCounted'
    BY <1>0, <2>1 DEF MessagesInv, LinesAreCounted, Absent
  <2>6. DoneReachedTheWire'
    BY <1>0, <2>1, <2>2 DEF MessagesInv, DoneReachedTheWire
  <2> QED BY <2>1, <2>3, <2>4, <2>5, <2>6 DEF MessagesInv
<1> QED
  BY <1>1, <1>2, <1>3, <1>4, <1>5, <1>6, <1>7 DEF ChatNext

LEMMA ChatInvInit == ChatInit => ChatInv
<1> SUFFICES ASSUME ChatInit PROVE ChatInv
  OBVIOUS
<1>1. /\ \A r \in Runs : phase[r] = "unused"
      /\ \A m \in Keys : shown[m] = Absent /\ stored[m] = Absent /\ rows[m] = 0
      /\ replacing = {}
  BY DEF ChatInit, Init
<1>2. \A r \in Runs : ~Begun(r) /\ ~ReturnedDone(r)
  BY <1>1 DEF Begun, ReturnedDone, ReturnedPhases
<1>3. MessagesInv
  BY <1>1, <1>2
  DEF MessagesInv, OneRunPerMessage, UnaskedIsUntouched, LinesAreCounted,
      UnreportedIsUnsent, ReplacingHaveBegun, DoneReachedTheWire, Absent
<1> QED
  BY <1>3, ChatInitTypes DEF ChatInv

\* The invariant of the chat and of the runtime under it.
THEOREM ChatInvariance == ChatSpec => []ChatInv
BY ChatInvInit, MessagesStep, PTL DEF ChatSpec

\* The history holds one line of a message, whatever mix of sends, retries, refused
\* tasks, late completions and restarts wrote it, and the line says Sent only of a
\* message that reached the network.
THEOREM HistoryLinesAreTrue == ChatSpec => []HistoryLineIsTrue
<1>1. ChatInv => HistoryLineIsTrue
  BY DEF ChatInv, MessagesInv, LinesAreCounted, DoneReachedTheWire, HistoryLineIsTrue
<1> QED
  BY ChatInvariance, <1>1, PTL

\* A message that was sent stays Sent: no completion of an earlier attempt and no
\* retry takes it back.
THEOREM SentStaysSent == ChatSpec => SentIsFinal
<1> DEFINE Stays == \A m \in Keys : stored[m] = "Sent" => stored'[m] = "Sent"
<1>1. ChatInv /\ [ChatNext]_allVars => [Stays]_allVars
  BY MessagesStep
<1> QED
  BY ChatInvariance, <1>1, PTL DEF ChatSpec, SentIsFinal

=============================================================================
