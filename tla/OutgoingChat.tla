------------------------------ MODULE OutgoingChat ------------------------------
(***************************************************************************)
(* Sending chat messages: sendMessagePartsToSelectedPeer,                   *)
(* resendSelectedPeerMessage and sendOutgoingMessageRecordToPeer of          *)
(* src/src/main/app_runtime.cpp, composed with the task runtime they run on.  *)
(*                                                                         *)
(* Each message has a task key of its own ("relaydesk.chat.send." + id), so  *)
(* the Keys of AsyncTasks are the messages here.  All of them go to one peer, *)
(* whose chat the user opens and leaves.  The only thread that starts tasks   *)
(* is the UI thread.                                                       *)
(***************************************************************************)
EXTENDS AsyncTasks

CONSTANTS
  Ui,            \* the UI thread, an element of Threads
  MaxRequests,   \* bound on the user's sends and resends of a message
  MaxRestarts    \* bound on restarts of the process

ASSUME UiAssumption == Threads = {Ui}
ASSUME ChatBoundsAssumption == MaxRequests \in Nat /\ MaxRestarts \in Nat

Absent == "absent"
DeliveryStates == {"Pending", "Sent", "Failed"}

VARIABLES
  chatOpen,   \* the peer is the selected one
  shown,      \* delivery state of each message in selectedPeerMessages_
  stored,     \* delivery state of each message in the chat history file
  rows,       \* lines of each message in that file
  wire,       \* copies of each message that reached the network
  requests,   \* how often the user asked to send each message
  replacing,  \* runs started with replaceExistingRecord
  restarts

chatVars == <<chatOpen, shown, stored, rows, wire, requests, replacing,
              restarts>>
allVars == <<vars, chatVars>>

ChatInit ==
  /\ Init
  /\ chatOpen = TRUE
  /\ shown = [m \in Keys |-> Absent]
  /\ stored = [m \in Keys |-> Absent]
  /\ rows = [m \in Keys |-> 0]
  /\ wire = [m \in Keys |-> 0]
  /\ requests = [m \in Keys |-> 0]
  /\ replacing = {}
  /\ restarts = 0

-----------------------------------------------------------------------------
(* The user.                                                               *)

\* The UI thread is neither starting a task nor running completions.
UiFree == starting[Ui] = NoRun /\ callbacks = <<>> /\ ~stopping

\* persistChatMessageRecord: replace the line of the message or append one.
Store(m, state, replace) ==
  /\ stored' = [stored EXCEPT ![m] = state]
  /\ rows' = IF replace /\ rows[m] > 0 THEN rows
                                       ELSE [rows EXCEPT ![m] = @ + 1]

\* sendOutgoingMessageRecordToPeer: a task that is not accepted fails the
\* message at once.
Submit(m, replace) ==
  IF Accepts(m, FALSE)
    THEN /\ BeginTask(Ui, m, FALSE)
         /\ shown' = [shown EXCEPT ![m] = "Pending"]
         /\ IF replace
              THEN /\ Store(m, "Pending", TRUE)
                   /\ replacing' = replacing \union {started + 1}
              ELSE UNCHANGED <<stored, rows, replacing>>
    ELSE /\ shown' = [shown EXCEPT ![m] = "Failed"]
         /\ Store(m, "Failed", replace)
         /\ UNCHANGED <<vars, replacing>>

Request(m) ==
  /\ UiFree
  /\ chatOpen
  /\ requests[m] < MaxRequests
  /\ requests' = [requests EXCEPT ![m] = @ + 1]
  /\ UNCHANGED <<chatOpen, wire, restarts>>

\* sendMessagePartsToSelectedPeer: a new message is shown but not yet stored.
SendMessage(m) ==
  /\ requests[m] = 0
  /\ Request(m)
  /\ Submit(m, FALSE)

\* Mutant of ResendMessage: the retry is stored as a new line.
ResendAppends(m) ==
  /\ shown[m] = "Failed"
  /\ Request(m)
  /\ Submit(m, FALSE)

\* Mutant of ResendMessage: every message may be sent again.
ResendAny(m) ==
  /\ shown[m] # Absent
  /\ Request(m)
  /\ Submit(m, TRUE)

\* resendSelectedPeerMessage
ResendMessage(m) ==
  /\ shown[m] = "Failed"
  /\ Request(m)
  /\ Submit(m, TRUE)

\* setSelectedPeerDeviceId: opening the chat shows what the history holds.
SwitchPeer ==
  /\ UiFree
  /\ chatOpen' = ~chatOpen
  /\ shown' = IF chatOpen THEN [m \in Keys |-> Absent] ELSE stored
  /\ UNCHANGED <<vars, stored, rows, wire, requests, replacing, restarts>>

-----------------------------------------------------------------------------
(* The task of a message and its completion.                               *)

\* The work sends the chat frame, then the frames of its images; when it fails,
\* the chat frame may have been sent all the same.
Transmit(w) ==
  LET r == workerRun[w] IN
  /\ DoWork(w)
  /\ \E sent \in {0, 1} :
       /\ outcome'[r] = "Done" => sent = 1
       /\ wire' = [wire EXCEPT ![runKey[r]] = @ + sent]
  /\ UNCHANGED <<chatOpen, shown, stored, rows, requests, replacing, restarts>>

ResultState(r) == IF outcome[r] = "Done" THEN "Sent" ELSE "Failed"

\* Mutant of CompleteSend: a failed send is only logged.
CompleteSendOk ==
  LET r == Head(callbacks)
      m == runKey[r] IN
  /\ RunCallback
  /\ IF outcome[r] = "Done"
       THEN /\ Store(m, "Sent", r \in replacing)
            /\ shown' = IF shown[m] = Absent THEN shown
                                             ELSE [shown EXCEPT ![m] = "Sent"]
       ELSE UNCHANGED <<stored, rows, shown>>
  /\ UNCHANGED <<chatOpen, wire, requests, replacing, restarts>>

\* The completion stores the message and updates the copy that is shown, if
\* the list still has one (updateSelectedPeerMessageRecord).
CompleteSend ==
  LET r == Head(callbacks)
      m == runKey[r] IN
  /\ RunCallback
  /\ Store(m, ResultState(r), r \in replacing)
  /\ shown' = IF shown[m] = Absent THEN shown
                                   ELSE [shown EXCEPT ![m] = ResultState(r)]
  /\ UNCHANGED <<chatOpen, wire, requests, replacing, restarts>>

\* The steps by which the runtime carries a started task on.
TaskStep ==
  /\ \/ EnqueueWorker(Ui)
     \/ \E w \in Workers : TakeWork(w) \/ CheckToken(w) \/ SampleToken(w)
                           \/ FinishTask(w)
     \/ starting[Ui] = NoRun /\ DispatchReady
  /\ UNCHANGED chatVars

\* The UI loop has ended and the runtime is shut down.
StopStep ==
  /\ starting[Ui] = NoRun
  /\ Shutdown \/ ClearTasks
  /\ UNCHANGED chatVars

\* The process ends, orderly or not, and is started again: only the history
\* file remains.
Restart ==
  /\ restarts < MaxRestarts
  /\ restarts' = restarts + 1
  /\ ResetTasks
  /\ chatOpen' = FALSE
  /\ shown' = [m \in Keys |-> Absent]
  /\ replacing' = {}
  /\ UNCHANGED <<stored, rows, wire, requests>>

-----------------------------------------------------------------------------

ChatNext ==
  \/ \E m \in Keys : SendMessage(m) \/ ResendMessage(m)
  \/ SwitchPeer
  \/ \E w \in Workers : Transmit(w)
  \/ CompleteSend
  \/ TaskStep
  \/ StopStep
  \/ Restart

\* As in AsyncTasks: started work is carried on and the UI loop keeps running.
ChatFairness ==
  /\ WF_allVars(TaskStep)
  /\ \A w \in Workers : WF_allVars(Transmit(w))
  /\ WF_allVars(CompleteSend)

ChatSpec == ChatInit /\ [][ChatNext]_allVars
FairChatSpec == ChatSpec /\ ChatFairness

-----------------------------------------------------------------------------
(* Properties.                                                             *)

ChatTypeOK ==
  /\ TypeOK
  /\ chatOpen \in BOOLEAN
  /\ shown \in [Keys -> DeliveryStates \union {Absent}]
  /\ stored \in [Keys -> DeliveryStates \union {Absent}]
  /\ rows \in [Keys -> Nat]
  /\ wire \in [Keys -> Nat]
  /\ requests \in [Keys -> 0 .. MaxRequests]
  /\ replacing \subseteq Runs
  /\ restarts \in 0 .. MaxRestarts

\* A message has one line in the history, whatever mix of sends, retries,
\* refused tasks, late completions and restarts wrote it: a retry replaces the
\* line, and the one append is never done twice.  And the line never says Sent
\* unless the message did reach the network.
HistoryLineIsTrue ==
  \A m \in Keys : rows[m] <= 1 /\ (stored[m] = "Sent" => wire[m] > 0)

\* A message that was sent stays Sent: no completion of an earlier attempt
\* and no retry takes it back.
SentIsFinal ==
  [][\A m \in Keys : stored[m] = "Sent" => stored'[m] = "Sent"]_allVars

\* A send that was accepted is settled in the history, unless the process ends
\* first, even when the user leaves the chat while it runs.
AcceptedSendIsSettled ==
  \A m \in Keys, n \in 0 .. MaxRestarts :
    (status[m] = "Running" /\ restarts = n)
      ~> (stored[m] \in {"Sent", "Failed"} \/ stopping \/ restarts > n)

\* RelayDesk_Project_Plan.md:658: a message whose sending failed can be sent
\* again.  So a retry starts a new attempt.
RetryStartsAttempt ==
  [][\A m \in Keys :
       (shown[m] = "Failed" /\ requests'[m] > requests[m])
         => started' = started + 1]_allVars

=============================================================================
