------------------------------ MODULE AsyncTasks ------------------------------
(***************************************************************************)
(* The keyed background-task runtime of RelayDesk                          *)
(* (src/src/core/platform/async.{h,cpp}).  Any thread may start a task      *)
(* under a key (runOnce, restart) or cancel the key; a small pool of        *)
(* workers runs the work; the completion `then` of a task is handed back    *)
(* to the UI thread, which runs it in dispatchReady.                        *)
(*                                                                         *)
(* Every accepted start is a "run", numbered in the order of acceptance.    *)
(* Its number names the shared cancel flag the code allocates for it, so    *)
(* the flag of a run is up iff the run is in `raised`.  phase[r] says how   *)
(* far the run has come:                                                    *)
(*                                                                         *)
(*   unused -> begun -> queued -> taken -> working -> returned -> settled   *)
(*          -> ready -> dispatching -> delivered                            *)
(*                                                                         *)
(* or over, when no completion will be run for it.                          *)
(***************************************************************************)
EXTENDS Integers, Sequences

CONSTANTS
  Keys,      \* task keys in use (non-empty strings in the code)
  Threads,   \* threads that call runOnce, restart and cancel
  Workers,   \* worker threads of the pool (1..4 in the code)
  MaxRuns    \* bound on the accepted starts

ASSUME KeysAssumption == Keys # {}
ASSUME MaxRunsAssumption == MaxRuns \in Nat

NoRun == 0
Runs == 1 .. MaxRuns
RunOrNone == Runs \union {NoRun}

Statuses == {"Idle", "Running", "Done", "Failed", "Canceled"}
FinalStatuses == {"Done", "Failed", "Canceled"}
Phases == {"unused", "begun", "queued", "taken", "working", "returned",
           "settled", "ready", "dispatching", "delivered", "over"}

\* Phases in which a run has been accepted and finishTask has not seen it yet.
UnfinishedPhases ==
  {"begun", "queued", "taken", "working", "returned", "settled"}

VARIABLES
  \* gTasks, one field per function; a key that has no entry yet reads as Idle.
  status, generation, cancelFlag,
  raised,        \* runs whose cancel flag is up
  started,       \* number of accepted starts
  phase,         \* phase of each run
  runKey,        \* key of each run
  runGen,        \* generation beginTask gave to each run
  outcome,       \* final status the worker computed for each run
  starting,      \* per thread: the run between beginTask and enqueueWorker
  workerQueue,   \* gWorkerQueue
  workerRun,     \* per worker: the run it executes
  mainQueue,     \* gMainQueue
  callbacks,     \* the local deque of dispatchReady
  stopping       \* gStopping

tableVars == <<status, generation, cancelFlag>>
runVars == <<started, runKey, runGen>>
queueVars == <<workerQueue, mainQueue, callbacks>>
vars == <<status, generation, cancelFlag, raised, started, phase, runKey,
          runGen, outcome, starting, workerQueue, workerRun, mainQueue,
          callbacks, stopping>>

Unfinished(r) == phase[r] \in UnfinishedPhases
Live(r) == Unfinished(r) /\ r \notin raised

-----------------------------------------------------------------------------

Init ==
  /\ status = [k \in Keys |-> "Idle"]
  /\ generation = [k \in Keys |-> 0]
  /\ cancelFlag = [k \in Keys |-> NoRun]
  /\ raised = {}
  /\ started = 0
  /\ phase = [r \in Runs |-> "unused"]
  /\ runKey = [r \in Runs |-> CHOOSE k \in Keys : TRUE]
  /\ runGen = [r \in Runs |-> 0]
  /\ outcome = [r \in Runs |-> "Canceled"]
  /\ starting = [c \in Threads |-> NoRun]
  /\ workerQueue = <<>>
  /\ workerRun = [w \in Workers |-> NoRun]
  /\ mainQueue = <<>>
  /\ callbacks = <<>>
  /\ stopping = FALSE

-----------------------------------------------------------------------------
(* Starting and cancelling a task.                                         *)

\* runOnce is refused unless the key was never used; restart is not.
Accepts(k, restart) == restart \/ status[k] = "Idle"

\* Mutant of Superseded: the flag of the previous run stays down.
SupersededNone(k) == {}

\* The flag a new run of k raises: the one the table still holds for k.
Superseded(k) == {cancelFlag[k]} \ {NoRun}

\* The locked section of beginTask, for an accepted call.
BeginTask(c, k, restart) ==
  LET r == started + 1 IN
  /\ starting[c] = NoRun
  /\ ~stopping
  /\ Accepts(k, restart)
  /\ r \in Runs
  /\ started' = r
  /\ raised' = raised \union Superseded(k)
  /\ status' = [status EXCEPT ![k] = "Running"]
  /\ cancelFlag' = [cancelFlag EXCEPT ![k] = r]
  /\ generation' = [generation EXCEPT ![k] = @ + 1]
  /\ runKey' = [runKey EXCEPT ![r] = k]
  /\ runGen' = [runGen EXCEPT ![r] = generation[k] + 1]
  /\ phase' = [phase EXCEPT ![r] = "begun"]
  /\ starting' = [starting EXCEPT ![c] = r]
  /\ UNCHANGED <<outcome, workerQueue, workerRun, mainQueue, callbacks,
                 stopping>>

\* Mutant of EnqueueWorker: the work is queued after it was moved away.
EnqueueWorkerMoved(c) ==
  LET r == starting[c] IN
  /\ r # NoRun
  /\ starting' = [starting EXCEPT ![c] = NoRun]
  /\ IF stopping
       THEN /\ phase' = [phase EXCEPT ![r] = "over"]
            /\ UNCHANGED workerQueue
       ELSE /\ phase' = [phase EXCEPT ![r] = "queued"]
            /\ workerQueue' = Append(workerQueue, NoRun)
  /\ UNCHANGED <<tableVars, raised, runVars, outcome, workerRun, mainQueue,
                 callbacks, stopping>>

\* The locked section of enqueueWorker; a shutdown in between drops the work.
EnqueueWorker(c) ==
  LET r == starting[c] IN
  /\ r # NoRun
  /\ starting' = [starting EXCEPT ![c] = NoRun]
  /\ IF stopping
       THEN /\ phase' = [phase EXCEPT ![r] = "over"]
            /\ UNCHANGED workerQueue
       ELSE /\ phase' = [phase EXCEPT ![r] = "queued"]
            /\ workerQueue' = Append(workerQueue, r)
  /\ UNCHANGED <<tableVars, raised, runVars, outcome, workerRun, mainQueue,
                 callbacks, stopping>>

\* cancel: raise the flag and, for a running task, disown the run at once.
Cancel(c, k) ==
  /\ starting[c] = NoRun
  /\ status[k] = "Running"
  /\ raised' = raised \union Superseded(k)
  /\ status' = [status EXCEPT ![k] = "Canceled"]
  /\ generation' = [generation EXCEPT ![k] = @ + 1]
  /\ cancelFlag' = [cancelFlag EXCEPT ![k] = NoRun]
  /\ UNCHANGED <<runVars, phase, outcome, starting, queueVars, workerRun,
                 stopping>>

-----------------------------------------------------------------------------
(* A worker thread.                                                        *)

\* workerLoop takes the front of the queue.
TakeWork(w) ==
  /\ workerRun[w] = NoRun
  /\ workerQueue # <<>>
  /\ workerRun' = [workerRun EXCEPT ![w] = Head(workerQueue)]
  /\ workerQueue' = Tail(workerQueue)
  /\ phase' = [phase EXCEPT ![Head(workerQueue)] = "taken"]
  /\ UNCHANGED <<tableVars, raised, runVars, outcome, starting, mainQueue,
                 callbacks, stopping>>

\* Mutant of CheckToken: a cancelled run is not finished.
CheckTokenDrops(w) ==
  LET r == workerRun[w] IN
  /\ r # NoRun
  /\ phase[r] = "taken"
  /\ r \notin raised
  /\ phase' = [phase EXCEPT ![r] = "working"]
  /\ UNCHANGED <<tableVars, raised, runVars, outcome, starting, queueVars,
                 workerRun, stopping>>

\* The token is read once before the work: a cancelled run goes straight to
\* finishTask with no completion.
CheckToken(w) ==
  LET r == workerRun[w] IN
  /\ r # NoRun
  /\ phase[r] = "taken"
  /\ IF r \in raised
       THEN /\ phase' = [phase EXCEPT ![r] = "settled"]
            /\ outcome' = [outcome EXCEPT ![r] = "Canceled"]
       ELSE /\ phase' = [phase EXCEPT ![r] = "working"]
            /\ UNCHANGED outcome
  /\ UNCHANGED <<tableVars, raised, runVars, starting, queueVars, workerRun,
                 stopping>>

\* The work itself: it returns a result, ok or not (an exception is an error).
DoWork(w) ==
  LET r == workerRun[w] IN
  /\ r # NoRun
  /\ phase[r] = "working"
  /\ phase' = [phase EXCEPT ![r] = "returned"]
  /\ \E result \in {"Done", "Failed"} :
        outcome' = [outcome EXCEPT ![r] = result]
  /\ UNCHANGED <<tableVars, raised, runVars, starting, queueVars, workerRun,
                 stopping>>

\* The token is read again after the work.
SampleToken(w) ==
  LET r == workerRun[w] IN
  /\ r # NoRun
  /\ phase[r] = "returned"
  /\ phase' = [phase EXCEPT ![r] = "settled"]
  /\ outcome' = IF r \in raised THEN [outcome EXCEPT ![r] = "Canceled"]
                                ELSE outcome
  /\ UNCHANGED <<tableVars, raised, runVars, starting, queueVars, workerRun,
                 stopping>>

\* Mutant of OwnsKey: the generation is not compared.
OwnsKeyAlways(r) == ~stopping

\* finishTask ignores a run that was superseded, cancelled or outlived by the
\* runtime: the generation in the table is no longer the run's.
OwnsKey(r) == ~stopping /\ generation[runKey[r]] = runGen[r]

\* What finishTask records: a flag raised since the sampling still wins.
FinishedStatus(r) ==
  IF cancelFlag[runKey[r]] \in raised THEN "Canceled" ELSE outcome[r]

\* The locked section of finishTask; the worker is then free.
FinishTask(w) ==
  LET r == workerRun[w]
      k == runKey[r] IN
  /\ r # NoRun
  /\ phase[r] = "settled"
  /\ workerRun' = [workerRun EXCEPT ![w] = NoRun]
  /\ IF OwnsKey(r)
       THEN /\ status' = [status EXCEPT ![k] = FinishedStatus(r)]
            /\ cancelFlag' = [cancelFlag EXCEPT ![k] = NoRun]
            /\ IF FinishedStatus(r) # "Canceled"
                 THEN /\ mainQueue' = Append(mainQueue, r)
                      /\ phase' = [phase EXCEPT ![r] = "ready"]
                 ELSE /\ phase' = [phase EXCEPT ![r] = "over"]
                      /\ UNCHANGED mainQueue
       ELSE /\ phase' = [phase EXCEPT ![r] = "over"]
            /\ UNCHANGED <<status, cancelFlag, mainQueue>>
  /\ UNCHANGED <<generation, raised, runVars, outcome, starting, workerQueue,
                 callbacks, stopping>>

-----------------------------------------------------------------------------
(* The UI thread.                                                          *)

\* dispatchReady swaps the whole queue out under the lock ...
DispatchReady ==
  /\ callbacks = <<>>
  /\ mainQueue # <<>>
  /\ callbacks' = mainQueue
  /\ mainQueue' = <<>>
  /\ phase' = [r \in Runs |->
                 IF phase[r] = "ready" THEN "dispatching" ELSE phase[r]]
  /\ UNCHANGED <<tableVars, raised, runVars, outcome, starting, workerQueue,
                 workerRun, stopping>>

\* ... and runs the callbacks one by one without it; nothing is checked again.
RunCallback ==
  /\ callbacks # <<>>
  /\ callbacks' = Tail(callbacks)
  /\ phase' = [phase EXCEPT ![Head(callbacks)] = "delivered"]
  /\ UNCHANGED <<tableVars, raised, runVars, outcome, starting, workerQueue,
                 workerRun, mainQueue, stopping>>

\* The first locked section of shutdown, called after the UI loop has ended.
Shutdown ==
  /\ ~stopping
  /\ callbacks = <<>>
  /\ stopping' = TRUE
  /\ raised' = raised \union UNION {Superseded(k) : k \in Keys}
  /\ workerQueue' = <<>>
  /\ mainQueue' = <<>>
  /\ phase' = [r \in Runs |->
                 IF phase[r] \in {"queued", "ready"} THEN "over" ELSE phase[r]]
  /\ UNCHANGED <<tableVars, runVars, outcome, starting, workerRun, callbacks>>

\* Its last section, after the workers have been joined, forgets every task.
ClearTasks ==
  /\ stopping
  /\ \A w \in Workers : workerRun[w] = NoRun
  /\ \E k \in Keys : status[k] # "Idle"
  /\ status' = [k \in Keys |-> "Idle"]
  /\ generation' = [k \in Keys |-> 0]
  /\ cancelFlag' = [k \in Keys |-> NoRun]
  /\ UNCHANGED <<raised, runVars, phase, outcome, starting, queueVars,
                 workerRun, stopping>>

\* A new process knows nothing of the tasks of the previous one.  (For the
\* modules that extend this one and let the process end at any point.)
ResetTasks ==
  /\ status' = [k \in Keys |-> "Idle"]
  /\ generation' = [k \in Keys |-> 0]
  /\ cancelFlag' = [k \in Keys |-> NoRun]
  /\ raised' = {}
  /\ started' = 0
  /\ phase' = [r \in Runs |-> "unused"]
  /\ starting' = [c \in Threads |-> NoRun]
  /\ workerQueue' = <<>>
  /\ workerRun' = [w \in Workers |-> NoRun]
  /\ mainQueue' = <<>>
  /\ callbacks' = <<>>
  /\ stopping' = FALSE
  /\ UNCHANGED <<runKey, runGen, outcome>>

-----------------------------------------------------------------------------

WorkerStep(w) ==
  \/ TakeWork(w)
  \/ CheckToken(w)
  \/ DoWork(w)
  \/ SampleToken(w)
  \/ FinishTask(w)

Next ==
  \/ \E c \in Threads, k \in Keys :
        \/ \E restart \in BOOLEAN : BeginTask(c, k, restart)
        \/ Cancel(c, k)
  \/ \E c \in Threads : EnqueueWorker(c)
  \/ \E w \in Workers : WorkerStep(w)
  \/ DispatchReady
  \/ RunCallback
  \/ Shutdown
  \/ ClearTasks

\* A thread that has begun a task goes on to enqueue it, workers keep working,
\* work returns, and the UI loop calls dispatchReady on every frame.
Fairness ==
  /\ \A c \in Threads : WF_vars(EnqueueWorker(c))
  /\ \A w \in Workers : WF_vars(WorkerStep(w))
  /\ WF_vars(DispatchReady)
  /\ WF_vars(RunCallback)

Spec == Init /\ [][Next]_vars
FairSpec == Spec /\ Fairness

-----------------------------------------------------------------------------
(* Properties.                                                             *)

TypeOK ==
  /\ status \in [Keys -> Statuses]
  /\ generation \in [Keys -> Nat]
  /\ cancelFlag \in [Keys -> RunOrNone]
  /\ raised \subseteq Runs
  /\ started \in 0 .. MaxRuns
  /\ phase \in [Runs -> Phases]
  /\ runKey \in [Runs -> Keys]
  /\ runGen \in [Runs -> Nat]
  /\ outcome \in [Runs -> FinalStatuses]
  /\ starting \in [Threads -> RunOrNone]
  /\ workerQueue \in Seq(Runs)
  /\ workerRun \in [Workers -> RunOrNone]
  /\ mainQueue \in Seq(Runs)
  /\ callbacks \in Seq(Runs)
  /\ stopping \in BOOLEAN

\* Work of one key may overlap in time (a superseded run keeps executing until
\* it looks at its token), but at most one execution of a key is told to go
\* on: every other unfinished one has its cancel flag up.  The transfer code
\* relies on it when it restarts a send while the previous one still streams.
OneLiveRunPerKey ==
  \A r, s \in Runs :
     (Live(r) /\ Live(s) /\ runKey[r] = runKey[s]) => r = s

\* async::running(key), which decides whether an outgoing transfer counts as
\* active (isTransferActive), is true exactly while a live run of the key
\* exists: no lost finish leaves a key Running forever, and no late finish of
\* an old run hides one that still executes.
RunningIffLive ==
  ~stopping =>
    \A k \in Keys :
      status[k] = "Running" <=> \E r \in Runs : Live(r) /\ runKey[r] = k

\* A run that was cancelled or superseded before it finished never gets its
\* completion queued, wherever between the two token reads and finishTask the
\* cancel fell.
CancelledNeverCompletes ==
  [][\A r \in Runs :
       (Unfinished(r) /\ r \in raised) => phase'[r] # "ready"]_vars

\* Completions of one key reach the UI thread in the order of the starts: once
\* a newer run's completion has run, no older one is still to come.  A
\* transfer's completion writes the state of its message, so an old result
\* must not overwrite a newer one.
CompletionsInOrder ==
  \A r, s \in Runs :
     (/\ runKey[r] = runKey[s]
      /\ r < s
      /\ phase[s] = "delivered")
        => phase[r] \notin {"ready", "dispatching"}

\* Every queued run is eventually over or its completion has run, however it
\* is cancelled, superseded or shut down on the way.
QueuedRunEnds ==
  \A r \in Runs :
     phase[r] = "queued" ~> phase[r] \in {"over", "delivered"}

=============================================================================
