--------------------------- MODULE AsyncTasks_proofs ---------------------------
(***************************************************************************)
(* Proofs about the task runtime: type correctness, at most one live run    *)
(* per key, Running exactly while a live run exists, and no completion for  *)
(* a cancelled run, for any number of keys, threads, workers and starts.    *)
(***************************************************************************)
EXTENDS AsyncTasks, TLAPS

LEMMA TypeCorrectInit == Init => TypeOK
<1> SUFFICES ASSUME Init PROVE TypeOK
  OBVIOUS
<1>1. (CHOOSE k \in Keys : TRUE) \in Keys
  BY KeysAssumption
<1>2. runKey \in [Runs -> Keys]
  BY <1>1 DEF Init
<1>3. started \in 0 .. MaxRuns
  BY MaxRunsAssumption DEF Init
<1>4. /\ status \in [Keys -> Statuses]
      /\ generation \in [Keys -> Nat]
      /\ cancelFlag \in [Keys -> RunOrNone]
  BY DEF Init, Statuses, RunOrNone, NoRun
<1>5. /\ phase \in [Runs -> Phases]
      /\ outcome \in [Runs -> FinalStatuses]
      /\ runGen \in [Runs -> Nat]
  BY DEF Init, Phases, FinalStatuses
<1>6. /\ starting \in [Threads -> RunOrNone]
      /\ workerRun \in [Workers -> RunOrNone]
  BY DEF Init, RunOrNone, NoRun
<1>7. <<>> \in Seq(Runs)
  OBVIOUS
<1>8. /\ workerQueue \in Seq(Runs)
      /\ mainQueue \in Seq(Runs)
      /\ callbacks \in Seq(Runs)
  BY <1>7 DEF Init
<1>9. raised \subseteq Runs /\ stopping \in BOOLEAN
  BY DEF Init
<1> QED
  BY <1>2, <1>3, <1>4, <1>5, <1>6, <1>8, <1>9 DEF TypeOK

(* A variable of type RunOrNone that is not NoRun holds a run.              *)
LEMMA SomeRun == \A r \in RunOrNone : r # NoRun => r \in Runs
BY DEF RunOrNone

(* FinishTask records a final status.                                       *)
LEMMA FinishedStatusType ==
  ASSUME TypeOK, NEW r \in Runs
  PROVE  FinishedStatus(r) \in FinalStatuses
<1>1. outcome[r] \in FinalStatuses
  BY DEF TypeOK
<1> QED
  BY <1>1 DEF FinishedStatus, FinalStatuses

LEMMA TypeCorrectStep == TypeOK /\ [Next]_vars => TypeOK'
<1> SUFFICES ASSUME TypeOK, [Next]_vars PROVE TypeOK'
  OBVIOUS
<1> USE DEF tableVars, runVars, queueVars
<1>1. ASSUME NEW c \in Threads, NEW k \in Keys, NEW b \in BOOLEAN,
             BeginTask(c, k, b)
      PROVE TypeOK'
  <2>1. started + 1 \in Runs /\ generation[k] + 1 \in Nat
    BY <1>1 DEF BeginTask, TypeOK
  <2>2. started' \in 0 .. MaxRuns
    BY <1>1, <2>1, MaxRunsAssumption DEF BeginTask, Runs
  <2>3. raised' \subseteq Runs
    BY <1>1 DEF BeginTask, Superseded, TypeOK, RunOrNone
  <2>4. /\ status' \in [Keys -> Statuses]
        /\ cancelFlag' \in [Keys -> RunOrNone]
        /\ generation' \in [Keys -> Nat]
    BY <1>1, <2>1 DEF BeginTask, TypeOK, Statuses, RunOrNone
  <2>5. /\ runKey' \in [Runs -> Keys]
        /\ runGen' \in [Runs -> Nat]
        /\ phase' \in [Runs -> Phases]
        /\ starting' \in [Threads -> RunOrNone]
    BY <1>1, <2>1 DEF BeginTask, TypeOK, Phases, RunOrNone
  <2> QED
    BY <1>1, <2>2, <2>3, <2>4, <2>5 DEF BeginTask, TypeOK
<1>2. ASSUME NEW c \in Threads, NEW k \in Keys, Cancel(c, k)
      PROVE TypeOK'
  <2>1. raised' \subseteq Runs
    BY <1>2 DEF Cancel, Superseded, TypeOK, RunOrNone
  <2>2. /\ status' \in [Keys -> Statuses]
        /\ cancelFlag' \in [Keys -> RunOrNone]
        /\ generation' \in [Keys -> Nat]
    BY <1>2 DEF Cancel, TypeOK, Statuses, RunOrNone, NoRun
  <2> QED
    BY <1>2, <2>1, <2>2 DEF Cancel, TypeOK
<1>3. ASSUME NEW c \in Threads, EnqueueWorker(c)
      PROVE TypeOK'
  <2>1. starting[c] \in Runs
    BY <1>3, SomeRun DEF EnqueueWorker, TypeOK
  <2>2. workerQueue' \in Seq(Runs)
    <3>1. Append(workerQueue, starting[c]) \in Seq(Runs)
      BY <2>1 DEF TypeOK
    <3> QED
      BY <1>3, <3>1 DEF EnqueueWorker, TypeOK
  <2>3. /\ phase' \in [Runs -> Phases]
        /\ starting' \in [Threads -> RunOrNone]
    BY <1>3, <2>1 DEF EnqueueWorker, TypeOK, Phases, RunOrNone
  <2> QED
    BY <1>3, <2>2, <2>3 DEF EnqueueWorker, TypeOK
<1>4. ASSUME NEW w \in Workers, TakeWork(w)
      PROVE TypeOK'
  <2>1. Head(workerQueue) \in Runs /\ Tail(workerQueue) \in Seq(Runs)
    BY <1>4 DEF TakeWork, TypeOK
  <2>2. /\ phase' \in [Runs -> Phases]
        /\ workerRun' \in [Workers -> RunOrNone]
    BY <1>4, <2>1 DEF TakeWork, TypeOK, Phases, RunOrNone
  <2> QED
    BY <1>4, <2>1, <2>2 DEF TakeWork, TypeOK
<1>5. ASSUME NEW w \in Workers, CheckToken(w)
      PROVE TypeOK'
  <2>1. /\ phase' \in [Runs -> Phases]
        /\ outcome' \in [Runs -> FinalStatuses]
    BY <1>5 DEF CheckToken, TypeOK, Phases, FinalStatuses
  <2> QED
    BY <1>5, <2>1 DEF CheckToken, TypeOK
<1>6. ASSUME NEW w \in Workers, DoWork(w)
      PROVE TypeOK'
  <2>1. /\ phase' \in [Runs -> Phases]
        /\ outcome' \in [Runs -> FinalStatuses]
    BY <1>6 DEF DoWork, TypeOK, Phases, FinalStatuses
  <2> QED
    BY <1>6, <2>1 DEF DoWork, TypeOK
<1>7. ASSUME NEW w \in Workers, SampleToken(w)
      PROVE TypeOK'
  <2>1. /\ phase' \in [Runs -> Phases]
        /\ outcome' \in [Runs -> FinalStatuses]
    BY <1>7 DEF SampleToken, TypeOK, Phases, FinalStatuses
  <2> QED
    BY <1>7, <2>1 DEF SampleToken, TypeOK
<1>8. ASSUME NEW w \in Workers, FinishTask(w)
      PROVE TypeOK'
  <2> DEFINE r == workerRun[w]
  <2>1. r \in Runs
    BY <1>8, SomeRun DEF FinishTask, TypeOK
  <2>2. FinishedStatus(r) \in Statuses
    BY <2>1, FinishedStatusType DEF FinalStatuses, Statuses
  <2>3. /\ status' \in [Keys -> Statuses]
        /\ cancelFlag' \in [Keys -> RunOrNone]
        /\ phase' \in [Runs -> Phases]
        /\ workerRun' \in [Workers -> RunOrNone]
    BY <1>8, <2>1, <2>2 DEF FinishTask, TypeOK, RunOrNone, Phases
  <2>4. mainQueue' \in Seq(Runs)
    <3>1. Append(mainQueue, r) \in Seq(Runs)
      BY <2>1 DEF TypeOK
    <3> QED
      BY <1>8, <3>1 DEF FinishTask, TypeOK
  <2> QED
    BY <1>8, <2>3, <2>4 DEF FinishTask, TypeOK
<1>9. CASE DispatchReady
  <2>1. phase' \in [Runs -> Phases]
    BY <1>9 DEF DispatchReady, TypeOK, Phases
  <2> QED
    BY <1>9, <2>1 DEF DispatchReady, TypeOK
<1>10. CASE RunCallback
  <2>1. phase' \in [Runs -> Phases]
    BY <1>10 DEF RunCallback, TypeOK, Phases
  <2>2. callbacks' \in Seq(Runs)
    BY <1>10 DEF RunCallback, TypeOK
  <2> QED
    BY <1>10, <2>1, <2>2 DEF RunCallback, TypeOK
<1>11. CASE Shutdown
  <2>1. phase' \in [Runs -> Phases]
    BY <1>11 DEF Shutdown, TypeOK, Phases
  <2>2. raised' \subseteq Runs
    BY <1>11 DEF Shutdown, Superseded, TypeOK, RunOrNone
  <2> QED
    BY <1>11, <2>1, <2>2 DEF Shutdown, TypeOK
<1>12. CASE ClearTasks
  <2>1. /\ status' \in [Keys -> Statuses]
        /\ cancelFlag' \in [Keys -> RunOrNone]
        /\ generation' \in [Keys -> Nat]
    BY <1>12 DEF ClearTasks, Statuses, RunOrNone
  <2> QED
    BY <1>12, <2>1 DEF ClearTasks, TypeOK
<1>13. CASE UNCHANGED vars
  BY <1>13 DEF vars, TypeOK
<1> QED
  BY <1>1, <1>2, <1>3, <1>4, <1>5, <1>6, <1>7, <1>8, <1>9, <1>10, <1>11,
     <1>12, <1>13
  DEF Next, WorkerStep

(* The state of the runtime is well typed in every reachable state.         *)
THEOREM TypeCorrect == Spec => []TypeOK
BY TypeCorrectInit, TypeCorrectStep, PTL DEF Spec
-----------------------------------------------------------------------------
(* The inductive invariant.                                                *)

\* Run numbers are handed out in order, and only to accepted starts.
RunsAreNumbered ==
  /\ \A r \in Runs : phase[r] = "unused" <=> r > started
  /\ \A r \in raised : r <= started
  /\ \A k \in Keys : cancelFlag[k] <= started

\* A live run is the one its key's table entry describes.
LiveRunOwnsKey ==
  \A r \in Runs :
    Live(r) => /\ ~stopping
               /\ status[runKey[r]] = "Running"
               /\ cancelFlag[runKey[r]] = r
               /\ generation[runKey[r]] = runGen[r]

\* A Running entry points at the flag of a live run of its key.
RunningKeyHasRun ==
  ~stopping => \A k \in Keys :
    status[k] = "Running" => /\ cancelFlag[k] \in Runs
                             /\ Live(cancelFlag[k])
                             /\ runKey[cancelFlag[k]] = k

\* Only a Running entry holds a flag.
FlagMeansRunning ==
  \A k \in Keys : cancelFlag[k] # NoRun => status[k] = "Running"

\* An unfinished run whose flag is up lost its key: the generation moved on.
RaisedRunIsDisowned ==
  ~stopping => \A r \in Runs :
    (Unfinished(r) /\ r \in raised) => runGen[r] < generation[runKey[r]]

\* Where a run is kept agrees with its phase, and it is kept there once.
Finished(r) == phase[r] \in {"ready", "dispatching", "delivered", "over"}
QueuesMatchPhases ==
  /\ \A c \in Threads : starting[c] # NoRun => phase[starting[c]] = "begun"
  /\ \A c, d \in Threads :
       (starting[c] = starting[d] /\ starting[c] # NoRun) => c = d
  /\ \A i \in 1 .. Len(workerQueue) : phase[workerQueue[i]] = "queued"
  /\ \A i, j \in 1 .. Len(workerQueue) :
       workerQueue[i] = workerQueue[j] => i = j
  /\ \A i \in 1 .. Len(mainQueue) : Finished(mainQueue[i])
  /\ \A i \in 1 .. Len(callbacks) : Finished(callbacks[i])

Inv ==
  /\ TypeOK
  /\ RunsAreNumbered
  /\ LiveRunOwnsKey
  /\ RunningKeyHasRun
  /\ FlagMeansRunning
  /\ RaisedRunIsDisowned
  /\ QueuesMatchPhases

\* The part of the invariant that relates the table, the flags and the phases.
TableInv ==
  /\ RunsAreNumbered
  /\ LiveRunOwnsKey
  /\ RunningKeyHasRun
  /\ FlagMeansRunning
  /\ RaisedRunIsDisowned

LEMMA InvInit == Init => Inv
<1> SUFFICES ASSUME Init PROVE Inv
  OBVIOUS
<1>1. TypeOK
  BY TypeCorrectInit
<1>2. \A r \in Runs : phase[r] = "unused" /\ ~Unfinished(r) /\ ~Live(r)
  BY DEF Init, Live, Unfinished, UnfinishedPhases
<1>3. \A k \in Keys : status[k] = "Idle" /\ cancelFlag[k] = NoRun
  BY DEF Init
<1>4. RunsAreNumbered
  BY <1>2, <1>3 DEF Init, RunsAreNumbered, Runs, NoRun
<1>5. /\ LiveRunOwnsKey /\ RunningKeyHasRun
      /\ FlagMeansRunning /\ RaisedRunIsDisowned
  BY <1>2, <1>3
  DEF LiveRunOwnsKey, RunningKeyHasRun, FlagMeansRunning, RaisedRunIsDisowned
<1>6. QueuesMatchPhases
  <2>1. /\ Len(workerQueue) = 0 /\ Len(mainQueue) = 0 /\ Len(callbacks) = 0
        /\ \A c \in Threads : starting[c] = NoRun
    BY DEF Init
  <2> QED
    BY <2>1 DEF QueuesMatchPhases
<1> QED
  BY <1>1, <1>4, <1>5, <1>6 DEF Inv

(* A step that moves runs through their phases and neither touches the table *)
(* nor finishes a live run keeps the table's part of the invariant.          *)
LEMMA QuietStep ==
  ASSUME Inv,
         UNCHANGED <<status, generation, cancelFlag, raised, started, runKey,
                     runGen, stopping>>,
         \A r \in Runs : phase'[r] = "unused" <=> phase[r] = "unused",
         \A r \in Runs : phase'[r] \in UnfinishedPhases => Unfinished(r),
         \A r \in Runs : Live(r) => phase'[r] \in UnfinishedPhases
  PROVE  TableInv'
<1>1. \A r \in Runs : Live(r)' <=> Live(r)
  BY DEF Live, Unfinished
<1>2. RunsAreNumbered'
  BY DEF Inv, RunsAreNumbered
<1>3. LiveRunOwnsKey'
  BY <1>1 DEF Inv, LiveRunOwnsKey
<1>4. RunningKeyHasRun'
  BY <1>1 DEF Inv, RunningKeyHasRun
<1>5. FlagMeansRunning'
  BY DEF Inv, FlagMeansRunning
<1>6. RaisedRunIsDisowned'
  BY DEF Inv, RaisedRunIsDisowned, Unfinished
<1> QED
  BY <1>2, <1>3, <1>4, <1>5, <1>6 DEF TableInv

(* Starting a run supersedes the live run of the key, and only that one.    *)
LEMMA BeginTaskTable ==
  ASSUME Inv, TypeOK', NEW c \in Threads, NEW k \in Keys, NEW b \in BOOLEAN,
         BeginTask(c, k, b)
  PROVE  TableInv'
<1>0. PICK new \in Runs : new = started + 1
  BY DEF BeginTask
<1>1. /\ started \in Nat /\ started' = new /\ new \in Nat /\ new > 0
      /\ phase[new] = "unused" /\ new \notin raised
  BY <1>0, MaxRunsAssumption
  DEF BeginTask, Inv, TypeOK, RunsAreNumbered, Runs
<1>2. /\ phase'[new] = "begun" /\ runKey'[new] = k
      /\ runGen'[new] = generation[k] + 1
      /\ generation'[k] = generation[k] + 1 /\ generation[k] \in Nat
      /\ status'[k] = "Running" /\ cancelFlag'[k] = new
      /\ ~stopping /\ ~stopping'
  BY <1>0, <1>1 DEF BeginTask, Inv, TypeOK
<1>3. \A r \in Runs \ {new} : /\ phase'[r] = phase[r]
                              /\ runKey'[r] = runKey[r]
                              /\ runGen'[r] = runGen[r]
  BY <1>0 DEF BeginTask, Inv, TypeOK
<1>4. \A j \in Keys \ {k} : /\ status'[j] = status[j]
                            /\ generation'[j] = generation[j]
                            /\ cancelFlag'[j] = cancelFlag[j]
  BY DEF BeginTask, Inv, TypeOK
<1>5. raised' = raised \union ({cancelFlag[k]} \ {NoRun})
  BY DEF BeginTask, Superseded
<1>6. cancelFlag[k] # NoRun => /\ Live(cancelFlag[k])
                               /\ runKey[cancelFlag[k]] = k
                               /\ cancelFlag[k] \in Runs
                               /\ cancelFlag[k] # new
  <2> SUFFICES ASSUME cancelFlag[k] # NoRun
               PROVE  /\ Live(cancelFlag[k])
                      /\ runKey[cancelFlag[k]] = k
                      /\ cancelFlag[k] \in Runs
                      /\ cancelFlag[k] # new
    OBVIOUS
  <2>1. status[k] = "Running"
    BY DEF Inv, FlagMeansRunning
  <2>2. /\ Live(cancelFlag[k])
        /\ runKey[cancelFlag[k]] = k
        /\ cancelFlag[k] \in Runs
    BY <2>1, <1>2 DEF Inv, RunningKeyHasRun
  <2>3. phase[cancelFlag[k]] # "unused"
    BY <2>2 DEF Live, Unfinished, UnfinishedPhases
  <2> QED
    BY <2>2, <2>3, <1>1
<1>7. Live(new)' /\ new \notin raised'
  BY <1>1, <1>2, <1>5, <1>6 DEF Live, Unfinished, UnfinishedPhases, NoRun
<1>8. \A r \in Runs \ {new} : Live(r)' => Live(r) /\ runKey[r] # k
  BY <1>3, <1>5 DEF Live, Unfinished, Inv, LiveRunOwnsKey, NoRun, Runs
<1>9. \A r \in Runs : Unfinished(r) => r # new
  BY <1>1 DEF Unfinished, UnfinishedPhases
<1>10. RunsAreNumbered'
  <2>1. \A r \in Runs : phase'[r] = "unused" <=> r > started'
    <3> SUFFICES ASSUME NEW r \in Runs
                 PROVE  phase'[r] = "unused" <=> r > started'
      OBVIOUS
    <3>1. r \in Int
      BY DEF Runs
    <3>2. CASE r = new
      BY <3>1, <3>2, <1>1, <1>2
    <3>3. CASE r # new
      BY <3>1, <3>3, <1>0, <1>1, <1>3 DEF Inv, RunsAreNumbered
    <3> QED
      BY <3>2, <3>3
  <2>2. \A r \in raised' : r <= started'
    <3>1. cancelFlag[k] <= started
      BY DEF Inv, RunsAreNumbered
    <3>2. raised \subseteq Nat
      BY MaxRunsAssumption DEF Inv, TypeOK, Runs
    <3>3. cancelFlag[k] \in Nat
      BY <1>6, MaxRunsAssumption DEF NoRun, Runs
    <3>4. \A r \in raised : r <= started
      BY DEF Inv, RunsAreNumbered
    <3> QED
      BY <1>0, <1>1, <1>5, <3>1, <3>2, <3>3, <3>4
  <2>3. \A j \in Keys : cancelFlag'[j] <= started'
    <3>1. \A j \in Keys : cancelFlag[j] \in Int /\ cancelFlag[j] <= started
      BY DEF Inv, TypeOK, RunOrNone, Runs, NoRun, RunsAreNumbered
    <3> QED
      BY <3>1, <1>0, <1>1, <1>2, <1>4
  <2> QED
    BY <2>1, <2>2, <2>3 DEF RunsAreNumbered
<1>11. LiveRunOwnsKey'
  <2> SUFFICES ASSUME NEW r \in Runs, Live(r)'
               PROVE  /\ ~stopping'
                      /\ status'[runKey'[r]] = "Running"
                      /\ cancelFlag'[runKey'[r]] = r
                      /\ generation'[runKey'[r]] = runGen'[r]
    BY DEF LiveRunOwnsKey
  <2>1. CASE r = new
    BY <2>1, <1>2
  <2>2. CASE r # new
    <3>1. Live(r) /\ runKey[r] # k /\ runKey[r] \in Keys
      BY <2>2, <1>8 DEF Inv, TypeOK
    <3> QED
      BY <2>2, <3>1, <1>2, <1>3, <1>4 DEF Inv, LiveRunOwnsKey
  <2> QED
    BY <2>1, <2>2
<1>12. RunningKeyHasRun'
  <2> SUFFICES ASSUME NEW j \in Keys, status'[j] = "Running"
               PROVE  /\ cancelFlag'[j] \in Runs
                      /\ Live(cancelFlag[j])'
                      /\ runKey'[cancelFlag'[j]] = j
    BY DEF RunningKeyHasRun
  <2>1. CASE j = k
    BY <2>1, <1>1, <1>2, <1>7
  <2>2. CASE j # k
    <3> DEFINE old == cancelFlag[j]
    <3>1. old \in Runs /\ Live(old) /\ runKey[old] = j
      BY <2>2, <1>2, <1>4 DEF Inv, RunningKeyHasRun
    <3>2. old # new
      BY <3>1, <1>9 DEF Live
    <3>3. old \notin {cancelFlag[k]} \ {NoRun}
      BY <3>1, <2>2, <1>6
    <3>4. Live(cancelFlag[j])'
      BY <3>1, <3>2, <3>3, <2>2, <1>3, <1>4, <1>5 DEF Live, Unfinished
    <3> QED
      BY <3>1, <3>2, <3>4, <2>2, <1>3, <1>4
  <2> QED
    BY <2>1, <2>2
<1>13. FlagMeansRunning'
  BY <1>2, <1>4 DEF Inv, FlagMeansRunning
<1>14. RaisedRunIsDisowned'
  <2> SUFFICES ASSUME NEW r \in Runs, Unfinished(r)', r \in raised'
               PROVE  runGen'[r] < generation'[runKey'[r]]
    BY DEF RaisedRunIsDisowned
  <2>1. r # new
    BY <1>7 DEF Live
  <2>2. Unfinished(r) /\ runKey[r] \in Keys /\ runGen[r] \in Nat
        /\ generation[runKey[r]] \in Nat
    BY <2>1, <1>3 DEF Unfinished, Inv, TypeOK
  <2>3. runGen[r] <= generation[runKey[r]]
    BY <2>2, <1>2 DEF Inv, RaisedRunIsDisowned, LiveRunOwnsKey, Live
  <2>4. r \in raised => runGen[r] < generation[runKey[r]]
    BY <2>2, <1>2 DEF Inv, RaisedRunIsDisowned
  <2>5. r \notin raised => runKey[r] = k
    <3> SUFFICES ASSUME r \notin raised PROVE runKey[r] = k
      OBVIOUS
    <3>1. r = cancelFlag[k] /\ r # NoRun
      BY <1>5
    <3> QED
      BY <3>1, <1>6
  <2> QED
    BY <2>1, <2>2, <2>3, <2>4, <2>5, <1>2, <1>3, <1>4
<1> QED
  BY <1>10, <1>11, <1>12, <1>13, <1>14 DEF TableInv

(* Cancelling a running task raises the flag of its live run and disowns it. *)
LEMMA CancelTable ==
  ASSUME Inv, TypeOK', NEW c \in Threads, NEW k \in Keys, Cancel(c, k)
  PROVE  TableInv'
<1>1. /\ status[k] = "Running" /\ status'[k] = "Canceled"
      /\ cancelFlag'[k] = NoRun
      /\ generation'[k] = generation[k] + 1 /\ generation[k] \in Nat
      /\ UNCHANGED <<started, phase, runKey, runGen, stopping>>
  BY DEF Cancel, Inv, TypeOK, runVars
<1>2. \A j \in Keys \ {k} : /\ status'[j] = status[j]
                            /\ generation'[j] = generation[j]
                            /\ cancelFlag'[j] = cancelFlag[j]
  BY DEF Cancel, Inv, TypeOK
<1>3. raised' = raised \union ({cancelFlag[k]} \ {NoRun})
  BY DEF Cancel, Superseded
<1>4. ~stopping => /\ cancelFlag[k] \in Runs
                   /\ Live(cancelFlag[k])
                   /\ runKey[cancelFlag[k]] = k
  BY <1>1 DEF Inv, RunningKeyHasRun
<1>5. \A r \in Runs : Live(r)' => Live(r) /\ runKey[r] # k
  <2> SUFFICES ASSUME NEW r \in Runs, Live(r)'
               PROVE  Live(r) /\ runKey[r] # k
    OBVIOUS
  <2>1. Live(r) /\ r # NoRun
    BY <1>1, <1>3 DEF Live, Unfinished, NoRun, Runs
  <2>2. r # cancelFlag[k]
    BY <2>1, <1>3 DEF Live
  <2> QED
    BY <2>1, <2>2 DEF Inv, LiveRunOwnsKey
<1>6. RunsAreNumbered'
  <2>1. cancelFlag[k] # NoRun => cancelFlag[k] \in Runs
    BY DEF Inv, TypeOK, RunOrNone
  <2>2. cancelFlag[k] # NoRun => cancelFlag[k] <= started
    BY <2>1 DEF Inv, RunsAreNumbered
  <2>3. \A r \in raised' : r <= started'
    BY <2>2, <1>1, <1>3 DEF Inv, RunsAreNumbered
  <2>4. \A j \in Keys : cancelFlag'[j] <= started'
    <3>1. started' = started /\ NoRun <= started
      BY <1>1, MaxRunsAssumption DEF Inv, TypeOK, NoRun
    <3>2. \A j \in Keys : cancelFlag[j] <= started
      BY DEF Inv, RunsAreNumbered
    <3> QED
      BY <3>1, <3>2, <1>1, <1>2
  <2> QED
    BY <2>3, <2>4, <1>1 DEF Inv, RunsAreNumbered
<1>7. LiveRunOwnsKey'
  BY <1>1, <1>2, <1>5 DEF Inv, TypeOK, LiveRunOwnsKey
<1>8. RunningKeyHasRun'
  <2> SUFFICES ASSUME ~stopping, NEW j \in Keys, status'[j] = "Running"
               PROVE  /\ cancelFlag'[j] \in Runs
                      /\ Live(cancelFlag[j])'
                      /\ runKey'[cancelFlag'[j]] = j
    BY <1>1 DEF RunningKeyHasRun
  <2>1. j # k
    BY <1>1
  <2>2. cancelFlag[j] \in Runs /\ Live(cancelFlag[j])
        /\ runKey[cancelFlag[j]] = j
    BY <2>1, <1>2 DEF Inv, RunningKeyHasRun
  <2>3. cancelFlag[j] # cancelFlag[k]
    BY <2>1, <2>2, <1>4
  <2> QED
    BY <2>1, <2>2, <2>3, <1>1, <1>2, <1>3 DEF Live, Unfinished
<1>9. FlagMeansRunning'
  BY <1>1, <1>2 DEF Inv, FlagMeansRunning
<1>10. RaisedRunIsDisowned'
  <2> SUFFICES ASSUME ~stopping, NEW r \in Runs, Unfinished(r), r \in raised'
               PROVE  runGen[r] < generation'[runKey[r]]
    BY <1>1 DEF RaisedRunIsDisowned, Unfinished
  <2>1. /\ runKey[r] \in Keys /\ runGen[r] \in Nat
        /\ generation[runKey[r]] \in Nat
    BY DEF Inv, TypeOK
  <2>2. CASE r \in raised
    <3>1. runGen[r] < generation[runKey[r]]
      BY <2>2 DEF Inv, RaisedRunIsDisowned
    <3> QED
      BY <3>1, <2>1, <1>1, <1>2
  <2>3. CASE r = cancelFlag[k]
    <3>1. runKey[r] = k /\ generation[k] = runGen[r]
      BY <2>3, <1>4 DEF Inv, LiveRunOwnsKey
    <3> QED
      BY <3>1, <1>1
  <2> QED
    BY <2>2, <2>3, <1>3
<1> QED
  BY <1>6, <1>7, <1>8, <1>9, <1>10 DEF TableInv

(* finishTask either closes the live run of the key or changes no entry.    *)
LEMMA FinishTaskTable ==
  ASSUME Inv, TypeOK', NEW w \in Workers, FinishTask(w)
  PROVE  TableInv'
<1>0. PICK r \in Runs : r = workerRun[w] /\ phase[r] = "settled"
  BY SomeRun DEF FinishTask, Inv, TypeOK
<1>1. /\ UNCHANGED <<generation, raised, started, runKey, runGen, stopping>>
      /\ runKey[r] \in Keys
      /\ phase'[r] \in {"ready", "over"}
      /\ \A s \in Runs \ {r} : phase'[s] = phase[s]
  BY <1>0 DEF FinishTask, Inv, TypeOK, runVars
<1>2. Unfinished(r) /\ ~Unfinished(r)' /\ ~Live(r)'
  BY <1>0, <1>1 DEF Unfinished, UnfinishedPhases, Live
<1>3. CASE ~OwnsKey(r)
  <2>1. UNCHANGED <<status, cancelFlag>>
    BY <1>0, <1>3 DEF FinishTask
  <2>2. ~Live(r)
    BY <1>3 DEF Inv, LiveRunOwnsKey, OwnsKey
  <2>3. \A s \in Runs : phase'[s] = "unused" <=> phase[s] = "unused"
    BY <1>0, <1>1
  <2>4. \A s \in Runs : phase'[s] \in UnfinishedPhases => Unfinished(s)
    BY <1>1, <1>2 DEF Unfinished
  <2>5. \A s \in Runs : Live(s) => phase'[s] \in UnfinishedPhases
    BY <1>1, <2>2 DEF Live, Unfinished
  <2> QED
    BY <1>1, <2>1, <2>3, <2>4, <2>5, QuietStep
<1>4. CASE OwnsKey(r)
  <2>1. ~stopping /\ r \notin raised /\ Live(r)
    BY <1>2, <1>4
    DEF OwnsKey, Inv, TypeOK, RaisedRunIsDisowned, Live
  <2>2. cancelFlag[runKey[r]] = r
    BY <2>1 DEF Inv, LiveRunOwnsKey
  <2>3. FinishedStatus(r) # "Running"
    <3>1. outcome[r] \in FinalStatuses
      BY DEF Inv, TypeOK
    <3> QED
      BY <3>1 DEF FinishedStatus, FinalStatuses
  <2>4. /\ status'[runKey[r]] # "Running" /\ cancelFlag'[runKey[r]] = NoRun
        /\ \A j \in Keys \ {runKey[r]} : /\ status'[j] = status[j]
                                         /\ cancelFlag'[j] = cancelFlag[j]
    BY <1>0, <1>1, <1>4, <2>3 DEF FinishTask, Inv, TypeOK
  <2>5. \A s \in Runs : Live(s)' => Live(s) /\ runKey[s] # runKey[r]
    <3> SUFFICES ASSUME NEW s \in Runs, Live(s)'
                 PROVE  Live(s) /\ runKey[s] # runKey[r]
      OBVIOUS
    <3>1. Live(s) /\ s # r
      BY <1>1, <1>2 DEF Live, Unfinished
    <3> QED
      BY <3>1, <2>2 DEF Inv, LiveRunOwnsKey
  <2>6. RunsAreNumbered'
    <3>1. NoRun <= started
      BY MaxRunsAssumption DEF Inv, TypeOK, NoRun
    <3>2. \A j \in Keys : cancelFlag'[j] <= started
      BY <3>1, <2>4 DEF Inv, RunsAreNumbered
    <3>3. \A s \in Runs : phase'[s] = "unused" <=> phase[s] = "unused"
      BY <1>0, <1>1
    <3> QED
      BY <3>2, <3>3, <1>1 DEF Inv, RunsAreNumbered
  <2>7. LiveRunOwnsKey'
    BY <1>1, <2>4, <2>5 DEF Inv, TypeOK, LiveRunOwnsKey
  <2>8. RunningKeyHasRun'
    <3> SUFFICES ASSUME NEW j \in Keys, status'[j] = "Running"
                 PROVE  /\ cancelFlag'[j] \in Runs
                        /\ Live(cancelFlag[j])'
                        /\ runKey'[cancelFlag'[j]] = j
      BY DEF RunningKeyHasRun
    <3>1. j # runKey[r]
      BY <2>4
    <3>2. cancelFlag[j] \in Runs /\ Live(cancelFlag[j])
          /\ runKey[cancelFlag[j]] = j
      BY <3>1, <2>1, <2>4 DEF Inv, RunningKeyHasRun
    <3>3. cancelFlag[j] # r
      BY <3>1, <3>2
    <3> QED
      BY <3>1, <3>2, <3>3, <1>1, <2>4 DEF Live, Unfinished
  <2>9. FlagMeansRunning'
    BY <2>4 DEF Inv, FlagMeansRunning
  <2>10. RaisedRunIsDisowned'
    BY <1>1, <1>2 DEF Inv, RaisedRunIsDisowned, Unfinished
  <2> QED
    BY <2>6, <2>7, <2>8, <2>9, <2>10 DEF TableInv
<1> QED
  BY <1>3, <1>4

(* Shutdown raises every flag, so no live run is left.                      *)
LEMMA ShutdownTable ==
  ASSUME Inv, TypeOK', Shutdown
  PROVE  TableInv'
<1>1. /\ stopping'
      /\ UNCHANGED <<status, generation, cancelFlag, started, runKey, runGen>>
  BY DEF Shutdown, tableVars, runVars
<1>2. raised' = raised \union UNION {Superseded(k) : k \in Keys}
  BY DEF Shutdown
<1>3. \A r \in Runs : Unfinished(r)' => Unfinished(r)
  BY DEF Shutdown, Unfinished, UnfinishedPhases
<1>4. \A r \in Runs : phase'[r] = "unused" <=> phase[r] = "unused"
  BY DEF Shutdown
<1>5. \A r \in Runs : ~Live(r)'
  <2> SUFFICES ASSUME NEW r \in Runs, Live(r)' PROVE FALSE
    OBVIOUS
  <2>1. Live(r) /\ runKey[r] \in Keys /\ r # NoRun
    <3>1. Unfinished(r) /\ r \notin raised
      BY <1>2, <1>3 DEF Live
    <3>2. runKey[r] \in Keys
      BY DEF Inv, TypeOK
    <3> QED
      BY <3>1, <3>2 DEF Live, Runs, NoRun
  <2>2. r \in Superseded(runKey[r])
    BY <2>1 DEF Inv, LiveRunOwnsKey, Superseded
  <2> QED
    BY <2>1, <2>2, <1>2 DEF Live
<1>6. RunsAreNumbered'
  <2>1. \A r \in raised' : r <= started
    BY <1>2 DEF Superseded, Inv, RunsAreNumbered
  <2> QED
    BY <2>1, <1>1, <1>4 DEF Inv, RunsAreNumbered
<1>7. FlagMeansRunning'
  BY <1>1 DEF Inv, FlagMeansRunning
<1> QED
  BY <1>1, <1>5, <1>6, <1>7
  DEF TableInv, LiveRunOwnsKey, RunningKeyHasRun, RaisedRunIsDisowned

(* Once stopping, every run is raised or finished; clearing the table is     *)
(* then harmless.                                                            *)
LEMMA ClearTasksTable ==
  ASSUME Inv, TypeOK', ClearTasks
  PROVE  TableInv'
<1>1. /\ stopping /\ stopping'
      /\ UNCHANGED <<raised, started, runKey, runGen, phase>>
      /\ \A k \in Keys : cancelFlag'[k] = NoRun
  BY DEF ClearTasks, runVars
<1>2. \A r \in Runs : ~Live(r)'
  BY <1>1 DEF Inv, LiveRunOwnsKey, Live, Unfinished
<1>3. RunsAreNumbered'
  <2>1. NoRun <= started
    BY MaxRunsAssumption DEF Inv, TypeOK, NoRun
  <2> QED
    BY <2>1, <1>1 DEF Inv, RunsAreNumbered
<1>4. FlagMeansRunning'
  BY <1>1 DEF FlagMeansRunning
<1> QED
  BY <1>1, <1>2, <1>3, <1>4
  DEF TableInv, LiveRunOwnsKey, RunningKeyHasRun, RaisedRunIsDisowned

LEMMA TableStep == Inv /\ [Next]_vars => TableInv'
<1> SUFFICES ASSUME Inv, [Next]_vars PROVE TableInv'
  OBVIOUS
<1>0. TypeOK'
  BY TypeCorrectStep DEF Inv
<1>1. ASSUME NEW c \in Threads, NEW k \in Keys, NEW b \in BOOLEAN,
             BeginTask(c, k, b)
      PROVE TableInv'
  BY <1>0, <1>1, BeginTaskTable
<1>2. ASSUME NEW c \in Threads, NEW k \in Keys, Cancel(c, k)
      PROVE TableInv'
  BY <1>0, <1>2, CancelTable
<1>3. ASSUME NEW c \in Threads, EnqueueWorker(c)
      PROVE TableInv'
  <2>0. PICK r \in Runs : r = starting[c] /\ phase[r] = "begun"
    BY <1>3, SomeRun DEF EnqueueWorker, Inv, TypeOK, QueuesMatchPhases
  <2>1. /\ UNCHANGED <<status, generation, cancelFlag, raised, started,
                       runKey, runGen, stopping>>
        /\ \A s \in Runs \ {r} : phase'[s] = phase[s]
        /\ phase'[r] = IF stopping THEN "over" ELSE "queued"
    BY <1>3, <2>0 DEF EnqueueWorker, Inv, TypeOK, tableVars, runVars
  <2>2. stopping => ~Live(r)
    BY DEF Inv, LiveRunOwnsKey
  <2>3. \A s \in Runs : phase'[s] = "unused" <=> phase[s] = "unused"
    BY <2>0, <2>1
  <2>4. \A s \in Runs : phase'[s] \in UnfinishedPhases => Unfinished(s)
    BY <2>0, <2>1 DEF Unfinished, UnfinishedPhases
  <2>5. \A s \in Runs : Live(s) => phase'[s] \in UnfinishedPhases
    BY <2>0, <2>1, <2>2 DEF Live, Unfinished, UnfinishedPhases
  <2> QED
    BY <2>1, <2>3, <2>4, <2>5, QuietStep
<1>4. ASSUME NEW w \in Workers,
             TakeWork(w) \/ CheckToken(w) \/ DoWork(w) \/ SampleToken(w)
      PROVE TableInv'
  <2>0. UNCHANGED <<status, generation, cancelFlag, raised, started,
                    runKey, runGen, stopping>>
    BY <1>4 DEF TakeWork, CheckToken, DoWork, SampleToken, tableVars, runVars
  <2>1. \E r \in Runs : /\ Unfinished(r)
                        /\ phase'[r] \in UnfinishedPhases
                        /\ \A s \in Runs \ {r} : phase'[s] = phase[s]
    <3>1. CASE TakeWork(w)
      <4>1. Head(workerQueue) \in Runs /\ phase[Head(workerQueue)] = "queued"
        BY <3>1 DEF TakeWork, Inv, TypeOK, QueuesMatchPhases
      <4> QED
        BY <3>1, <4>1
        DEF TakeWork, Inv, TypeOK, Unfinished, UnfinishedPhases
    <3>2. CASE CheckToken(w)
      BY <3>2, SomeRun
      DEF CheckToken, Inv, TypeOK, Unfinished, UnfinishedPhases
    <3>3. CASE DoWork(w)
      BY <3>3, SomeRun
      DEF DoWork, Inv, TypeOK, Unfinished, UnfinishedPhases
    <3>4. CASE SampleToken(w)
      BY <3>4, SomeRun
      DEF SampleToken, Inv, TypeOK, Unfinished, UnfinishedPhases
    <3> QED
      BY <1>4, <3>1, <3>2, <3>3, <3>4
  <2>2. \A s \in Runs : phase'[s] = "unused" <=> phase[s] = "unused"
    BY <2>1 DEF Unfinished, UnfinishedPhases
  <2>3. \A s \in Runs : phase'[s] \in UnfinishedPhases <=> Unfinished(s)
    BY <2>1 DEF Unfinished
  <2> QED
    BY <2>0, <2>2, <2>3, QuietStep DEF Live
<1>5. ASSUME NEW w \in Workers, FinishTask(w)
      PROVE TableInv'
  BY <1>0, <1>5, FinishTaskTable
<1>6. CASE DispatchReady
  BY <1>6, QuietStep
  DEF DispatchReady, Inv, TypeOK, Live, Unfinished, UnfinishedPhases,
      tableVars, runVars
<1>7. CASE RunCallback
  <2>1. Head(callbacks) \in Runs /\ Finished(Head(callbacks))
    BY <1>7 DEF RunCallback, Inv, TypeOK, QueuesMatchPhases
  <2>2. \A s \in Runs : phase'[s] = "unused" <=> phase[s] = "unused"
    BY <1>7, <2>1 DEF RunCallback, Inv, TypeOK, Finished
  <2>3. \A s \in Runs : phase'[s] \in UnfinishedPhases <=> Unfinished(s)
    BY <1>7, <2>1
    DEF RunCallback, Inv, TypeOK, Finished, Unfinished, UnfinishedPhases
  <2> QED
    BY <1>7, <2>2, <2>3, QuietStep DEF RunCallback, Live, tableVars, runVars
<1>8. CASE Shutdown
  BY <1>0, <1>8, ShutdownTable
<1>9. CASE ClearTasks
  BY <1>0, <1>9, ClearTasksTable
<1>10. CASE UNCHANGED vars
  BY <1>10, QuietStep DEF vars, Live, Unfinished
<1> QED
  BY <1>1, <1>2, <1>3, <1>4, <1>5, <1>6, <1>7, <1>8, <1>9, <1>10
  DEF Next, WorkerStep

(* What the queue operations do to the elements of a sequence.              *)
LEMMA SeqElements ==
  ASSUME NEW S, NEW q \in Seq(S)
  PROVE  Len(q) \in Nat /\ \A i \in 1 .. Len(q) : q[i] \in S
OBVIOUS

LEMMA SeqTail ==
  ASSUME NEW S, NEW q \in Seq(S), q # <<>>
  PROVE  /\ Head(q) = q[1] /\ 1 \in 1 .. Len(q)
         /\ Len(Tail(q)) = Len(q) - 1
         /\ \A i \in 1 .. Len(Tail(q)) : /\ Tail(q)[i] = q[i + 1]
                                         /\ i + 1 \in 1 .. Len(q)
OBVIOUS

LEMMA SeqAppend ==
  ASSUME NEW S, NEW q \in Seq(S), NEW e \in S
  PROVE  /\ Len(Append(q, e)) = Len(q) + 1
         /\ Append(q, e)[Len(q) + 1] = e
         /\ \A i \in 1 .. Len(q) : Append(q, e)[i] = q[i]
OBVIOUS

(* Threads and queues hold runs.                                            *)
LEMMA QueuesHoldRuns ==
  ASSUME TypeOK
  PROVE  /\ \A d \in Threads : starting[d] # NoRun => starting[d] \in Runs
         /\ \A i \in 1 .. Len(workerQueue) : workerQueue[i] \in Runs
         /\ \A i \in 1 .. Len(mainQueue) : mainQueue[i] \in Runs
         /\ \A i \in 1 .. Len(callbacks) : callbacks[i] \in Runs
         /\ Len(workerQueue) \in Nat
         /\ Len(mainQueue) \in Nat
         /\ Len(callbacks) \in Nat
<1>1. \A d \in Threads : starting[d] \in RunOrNone
  BY DEF TypeOK
<1> QED
  BY <1>1, SomeRun, SeqElements DEF TypeOK

(* A run in some phase is in none of the places kept for another phase.     *)
LEMMA KeptElsewhere ==
  ASSUME TypeOK, QueuesMatchPhases, NEW r \in Runs
  PROVE  /\ phase[r] # "begun" =>
              \A d \in Threads : starting[d] # NoRun => starting[d] # r
         /\ phase[r] # "queued" =>
              \A i \in 1 .. Len(workerQueue) : workerQueue[i] # r
         /\ ~Finished(r) =>
              /\ \A i \in 1 .. Len(mainQueue) : mainQueue[i] # r
              /\ \A i \in 1 .. Len(callbacks) : callbacks[i] # r
BY DEF QueuesMatchPhases

LEMMA QueuesStep == Inv /\ [Next]_vars => QueuesMatchPhases'
<1> SUFFICES ASSUME Inv, [Next]_vars PROVE QueuesMatchPhases'
  OBVIOUS
<1>0. TypeOK /\ TypeOK' /\ QueuesMatchPhases
  BY TypeCorrectStep DEF Inv
<1> USE DEF queueVars
<1>1. ASSUME NEW c \in Threads, NEW k \in Keys, NEW b \in BOOLEAN,
             BeginTask(c, k, b)
      PROVE QueuesMatchPhases'
  <2>0. PICK new \in Runs : new = started + 1 /\ phase[new] = "unused"
    BY <1>1 DEF BeginTask, Inv, TypeOK, RunsAreNumbered
  <2>1. /\ phase'[new] = "begun"
        /\ \A r \in Runs \ {new} : phase'[r] = phase[r]
        /\ starting[c] = NoRun /\ starting'[c] = new
        /\ \A d \in Threads \ {c} : starting'[d] = starting[d]
        /\ UNCHANGED <<workerQueue, mainQueue, callbacks>>
    BY <1>0, <1>1, <2>0 DEF BeginTask, TypeOK
  <2>2. \A d \in Threads : starting[d] # new
    BY <1>0, <2>0 DEF QueuesMatchPhases, NoRun, Runs
  <2>3. /\ \A d \in Threads : starting[d] # NoRun => starting[d] \in Runs
        /\ \A i \in 1 .. Len(workerQueue) : workerQueue[i] \in Runs \ {new}
        /\ \A i \in 1 .. Len(mainQueue) : mainQueue[i] \in Runs \ {new}
        /\ \A i \in 1 .. Len(callbacks) : callbacks[i] \in Runs \ {new}
    BY <1>0, <2>0, QueuesHoldRuns, KeptElsewhere DEF Finished
  <2>4. \A d \in Threads :
          starting'[d] # NoRun => phase'[starting'[d]] = "begun"
    BY <1>0, <2>1, <2>2, <2>3 DEF QueuesMatchPhases
  <2>5. \A d, e \in Threads :
          (starting'[d] = starting'[e] /\ starting'[d] # NoRun) => d = e
    BY <1>0, <2>1, <2>2 DEF QueuesMatchPhases
  <2>6. \A i \in 1 .. Len(workerQueue') : phase'[workerQueue'[i]] = "queued"
    BY <1>0, <2>0, <2>1, <2>3 DEF QueuesMatchPhases
  <2>7. /\ \A i \in 1 .. Len(mainQueue') : Finished(mainQueue[i])'
        /\ \A i \in 1 .. Len(callbacks') : Finished(callbacks[i])'
    BY <1>0, <2>0, <2>1, <2>3 DEF QueuesMatchPhases, Finished
  <2> QED
    BY <1>0, <2>1, <2>4, <2>5, <2>6, <2>7 DEF QueuesMatchPhases
<1>2. ASSUME NEW c \in Threads, NEW k \in Keys, Cancel(c, k)
      PROVE QueuesMatchPhases'
  BY <1>0, <1>2 DEF Cancel, QueuesMatchPhases, Finished
<1>3. ASSUME NEW c \in Threads, EnqueueWorker(c)
      PROVE QueuesMatchPhases'
  <2>0. PICK r \in Runs : r = starting[c] /\ phase[r] = "begun"
    BY <1>0, <1>3, SomeRun DEF EnqueueWorker, TypeOK, QueuesMatchPhases
  <2>1. /\ phase'[r] = IF stopping THEN "over" ELSE "queued"
        /\ \A s \in Runs \ {r} : phase'[s] = phase[s]
        /\ starting'[c] = NoRun /\ r # NoRun
        /\ \A d \in Threads \ {c} : starting'[d] = starting[d]
        /\ UNCHANGED <<mainQueue, callbacks>>
        /\ workerQueue' = IF stopping THEN workerQueue
                                      ELSE Append(workerQueue, r)
    BY <1>0, <1>3, <2>0 DEF EnqueueWorker, TypeOK
  <2>2. \A d \in Threads \ {c} : starting[d] # r
    BY <1>0, <2>0, <2>1 DEF QueuesMatchPhases
  <2>3. /\ \A d \in Threads : starting[d] # NoRun => starting[d] \in Runs
        /\ workerQueue \in Seq(Runs)
        /\ \A i \in 1 .. Len(workerQueue) : workerQueue[i] \in Runs \ {r}
        /\ \A i \in 1 .. Len(mainQueue) : mainQueue[i] \in Runs \ {r}
        /\ \A i \in 1 .. Len(callbacks) : callbacks[i] \in Runs \ {r}
    BY <1>0, <2>0, QueuesHoldRuns, KeptElsewhere DEF TypeOK, Finished
  <2>4. /\ \A d \in Threads :
             starting'[d] # NoRun => phase'[starting'[d]] = "begun"
        /\ \A d, e \in Threads :
             (starting'[d] = starting'[e] /\ starting'[d] # NoRun) => d = e
    BY <1>0, <2>1, <2>2, <2>3 DEF QueuesMatchPhases
  <2>5. /\ \A i \in 1 .. Len(mainQueue') : Finished(mainQueue[i])'
        /\ \A i \in 1 .. Len(callbacks') : Finished(callbacks[i])'
    BY <1>0, <2>1, <2>3 DEF QueuesMatchPhases, Finished
  <2>6. /\ \A i \in 1 .. Len(workerQueue') :
             phase'[workerQueue'[i]] = "queued"
        /\ \A i, j \in 1 .. Len(workerQueue') :
             workerQueue'[i] = workerQueue'[j] => i = j
    <3>1. CASE stopping
      BY <1>0, <2>1, <2>3, <3>1 DEF QueuesMatchPhases
    <3>2. CASE ~stopping
      <4>1. /\ workerQueue' = Append(workerQueue, r) /\ phase'[r] = "queued"
            /\ Len(workerQueue') = Len(workerQueue) + 1
            /\ Len(workerQueue) \in Nat
            /\ workerQueue'[Len(workerQueue) + 1] = r
            /\ \A i \in 1 .. Len(workerQueue) :
                 workerQueue'[i] = workerQueue[i]
        BY <2>1, <2>3, <3>2, SeqAppend
      <4> QED
        BY <1>0, <2>1, <2>3, <4>1 DEF QueuesMatchPhases
    <3> QED
      BY <3>1, <3>2
  <2> QED
    BY <2>4, <2>5, <2>6 DEF QueuesMatchPhases
<1>4. ASSUME NEW w \in Workers, TakeWork(w)
      PROVE QueuesMatchPhases'
  <2>0. PICK r \in Runs : r = Head(workerQueue) /\ phase[r] = "queued"
    BY <1>0, <1>4, SeqTail, QueuesHoldRuns
    DEF TakeWork, TypeOK, QueuesMatchPhases
  <2>1. /\ phase'[r] = "taken"
        /\ \A s \in Runs \ {r} : phase'[s] = phase[s]
        /\ UNCHANGED <<starting, mainQueue, callbacks>>
    BY <1>0, <1>4, <2>0 DEF TakeWork, TypeOK
  <2>2. /\ workerQueue \in Seq(Runs) /\ workerQueue # <<>>
        /\ workerQueue' = Tail(workerQueue)
        /\ Len(workerQueue) \in Nat
        /\ Len(workerQueue') = Len(workerQueue) - 1
        /\ workerQueue[1] = r
        /\ \A i \in 1 .. Len(workerQueue') :
             /\ workerQueue'[i] = workerQueue[i + 1]
             /\ i + 1 \in 1 .. Len(workerQueue)
    BY <1>0, <1>4, <2>0, SeqTail, SeqElements DEF TakeWork, TypeOK
  <2>3. \A i \in 1 .. Len(workerQueue') : workerQueue'[i] \in Runs \ {r}
    <3> SUFFICES ASSUME NEW i \in 1 .. Len(workerQueue')
                 PROVE  workerQueue[i + 1] \in Runs \ {r}
      BY <2>2
    <3>1. i + 1 # 1 /\ i + 1 \in 1 .. Len(workerQueue)
          /\ 1 \in 1 .. Len(workerQueue)
      BY <2>2
    <3>2. workerQueue[i + 1] # workerQueue[1]
      BY <1>0, <3>1 DEF QueuesMatchPhases
    <3> QED
      BY <1>0, <2>2, <3>1, <3>2, QueuesHoldRuns
  <2>4. /\ \A i \in 1 .. Len(workerQueue') :
             phase'[workerQueue'[i]] = "queued"
        /\ \A i, j \in 1 .. Len(workerQueue') :
             workerQueue'[i] = workerQueue'[j] => i = j
    BY <1>0, <2>1, <2>2, <2>3 DEF QueuesMatchPhases
  <2>5. /\ \A d \in Threads : starting[d] # NoRun => starting[d] \in Runs \ {r}
        /\ \A i \in 1 .. Len(mainQueue) : mainQueue[i] \in Runs \ {r}
        /\ \A i \in 1 .. Len(callbacks) : callbacks[i] \in Runs \ {r}
    BY <1>0, <2>0, QueuesHoldRuns, KeptElsewhere DEF Finished
  <2> QED
    BY <1>0, <2>1, <2>4, <2>5 DEF QueuesMatchPhases, Finished
<1>5. ASSUME NEW w \in Workers,
             CheckToken(w) \/ DoWork(w) \/ SampleToken(w) \/ FinishTask(w)
      PROVE QueuesMatchPhases'
  <2>0. PICK r \in Runs :
          /\ phase[r] \in {"taken", "working", "returned", "settled"}
          /\ \A s \in Runs \ {r} : phase'[s] = phase[s]
          /\ UNCHANGED <<starting, workerQueue, callbacks>>
          /\ \/ UNCHANGED mainQueue
             \/ mainQueue' = Append(mainQueue, r) /\ phase'[r] = "ready"
    <3>1. CASE CheckToken(w)
      BY <1>0, <3>1, SomeRun DEF CheckToken, TypeOK
    <3>2. CASE DoWork(w)
      BY <1>0, <3>2, SomeRun DEF DoWork, TypeOK
    <3>3. CASE SampleToken(w)
      BY <1>0, <3>3, SomeRun DEF SampleToken, TypeOK
    <3>4. CASE FinishTask(w)
      <4>1. workerRun[w] \in Runs /\ phase[workerRun[w]] = "settled"
        BY <1>0, <3>4, SomeRun DEF FinishTask, TypeOK
      <4>2. \A s \in Runs \ {workerRun[w]} : phase'[s] = phase[s]
        BY <1>0, <3>4, <4>1 DEF FinishTask, TypeOK
      <4>3. UNCHANGED <<starting, workerQueue, callbacks>>
        BY <3>4 DEF FinishTask
      <4>4. \/ UNCHANGED mainQueue
            \/ /\ mainQueue' = Append(mainQueue, workerRun[w])
               /\ phase'[workerRun[w]] = "ready"
        BY <1>0, <3>4, <4>1 DEF FinishTask, TypeOK
      <4> QED
        BY <4>1, <4>2, <4>3, <4>4
    <3> QED
      BY <1>5, <3>1, <3>2, <3>3, <3>4
  <2>1. /\ \A d \in Threads : starting[d] # NoRun => starting[d] \in Runs \ {r}
        /\ \A i \in 1 .. Len(workerQueue) : workerQueue[i] \in Runs \ {r}
        /\ \A i \in 1 .. Len(mainQueue) : mainQueue[i] \in Runs \ {r}
        /\ \A i \in 1 .. Len(callbacks) : callbacks[i] \in Runs \ {r}
    BY <1>0, <2>0, QueuesHoldRuns, KeptElsewhere DEF Finished
  <2>2. \A i \in 1 .. Len(mainQueue') : Finished(mainQueue[i])'
    <3>1. CASE UNCHANGED mainQueue
      BY <1>0, <2>0, <2>1, <3>1 DEF QueuesMatchPhases, Finished
    <3>2. CASE mainQueue' = Append(mainQueue, r) /\ phase'[r] = "ready"
      <4>1. /\ Len(mainQueue') = Len(mainQueue) + 1 /\ Len(mainQueue) \in Nat
            /\ mainQueue'[Len(mainQueue) + 1] = r
            /\ \A i \in 1 .. Len(mainQueue) : mainQueue'[i] = mainQueue[i]
        BY <1>0, <3>2, SeqAppend, SeqElements DEF TypeOK
      <4> QED
        BY <1>0, <2>0, <2>1, <3>2, <4>1 DEF QueuesMatchPhases, Finished
    <3> QED
      BY <2>0, <3>1, <3>2
  <2> QED
    BY <1>0, <2>0, <2>1, <2>2 DEF QueuesMatchPhases, Finished
<1>6. CASE DispatchReady
  <2>1. /\ \A r \in Runs : /\ phase[r] # "ready" => phase'[r] = phase[r]
                           /\ Finished(r) => Finished(r)'
        /\ UNCHANGED <<starting, workerQueue>>
        /\ callbacks' = mainQueue /\ mainQueue' = <<>>
    BY <1>0, <1>6 DEF DispatchReady, Finished
  <2>2. /\ \A d \in Threads : starting[d] # NoRun => starting[d] \in Runs
        /\ \A i \in 1 .. Len(workerQueue) : workerQueue[i] \in Runs
        /\ \A i \in 1 .. Len(mainQueue) : mainQueue[i] \in Runs
        /\ Len(mainQueue') = 0
    BY <1>0, <2>1, QueuesHoldRuns
  <2> QED
    BY <1>0, <2>1, <2>2 DEF QueuesMatchPhases
<1>7. CASE RunCallback
  <2>0. PICK r \in Runs : r = Head(callbacks) /\ Finished(r)
    BY <1>0, <1>7, SeqTail, QueuesHoldRuns
    DEF RunCallback, TypeOK, QueuesMatchPhases
  <2>1. /\ phase'[r] = "delivered"
        /\ \A s \in Runs \ {r} : phase'[s] = phase[s]
        /\ UNCHANGED <<starting, workerQueue, mainQueue>>
    BY <1>0, <1>7, <2>0 DEF RunCallback, TypeOK
  <2>2. /\ Len(callbacks) \in Nat
        /\ Len(callbacks') = Len(callbacks) - 1
        /\ \A i \in 1 .. Len(callbacks') :
             callbacks'[i] = callbacks[i + 1] /\ i + 1 \in 1 .. Len(callbacks)
    BY <1>0, <1>7, SeqTail, SeqElements DEF RunCallback, TypeOK
  <2>3. /\ \A d \in Threads : starting[d] # NoRun => starting[d] \in Runs \ {r}
        /\ \A i \in 1 .. Len(workerQueue) : workerQueue[i] \in Runs \ {r}
        /\ \A i \in 1 .. Len(mainQueue) : mainQueue[i] \in Runs
        /\ \A i \in 1 .. Len(callbacks) : callbacks[i] \in Runs
    BY <1>0, <2>0, QueuesHoldRuns, KeptElsewhere DEF Finished
  <2>4. \A i \in 1 .. Len(callbacks') : Finished(callbacks[i])'
    BY <1>0, <2>1, <2>2, <2>3 DEF QueuesMatchPhases, Finished
  <2> QED
    BY <1>0, <2>1, <2>3, <2>4 DEF QueuesMatchPhases, Finished
<1>8. CASE Shutdown
  <2>1. /\ \A r \in Runs : /\ phase[r] = "begun" => phase'[r] = "begun"
                           /\ Finished(r) => Finished(r)'
        /\ UNCHANGED starting
        /\ workerQueue' = <<>> /\ mainQueue' = <<>> /\ callbacks' = <<>>
    BY <1>0, <1>8 DEF Shutdown, Finished
  <2>2. /\ \A d \in Threads : starting[d] # NoRun => starting[d] \in Runs
        /\ Len(workerQueue') = 0 /\ Len(mainQueue') = 0 /\ Len(callbacks') = 0
    BY <1>0, <2>1, QueuesHoldRuns
  <2> QED
    BY <1>0, <2>1, <2>2 DEF QueuesMatchPhases
<1>9. CASE ClearTasks
  BY <1>0, <1>9 DEF ClearTasks, QueuesMatchPhases, Finished
<1>10. CASE UNCHANGED vars
  BY <1>0, <1>10 DEF vars, QueuesMatchPhases, Finished
<1> QED
  BY <1>1, <1>2, <1>3, <1>4, <1>5, <1>6, <1>7, <1>8, <1>9, <1>10
  DEF Next, WorkerStep

(* No step of the runtime leaves the invariant.                             *)
LEMMA InvStep == Inv /\ [Next]_vars => Inv'
BY TypeCorrectStep, TableStep, QueuesStep DEF Inv, TableInv

(* The invariant holds in every reachable state.                            *)
THEOREM Invariance == Spec => []Inv
BY InvInit, InvStep, PTL DEF Spec

-----------------------------------------------------------------------------
(* The properties of the runtime.                                          *)

(* At most one execution of a key is told to go on, however often the key   *)
(* is restarted or cancelled and however late the workers look at tokens.   *)
THEOREM OneLiveRun == Spec => []OneLiveRunPerKey
<1>1. Inv => OneLiveRunPerKey
  BY DEF Inv, LiveRunOwnsKey, OneLiveRunPerKey
<1> QED
  BY Invariance, <1>1, PTL

(* running(key) answers true exactly while a live run of the key exists.    *)
THEOREM RunningMeansLive == Spec => []RunningIffLive
<1>1. Inv => RunningIffLive
  BY DEF Inv, LiveRunOwnsKey, RunningKeyHasRun, RunningIffLive
<1> QED
  BY Invariance, <1>1, PTL

(* A run cancelled or superseded before it finished never gets its          *)
(* completion queued.                                                       *)
THEOREM NoCompletionAfterCancel == Spec => CancelledNeverCompletes
<1> DEFINE Kept == \A r \in Runs :
             (Unfinished(r) /\ r \in raised) => phase'[r] # "ready"
<1>1. Inv /\ [Next]_vars => [Kept]_vars
  <2> SUFFICES ASSUME Inv, [Next]_vars,
                      NEW r \in Runs, Unfinished(r), r \in raised
               PROVE  phase'[r] # "ready"
    OBVIOUS
  <2>0. TypeOK
    BY DEF Inv
  <2>1. phase[r] # "ready"
    BY DEF Unfinished, UnfinishedPhases
  <2>2. ASSUME NEW w \in Workers, FinishTask(w)
        PROVE  phase'[r] # "ready"
    <3>1. PICK s \in Runs : s = workerRun[w]
      BY <2>0, <2>2, SomeRun DEF FinishTask, TypeOK
    <3>2. CASE r # s
      BY <2>0, <2>1, <2>2, <3>1, <3>2 DEF FinishTask, TypeOK
    <3>3. CASE r = s
      <4>1. ~OwnsKey(r)
        BY DEF OwnsKey, Inv, TypeOK, RaisedRunIsDisowned
      <4> QED
        BY <2>0, <2>2, <3>1, <3>3, <4>1 DEF FinishTask, TypeOK
    <3> QED
      BY <3>2, <3>3
  <2>3. ASSUME NEW c \in Threads, NEW k \in Keys, NEW b \in BOOLEAN,
               BeginTask(c, k, b) \/ Cancel(c, k) \/ EnqueueWorker(c)
        PROVE  phase'[r] # "ready"
    BY <2>0, <2>1, <2>3 DEF BeginTask, Cancel, EnqueueWorker, TypeOK
  <2>4. ASSUME NEW w \in Workers,
               TakeWork(w) \/ CheckToken(w) \/ DoWork(w) \/ SampleToken(w)
        PROVE  phase'[r] # "ready"
    BY <2>0, <2>1, <2>4
    DEF TakeWork, CheckToken, DoWork, SampleToken, TypeOK
  <2>5. CASE DispatchReady \/ RunCallback \/ Shutdown \/ ClearTasks
    BY <2>0, <2>1, <2>5
    DEF DispatchReady, RunCallback, Shutdown, ClearTasks, TypeOK
  <2>6. CASE UNCHANGED vars
    BY <2>1, <2>6 DEF vars
  <2>7. ASSUME NEW c \in Threads, EnqueueWorker(c)
        PROVE  phase'[r] # "ready"
    BY <2>0, <2>1, <2>7 DEF EnqueueWorker, TypeOK
  <2> QED
    BY <2>2, <2>3, <2>4, <2>5, <2>6, <2>7 DEF Next, WorkerStep
<1> QED
  BY Invariance, <1>1, PTL DEF Spec, CancelledNeverCompletes

-----------------------------------------------------------------------------
(* The order of the completions.                                           *)

\* A queue holds the runs of one phase, and no others.
ListsPhase(queue, p) ==
  \A r \in Runs : phase[r] = p <=> \E i \in 1 .. Len(queue) : queue[i] = r

\* A queue holds the runs of one key in the order of their starts (so each
\* run once).
KeyOrder(queue) ==
  \A i, j \in 1 .. Len(queue) :
    (i < j /\ runKey[queue[i]] = runKey[queue[j]]) => queue[i] < queue[j]

\* A live run is the newest one of its key.
LiveRunIsLatest ==
  \A r, s \in Runs :
    (Live(r) /\ phase[s] # "unused" /\ runKey[s] = runKey[r]) => s <= r

\* A newer completion of a key does not overtake an older one on its way.
HandedOverInOrder ==
  \A r, s \in Runs :
    (runKey[r] = runKey[s] /\ r < s) =>
      /\ phase[s] \in {"dispatching", "delivered"} => phase[r] # "ready"
      /\ phase[s] = "delivered" => phase[r] # "dispatching"

OrderInv ==
  /\ ListsPhase(mainQueue, "ready")
  /\ ListsPhase(callbacks, "dispatching")
  /\ KeyOrder(mainQueue)
  /\ KeyOrder(callbacks)
  /\ LiveRunIsLatest
  /\ HandedOverInOrder

(* A step that completes nothing and starts nothing keeps the order.        *)
LEMMA OrderQuiet ==
  ASSUME TypeOK, OrderInv, UNCHANGED <<mainQueue, callbacks, runKey>>,
         \A r \in Runs : \A p \in {"unused", "ready", "dispatching", "delivered"} :
           phase'[r] = p <=> phase[r] = p,
         \A r \in Runs : Live(r)' => Live(r)
  PROVE  OrderInv'
<1>1. ListsPhase(mainQueue, "ready")' /\ ListsPhase(callbacks, "dispatching")'
  BY DEF OrderInv, ListsPhase
<1>2. KeyOrder(mainQueue)' /\ KeyOrder(callbacks)'
  BY DEF OrderInv, KeyOrder
<1>3. LiveRunIsLatest'
  BY DEF OrderInv, LiveRunIsLatest
<1>4. HandedOverInOrder'
  BY DEF OrderInv, HandedOverInOrder
<1> QED
  BY <1>1, <1>2, <1>3, <1>4 DEF OrderInv

(* The elements of the two queues of completions.                           *)
LEMMA Completions ==
  ASSUME TypeOK, OrderInv
  PROVE  /\ Len(mainQueue) \in Nat /\ Len(callbacks) \in Nat
         /\ \A i \in 1 .. Len(mainQueue) :
              mainQueue[i] \in Runs /\ phase[mainQueue[i]] = "ready"
         /\ \A i \in 1 .. Len(callbacks) :
              callbacks[i] \in Runs /\ phase[callbacks[i]] = "dispatching"
BY QueuesHoldRuns DEF OrderInv, ListsPhase

(* A new run is the newest of its key, and the live run it supersedes is    *)
(* live no longer.                                                         *)
LEMMA BeginTaskOrder ==
  ASSUME Inv, Inv', OrderInv, NEW c \in Threads, NEW k \in Keys, NEW b \in BOOLEAN,
         BeginTask(c, k, b)
  PROVE  OrderInv'
<1>0. PICK new \in Runs : new = started + 1 /\ phase[new] = "unused"
  BY DEF BeginTask, Inv, TypeOK, RunsAreNumbered
<1>1. /\ phase'[new] = "begun" /\ runKey'[new] = k
      /\ \A r \in Runs \ {new} : phase'[r] = phase[r] /\ runKey'[r] = runKey[r]
      /\ raised' = raised \union ({cancelFlag[k]} \ {NoRun})
      /\ started' = new
      /\ UNCHANGED <<mainQueue, callbacks>>
  BY <1>0 DEF BeginTask, Superseded, Inv, TypeOK
<1>2. /\ Len(mainQueue) \in Nat /\ Len(callbacks) \in Nat
      /\ \A i \in 1 .. Len(mainQueue) : mainQueue[i] \in Runs \ {new}
      /\ \A i \in 1 .. Len(callbacks) : callbacks[i] \in Runs \ {new}
  BY <1>0, Completions DEF Inv
<1>3. ListsPhase(mainQueue, "ready")' /\ ListsPhase(callbacks, "dispatching")'
  BY <1>1, <1>2 DEF OrderInv, ListsPhase
<1>4. KeyOrder(mainQueue)' /\ KeyOrder(callbacks)'
  BY <1>1, <1>2 DEF OrderInv, KeyOrder
<1>5. LiveRunIsLatest'
  <2> SUFFICES ASSUME NEW r \in Runs, NEW s \in Runs,
                      Live(r)', phase'[s] # "unused", runKey'[s] = runKey'[r]
               PROVE  s <= r
    BY DEF LiveRunIsLatest
  <2>1. CASE r = new
    <3>1. s \in Int /\ ~(s > started')
      BY DEF Inv, RunsAreNumbered, Runs
    <3>2. new \in Int
      BY DEF Runs
    <3> QED BY <1>1, <2>1, <3>1, <3>2
  <2>2. CASE r # new
    <3>1. Live(r)
      BY <1>1, <2>2 DEF Live, Unfinished
    <3>2. runKey[r] # k
      <4>1. runKey[r] = k => cancelFlag[k] = r
        BY <3>1 DEF Inv, LiveRunOwnsKey
      <4>2. r \notin raised' /\ r # NoRun
        BY DEF Live, Runs, NoRun
      <4> QED BY <1>1, <4>1, <4>2
    <3>3. s # new
      BY <1>1, <2>2, <3>2
    <3> QED BY <1>1, <2>2, <3>1, <3>3 DEF OrderInv, LiveRunIsLatest
  <2> QED BY <2>1, <2>2
<1>6. HandedOverInOrder'
  <2> SUFFICES ASSUME NEW r \in Runs, NEW s \in Runs, runKey'[r] = runKey'[s], r < s
               PROVE  /\ phase'[s] \in {"dispatching", "delivered"} => phase'[r] # "ready"
                      /\ phase'[s] = "delivered" => phase'[r] # "dispatching"
    BY DEF HandedOverInOrder
  <2>1. CASE r = new \/ s = new
    BY <1>1, <2>1
  <2>2. CASE r # new /\ s # new
    BY <1>1, <2>2 DEF OrderInv, HandedOverInOrder
  <2> QED BY <2>1, <2>2
<1> QED
  BY <1>3, <1>4, <1>5, <1>6 DEF OrderInv

(* A run whose completion is queued is the newest of its key.               *)
LEMMA FinishTaskOrder ==
  ASSUME Inv, OrderInv, NEW w \in Workers, FinishTask(w)
  PROVE  OrderInv'
<1>0. PICK r \in Runs : r = workerRun[w] /\ phase[r] = "settled"
  BY SomeRun DEF FinishTask, Inv, TypeOK
<1>1. /\ phase'[r] \in {"ready", "over"}
      /\ \A s \in Runs \ {r} : phase'[s] = phase[s]
      /\ UNCHANGED <<callbacks, runKey, raised>>
      /\ phase'[r] = "ready" => OwnsKey(r) /\ mainQueue' = Append(mainQueue, r)
      /\ phase'[r] = "over" => mainQueue' = mainQueue
  BY <1>0 DEF FinishTask, Inv, TypeOK, runVars
<1>2. \A s \in Runs : Live(s)' => Live(s) /\ s # r
  BY <1>0, <1>1 DEF Live, Unfinished, UnfinishedPhases
<1>3. CASE phase'[r] = "over"
  BY <1>0, <1>1, <1>2, <1>3, OrderQuiet DEF Inv
<1>4. CASE phase'[r] = "ready"
  <2>1. Live(r)
    <3>1. ~stopping /\ generation[runKey[r]] = runGen[r]
      BY <1>1, <1>4 DEF OwnsKey
    <3>2. Unfinished(r)
      BY <1>0 DEF Unfinished, UnfinishedPhases
    <3>3. runGen[r] \in Nat
      BY DEF Inv, TypeOK
    <3> QED BY <3>1, <3>2, <3>3 DEF Live, Inv, RaisedRunIsDisowned
  <2>2. \A s \in Runs : (phase[s] # "unused" /\ runKey[s] = runKey[r]) => s <= r
    BY <2>1 DEF OrderInv, LiveRunIsLatest
  <2>3. PICK n \in Nat : n = Len(mainQueue)
    BY Completions DEF Inv
  <2>4. /\ \A i \in 1 .. n : mainQueue[i] \in Runs \ {r} /\ phase[mainQueue[i]] = "ready"
        /\ \A i \in 1 .. Len(callbacks) : callbacks[i] \in Runs \ {r}
    BY <1>0, <2>3, Completions DEF Inv
  <2>5. /\ Len(mainQueue') = n + 1 /\ mainQueue'[n + 1] = r
        /\ \A i \in 1 .. n : mainQueue'[i] = mainQueue[i]
    <3>1. mainQueue' = Append(mainQueue, r) /\ mainQueue \in Seq(Runs)
      BY <1>1, <1>4 DEF Inv, TypeOK
    <3>2. /\ Len(Append(mainQueue, r)) = n + 1 /\ Append(mainQueue, r)[n + 1] = r
          /\ \A i \in 1 .. n : Append(mainQueue, r)[i] = mainQueue[i]
      BY <2>3, <3>1, SeqAppend
    <3> QED BY <3>1, <3>2
  <2>6. ListsPhase(mainQueue, "ready")'
    <3> SUFFICES ASSUME NEW s \in Runs
                 PROVE  phase'[s] = "ready"
                          <=> \E i \in 1 .. Len(mainQueue') : mainQueue'[i] = s
      BY DEF ListsPhase
    <3>1. CASE s = r
      BY <1>4, <2>5, <3>1
    <3>2. CASE s # r
      <4>1. phase[s] = "ready" <=> \E i \in 1 .. n : mainQueue[i] = s
        BY <2>3 DEF OrderInv, ListsPhase
      <4>2. (\E i \in 1 .. n + 1 : mainQueue'[i] = s)
              <=> \E i \in 1 .. n : mainQueue[i] = s
        BY <2>5, <3>2
      <4> QED BY <1>1, <2>5, <3>2, <4>1, <4>2
    <3> QED BY <3>1, <3>2
  <2>7. ListsPhase(callbacks, "dispatching")'
    BY <1>0, <1>1, <1>4, <2>4 DEF OrderInv, ListsPhase
  <2>8. KeyOrder(mainQueue)'
    <3> SUFFICES ASSUME NEW i \in 1 .. Len(mainQueue'), NEW j \in 1 .. Len(mainQueue'),
                        i < j, runKey'[mainQueue'[i]] = runKey'[mainQueue'[j]]
                 PROVE  mainQueue'[i] < mainQueue'[j]
      BY DEF KeyOrder
    <3>1. i \in 1 .. n
      BY <2>5
    <3>2. CASE j = n + 1
      <4>1. mainQueue[i] <= r
        BY <1>1, <2>2, <2>4, <2>5, <3>1, <3>2
      <4>2. mainQueue[i] \in Int /\ r \in Int /\ mainQueue[i] # r
        BY <2>4, <3>1 DEF Runs
      <4> QED BY <2>5, <3>1, <3>2, <4>1, <4>2
    <3>3. CASE j # n + 1
      <4>1. j \in 1 .. n
        BY <2>5, <3>3
      <4> QED BY <1>1, <2>3, <2>5, <3>1, <4>1 DEF OrderInv, KeyOrder
    <3> QED BY <3>2, <3>3
  <2>9. KeyOrder(callbacks)'
    BY <1>1 DEF OrderInv, KeyOrder
  <2>10. LiveRunIsLatest'
    BY <1>0, <1>1, <1>2 DEF OrderInv, LiveRunIsLatest
  <2>11. HandedOverInOrder'
    <3> SUFFICES ASSUME NEW q \in Runs, NEW s \in Runs, runKey[q] = runKey[s], q < s
                 PROVE  /\ phase'[s] \in {"dispatching", "delivered"} => phase'[q] # "ready"
                        /\ phase'[s] = "delivered" => phase'[q] # "dispatching"
      BY <1>1 DEF HandedOverInOrder
    <3>1. CASE s = r
      BY <1>4, <3>1
    <3>2. CASE q = r
      <4>1. s \in Int /\ r \in Int
        BY DEF Runs
      <4>2. phase[s] = "unused" /\ s # r
        BY <2>2, <3>2, <4>1
      <4> QED BY <1>1, <4>2
    <3>3. CASE q # r /\ s # r
      BY <1>1, <3>3 DEF OrderInv, HandedOverInOrder
    <3> QED BY <3>1, <3>2, <3>3
  <2> QED
    BY <2>6, <2>7, <2>8, <2>9, <2>10, <2>11 DEF OrderInv
<1> QED
  BY <1>1, <1>3, <1>4

(* The queue is handed over whole, in its order.                            *)
LEMMA DispatchReadyOrder ==
  ASSUME Inv, OrderInv, DispatchReady
  PROVE  OrderInv'
<1>1. /\ callbacks' = mainQueue /\ mainQueue' = <<>> /\ Len(mainQueue') = 0
      /\ Len(callbacks) = 0 /\ UNCHANGED <<runKey, raised>>
      /\ \A r \in Runs : phase'[r] = IF phase[r] = "ready" THEN "dispatching" ELSE phase[r]
  BY DEF DispatchReady, runVars
<1>2. \A r \in Runs : phase[r] # "dispatching"
  BY <1>1 DEF OrderInv, ListsPhase
<1>3. ListsPhase(mainQueue, "ready")'
  BY <1>1 DEF ListsPhase
<1>4. ListsPhase(callbacks, "dispatching")'
  BY <1>1, <1>2 DEF OrderInv, ListsPhase
<1>5. KeyOrder(mainQueue)' /\ KeyOrder(callbacks)'
  BY <1>1 DEF OrderInv, KeyOrder
<1>6. LiveRunIsLatest'
  <2>1. \A r \in Runs : /\ Live(r)' => Live(r)
                        /\ phase'[r] # "unused" => phase[r] # "unused"
    BY <1>1 DEF Live, Unfinished, UnfinishedPhases
  <2> QED BY <1>1, <2>1 DEF OrderInv, LiveRunIsLatest
<1>7. HandedOverInOrder'
  BY <1>1, <1>2 DEF OrderInv, HandedOverInOrder
<1> QED
  BY <1>3, <1>4, <1>5, <1>6, <1>7 DEF OrderInv

(* The completion that runs is the oldest one of its key.                   *)
LEMMA RunCallbackOrder ==
  ASSUME Inv, OrderInv, RunCallback
  PROVE  OrderInv'
<1>0. PICK n \in Nat : n = Len(callbacks)
  BY Completions DEF Inv
<1>1. /\ callbacks # <<>> /\ callbacks \in Seq(Runs) /\ 1 \in 1 .. n
      /\ Head(callbacks) = callbacks[1]
  BY <1>0, SeqTail DEF RunCallback, Inv, TypeOK
<1>2. PICK h \in Runs : h = callbacks[1] /\ phase[h] = "dispatching"
  BY <1>0, <1>1, Completions DEF Inv
<1>3. /\ phase'[h] = "delivered"
      /\ \A s \in Runs \ {h} : phase'[s] = phase[s]
      /\ UNCHANGED <<mainQueue, runKey, raised>>
  BY <1>1, <1>2 DEF RunCallback, Inv, TypeOK, runVars
<1>4. /\ Len(callbacks') = n - 1
      /\ \A i \in 1 .. n - 1 : callbacks'[i] = callbacks[i + 1] /\ i + 1 \in 1 .. n
  BY <1>0, <1>1, SeqTail DEF RunCallback
<1>5. \A i \in 1 .. n : callbacks[i] \in Runs
  BY <1>0, Completions DEF Inv
<1>6. \A i \in 1 .. n : (i # 1 /\ runKey[callbacks[i]] = runKey[h]) => h < callbacks[i]
  BY <1>0, <1>1, <1>2 DEF OrderInv, KeyOrder
<1>7. ListsPhase(mainQueue, "ready")'
  BY <1>2, <1>3, Completions DEF OrderInv, ListsPhase, Inv
<1>8. ListsPhase(callbacks, "dispatching")'
  <2> SUFFICES ASSUME NEW s \in Runs
               PROVE  phase'[s] = "dispatching" <=> \E i \in 1 .. n - 1 : callbacks'[i] = s
    BY <1>4 DEF ListsPhase
  <2>1. phase[s] = "dispatching" <=> \E i \in 1 .. n : callbacks[i] = s
    BY <1>0 DEF OrderInv, ListsPhase
  <2>2. CASE s = h
    <3>1. \A i \in 1 .. n - 1 : callbacks[i + 1] # h
      <4> SUFFICES ASSUME NEW i \in 1 .. n - 1, callbacks[i + 1] = h
                   PROVE  FALSE
        OBVIOUS
      <4>1. i + 1 \in 1 .. n /\ i + 1 # 1
        OBVIOUS
      <4>2. h < h
        BY <1>6, <4>1
      <4>3. h \in Int
        BY DEF Runs
      <4> QED BY <4>2, <4>3
    <3> QED BY <1>3, <1>4, <2>2, <3>1
  <2>3. CASE s # h
    <3>1. (\E i \in 1 .. n : callbacks[i] = s) <=> \E i \in 1 .. n - 1 : callbacks'[i] = s
      <4>1. ASSUME NEW i \in 1 .. n, callbacks[i] = s
            PROVE  \E j \in 1 .. n - 1 : callbacks'[j] = s
        <5>1. i # 1
          BY <1>2, <2>3, <4>1
        <5>2. i - 1 \in 1 .. n - 1 /\ i = (i - 1) + 1
          BY <5>1
        <5> QED BY <1>4, <4>1, <5>2
      <4> QED BY <1>4, <4>1
    <3> QED BY <1>3, <2>1, <2>3, <3>1
  <2> QED BY <2>2, <2>3
<1>9. KeyOrder(mainQueue)'
  BY <1>3 DEF OrderInv, KeyOrder
<1>10. KeyOrder(callbacks)'
  <2> SUFFICES ASSUME NEW i \in 1 .. n - 1, NEW j \in 1 .. n - 1, i < j,
                      runKey[callbacks'[i]] = runKey[callbacks'[j]]
               PROVE  callbacks'[i] < callbacks'[j]
    BY <1>3, <1>4 DEF KeyOrder
  <2>1. i + 1 \in 1 .. n /\ j + 1 \in 1 .. n /\ i + 1 < j + 1
    OBVIOUS
  <2> QED BY <1>0, <1>4, <2>1 DEF OrderInv, KeyOrder
<1>11. LiveRunIsLatest'
  <2>1. \A r \in Runs : /\ Live(r)' => Live(r)
                        /\ phase'[r] # "unused" => phase[r] # "unused"
    BY <1>2, <1>3 DEF Live, Unfinished, UnfinishedPhases
  <2> QED BY <1>3, <2>1 DEF OrderInv, LiveRunIsLatest
<1>12. HandedOverInOrder'
  <2> SUFFICES ASSUME NEW r \in Runs, NEW s \in Runs, runKey[r] = runKey[s], r < s
               PROVE  /\ phase'[s] \in {"dispatching", "delivered"} => phase'[r] # "ready"
                      /\ phase'[s] = "delivered" => phase'[r] # "dispatching"
    BY <1>3 DEF HandedOverInOrder
  <2>1. r \in Int /\ s \in Int
    BY DEF Runs
  <2>2. CASE s = h
    <3>1. phase[r] # "ready"
      BY <1>2, <2>2 DEF OrderInv, HandedOverInOrder
    <3>2. phase[r] # "dispatching"
      <4>1. \A i \in 1 .. n : callbacks[i] # r
        BY <1>2, <1>6, <2>1, <2>2
      <4> QED BY <1>0, <4>1 DEF OrderInv, ListsPhase
    <3> QED BY <1>3, <2>1, <2>2, <3>1, <3>2
  <2>3. CASE s # h
    BY <1>3, <2>3 DEF OrderInv, HandedOverInOrder
  <2> QED BY <2>2, <2>3
<1> QED
  BY <1>7, <1>8, <1>9, <1>10, <1>11, <1>12 DEF OrderInv

(* A shutdown drops the completions that wait.                              *)
LEMMA ShutdownOrder ==
  ASSUME Inv, OrderInv, Shutdown
  PROVE  OrderInv'
<1>1. /\ mainQueue' = <<>> /\ Len(mainQueue') = 0 /\ UNCHANGED <<runKey, callbacks>>
      /\ raised \subseteq raised'
      /\ \A r \in Runs :
           phase'[r] = IF phase[r] \in {"queued", "ready"} THEN "over" ELSE phase[r]
  BY DEF Shutdown, runVars
<1>2. ListsPhase(mainQueue, "ready")'
  BY <1>1 DEF ListsPhase
<1>3. ListsPhase(callbacks, "dispatching")'
  BY <1>1 DEF OrderInv, ListsPhase
<1>4. KeyOrder(mainQueue)' /\ KeyOrder(callbacks)'
  BY <1>1 DEF OrderInv, KeyOrder
<1>5. LiveRunIsLatest'
  <2>1. \A r \in Runs : /\ Live(r)' => Live(r)
                        /\ phase'[r] # "unused" => phase[r] # "unused"
    BY <1>1 DEF Live, Unfinished, UnfinishedPhases
  <2> QED BY <1>1, <2>1 DEF OrderInv, LiveRunIsLatest
<1>6. HandedOverInOrder'
  BY <1>1 DEF OrderInv, HandedOverInOrder
<1> QED
  BY <1>2, <1>3, <1>4, <1>5, <1>6 DEF OrderInv

(* No step of the runtime disturbs the order.                               *)
LEMMA OrderStep == Inv /\ OrderInv /\ [Next]_vars => OrderInv'
<1> SUFFICES ASSUME Inv, OrderInv, [Next]_vars PROVE OrderInv'
  OBVIOUS
<1>0. Inv' /\ TypeOK
  BY InvStep DEF Inv
<1> USE DEF tableVars, runVars, queueVars
<1>1. ASSUME NEW c \in Threads, NEW k \in Keys, NEW b \in BOOLEAN, BeginTask(c, k, b)
      PROVE  OrderInv'
  BY <1>0, <1>1, BeginTaskOrder
<1>2. ASSUME NEW c \in Threads, NEW k \in Keys, Cancel(c, k)
      PROVE  OrderInv'
  <2>1. \A r \in Runs : Live(r)' => Live(r)
    BY <1>2 DEF Cancel, Live, Unfinished
  <2> QED BY <1>0, <1>2, <2>1, OrderQuiet DEF Cancel
<1>3. ASSUME NEW c \in Threads, EnqueueWorker(c)
      PROVE  OrderInv'
  <2>0. PICK r \in Runs : r = starting[c] /\ phase[r] = "begun"
    BY <1>0, <1>3, SomeRun DEF EnqueueWorker, Inv, TypeOK, QueuesMatchPhases
  <2>1. /\ phase'[r] \in {"over", "queued"}
        /\ \A s \in Runs \ {r} : phase'[s] = phase[s]
        /\ UNCHANGED <<mainQueue, callbacks, runKey, raised>>
    BY <1>0, <1>3, <2>0 DEF EnqueueWorker, TypeOK
  <2>2. \A s \in Runs : Live(s)' => Live(s)
    BY <2>0, <2>1 DEF Live, Unfinished, UnfinishedPhases
  <2> QED BY <1>0, <2>0, <2>1, <2>2, OrderQuiet
<1>4. ASSUME NEW w \in Workers,
             TakeWork(w) \/ CheckToken(w) \/ DoWork(w) \/ SampleToken(w)
      PROVE  OrderInv'
  <2>0. /\ UNCHANGED <<mainQueue, callbacks, runKey, raised>>
        /\ \E r \in Runs :
             /\ phase[r] \in {"queued", "taken", "working", "returned"}
             /\ phase'[r] \in {"taken", "working", "returned", "settled"}
             /\ \A s \in Runs \ {r} : phase'[s] = phase[s]
    <3>1. CASE TakeWork(w)
      <4>1. /\ Head(workerQueue) = workerQueue[1] /\ 1 \in 1 .. Len(workerQueue)
            /\ workerQueue[1] \in Runs
        BY <1>0, <3>1, SeqTail, SeqElements DEF TakeWork, TypeOK
      <4>2. PICK r \in Runs : r = Head(workerQueue) /\ phase[r] = "queued"
        BY <4>1 DEF Inv, QueuesMatchPhases
      <4> QED BY <1>0, <3>1, <4>2 DEF TakeWork, TypeOK
    <3>2. CASE CheckToken(w) \/ DoWork(w) \/ SampleToken(w)
      <4>1. PICK r \in Runs : r = workerRun[w]
        BY <1>0, <3>2, SomeRun DEF CheckToken, DoWork, SampleToken, TypeOK
      <4> QED BY <1>0, <3>2, <4>1 DEF CheckToken, DoWork, SampleToken, TypeOK
    <3> QED BY <1>4, <3>1, <3>2
  <2>1. PICK r \in Runs : /\ phase[r] \in {"queued", "taken", "working", "returned"}
                          /\ phase'[r] \in {"taken", "working", "returned", "settled"}
                          /\ \A s \in Runs \ {r} : phase'[s] = phase[s]
    BY <2>0
  <2>2. \A s \in Runs : Live(s)' => Live(s)
    BY <2>0, <2>1 DEF Live, Unfinished, UnfinishedPhases
  <2> QED BY <1>0, <2>0, <2>1, <2>2, OrderQuiet
<1>5. ASSUME NEW w \in Workers, FinishTask(w)
      PROVE  OrderInv'
  BY <1>5, FinishTaskOrder
<1>6. CASE DispatchReady
  BY <1>6, DispatchReadyOrder
<1>7. CASE RunCallback
  BY <1>7, RunCallbackOrder
<1>8. CASE Shutdown
  BY <1>8, ShutdownOrder
<1>9. CASE ClearTasks \/ UNCHANGED vars
  <2>1. \A r \in Runs : Live(r)' => Live(r)
    BY <1>9 DEF ClearTasks, vars, Live, Unfinished
  <2> QED BY <1>0, <1>9, <2>1, OrderQuiet DEF ClearTasks, vars
<1> QED
  BY <1>1, <1>2, <1>3, <1>4, <1>5, <1>6, <1>7, <1>8, <1>9 DEF Next, WorkerStep

LEMMA OrderInit == Init => OrderInv
<1> SUFFICES ASSUME Init PROVE OrderInv
  OBVIOUS
<1>1. /\ \A r \in Runs : phase[r] = "unused" /\ ~Live(r)
      /\ Len(mainQueue) = 0 /\ Len(callbacks) = 0
  BY DEF Init, Live, Unfinished, UnfinishedPhases
<1> QED
  BY <1>1 DEF OrderInv, ListsPhase, KeyOrder, LiveRunIsLatest, HandedOverInOrder

(* Completions of one key run in the order of the starts: an old result     *)
(* never overwrites a newer one.                                           *)
THEOREM CompletionsKeepOrder == Spec => []CompletionsInOrder
<1>1. OrderInv => CompletionsInOrder
  BY DEF OrderInv, HandedOverInOrder, CompletionsInOrder
<1>2. Spec => []OrderInv
  BY Invariance, OrderInit, OrderStep, PTL DEF Spec
<1> QED
  BY <1>1, <1>2, PTL

-----------------------------------------------------------------------------
(* What the modules that extend the runtime need of it.                    *)

\* A new process starts with a table, queues and phases that are all empty.
LEMMA ResetTasksInv ==
  ASSUME TypeOK, ResetTasks
  PROVE  Inv' /\ OrderInv'
<1>1. /\ \A r \in Runs : phase'[r] = "unused"
      /\ \A k \in Keys : status'[k] = "Idle" /\ cancelFlag'[k] = NoRun
      /\ \A c \in Threads : starting'[c] = NoRun
      /\ raised' = {} /\ started' = 0 /\ ~stopping'
      /\ workerQueue' = <<>> /\ mainQueue' = <<>> /\ callbacks' = <<>>
  BY DEF ResetTasks
<1>2. TypeOK'
  <2>1. <<>> \in Seq(Runs) /\ 0 \in 0 .. MaxRuns /\ NoRun \in RunOrNone
    BY MaxRunsAssumption DEF RunOrNone
  <2>2. "Idle" \in Statuses /\ "unused" \in Phases
    BY DEF Statuses, Phases
  <2> QED BY <2>1, <2>2 DEF ResetTasks, TypeOK
<1>3. \A r \in Runs : ~Unfinished(r)' /\ ~Live(r)'
  BY <1>1 DEF Live, Unfinished, UnfinishedPhases
<1>4. RunsAreNumbered'
  BY <1>1 DEF RunsAreNumbered, Runs, NoRun
<1>5. LiveRunOwnsKey' /\ RunningKeyHasRun' /\ FlagMeansRunning' /\ RaisedRunIsDisowned'
  BY <1>1, <1>3
  DEF LiveRunOwnsKey, RunningKeyHasRun, FlagMeansRunning, RaisedRunIsDisowned
<1>6. /\ Len(workerQueue') = 0 /\ Len(mainQueue') = 0 /\ Len(callbacks') = 0
  BY <1>1
<1>7. QueuesMatchPhases'
  BY <1>1, <1>6 DEF QueuesMatchPhases
<1>8. OrderInv'
  BY <1>1, <1>3, <1>6
  DEF OrderInv, ListsPhase, KeyOrder, LiveRunIsLatest, HandedOverInOrder
<1> QED
  BY <1>2, <1>4, <1>5, <1>7, <1>8 DEF Inv

\* The head of the callbacks is a run that is being dispatched.
LEMMA CallbackRun ==
  ASSUME Inv, OrderInv, callbacks # <<>>
  PROVE  Head(callbacks) \in Runs /\ phase[Head(callbacks)] = "dispatching"
<1>1. callbacks \in Seq(Runs) /\ Head(callbacks) = callbacks[1] /\ 1 \in 1 .. Len(callbacks)
  BY SeqTail DEF Inv, TypeOK
<1> QED
  BY <1>1, Completions DEF Inv

\* The outcome of a run is the worker's only in these phases.
ReturnedPhases == {"returned", "settled", "ready", "dispatching"}
ReturnedDone(r) == phase[r] \in ReturnedPhases /\ outcome[r] = "Done"

=============================================================================
