------------------------------- MODULE MC_Outgoing -------------------------------
(* The task runtime driven by callers that do anything its interface allows, *)
(* and driven by the sending side of file transfers: one of the two per       *)
(* behaviour, over the same keys, threads and workers.                       *)
EXTENDS OutgoingTransfers

VARIABLE caller   \* "any" or "transfers"

MCInit == SendInit /\ caller \in {"any", "transfers"}

MCNext ==
  \/ caller = "any" /\ Next /\ UNCHANGED <<sendVars, caller>>
  \/ caller = "transfers" /\ SendNext /\ UNCHANGED caller

\* The fairness of AsyncTasks and of OutgoingTransfers, each for its side.
MCFairness ==
  /\ \A c \in Threads : WF_vars(caller = "any" /\ EnqueueWorker(c))
  /\ \A w \in Workers : WF_vars(caller = "any" /\ WorkerStep(w))
  /\ WF_vars(caller = "any" /\ DispatchReady)
  /\ WF_vars(caller = "any" /\ RunCallback)
  /\ WF_allVars(caller = "transfers" /\ TaskStep)
  /\ SF_allVars(caller = "transfers" /\ Dispatch)
  /\ WF_allVars(caller = "transfers" /\ QueueCancel)
  /\ \A w \in Workers : WF_allVars(caller = "transfers" /\ Stream(w))
  /\ WF_allVars(caller = "transfers" /\ CompleteSend)
  /\ WF_allVars(caller = "transfers" /\ RefreshStep)

MCSpec == MCInit /\ [][MCNext]_<<allVars, caller>> /\ MCFairness

\* QueuedRunEnds of AsyncTasks; a restart of the process, which only the
\* transfers have, ends every run.
EveryQueuedRunEnds ==
  \A r \in Runs :
     (caller = "any" /\ phase[r] = "queued") ~> phase[r] \in {"over", "delivered"}
=============================================================================
