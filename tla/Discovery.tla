-------------------------------- MODULE Discovery --------------------------------
(***************************************************************************)
(* The discovery worker (net/discovery_worker.cpp) with the service it       *)
(* drives (net/discovery_service.cpp): a thread that broadcasts on a           *)
(* schedule, answers hellos and is stopped by the UI thread, which also        *)
(* changes the announced identity and asks for extra broadcasts.               *)
(*                                                                         *)
(* The clock is a set of countdowns.  One Tick is the startup interval; the    *)
(* broadcast and reply intervals are Interval ticks, as both are 60 s.          *)
(***************************************************************************)
EXTENDS Naturals, FiniteSets

CONSTANTS
  Identities,     \* identities the user may announce
  Addresses,      \* addresses hellos come from
  BurstCount,     \* kDiscoveryStartupBroadcastCount
  ManualCount,    \* kManualBroadcastCount
  Interval,       \* the broadcast interval and the hello reply interval
  MaxChanges,     \* bound on identity changes
  MaxSendErrors   \* bound on sends that fail

ASSUME DiscoveryAssumption ==
  /\ BurstCount \in Nat /\ ManualCount \in Nat \ {0} /\ Interval \in Nat \ {0}
  /\ MaxChanges \in Nat /\ MaxSendErrors \in Nat /\ Identities # {}

VARIABLES
  broadcasting,   \* GetBroadcastEnabled
  announcing,     \* GetAnnounceOnStart
  worker,         \* where the worker thread is
  target,         \* whom the reply in preparation is for
  stage,          \* how far stop() has come
  identity,       \* localIdentity_ of the service
  toRequest,      \* an identity was changed, requestFastBroadcast is next
  untilNext,      \* ticks to nextBroadcastAt
  startupLeft,    \* startupBroadcastsLeft
  pending,        \* requestedBroadcastsPending_
  untilRequested, \* ticks to requestedBroadcastAt_
  untilReply,     \* ticks until an address gets a reply again
  sent,           \* the last announcement that was sent
  unanswered,     \* addresses whose last hello got no reply yet
  changes, sendErrors

discVars == <<broadcasting, announcing, worker, target, stage, identity,
              toRequest, untilNext, startupLeft, pending, untilRequested,
              untilReply, sent, unanswered, changes, sendErrors>>

Nobody == "nobody"
Quiet == [type |-> "none", of |-> Nobody]

ASSUME AddressesAssumption == Nobody \notin Addresses

\* How many broadcasts one request asks for.
RequestedCount == IF BurstCount > 0 THEN BurstCount ELSE ManualCount

DiscTypeOK ==
  /\ broadcasting \in BOOLEAN /\ announcing \in BOOLEAN
  /\ worker \in {"none", "top", "send", "poll", "reply", "done"}
  /\ target \in Addresses \union {Nobody}
  /\ stage \in {"run", "flagged", "requested", "joined", "closed"}
  /\ identity \in Identities /\ toRequest \in BOOLEAN
  /\ untilNext \in 0..Interval /\ untilRequested \in 0..1
  /\ startupLeft \in 0..BurstCount /\ pending \in 0..RequestedCount
  /\ untilReply \in [Addresses -> 0..Interval]
  /\ sent \in [type : {"hello", "reply", "offline"}, of : Identities]
       \union {Quiet}
  /\ unanswered \subseteq Addresses
  /\ changes \in 0..MaxChanges /\ sendErrors \in 0..MaxSendErrors
  /\ (target # Nobody) <=> (worker = "reply")

DiscInit ==
  /\ broadcasting \in BOOLEAN /\ announcing \in BOOLEAN
  /\ worker = "none" /\ target = Nobody /\ stage = "run"
  /\ identity = CHOOSE i \in Identities : TRUE
  /\ toRequest = FALSE
  /\ untilNext = 0 /\ startupLeft = 0 /\ pending = 0 /\ untilRequested = 0
  /\ untilReply = [a \in Addresses |-> 0]
  /\ sent = Quiet /\ unanswered = {}
  /\ changes = 0 /\ sendErrors = 0

-----------------------------------------------------------------------------
(* The UI thread.                                                          *)

\* start: the worker thread sets up its schedule.
StartWorker ==
  /\ worker = "none" /\ stage = "run"
  /\ worker' = "top"
  /\ untilNext' = IF announcing THEN 0 ELSE Interval
  /\ startupLeft' = IF announcing THEN BurstCount ELSE 0
  /\ UNCHANGED <<broadcasting, announcing, target, stage, identity, toRequest,
                 pending, untilRequested, untilReply, sent, unanswered,
                 changes, sendErrors>>

\* applyLocalIdentity, first half: updateLocalIdentity.
ChangeIdentity(i) ==
  /\ worker # "none" /\ stage = "run" /\ ~toRequest /\ i # identity
  /\ changes < MaxChanges
  /\ identity' = i /\ toRequest' = TRUE /\ changes' = changes + 1
  /\ UNCHANGED <<broadcasting, announcing, worker, target, stage, untilNext,
                 startupLeft, pending, untilRequested, untilReply, sent,
                 unanswered, sendErrors>>

\* applyLocalIdentity, second half: requestFastBroadcast.  The UI thread stops
\* the worker only later, so isStopping is false here.
RequestBurst ==
  /\ toRequest
  /\ toRequest' = FALSE
  /\ pending' = IF broadcasting THEN RequestedCount ELSE pending
  /\ untilRequested' = IF broadcasting THEN 0 ELSE untilRequested
  /\ UNCHANGED <<broadcasting, announcing, worker, target, stage, identity,
                 untilNext, startupLeft, untilReply, sent, unanswered,
                 changes, sendErrors>>

\* stop: raise stopping_, request the stop, join, say goodbye, close.
RaiseStopping ==
  /\ stage = "run" /\ worker # "none" /\ ~toRequest /\ stage' = "flagged"
  /\ UNCHANGED <<broadcasting, announcing, worker, target, identity, toRequest,
                 untilNext, startupLeft, pending, untilRequested, untilReply,
                 sent, unanswered, changes, sendErrors>>

\* Mutant of Join: the goodbye is sent while the worker still runs.
JoinLater == stage = "requested" /\ stage' = "joined"
Join == stage = "requested" /\ worker = "done" /\ stage' = "joined"

FinishStop ==
  /\ \/ stage = "flagged" /\ stage' = "requested"
     \/ Join
  /\ UNCHANGED <<broadcasting, announcing, worker, target, identity, toRequest,
                 untilNext, startupLeft, pending, untilRequested, untilReply,
                 sent, unanswered, changes, sendErrors>>

\* Mutant of Sends: the payload is made once, when the first one is sent.
SendsCached(type) ==
  /\ sent' = [type |-> type,
              of |-> IF sent = Quiet THEN identity ELSE sent.of]
  /\ UNCHANGED sendErrors

\* A send puts an announcement with the identity of this moment on the wire.
Sends(type) == sent' = [type |-> type, of |-> identity] /\ UNCHANGED sendErrors

SendFails ==
  /\ sendErrors < MaxSendErrors
  /\ sendErrors' = sendErrors + 1 /\ UNCHANGED sent

\* broadcastOfflineNow, whose failure is only recorded, and close.
CloseService ==
  /\ stage = "joined"
  /\ stage' = "closed"
  /\ IF broadcasting THEN Sends("offline") \/ SendFails
                     ELSE UNCHANGED <<sent, sendErrors>>
  /\ UNCHANGED <<broadcasting, announcing, worker, target, identity, toRequest,
                 untilNext, startupLeft, pending, untilRequested, untilReply,
                 unanswered, changes>>

-----------------------------------------------------------------------------
(* The worker thread.                                                      *)

IsStopping == stage # "run"

\* Mutant of StopRequested: join is called before the stop is requested.
StopRequestedLate == stage \notin {"run", "flagged", "requested"}
StopRequested == stage \notin {"run", "flagged"}

\* consumeRequestedBroadcast, asked only when the schedule is not due.
Requested == pending > 0 /\ untilRequested = 0
Consume ==
  IF untilNext > 0
    THEN /\ pending' = pending - 1
         /\ untilRequested' = IF pending > 1 THEN 1 ELSE 0
    ELSE UNCHANGED <<pending, untilRequested>>

\* The head of the loop of run.
BeginRound ==
  /\ worker = "top"
  /\ IF StopRequested
       THEN worker' = "done" /\ UNCHANGED <<pending, untilRequested>>
       ELSE IF broadcasting /\ ~IsStopping /\ (untilNext = 0 \/ Requested)
              THEN worker' = "send" /\ Consume
              ELSE worker' = "poll" /\ UNCHANGED <<pending, untilRequested>>
  /\ UNCHANGED <<broadcasting, announcing, target, stage, identity, toRequest,
                 untilNext, startupLeft, untilReply, sent, unanswered,
                 changes, sendErrors>>

\* broadcastNow and the next date.  A failure leaves the schedule alone.
Broadcast ==
  /\ worker = "send"
  /\ \/ /\ Sends("hello")
        /\ worker' = "poll"
        /\ startupLeft' = IF startupLeft > 0 THEN startupLeft - 1 ELSE 0
        /\ untilNext' = IF startupLeft > 1 THEN 1 ELSE Interval
     \/ /\ SendFails
        /\ worker' = "top"
        /\ UNCHANGED <<startupLeft, untilNext>>
  /\ UNCHANGED <<broadcasting, announcing, target, stage, identity, toRequest,
                 pending, untilRequested, untilReply, unanswered, changes>>

\* pollOnce without a stored hello: no packet, an invalid one, the program's own,
\* a reply or an offline announcement.
PollNothing ==
  /\ worker = "poll"
  /\ worker' = "top"
  /\ UNCHANGED <<broadcasting, announcing, target, stage, identity, toRequest,
                 untilNext, startupLeft, pending, untilRequested, untilReply,
                 sent, unanswered, changes, sendErrors>>

\* shouldReplyToHello
MayReply(a) == broadcasting /\ ~IsStopping /\ untilReply[a] = 0

\* pollOnce with the hello of a peer at address a.
PollHello(a) ==
  /\ worker = "poll"
  /\ unanswered' = unanswered \union {a}
  /\ IF MayReply(a)
       THEN /\ worker' = "reply" /\ target' = a
            /\ untilReply' = [untilReply EXCEPT ![a] = Interval]
       ELSE worker' = "top" /\ UNCHANGED <<target, untilReply>>
  /\ UNCHANGED <<broadcasting, announcing, stage, identity, toRequest,
                 untilNext, startupLeft, pending, untilRequested, sent,
                 changes, sendErrors>>

\* sendReplyTo.  A failure is recorded and the address is not answered again
\* before its interval is over.
Reply ==
  /\ worker = "reply"
  /\ worker' = "top" /\ target' = Nobody
  /\ \/ Sends("reply") /\ unanswered' = unanswered \ {target}
     \/ SendFails /\ UNCHANGED unanswered
  /\ UNCHANGED <<broadcasting, announcing, stage, identity, toRequest,
                 untilNext, startupLeft, pending, untilRequested, untilReply,
                 changes>>

Less(n) == IF n > 0 THEN n - 1 ELSE 0

\* Mutant of Elapsed: an address that was answered is not answered again.
ElapsedOnce == UNCHANGED untilReply

\* The date of a reply is over when its interval has passed.
Elapsed == untilReply' = [a \in Addresses |-> Less(untilReply[a])]

Tick ==
  /\ untilNext > 0 \/ untilRequested > 0 \/ \E a \in Addresses : untilReply[a] > 0
  /\ untilNext' = Less(untilNext)
  /\ untilRequested' = Less(untilRequested)
  /\ Elapsed
  /\ UNCHANGED <<broadcasting, announcing, worker, target, stage, identity,
                 toRequest, startupLeft, pending, sent, unanswered, changes,
                 sendErrors>>

DiscoveryStep ==
  \/ BeginRound \/ Broadcast \/ PollNothing \/ Reply
  \/ \E a \in Addresses : PollHello(a)

DiscNext ==
  \/ StartWorker \/ RequestBurst \/ RaiseStopping \/ FinishStop \/ CloseService
  \/ DiscoveryStep \/ Tick
  \/ \E i \in Identities : ChangeIdentity(i)

DiscSpec == DiscInit /\ [][DiscNext]_discVars

\* The threads run on once they have begun something, and time passes.  A peer
\* that runs sends hellos for ever (its own worker broadcasts on a schedule),
\* so the worker reads one of them also when a reply is due again.
DiscFairness ==
  /\ WF_discVars(RequestBurst) /\ WF_discVars(FinishStop)
  /\ WF_discVars(CloseService)
  /\ WF_discVars(DiscoveryStep) /\ WF_discVars(Tick)
  /\ \A a \in Addresses : SF_discVars(untilReply[a] = 0 /\ PollHello(a))

FairDiscSpec == DiscSpec /\ DiscFairness
-----------------------------------------------------------------------------
(* Properties.                                                             *)

\* The worker implements Announcer: whatever the schedule, the requests and the
\* errors do, nothing is announced after the goodbye or the closing of the
\* socket; in particular stop waits for a reply in preparation.
Outward == INSTANCE Announcer WITH
  phase <- IF stage = "closed" THEN "gone" ELSE "up",
  said <- sent
ImplementsAnnouncer == Outward!AnnSpec

\* A changed identity reaches the others (requestFastBroadcast, and the schedule
\* when its broadcasts fail), unless the program is stopped.
IdentityIsAnnounced ==
  (broadcasting /\ toRequest) ~> (sent.of = identity \/ stage # "run")

\* A peer that keeps sending hellos is answered, although a failed reply uses
\* up the interval of its address (lastHelloReplyTimes_ is set before the send).
HelloIsAnswered ==
  \A a \in Addresses :
    (broadcasting /\ a \in unanswered) ~> (a \notin unanswered \/ stage # "run")

\* stop returns: the worker leaves its loop from wherever it is.
StopReturns == (stage = "flagged") ~> (stage = "closed")
=============================================================================
