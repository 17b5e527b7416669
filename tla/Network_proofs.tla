---------------------------- MODULE Network_proofs ----------------------------
(* Proofs about the two services on the network, which share nothing: the     *)
(* discovery worker, for any identities and addresses, any schedule and any    *)
(* number of failing sends; and the receiving side of the TCP transport, for  *)
(* any connections and any bound on the frames.                              *)
EXTENDS Discovery, PeerTransport, SequenceTheorems, TLAPS

-----------------------------------------------------------------------------
(* The discovery worker implements Announcer.                              *)

\* What the worker needs to be in step with Announcer: an identity to announce, and
\* a thread that is over before the goodbye is sent.
Identified == identity \in Identities
JoinedIsDone == stage \in {"joined", "closed"} => worker = "done"
DiscInv == Identified /\ JoinedIsDone

\* The announcements as Announcer sees them.
Outside == <<IF stage = "closed" THEN "gone" ELSE "up", sent>>

LEMMA DiscInitially == DiscInit => DiscInv /\ Outward!AnnInit
PROOF
  <1>1. (CHOOSE i \in Identities : TRUE) \in Identities
    BY DiscoveryAssumption
  <1>. QED BY <1>1
    DEF DiscInit, DiscInv, Identified, JoinedIsDone, Outward!AnnInit

\* An announcement is made before the service is closed, or as it is closed.
LEMMA SendsAnnounce ==
  ASSUME Identified, NEW type \in {"hello", "reply", "offline"}, Sends(type)
  PROVE  sent' \in [type : {type}, of : Identities]
PROOF
  BY DEF Sends, Identified

\* The worker thread announces only while the service is open.
LEMMA WorkerImplements ==
  ASSUME DiscInv, DiscoveryStep
  PROVE  DiscInv' /\ [Outward!AnnNext]_Outside
PROOF
  <1>1. /\ identity' = identity /\ stage' = stage
        /\ worker # "done" /\ stage # "closed"
    BY DEF DiscoveryStep, BeginRound, Broadcast, PollNothing, PollHello, Reply,
         DiscInv, JoinedIsDone
  <1>2. DiscInv'
    BY <1>1 DEF DiscInv, Identified, JoinedIsDone
  <1>3. CASE Broadcast /\ Sends("hello")
    BY <1>1, <1>2, <1>3, SendsAnnounce DEF DiscInv, Outward!AnnNext, Outward!Announce
  <1>4. CASE Reply /\ Sends("reply")
    BY <1>1, <1>2, <1>4, SendsAnnounce DEF DiscInv, Outward!AnnNext, Outward!Announce
  <1>5. CASE sent' = sent
    BY <1>1, <1>2, <1>5 DEF Outside
  <1>6. \/ Broadcast /\ Sends("hello")
        \/ Reply /\ Sends("reply")
        \/ sent' = sent
    BY DEF DiscoveryStep, BeginRound, Broadcast, PollNothing, PollHello, Reply, SendFails
  <1>. QED BY <1>2, <1>3, <1>4, <1>5, <1>6

\* The goodbye is the last announcement.
LEMMA CloseImplements ==
  ASSUME DiscInv, CloseService
  PROVE  DiscInv' /\ [Outward!AnnNext]_Outside
PROOF
  <1>1. /\ stage = "joined" /\ stage' = "closed"
        /\ identity' = identity /\ worker' = worker
        /\ Sends("offline") \/ sent' = sent
    BY DEF CloseService, SendFails
  <1>2. DiscInv'
    BY <1>1 DEF DiscInv, Identified, JoinedIsDone
  <1>3. Outward!Leave
    BY <1>1, SendsAnnounce DEF DiscInv, Outward!Leave
  <1>. QED BY <1>2, <1>3 DEF Outward!AnnNext

\* Every step of the worker, and of those that use it, is a step of Announcer or
\* changes nothing the others can see.
LEMMA StepImplements ==
  ASSUME DiscInv, [DiscNext]_discVars
  PROVE  DiscInv' /\ [Outward!AnnNext]_Outside
PROOF
  <1>1. CASE StartWorker
    BY <1>1 DEF StartWorker, DiscInv, Identified, JoinedIsDone, Outside
  <1>2. CASE RequestBurst \/ RaiseStopping \/ Tick \/ UNCHANGED discVars
    BY <1>2 DEF RequestBurst, RaiseStopping, Tick, discVars, DiscInv, Identified,
         JoinedIsDone, Outside
  <1>3. CASE FinishStop
    BY <1>3 DEF FinishStop, Join, DiscInv, Identified, JoinedIsDone, Outside
  <1>4. ASSUME NEW i \in Identities, ChangeIdentity(i)
        PROVE  DiscInv' /\ [Outward!AnnNext]_Outside
    BY <1>4 DEF ChangeIdentity, DiscInv, Identified, JoinedIsDone, Outside
  <1>. QED BY <1>1, <1>2, <1>3, <1>4, WorkerImplements, CloseImplements DEF DiscNext

\* What the worker announces follows Announcer: nothing after the goodbye or the
\* closing of the socket (discovery_worker.cpp, stop and run).
THEOREM WorkerImplementsAnnouncer == DiscSpec => ImplementsAnnouncer
PROOF
  <1>1. DiscInv /\ [DiscNext]_discVars => DiscInv' /\ [Outward!AnnNext]_Outside
    BY StepImplements
  <1>. QED BY <1>1, DiscInitially, PTL
    DEF DiscSpec, ImplementsAnnouncer, Outward!AnnSpec, Outside

\* What a step of the worker thread leaves of the types.
LEMMA WorkerTypes ==
  ASSUME DiscTypeOK, DiscoveryStep
  PROVE  DiscTypeOK'
PROOF
  <1>. USE DEF DiscTypeOK, Sends, SendFails
  <1>1. /\ BurstCount \in Nat /\ RequestedCount \in Nat
        /\ Interval \in Nat \ {0} /\ MaxSendErrors \in Nat
    BY DiscoveryAssumption DEF RequestedCount
  <1>2. CASE BeginRound
    <2>1. pending' \in 0..RequestedCount /\ untilRequested' \in 0..1
      BY <1>1, <1>2 DEF BeginRound, Consume, Requested
    <2>2. worker' \in {"done", "send", "poll"} /\ worker = "top"
      BY <1>2 DEF BeginRound
    <2>. QED BY <1>2, <2>1, <2>2 DEF BeginRound
  <1>3. CASE Broadcast
    <2>1. untilNext' \in 0..Interval /\ startupLeft' \in 0..BurstCount
      BY <1>1, <1>3 DEF Broadcast
    <2>2. worker' \in {"poll", "top"} /\ worker = "send"
      BY <1>3 DEF Broadcast
    <2>3. /\ sent' \in [type : {"hello", "reply", "offline"}, of : Identities]
               \union {Quiet}
          /\ sendErrors' \in 0..MaxSendErrors
      BY <1>1, <1>3 DEF Broadcast
    <2>. QED BY <1>3, <2>1, <2>2, <2>3 DEF Broadcast
  <1>4. CASE PollNothing
    BY <1>4 DEF PollNothing
  <1>5. ASSUME NEW a \in Addresses, PollHello(a) PROVE DiscTypeOK'
    <2>1. CASE MayReply(a)
      <3>1. untilReply' \in [Addresses -> 0..Interval]
        BY <1>1, <1>5, <2>1 DEF PollHello
      <3>2. target' = a /\ worker' = "reply" /\ a # Nobody
        BY <1>5, <2>1, AddressesAssumption DEF PollHello
      <3>. QED BY <1>5, <3>1, <3>2 DEF PollHello
    <2>2. CASE ~MayReply(a)
      BY <1>5, <2>2 DEF PollHello
    <2>. QED BY <2>1, <2>2
  <1>6. CASE Reply
    <2>1. /\ sent' \in [type : {"hello", "reply", "offline"}, of : Identities]
               \union {Quiet}
          /\ sendErrors' \in 0..MaxSendErrors
      BY <1>1, <1>6 DEF Reply
    <2>2. unanswered' \subseteq Addresses
      BY <1>6 DEF Reply
    <2>. QED BY <1>6, <2>1, <2>2 DEF Reply
  <1>. QED BY <1>2, <1>3, <1>4, <1>5, <1>6 DEF DiscoveryStep

\* What the service, the user and the time leave of them.
LEMMA ServiceTypes ==
  ASSUME DiscTypeOK, [DiscNext]_discVars, ~DiscoveryStep
  PROVE  DiscTypeOK'
PROOF
  <1>. USE DEF DiscTypeOK
  <1>1. /\ BurstCount \in Nat /\ RequestedCount \in Nat
        /\ Interval \in Nat \ {0} /\ MaxSendErrors \in Nat /\ MaxChanges \in Nat
    BY DiscoveryAssumption DEF RequestedCount
  <1>2. CASE StartWorker
    BY <1>1, <1>2 DEF StartWorker
  <1>3. CASE RequestBurst
    <2>1. pending' \in 0..RequestedCount /\ untilRequested' \in 0..1 /\ toRequest' = FALSE
      BY <1>1, <1>3 DEF RequestBurst
    <2>. QED BY <1>3, <2>1 DEF RequestBurst
  <1>4. CASE RaiseStopping \/ FinishStop \/ UNCHANGED discVars
    BY <1>4 DEF RaiseStopping, FinishStop, Join, discVars
  <1>5. CASE CloseService
    <2>1. /\ sent' \in [type : {"hello", "reply", "offline"}, of : Identities]
               \union {Quiet}
          /\ sendErrors' \in 0..MaxSendErrors
      BY <1>1, <1>5 DEF CloseService, Sends, SendFails
    <2>. QED BY <1>5, <2>1 DEF CloseService
  <1>6. CASE Tick
    <2>1. untilNext' \in 0..Interval /\ untilRequested' \in 0..1
      BY <1>1, <1>6 DEF Tick, Less
    <2>2. untilReply' \in [Addresses -> 0..Interval]
      BY <1>1, <1>6 DEF Tick, Elapsed, Less
    <2>. QED BY <1>6, <2>1, <2>2 DEF Tick
  <1>7. ASSUME NEW i \in Identities, ChangeIdentity(i) PROVE DiscTypeOK'
    BY <1>1, <1>7 DEF ChangeIdentity
  <1>. QED BY <1>2, <1>3, <1>4, <1>5, <1>6, <1>7 DEF DiscNext

\* The schedule of the worker stays within its bounds: a burst is never longer than
\* was configured or asked for, no date is further away than the interval, and the thread replies
\* exactly while it has an address to reply to (DiscoveryWorker::run).
THEOREM DiscTypesHold == DiscSpec => []DiscTypeOK
PROOF
  <1>1. DiscInit => DiscTypeOK
    <2>1. (CHOOSE i \in Identities : TRUE) \in Identities
      BY DiscoveryAssumption
    <2>2. ASSUME DiscInit
          PROVE  /\ untilNext \in 0..Interval /\ untilRequested \in 0..1
                 /\ startupLeft \in 0..BurstCount /\ pending \in 0..RequestedCount
                 /\ untilReply \in [Addresses -> 0..Interval]
                 /\ changes \in 0..MaxChanges /\ sendErrors \in 0..MaxSendErrors
      BY <2>2, DiscoveryAssumption DEF DiscInit, RequestedCount
    <2>. QED BY <2>1, <2>2 DEF DiscInit, DiscTypeOK
  <1>2. DiscTypeOK /\ [DiscNext]_discVars => DiscTypeOK'
    BY WorkerTypes, ServiceTypes
  <1>. QED BY <1>1, <1>2, PTL DEF DiscSpec

-----------------------------------------------------------------------------
(* What arrives is handled in the order that the peers relied on, and the    *)
(* error callback is told of every stream that breaks off and of nothing else. *)

\* What the variables range over, and when the thread has a connection.
LinkTypes ==
  /\ link \in [Links -> {"new", "waiting", "accepted", "over"}]
  /\ unread \in [Links -> Seq(FrameClasses)]
  /\ ending \in [Links -> {"open", "closed", "reset"}]
  /\ backlog \in Seq(Links)
  /\ reader \in {"accepting", "checking", "reading", "ended"}
  /\ current \in Links \union {NoLink}
  /\ reader \in {"checking", "reading"} <=> current # NoLink
  /\ streamOpen \in BOOLEAN
  /\ service \in {"running", "stopping", "stopped"}
  /\ frames \in 0 .. MaxFrames
  /\ handled \in Seq([of : Links, frame : FrameClasses])
  /\ noticed \subseteq Links
  /\ earlier \in [Links -> SUBSET Links]

\* The connection that is read is the one that was accepted and is not over.
CurrentIsAccepted == \A c \in Links : link[c] = "accepted" <=> current = c

\* The backlog holds the connections that wait, each of them once.
BacklogWaits ==
  /\ \A i \in DOMAIN backlog : link[backlog[i]] = "waiting"
  /\ \A c \in Links : link[c] = "waiting" => \E i \in DOMAIN backlog : backlog[i] = c
  /\ \A i, j \in DOMAIN backlog : backlog[i] = backlog[j] => i = j

\* Only a connection that was made is closed, or comes after another.
EarlierWereMade ==
  \A d \in Links :
    /\ ending[d] = "closed" => link[d] # "new"
    /\ \A c \in earlier[d] : link[c] # "new"

\* A connection that was closed before another was made waits before it ...
BacklogInOrder ==
  \A i, j \in DOMAIN backlog : backlog[i] \in earlier[backlog[j]] => i < j

\* ... and is over when anything of the other is read or was handled.
EarlierAreOver ==
  /\ current # NoLink => \A c \in earlier[current] : link[c] = "over"
  /\ \A i \in DOMAIN handled :
       /\ link[handled[i].of] \in {"accepted", "over"}
       /\ \A c \in earlier[handled[i].of] : link[c] = "over"

\* transferStreamOpen is true to the frames that were handled, and a connection that
\* was reported is over.
StreamIsKnown ==
  /\ current # NoLink => (streamOpen <=> LeftOpen(current))
  /\ \A c \in noticed : link[c] = "over"

LinkInv ==
  /\ LinkTypes /\ CurrentIsAccepted /\ BacklogWaits /\ EarlierWereMade
  /\ BacklogInOrder /\ EarlierAreOver /\ StreamIsKnown
  /\ HandledInOrder /\ CutStreamIsNoticed
-----------------------------------------------------------------------------
(* What the operators of the model return.                                   *)

\* The place that AcceptLink takes is the first, and what is left of the backlog moves
\* up by one.
LEMMA NextPlaceIsFirst ==
  ASSUME LinkTypes, NEW i \in NextPlaces
  PROVE  /\ i = 1 /\ 1 \in DOMAIN backlog
         /\ RemoveAt(backlog, i) \in Seq(Links)
         /\ DOMAIN RemoveAt(backlog, i) = 1 .. Len(backlog) - 1
         /\ \A j \in 1 .. Len(backlog) - 1 :
              /\ RemoveAt(backlog, i)[j] = backlog[j + 1]
              /\ j + 1 \in DOMAIN backlog
PROOF
  <1>1. /\ i = 1 /\ 1 \in DOMAIN backlog
        /\ backlog \in Seq(Links) /\ Len(backlog) \in Nat
        /\ DOMAIN backlog = 1 .. Len(backlog)
    BY DEF NextPlaces, LinkTypes
  <1>2. SubSeq(backlog, 1, 0) = <<>>
    BY <1>1, SubSeqEmpty
  <1>. DEFINE rest == SubSeq(backlog, 2, Len(backlog))
  <1>3. \A j \in 2 .. Len(backlog) : backlog[j] \in Links
    BY <1>1
  <1>4. /\ rest \in Seq(Links)
        /\ Len(rest) = IF 2 <= Len(backlog) THEN Len(backlog) - 2 + 1 ELSE 0
        /\ \A j \in 1 .. Len(backlog) - 2 + 1 : rest[j] = backlog[2 + j - 1]
    BY <1>1, <1>3, SubSeqProperties
  <1>5. RemoveAt(backlog, i) = rest
    BY <1>1, <1>2, <1>4, ConcatEmptySeq DEF RemoveAt
  <1>6. Len(rest) = Len(backlog) - 1 /\ DOMAIN rest = 1 .. Len(rest)
    BY <1>1, <1>4
  <1>7. \A j \in 1 .. Len(backlog) - 1 :
          rest[j] = backlog[j + 1] /\ j + 1 \in DOMAIN backlog
    <2>. SUFFICES ASSUME NEW j \in 1 .. Len(backlog) - 1
                  PROVE  rest[j] = backlog[j + 1] /\ j + 1 \in DOMAIN backlog
      OBVIOUS
    <2>1. j \in 1 .. Len(backlog) - 2 + 1 /\ 2 + j - 1 = j + 1 /\ j + 1 \in 1 .. Len(backlog)
      BY <1>1
    <2>. QED BY <1>1, <1>4, <2>1
  <1>. QED BY <1>1, <1>4, <1>5, <1>6, <1>7

\* One more frame of a connection that is handled changes what is left open as
\* ReadFrame changes transferStreamOpen, and nothing about the other connections.
LEMMA HandledFrame ==
  ASSUME LinkTypes, NEW c \in Links, NEW f \in FrameClasses,
         handled' = Append(handled, [of |-> c, frame |-> f])
  PROVE  /\ handled' \in Seq([of : Links, frame : FrameClasses])
         /\ DOMAIN handled' = DOMAIN handled \union {Len(handled) + 1}
         /\ \A i \in DOMAIN handled : handled'[i] = handled[i] /\ i < Len(handled) + 1
         /\ handled'[Len(handled) + 1] = [of |-> c, frame |-> f]
         /\ \A d \in Links \ {c} : LeftOpen(d)' <=> LeftOpen(d)
         /\ LeftOpen(c)' <=> \/ f = "opens"
                             \/ f # "closes" /\ LeftOpen(c)
PROOF
  <1>. DEFINE S == [of : Links, frame : FrameClasses]
              e == [of |-> c, frame |-> f]
              n == Len(handled) + 1
  <1>1. handled \in Seq(S) /\ e \in S
    BY DEF LinkTypes
  <1>2. /\ handled' \in Seq(S)
        /\ Len(handled) \in Nat /\ Len(handled') = n
        /\ \A i \in 1 .. Len(handled) : handled'[i] = handled[i]
        /\ handled'[n] = e
    BY <1>1, AppendProperties, LenProperties
  <1>3. DOMAIN handled = 1 .. Len(handled) /\ DOMAIN handled' = 1 .. n
    BY <1>1, <1>2, LenProperties
  <1>4. /\ DOMAIN handled' = DOMAIN handled \union {n}
        /\ \A i \in DOMAIN handled : handled'[i] = handled[i] /\ i < n /\ i \in Int
        /\ n \in Int
    BY <1>2, <1>3
  <1>. DEFINE Marks(d) == {i \in DOMAIN handled :
                             handled[i].of = d /\ handled[i].frame \in {"opens", "closes"}}
              MarksNext(d) == {i \in DOMAIN handled' :
                             handled'[i].of = d /\ handled'[i].frame \in {"opens", "closes"}}
  <1>5. \A d \in Links : LeftOpen(d) <=>
          \E i \in Marks(d) : handled[i].frame = "opens" /\ \A j \in Marks(d) : j <= i
    BY DEF LeftOpen
  <1>6. \A d \in Links : LeftOpen(d)' <=>
          \E i \in MarksNext(d) :
            handled'[i].frame = "opens" /\ \A j \in MarksNext(d) : j <= i
    BY DEF LeftOpen
  <1>7. \A d \in Links : MarksNext(d) =
          IF d = c /\ f \in {"opens", "closes"} THEN Marks(d) \union {n} ELSE Marks(d)
    BY <1>2, <1>4
  <1>8. \A d \in Links \ {c} : LeftOpen(d)' <=> LeftOpen(d)
    BY <1>4, <1>5, <1>6, <1>7
  <1>9. CASE f \in {"opens", "closes"}
    <2>1. n \in MarksNext(c) /\ \A j \in MarksNext(c) : j <= n /\ (j # n => j < n)
      BY <1>4, <1>7, <1>9
    <2>2. LeftOpen(c)' <=> handled'[n].frame = "opens"
      BY <1>4, <1>6, <2>1
    <2>. QED BY <1>2, <1>4, <1>8, <1>9, <2>2
  <1>10. CASE f \notin {"opens", "closes"}
    <2>1. LeftOpen(c)' <=> LeftOpen(c)
      BY <1>4, <1>5, <1>6, <1>7, <1>10
    <2>. QED BY <1>2, <1>4, <1>8, <1>10, <2>1
  <1>. QED BY <1>9, <1>10

\* Every frame that was handled is of a connection.
LEMMA HandledAreOfLinks ==
  ASSUME LinkTypes
  PROVE  \A i \in DOMAIN handled : handled[i].of \in Links
PROOF
  <1>. DEFINE S == [of : Links, frame : FrameClasses]
  <1>1. handled \in Seq(S)
    BY DEF LinkTypes
  <1>2. \A i \in DOMAIN handled : handled[i] \in S
    BY <1>1, ElementOfSeq, LenProperties
  <1>. QED BY <1>2

\* What is left open depends on the frames that were handled only.
LEMMA LeftOpenStays ==
  ASSUME UNCHANGED handled, NEW c
  PROVE  LeftOpen(c)' <=> LeftOpen(c)
PROOF
  BY DEF LeftOpen
-----------------------------------------------------------------------------
(* The senders.                                                              *)

LEMMA LinkInitially == LinkInit => LinkInv
PROOF
  <1>. SUFFICES ASSUME LinkInit PROVE LinkInv
    OBVIOUS
  <1>1. LinkTypes
    <2>1. \A S : <<>> \in Seq(S)
      BY EmptySeq
    <2>2. unread \in [Links -> Seq(FrameClasses)]
      BY <2>1 DEF LinkInit
    <2>3. backlog \in Seq(Links) /\ handled \in Seq([of : Links, frame : FrameClasses])
      BY <2>1 DEF LinkInit
    <2>4. /\ link \in [Links -> {"new", "waiting", "accepted", "over"}]
          /\ ending \in [Links -> {"open", "closed", "reset"}]
          /\ earlier \in [Links -> SUBSET Links]
      BY DEF LinkInit
    <2>5. frames \in 0 .. MaxFrames
      BY LinksAssumption DEF LinkInit
    <2>. QED BY <2>2, <2>3, <2>4, <2>5 DEF LinkInit, LinkTypes
  <1>2. CurrentIsAccepted /\ BacklogWaits /\ BacklogInOrder /\ EarlierWereMade
    BY LinksAssumption
    DEF LinkInit, CurrentIsAccepted, BacklogWaits, BacklogInOrder, EarlierWereMade
  <1>3. EarlierAreOver /\ StreamIsKnown /\ HandledInOrder /\ CutStreamIsNoticed
    BY LinksAssumption
    DEF LinkInit, EarlierAreOver, StreamIsKnown, HandledInOrder, CutStreamIsNoticed
  <1>. QED BY <1>1, <1>2, <1>3 DEF LinkInv

LEMMA ConnectKeeps ==
  ASSUME LinkInv, NEW c \in Links, Connect(c)
  PROVE  LinkInv'
PROOF
  <1>1. /\ LinkTypes /\ CurrentIsAccepted /\ BacklogWaits /\ EarlierWereMade
        /\ BacklogInOrder /\ EarlierAreOver /\ StreamIsKnown
        /\ HandledInOrder /\ CutStreamIsNoticed
    BY DEF LinkInv
  <1>2. /\ link[c] = "new" /\ link' = [link EXCEPT ![c] = "waiting"]
        /\ backlog' = Append(backlog, c)
        /\ earlier' = [earlier EXCEPT ![c] = {d \in Links : ending[d] = "closed"}]
        /\ UNCHANGED <<unread, ending, reader, current, streamOpen, service, frames,
                       handled, noticed>>
    BY DEF Connect
  <1>. DEFINE n == Len(backlog) + 1
  <1>3. /\ backlog \in Seq(Links) /\ Len(backlog) \in Nat
        /\ backlog' \in Seq(Links) /\ DOMAIN backlog' = DOMAIN backlog \union {n}
        /\ n \notin DOMAIN backlog
        /\ \A i \in DOMAIN backlog : /\ backlog'[i] = backlog[i] /\ i < n /\ i \in Nat
                                     /\ backlog[i] \in Links
        /\ backlog'[n] = c
    BY <1>1, <1>2, AppendProperties DEF LinkTypes
  <1>4. LinkTypes'
    BY <1>1, <1>2, <1>3 DEF LinkTypes
  <1>5. /\ \A d \in Links : link'[d] = IF d = c THEN "waiting" ELSE link[d]
        /\ \A d \in Links : earlier'[d] = IF d = c THEN {x \in Links : ending[x] = "closed"}
                                                   ELSE earlier[d]
        /\ \A d \in Links : earlier[d] \subseteq Links
    BY <1>1, <1>2 DEF LinkTypes
  <1>6. CurrentIsAccepted'
    BY <1>1, <1>2, <1>5 DEF CurrentIsAccepted
  <1>7. BacklogWaits'
    BY <1>1, <1>2, <1>3, <1>5 DEF BacklogWaits
  <1>8. EarlierWereMade'
    BY <1>1, <1>2, <1>5 DEF EarlierWereMade
  <1>9. BacklogInOrder'
    <2>1. \A i \in DOMAIN backlog : backlog[i] # c
      BY <1>1, <1>2 DEF BacklogWaits
    <2>2. \A i \in DOMAIN backlog : c \notin earlier[backlog[i]]
      BY <1>1, <1>2, <1>3 DEF EarlierWereMade
    <2>3. ending[c] # "closed"
      BY <1>1, <1>2 DEF EarlierWereMade
    <2>. QED BY <1>1, <1>3, <1>5, <2>1, <2>2, <2>3 DEF BacklogInOrder
  <1>10. \A i \in DOMAIN handled : handled[i].of # c /\ handled[i].of \in Links
    BY <1>1, <1>2, HandledAreOfLinks DEF EarlierAreOver
  <1>11. EarlierAreOver'
    <2>1. current # c /\ (current # NoLink => current \in Links)
      BY <1>1, <1>2 DEF CurrentIsAccepted, LinkTypes
    <2>. QED BY <1>1, <1>2, <1>5, <1>10, <2>1 DEF EarlierAreOver
  <1>12. StreamIsKnown'
    <2>1. current # NoLink => (LeftOpen(current)' <=> LeftOpen(current))
      BY <1>2, LeftOpenStays DEF LeftOpen
    <2>. QED BY <1>1, <1>2, <1>5, <2>1 DEF StreamIsKnown, LinkTypes, LeftOpen
  <1>13. HandledInOrder'
    BY <1>1, <1>2, <1>5, <1>10 DEF HandledInOrder
  <1>14. CutStreamIsNoticed'
    BY <1>1, <1>2, <1>5, LeftOpenStays DEF CutStreamIsNoticed
  <1>. QED BY <1>4, <1>6, <1>7, <1>8, <1>9, <1>11, <1>12, <1>13, <1>14 DEF LinkInv

\* A step that keeps the connections, the backlog and what was handled keeps the
\* invariant, if it keeps the types and closes no connection that was not made.
LEMMA QuietStepKeeps ==
  ASSUME LinkInv, LinkTypes', EarlierWereMade',
         UNCHANGED <<link, backlog, current, streamOpen, handled, noticed, earlier>>,
         service # "running" => service' # "running"
  PROVE  LinkInv'
PROOF
  <1>1. CurrentIsAccepted' /\ BacklogWaits' /\ BacklogInOrder' /\ EarlierAreOver'
    BY DEF LinkInv, CurrentIsAccepted, BacklogWaits, BacklogInOrder, EarlierAreOver
  <1>2. StreamIsKnown' /\ HandledInOrder'
    BY DEF LinkInv, StreamIsKnown, HandledInOrder, LeftOpen
  <1>3. CutStreamIsNoticed'
    BY DEF LinkInv, CutStreamIsNoticed, LeftOpen
  <1>. QED BY <1>1, <1>2, <1>3 DEF LinkInv

LEMMA WriteFrameKeeps ==
  ASSUME LinkInv, NEW c \in Links, WriteFrame(c)
  PROVE  LinkInv'
PROOF
  <1>1. LinkTypes /\ EarlierWereMade
    BY DEF LinkInv
  <1>2. PICK f \in FrameClasses : unread' = [unread EXCEPT ![c] = Append(@, f)]
    BY DEF WriteFrame
  <1>3. Append(unread[c], f) \in Seq(FrameClasses)
    BY <1>1, AppendProperties DEF LinkTypes
  <1>4. unread' \in [Links -> Seq(FrameClasses)]
    BY <1>1, <1>2, <1>3 DEF LinkTypes
  <1>5. frames' \in 0 .. MaxFrames
    BY <1>1, LinksAssumption DEF WriteFrame, LinkTypes
  <1>6. LinkTypes' /\ EarlierWereMade'
    BY <1>1, <1>4, <1>5 DEF WriteFrame, LinkTypes, EarlierWereMade
  <1>. QED BY <1>6, QuietStepKeeps DEF WriteFrame

LEMMA CloseLinkKeeps ==
  ASSUME LinkInv, NEW c \in Links, CloseLink(c)
  PROVE  LinkInv'
PROOF
  <1>1. LinkTypes /\ EarlierWereMade
    BY DEF LinkInv
  <1>2. LinkTypes' /\ EarlierWereMade'
    BY <1>1 DEF CloseLink, Connected, LinkTypes, EarlierWereMade
  <1>. QED BY <1>2, QuietStepKeeps DEF CloseLink

LEMMA ResetLinkKeeps ==
  ASSUME LinkInv, NEW c \in Links, ResetLink(c)
  PROVE  LinkInv'
PROOF
  <1>1. LinkTypes /\ EarlierWereMade
    BY DEF LinkInv
  <1>2. PICK n \in 0 .. Len(unread[c]) :
          unread' = [unread EXCEPT ![c] = SubSeq(@, 1, n)]
    BY DEF ResetLink
  <1>3. SubSeq(unread[c], 1, n) \in Seq(FrameClasses)
    <2>1. unread[c] \in Seq(FrameClasses) /\ Len(unread[c]) \in Nat
      BY <1>1 DEF LinkTypes
    <2>2. \A i \in 1 .. n : unread[c][i] \in FrameClasses
      BY <2>1, ElementOfSeq
    <2>. QED BY <2>1, <2>2, SubSeqProperties
  <1>4. unread' \in [Links -> Seq(FrameClasses)]
    BY <1>1, <1>2, <1>3 DEF LinkTypes
  <1>5. LinkTypes' /\ EarlierWereMade'
    BY <1>1, <1>4 DEF ResetLink, LinkTypes, EarlierWereMade
  <1>. QED BY <1>5, QuietStepKeeps DEF ResetLink
-----------------------------------------------------------------------------
(* The transport's thread.                                                   *)

\* The connection that waited for longest comes after those that are over only: the
\* earlier ones of the backlog are none.
LEMMA AcceptLinkKeeps ==
  ASSUME LinkInv, NEW c \in Links, AcceptLink(c)
  PROVE  LinkInv'
PROOF
  <1>1. /\ LinkTypes /\ CurrentIsAccepted /\ BacklogWaits /\ EarlierWereMade
        /\ BacklogInOrder /\ EarlierAreOver /\ StreamIsKnown
        /\ HandledInOrder /\ CutStreamIsNoticed
    BY DEF LinkInv
  <1>2. /\ reader = "accepting" /\ reader' = "checking"
        /\ link' = [link EXCEPT ![c] = "accepted"]
        /\ current' = c /\ streamOpen' = FALSE
        /\ UNCHANGED <<unread, ending, service, frames, handled, noticed, earlier>>
    BY DEF AcceptLink
  <1>3. PICK i \in NextPlaces : c = backlog[i] /\ backlog' = RemoveAt(backlog, i)
    BY DEF AcceptLink
  <1>4. /\ 1 \in DOMAIN backlog /\ c = backlog[1]
        /\ backlog \in Seq(Links) /\ Len(backlog) \in Nat
        /\ DOMAIN backlog = 1 .. Len(backlog)
        /\ backlog' \in Seq(Links) /\ DOMAIN backlog' = 1 .. Len(backlog) - 1
        /\ \A j \in DOMAIN backlog' : /\ backlog'[j] = backlog[j + 1]
                                      /\ j + 1 \in DOMAIN backlog
                                      /\ j \in Nat
    BY <1>1, <1>3, NextPlaceIsFirst DEF LinkTypes
  <1>5. /\ current = NoLink /\ c # NoLink /\ link[c] = "waiting"
        /\ \A d \in Links : link[d] # "accepted"
        /\ \A d \in Links : link'[d] = IF d = c THEN "accepted" ELSE link[d]
    <2>1. current = NoLink
      BY <1>1, <1>2 DEF LinkTypes
    <2>2. link[c] = "waiting"
      BY <1>1, <1>4 DEF BacklogWaits
    <2>3. \A d \in Links : d # NoLink
      BY LinksAssumption
    <2>4. \A d \in Links : link[d] # "accepted"
      BY <1>1, <2>1, <2>3 DEF CurrentIsAccepted
    <2>5. \A d \in Links : link'[d] = IF d = c THEN "accepted" ELSE link[d]
      BY <1>1, <1>2 DEF LinkTypes
    <2>. QED BY <2>1, <2>2, <2>3, <2>4, <2>5
  <1>6. LinkTypes'
    BY <1>1, <1>2, <1>4, <1>5 DEF LinkTypes
  <1>7. CurrentIsAccepted'
    BY <1>2, <1>5 DEF CurrentIsAccepted
  <1>8. BacklogWaits'
    <2>1. \A j \in DOMAIN backlog' : link'[backlog'[j]] = "waiting"
      <3>. SUFFICES ASSUME NEW j \in DOMAIN backlog'
                    PROVE  link'[backlog'[j]] = "waiting"
        OBVIOUS
      <3>1. j + 1 \in DOMAIN backlog /\ j + 1 # 1 /\ backlog'[j] = backlog[j + 1]
        BY <1>4
      <3>2. backlog[j + 1] # c /\ link[backlog[j + 1]] = "waiting" /\ backlog[j + 1] \in Links
        BY <1>1, <1>4, <3>1 DEF BacklogWaits
      <3>. QED BY <1>5, <3>1, <3>2
    <2>2. \A d \in Links :
            link'[d] = "waiting" => \E j \in DOMAIN backlog' : backlog'[j] = d
      <3>. SUFFICES ASSUME NEW d \in Links, link'[d] = "waiting"
                    PROVE  \E j \in DOMAIN backlog' : backlog'[j] = d
        OBVIOUS
      <3>1. link[d] = "waiting" /\ d # c
        BY <1>5
      <3>2. PICK k \in DOMAIN backlog : backlog[k] = d
        BY <1>1, <3>1 DEF BacklogWaits
      <3>3. k - 1 \in DOMAIN backlog' /\ (k - 1) + 1 = k
        BY <1>4, <3>1, <3>2
      <3>. QED BY <1>4, <3>2, <3>3
    <2>3. \A j, k \in DOMAIN backlog' : backlog'[j] = backlog'[k] => j = k
      <3>. SUFFICES ASSUME NEW j \in DOMAIN backlog', NEW k \in DOMAIN backlog',
                           backlog'[j] = backlog'[k]
                    PROVE  j = k
        OBVIOUS
      <3>1. j + 1 = k + 1
        BY <1>1, <1>4 DEF BacklogWaits
      <3>. QED BY <1>4, <3>1
    <2>. QED BY <2>1, <2>2, <2>3 DEF BacklogWaits
  <1>9. EarlierWereMade'
    BY <1>1, <1>2, <1>5 DEF EarlierWereMade, LinkTypes
  <1>10. BacklogInOrder'
    <2>. SUFFICES ASSUME NEW j \in DOMAIN backlog', NEW k \in DOMAIN backlog',
                         backlog'[j] \in earlier[backlog'[k]]
                  PROVE  j < k
      BY <1>2 DEF BacklogInOrder
    <2>1. j + 1 < k + 1
      BY <1>1, <1>4 DEF BacklogInOrder
    <2>. QED BY <1>4, <2>1
  <1>11. \A d \in earlier[c] : link[d] = "over"
    <2>. SUFFICES ASSUME NEW d \in earlier[c] PROVE link[d] = "over"
      OBVIOUS
    <2>1. d \in Links /\ link[d] \in {"new", "waiting", "accepted", "over"} /\ link[d] # "new"
      BY <1>1 DEF LinkTypes, EarlierWereMade
    <2>2. link[d] # "waiting"
      <3>. SUFFICES ASSUME link[d] = "waiting" PROVE FALSE
        OBVIOUS
      <3>1. PICK k \in DOMAIN backlog : backlog[k] = d
        BY <1>1, <2>1 DEF BacklogWaits
      <3>2. k < 1
        BY <1>1, <1>4, <3>1 DEF BacklogInOrder
      <3>. QED BY <1>4, <3>1, <3>2
    <2>. QED BY <1>5, <2>1, <2>2
  <1>12. EarlierAreOver'
    <2>1. \A d \in Links : link[d] = "over" => link'[d] = "over"
      BY <1>5
    <2>2. \A k \in DOMAIN handled :
            /\ link[handled[k].of] \in {"accepted", "over"} => link'[handled[k].of] = "over"
            /\ earlier[handled[k].of] \subseteq Links
      BY <1>1, <1>5, HandledAreOfLinks DEF LinkTypes
    <2>3. earlier[c] \subseteq Links
      BY <1>1 DEF LinkTypes
    <2>. QED BY <1>1, <1>2, <1>11, <2>1, <2>2, <2>3 DEF EarlierAreOver
  <1>13. \A k \in DOMAIN handled : handled[k].of # c
    BY <1>1, <1>5 DEF EarlierAreOver
  <1>14. StreamIsKnown'
    <2>1. ~ LeftOpen(c)'
      BY <1>2, <1>13 DEF LeftOpen
    <2>2. LeftOpen(current)' <=> LeftOpen(c)'
      BY <1>2 DEF LeftOpen
    <2>. QED BY <1>1, <1>2, <1>5, <2>1, <2>2 DEF StreamIsKnown, LinkTypes
  <1>15. HandledInOrder'
    BY <1>1, <1>2 DEF HandledInOrder
  <1>16. CutStreamIsNoticed'
    BY <1>1, <1>2, <1>5, LeftOpenStays DEF CutStreamIsNoticed
  <1>. QED BY <1>6, <1>7, <1>8, <1>9, <1>10, <1>12, <1>14, <1>15, <1>16 DEF LinkInv

LEMMA CheckStopKeeps ==
  ASSUME LinkInv, CheckStop
  PROVE  LinkInv'
PROOF
  <1>1. LinkTypes' /\ EarlierWereMade'
    BY DEF LinkInv, CheckStop, LinkTypes, EarlierWereMade
  <1>. QED BY <1>1, QuietStepKeeps DEF CheckStop

LEMMA EndThreadKeeps ==
  ASSUME LinkInv, EndThread
  PROVE  LinkInv'
PROOF
  <1>1. LinkTypes' /\ EarlierWereMade'
    BY DEF LinkInv, EndThread, LinkTypes, EarlierWereMade
  <1>. QED BY <1>1, QuietStepKeeps DEF EndThread

\* The end of a connection: it is noticed exactly when the stream is open and the
\* transport runs, or it ends because the transport stops.
LEMMA LeaveKeeps ==
  ASSUME LinkInv, Leave, reader \in {"checking", "reading"}, reader' = "accepting",
         UNCHANGED handled,
         NoticeCut \/ (noticed' = noticed /\ service # "running")
  PROVE  LinkInv'
PROOF
  <1>1. /\ LinkTypes /\ CurrentIsAccepted /\ BacklogWaits /\ EarlierWereMade
        /\ BacklogInOrder /\ EarlierAreOver /\ StreamIsKnown
        /\ HandledInOrder /\ CutStreamIsNoticed
    BY DEF LinkInv
  <1>2. current \in Links /\ current # NoLink /\ link[current] = "accepted"
    BY <1>1 DEF LinkTypes, CurrentIsAccepted
  <1>3. /\ link' = [link EXCEPT ![current] = "over"]
        /\ unread' = [unread EXCEPT ![current] = <<>>]
        /\ current' = NoLink /\ streamOpen' = FALSE
        /\ UNCHANGED <<ending, backlog, service, frames, earlier>>
    BY DEF Leave
  <1>4. \A d \in Links : link'[d] = IF d = current THEN "over" ELSE link[d]
    BY <1>1, <1>3 DEF LinkTypes
  <1>5. /\ noticed' = IF streamOpen /\ service = "running"
                      THEN noticed \union {current} ELSE noticed
    BY DEF NoticeCut
  <1>6. LinkTypes'
    <2>1. unread' \in [Links -> Seq(FrameClasses)]
      BY <1>1, <1>3, EmptySeq DEF LinkTypes
    <2>2. link' \in [Links -> {"new", "waiting", "accepted", "over"}]
      BY <1>1, <1>3 DEF LinkTypes
    <2>. QED BY <1>1, <1>2, <1>3, <1>5, <2>1, <2>2 DEF LinkTypes
  <1>7. CurrentIsAccepted'
    BY <1>1, <1>2, <1>3, <1>4, LinksAssumption DEF CurrentIsAccepted
  <1>8. BacklogWaits'
    <2>1. \A i \in DOMAIN backlog : backlog[i] \in Links /\ backlog[i] # current
      BY <1>1, <1>2, LenProperties, ElementOfSeq DEF LinkTypes, BacklogWaits
    <2>. QED BY <1>1, <1>3, <1>4, <2>1 DEF BacklogWaits
  <1>9. EarlierWereMade' /\ BacklogInOrder'
    BY <1>1, <1>3, <1>4 DEF EarlierWereMade, BacklogInOrder, LinkTypes
  <1>10. EarlierAreOver'
    <2>1. \A i \in DOMAIN handled :
            handled[i].of \in Links /\ earlier[handled[i].of] \subseteq Links
      BY <1>1, HandledAreOfLinks DEF LinkTypes
    <2>. QED BY <1>1, <1>3, <1>4, <2>1 DEF EarlierAreOver
  <1>11. StreamIsKnown'
    BY <1>1, <1>2, <1>3, <1>4, <1>5 DEF StreamIsKnown, LinkTypes
  <1>12. HandledInOrder'
    BY <1>1, <1>3 DEF HandledInOrder
  <1>13. CutStreamIsNoticed'
    <2>. SUFFICES ASSUME NEW d \in Links, link'[d] = "over"
                  PROVE  IF d \in noticed' THEN LeftOpen(d)'
                         ELSE LeftOpen(d)' => service' # "running"
      BY DEF CutStreamIsNoticed
    <2>1. LeftOpen(d)' <=> LeftOpen(d)
      BY LeftOpenStays
    <2>2. CASE d = current
      <3>1. d \notin noticed /\ (streamOpen <=> LeftOpen(d))
        BY <1>1, <1>2, <2>2 DEF StreamIsKnown, LeftOpen
      <3>. QED BY <1>3, <1>5, <2>1, <2>2, <3>1
    <2>3. CASE d # current
      BY <1>1, <1>3, <1>4, <1>5, <2>1, <2>3 DEF CutStreamIsNoticed
    <2>. QED BY <2>2, <2>3
  <1>. QED BY <1>6, <1>7, <1>8, <1>9, <1>10, <1>11, <1>12, <1>13 DEF LinkInv

\* What is handled comes of the connection that is read, and nothing that was
\* handled before is of one that relied on it.
LEMMA ReadFrameKeeps ==
  ASSUME LinkInv, ReadFrame
  PROVE  LinkInv'
PROOF
  <1>1. /\ LinkTypes /\ CurrentIsAccepted /\ BacklogWaits /\ EarlierWereMade
        /\ BacklogInOrder /\ EarlierAreOver /\ StreamIsKnown
        /\ HandledInOrder /\ CutStreamIsNoticed
    BY DEF LinkInv
  <1>. DEFINE f == Head(unread[current])
              n == Len(handled) + 1
  <1>2. /\ reader = "reading" /\ unread[current] # <<>>
        /\ streamOpen' = CASE f = "opens" -> TRUE
                           [] f = "closes" -> FALSE
                           [] OTHER -> streamOpen
        /\ handled' = Append(handled, [of |-> current, frame |-> f])
        /\ unread' = [unread EXCEPT ![current] = Tail(@)]
        /\ reader' = "checking"
        /\ UNCHANGED <<link, ending, backlog, current, service, frames, noticed, earlier>>
    BY DEF ReadFrame
  <1>3. current \in Links /\ current # NoLink /\ link[current] = "accepted"
    BY <1>1, <1>2 DEF LinkTypes, CurrentIsAccepted
  <1>4. unread[current] \in Seq(FrameClasses)
    BY <1>1, <1>3 DEF LinkTypes
  <1>5. f \in FrameClasses /\ Tail(unread[current]) \in Seq(FrameClasses)
    BY <1>2, <1>4, HeadTailProperties
  <1>6. /\ handled' \in Seq([of : Links, frame : FrameClasses])
        /\ DOMAIN handled' = DOMAIN handled \union {n}
        /\ \A i \in DOMAIN handled : handled'[i] = handled[i] /\ i < n
        /\ handled'[n] = [of |-> current, frame |-> f]
        /\ \A d \in Links \ {current} : LeftOpen(d)' <=> LeftOpen(d)
        /\ LeftOpen(current)' <=> (f = "opens" \/ (f # "closes" /\ LeftOpen(current)))
    <2>1. PICK c \in Links : c = current
      BY <1>3
    <2>2. handled' = Append(handled, [of |-> c, frame |-> f])
      BY <1>2, <2>1
    <2>3. /\ handled' \in Seq([of : Links, frame : FrameClasses])
          /\ DOMAIN handled' = DOMAIN handled \union {n}
          /\ \A i \in DOMAIN handled : handled'[i] = handled[i] /\ i < n
          /\ handled'[n] = [of |-> c, frame |-> f]
          /\ \A d \in Links \ {c} : LeftOpen(d)' <=> LeftOpen(d)
          /\ LeftOpen(c)' <=> (f = "opens" \/ (f # "closes" /\ LeftOpen(c)))
      BY <1>1, <1>5, <2>2, HandledFrame
    <2>4. (LeftOpen(current)' <=> LeftOpen(c)') /\ (LeftOpen(current) <=> LeftOpen(c))
      BY <1>2, <2>1 DEF LeftOpen
    <2>. QED BY <2>1, <2>3, <2>4
  <1>7. LinkTypes'
    <2>1. unread' \in [Links -> Seq(FrameClasses)]
      BY <1>1, <1>2, <1>5 DEF LinkTypes
    <2>2. streamOpen' \in BOOLEAN
      BY <1>1, <1>2 DEF LinkTypes
    <2>. QED BY <1>1, <1>2, <1>3, <1>6, <2>1, <2>2 DEF LinkTypes
  <1>8. CurrentIsAccepted' /\ BacklogWaits' /\ EarlierWereMade' /\ BacklogInOrder'
    BY <1>1, <1>2 DEF CurrentIsAccepted, BacklogWaits, EarlierWereMade, BacklogInOrder
  <1>9. EarlierAreOver'
    BY <1>1, <1>2, <1>3, <1>6 DEF EarlierAreOver
  <1>10. StreamIsKnown'
    BY <1>1, <1>2, <1>6 DEF StreamIsKnown
  <1>11. HandledInOrder'
    <2>. SUFFICES ASSUME NEW i \in DOMAIN handled', NEW j \in DOMAIN handled', i < j
                  PROVE  handled'[j].of \notin earlier[handled'[i].of]
      BY <1>2 DEF HandledInOrder
    <2>1. n \in Nat /\ \A k \in DOMAIN handled : k \in Nat
      BY <1>1, LenProperties DEF LinkTypes
    <2>2. CASE j \in DOMAIN handled
      <3>1. i \in DOMAIN handled
        BY <1>6, <2>1, <2>2
      <3>. QED BY <1>1, <1>6, <2>2, <3>1 DEF HandledInOrder
    <2>3. CASE j = n
      <3>1. i \in DOMAIN handled /\ handled'[j].of = current
        BY <1>6, <2>1, <2>3
      <3>2. \A c \in earlier[handled[i].of] : link[c] = "over"
        BY <1>1, <3>1 DEF EarlierAreOver
      <3>. QED BY <1>3, <1>6, <3>1, <3>2
    <2>. QED BY <1>6, <2>2, <2>3
  <1>12. CutStreamIsNoticed'
    BY <1>1, <1>2, <1>3, <1>6 DEF CutStreamIsNoticed
  <1>. QED BY <1>7, <1>8, <1>9, <1>10, <1>11, <1>12 DEF LinkInv
-----------------------------------------------------------------------------
(* stop(), and the theorems.                                                 *)

\* The connections that are refused by stop() had sent nothing that was handled.
LEMMA CallStopKeeps ==
  ASSUME LinkInv, CallStop
  PROVE  LinkInv'
PROOF
  <1>1. /\ LinkTypes /\ CurrentIsAccepted /\ BacklogWaits /\ EarlierWereMade
        /\ BacklogInOrder /\ EarlierAreOver /\ StreamIsKnown
        /\ HandledInOrder /\ CutStreamIsNoticed
    BY DEF LinkInv
  <1>2. /\ service' = "stopping" /\ backlog' = <<>>
        /\ link' = [c \in Links |-> IF link[c] = "waiting" THEN "over" ELSE link[c]]
        /\ unread' = [c \in Links |-> IF link[c] = "waiting" THEN <<>> ELSE unread[c]]
        /\ UNCHANGED <<ending, reader, current, streamOpen, frames, handled, noticed,
                       earlier>>
    BY DEF CallStop
  <1>3. LinkTypes'
    <2>1. unread' \in [Links -> Seq(FrameClasses)]
      BY <1>1, <1>2, EmptySeq DEF LinkTypes
    <2>2. backlog' \in Seq(Links)
      BY <1>2, EmptySeq
    <2>3. link' \in [Links -> {"new", "waiting", "accepted", "over"}]
      BY <1>1, <1>2 DEF LinkTypes
    <2>. QED BY <1>1, <1>2, <2>1, <2>2, <2>3 DEF LinkTypes
  <1>4. \A d \in Links : link'[d] = IF link[d] = "waiting" THEN "over" ELSE link[d]
    BY <1>2
  <1>5. CurrentIsAccepted'
    BY <1>1, <1>2, <1>4 DEF CurrentIsAccepted
  <1>6. BacklogWaits' /\ BacklogInOrder'
    <2>1. DOMAIN backlog' = {}
      BY <1>2
    <2>2. \A d \in Links : link'[d] # "waiting"
      BY <1>4
    <2>. QED BY <2>1, <2>2 DEF BacklogWaits, BacklogInOrder
  <1>7. EarlierWereMade'
    BY <1>1, <1>2, <1>4 DEF EarlierWereMade, LinkTypes
  <1>8. EarlierAreOver'
    <2>1. \A i \in DOMAIN handled :
            handled[i].of \in Links /\ earlier[handled[i].of] \subseteq Links
      BY <1>1, HandledAreOfLinks DEF LinkTypes
    <2>2. current # NoLink => current \in Links /\ earlier[current] \subseteq Links
      BY <1>1 DEF LinkTypes
    <2>. QED BY <1>1, <1>2, <1>4, <2>1, <2>2 DEF EarlierAreOver
  <1>9. StreamIsKnown'
    BY <1>1, <1>2, <1>4 DEF StreamIsKnown, LeftOpen, LinkTypes
  <1>10. HandledInOrder'
    BY <1>1, <1>2 DEF HandledInOrder
  <1>11. CutStreamIsNoticed'
    BY <1>1, <1>2, <1>4, LeftOpenStays DEF CutStreamIsNoticed, StreamIsKnown
  <1>. QED BY <1>3, <1>5, <1>6, <1>7, <1>8, <1>9, <1>10, <1>11 DEF LinkInv

LEMMA JoinedKeeps ==
  ASSUME LinkInv, Joined
  PROVE  LinkInv'
PROOF
  <1>1. LinkTypes' /\ EarlierWereMade'
    BY DEF LinkInv, Joined, LinkTypes, EarlierWereMade
  <1>. QED BY <1>1, QuietStepKeeps DEF Joined

LEMMA LinkStep == LinkInv /\ [LinkNext]_linkVars => LinkInv'
PROOF
  <1>. SUFFICES ASSUME LinkInv, [LinkNext]_linkVars PROVE LinkInv'
    OBVIOUS
  <1>1. CASE \E c \in Links : Connect(c) \/ WriteFrame(c) \/ CloseLink(c) \/ ResetLink(c)
    BY <1>1, ConnectKeeps, WriteFrameKeeps, CloseLinkKeeps, ResetLinkKeeps
  <1>2. CASE \E c \in Links : AcceptLink(c)
    BY <1>2, AcceptLinkKeeps
  <1>3. CASE CheckStop \/ EndThread
    BY <1>3, CheckStopKeeps, EndThreadKeeps
  <1>4. CASE LeaveStopped
    BY <1>4, LeaveKeeps DEF LeaveStopped
  <1>5. CASE ReadFrame
    BY <1>5, ReadFrameKeeps
  <1>6. CASE ReadMalformed \/ ReadEnd
    BY <1>6, LeaveKeeps DEF ReadMalformed, ReadEnd, AfterError
  <1>7. CASE CallStop \/ Joined
    BY <1>7, CallStopKeeps, JoinedKeeps
  <1>8. CASE UNCHANGED linkVars
    <2>1. LinkTypes' /\ EarlierWereMade'
      BY <1>8 DEF LinkInv, linkVars, LinkTypes, EarlierWereMade
    <2>. QED BY <1>8, <2>1, QuietStepKeeps DEF linkVars
  <1>. QED BY <1>1, <1>2, <1>3, <1>4, <1>5, <1>6, <1>7, <1>8 DEF LinkNext, ReaderStep

LEMMA LinkInvariance == LinkSpec => []LinkInv
PROOF
  BY LinkInitially, LinkStep, PTL DEF LinkSpec

\* The transport's variables have their types.
THEOREM LinkTypesHold == LinkSpec => []LinkTypeOK
PROOF
  <1>1. LinkInv => LinkTypeOK
    <2>. SUFFICES ASSUME LinkInv PROVE LinkTypeOK
      OBVIOUS
    <2>1. LinkTypes /\ \A i \in DOMAIN backlog : link[backlog[i]] = "waiting"
      BY DEF LinkInv, BacklogWaits
    <2>2. \A c \in Links : \A i \in DOMAIN unread[c] : unread[c][i] \in FrameClasses
      BY <2>1, ElementOfSeq, LenProperties DEF LinkTypes
    <2>. QED BY <2>1, <2>2 DEF LinkTypes, LinkTypeOK
  <1>. QED BY <1>1, LinkInvariance, PTL

\* A frame of a connection that a peer had closed before it made another is never
\* handled after a frame of the other, however many peers send.
THEOREM FramesAreHandledInOrder == LinkSpec => []HandledInOrder
PROOF
  <1>1. LinkInv => HandledInOrder
    BY DEF LinkInv
  <1>. QED BY <1>1, LinkInvariance, PTL

\* The error callback is told of a transfer stream that breaks off while the
\* transport runs, and of nothing else.
THEOREM CutStreamsAreNoticed == LinkSpec => []CutStreamIsNoticed
PROOF
  <1>1. LinkInv => CutStreamIsNoticed
    BY DEF LinkInv
  <1>. QED BY <1>1, LinkInvariance, PTL

=============================================================================
