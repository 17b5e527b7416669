------------------------------ MODULE ScreenShake ------------------------------
(* Screen shakes (app_runtime.cpp): short events that several devices send to   *)
(* one.  Each sender limits how often it shakes a peer, and the receiver limits   *)
(* each sender once more, by its own preference less a tolerance for the way.    *)
(* Times are in units of the tolerance, half a second; the clocks are steady     *)
(* and run at the same rate.                                                   *)
EXTENDS Integers, Sequences, FiniteSets

CONSTANTS
  Senders,       \* devices that shake this one
  Cooldowns,     \* values the preference may have
  Tolerance,     \* kIncomingScreenShakeCooldownTolerance
  MaxDelay,      \* longest time a shake is on its way
  MaxEntries,    \* kMaximumScreenShakeCooldownEntries
  MaxWaiting,    \* kMaximumPendingScreenShakeRequests
  MaxTime        \* bound on the time

\* The clocks count from 0, and a shake is not on its way for longer than the
\* tolerance that was chosen for that.
ASSUME ShakeAssumption ==
  /\ Cooldowns \subseteq Nat
  /\ {Tolerance, MaxEntries, MaxWaiting, MaxTime} \subseteq Nat
  /\ MaxDelay \in 0 .. Tolerance

VARIABLES
  now,
  preference,  \* screenShakeCooldownMilliseconds_ of the senders and of this device
  outgoing,    \* the senders' outgoingScreenShakeCooldowns_ for this device
  incoming,    \* incomingScreenShakeCooldowns_: sender -> time, for those in the table
  travelling,  \* frames on their way: [from, sent]
  waiting,     \* pendingScreenShakeDeviceIds_
  refused      \* (history) shakes that were not taken: [from, why]

shakeVars == <<now, preference, outgoing, incoming, travelling, waiting, refused>>

Receiver == "receiver"
Never == -1
Times == 0 .. MaxTime

ShakeTypeOK ==
  /\ now \in Times
  /\ preference \in [Senders \union {Receiver} -> Cooldowns]
  /\ outgoing \in [Senders -> Times \union {Never}]
  /\ \E T \in SUBSET Senders : incoming \in [T -> Times]
  /\ Cardinality(DOMAIN incoming) <= MaxEntries
  /\ travelling \subseteq [from : Senders, sent : Times]
  /\ waiting \in Seq(Senders) /\ Len(waiting) <= MaxWaiting
  /\ refused \subseteq [from : Senders, why : {"limited", "table full", "queue full"}]

ShakeInit ==
  /\ now = 0
  /\ preference \in [Senders \union {Receiver} -> Cooldowns]
  /\ outgoing = [s \in Senders |-> Never]
  /\ incoming = <<>>
  /\ travelling = {} /\ waiting = <<>> /\ refused = {}

\* A cooldown that began at start is over.
Over(start, interval) == now >= start + interval

\* sendScreenShakeToSelectedPeer: tryStartOutgoingScreenShakeCooldown, then the
\* task, whose failure is only logged: the cooldown stays.
SendShake(s) ==
  /\ outgoing[s] = Never \/ Over(outgoing[s], preference[s])
  /\ outgoing' = [outgoing EXCEPT ![s] = now]
  /\ \/ travelling' = travelling \union {[from |-> s, sent |-> now]}
     \/ UNCHANGED travelling
  /\ UNCHANGED <<now, preference, incoming, waiting, refused>>

\* Mutant of Tolerated: the receiver counts like the sender.
ToleratedNone(interval) == interval

\* The interval of tryStartIncomingScreenShakeCooldown.
Tolerated(interval) == IF interval > Tolerance THEN interval - Tolerance ELSE 0

\* What tryStartScreenShakeCooldown leaves in the table before it looks at it.
Cooling ==
  LET kept == {s \in DOMAIN incoming : ~Over(incoming[s], Tolerated(preference[Receiver]))}
  IN [s \in kept |-> incoming[s]]

\* enqueueIncomingScreenShake, on the TCP thread.  The cooldown begins before the
\* queue is found full.
ReceiveShake(m) ==
  LET s == m.from
      limited == s \in DOMAIN Cooling
      full == Cardinality(DOMAIN Cooling) >= MaxEntries
      why == IF limited THEN "limited" ELSE IF full THEN "table full" ELSE "queue full" IN
  /\ travelling' = travelling \ {m}
  /\ incoming' = IF limited \/ full THEN Cooling
                 ELSE [x \in DOMAIN Cooling \union {s} |-> IF x = s THEN now ELSE Cooling[x]]
  /\ IF limited \/ full \/ Len(waiting) >= MaxWaiting
       THEN refused' = refused \union {[from |-> s, why |-> why]} /\ UNCHANGED waiting
       ELSE waiting' = Append(waiting, s) /\ UNCHANGED refused
  /\ UNCHANGED <<now, preference, outgoing>>

\* applyNextPendingScreenShakeRequest: the next one of a known sender is shown, the
\* ones of senders that are no longer in peers_ are dropped on the way to it.
ApplyShake ==
  /\ \E n \in 1 .. Len(waiting) : waiting' = SubSeq(waiting, n + 1, Len(waiting))
  /\ UNCHANGED <<now, preference, outgoing, incoming, travelling, refused>>

\* Time passes; no shake is on its way for longer than MaxDelay.
Tick ==
  /\ now < MaxTime
  /\ \A m \in travelling : now < m.sent + MaxDelay
  /\ now' = now + 1
  /\ UNCHANGED <<preference, outgoing, incoming, travelling, waiting, refused>>

ShakeNext ==
  \/ \E s \in Senders : SendShake(s)
  \/ \E m \in travelling : ReceiveShake(m)
  \/ ApplyShake \/ Tick

ShakeSpec == ShakeInit /\ [][ShakeNext]_shakeVars
-----------------------------------------------------------------------------
(* Properties.                                                             *)

\* A sender that keeps to an interval not shorter than the receiver's is never
\* taken for one that shakes too often, whatever the delays up to the tolerance:
\* the two tables, each with its own clock, do not contradict each other.
PoliteShakeIsTaken ==
  \A r \in refused :
    r.why = "limited" => preference[r.from] < preference[Receiver]
=============================================================================
