------------------------- MODULE LocalServices_proofs -------------------------
(* Proofs about what one computer keeps for itself: the cooldowns of screen    *)
(* shakes, the start-up entry, the avatars of others and the crash reports,    *)
(* four components that share nothing.                                        *)
EXTENDS ScreenShake, StartupLaunch, Avatars, CrashReports, WellFoundedInduction,
        SequenceTheorems, FiniteSetTheorems, TLAPS

-----------------------------------------------------------------------------
(* The two limits of screen shakes do not contradict each other, for any      *)
(* senders, preferences, tolerance and bound on the time.                    *)

\* The types that the argument needs.
ShakeTypes ==
  /\ now \in Times
  /\ preference \in [Senders \union {Receiver} -> Cooldowns]
  /\ outgoing \in [Senders -> Times \union {Never}]
  /\ DOMAIN incoming \subseteq Senders
  /\ \A s \in DOMAIN incoming : incoming[s] \in Times
  /\ travelling \subseteq [from : Senders, sent : Times]

\* A shake on its way was sent when its sender's cooldown began, or before that, and
\* arrives within MaxDelay.
ShakesAreRecent ==
  \A m \in travelling :
    /\ m.sent <= now /\ now <= m.sent + MaxDelay
    /\ m.sent <= outgoing[m.from]

\* Times of two shakes of one sender.
Apart(a, b, interval) == a + interval <= b \/ b + interval <= a

\* Two shakes of one sender are a cooldown apart.
ShakesAreApart ==
  \A m, n \in travelling :
    m.from = n.from /\ m # n => Apart(m.sent, n.sent, preference[m.from])

\* Behind each entry of the receiver's table is a shake, sent at most MaxDelay
\* before, and a cooldown apart from those that are still on their way.
SentFor(s, sent) ==
  /\ sent <= incoming[s] /\ incoming[s] <= sent + MaxDelay
  /\ sent <= outgoing[s]
  /\ \A m \in travelling : m.from = s => Apart(m.sent, sent, preference[s])

EntriesHaveShakes ==
  \A s \in DOMAIN incoming :
    incoming[s] <= now /\ \E sent \in Times : SentFor(s, sent)

\* A cooldown never begins in the future.
CooldownsHaveBegun == \A s \in Senders : outgoing[s] <= now

ShakeInv ==
  /\ ShakeTypes /\ CooldownsHaveBegun
  /\ ShakesAreRecent /\ ShakesAreApart /\ EntriesHaveShakes
  /\ PoliteShakeIsTaken
-----------------------------------------------------------------------------
(* What the receiver keeps in its table keeps its value.                     *)

\* The entries that are kept are those whose cooldown is not over.
LEMMA CoolingKeeps ==
  ASSUME ShakeTypes
  PROVE  /\ DOMAIN Cooling \subseteq DOMAIN incoming
         /\ \A s \in DOMAIN Cooling :
              /\ Cooling[s] = incoming[s]
              /\ now < incoming[s] + Tolerated(preference[Receiver])
PROOF
  <1>1. preference[Receiver] \in Nat
    BY ShakeAssumption DEF ShakeTypes
  <1>2. Tolerated(preference[Receiver]) \in Nat
    BY <1>1, ShakeAssumption DEF Tolerated
  <1>3. \A s \in DOMAIN incoming : incoming[s] \in Int /\ now \in Int
    BY ShakeAssumption DEF ShakeTypes, Times
  <1>. QED BY <1>2, <1>3 DEF Cooling, Over

\* A shake that is refused because of an entry was sent too early.
LEMMA LimitedIsImpolite ==
  ASSUME ShakeInv, NEW m \in travelling, m.from \in DOMAIN Cooling
  PROVE  preference[m.from] < preference[Receiver]
PROOF
  <1>. DEFINE s == m.from
  <1>1. /\ s \in Senders /\ s \in DOMAIN incoming
        /\ m.sent \in Int /\ now \in Int /\ incoming[s] \in Int
        /\ preference[s] \in Nat /\ preference[Receiver] \in Nat
        /\ MaxDelay \in Nat /\ Tolerance \in Nat /\ MaxDelay <= Tolerance
    <2>1. m \in [from : Senders, sent : Times] /\ ShakeTypes
      BY DEF ShakeInv, ShakeTypes
    <2>2. s \in Senders /\ m.sent \in Times
      BY <2>1
    <2>3. preference[s] \in Cooldowns /\ preference[Receiver] \in Cooldowns
      BY <2>1, <2>2 DEF ShakeTypes
    <2>4. s \in DOMAIN incoming /\ incoming[s] \in Times /\ now \in Times
      BY <2>1, CoolingKeeps DEF ShakeTypes
    <2>5. \A x \in Times : x \in Int
      BY DEF Times
    <2>6. /\ MaxDelay \in Nat /\ Tolerance \in Nat /\ MaxDelay <= Tolerance
          /\ Cooldowns \subseteq Nat
      BY ShakeAssumption
    <2>7. preference[s] \in Nat /\ preference[Receiver] \in Nat
      BY <2>3, <2>6
    <2>. QED BY <2>2, <2>4, <2>5, <2>6, <2>7
  <1>2. now < incoming[s] + Tolerated(preference[Receiver])
    BY CoolingKeeps DEF ShakeInv
  <1>3. PICK sent \in Times : SentFor(s, sent)
    BY <1>1 DEF ShakeInv, EntriesHaveShakes
  <1>4. /\ sent \in Int
        /\ sent <= incoming[s] /\ incoming[s] <= sent + MaxDelay
        /\ Apart(m.sent, sent, preference[s])
    BY <1>3 DEF SentFor, Times
  <1>5. incoming[s] <= now /\ m.sent <= now /\ now <= m.sent + MaxDelay
    BY <1>1 DEF ShakeInv, EntriesHaveShakes, ShakesAreRecent
  <1>6. SUFFICES ASSUME preference[Receiver] <= preference[s] PROVE FALSE
    BY <1>1
  <1>7. CASE preference[Receiver] <= Tolerance
    BY <1>1, <1>2, <1>5, <1>7 DEF Tolerated
  <1>8. CASE preference[Receiver] > Tolerance
    <2>1. now < incoming[s] + preference[Receiver] - Tolerance
      BY <1>1, <1>2, <1>8 DEF Tolerated
    <2>. QED BY <1>1, <1>4, <1>5, <1>6, <1>8, <2>1 DEF Apart
  <1>. QED BY <1>1, <1>7, <1>8
-----------------------------------------------------------------------------
(* The invariant.                                                           *)

LEMMA ShakeInitially == ShakeInit => ShakeInv
PROOF
  BY ShakeAssumption
  DEF ShakeInit, ShakeInv, ShakeTypes, Times, CooldownsHaveBegun, Never,
      ShakesAreRecent, ShakesAreApart, EntriesHaveShakes, PoliteShakeIsTaken

LEMMA SendKeeps ==
  ASSUME ShakeInv, NEW s \in Senders, SendShake(s)
  PROVE  ShakeInv'
PROOF
  <1>. USE ShakeAssumption
  <1>1. /\ now \in Nat /\ now' = now /\ preference' = preference
        /\ incoming' = incoming /\ refused' = refused
        /\ outgoing' = [outgoing EXCEPT ![s] = now]
        /\ \A x \in Senders : outgoing[x] \in Int /\ preference[x] \in Nat
        /\ \A m \in travelling : m.from \in Senders /\ m.sent \in Nat
    <2>1. ShakeTypes /\ \A x \in Times : x \in Nat
      BY DEF ShakeInv, Times
    <2>2. now \in Nat
      BY <2>1 DEF ShakeTypes
    <2>3. \A x \in Senders : outgoing[x] \in Int /\ preference[x] \in Nat
      <3>. SUFFICES ASSUME NEW x \in Senders
                    PROVE  outgoing[x] \in Int /\ preference[x] \in Nat
        OBVIOUS
      <3>1. preference[x] \in Cooldowns
        BY <2>1 DEF ShakeTypes
      <3>2. outgoing[x] \in Times \union {-1}
        BY <2>1 DEF ShakeTypes, Never
      <3>3. \A t \in Times \union {-1} : t \in Int
        BY DEF Times
      <3>4. Cooldowns \subseteq Nat
        BY ShakeAssumption
      <3>. QED BY <3>1, <3>2, <3>3, <3>4
    <2>4. \A m \in travelling : m.from \in Senders /\ m.sent \in Nat
      BY <2>1 DEF ShakeTypes
    <2>5. /\ now' = now /\ preference' = preference
          /\ incoming' = incoming /\ refused' = refused
          /\ outgoing' = [outgoing EXCEPT ![s] = now]
      BY DEF SendShake
    <2>. QED BY <2>2, <2>3, <2>4, <2>5
  <1>2. /\ travelling \subseteq travelling'
        /\ \A m \in travelling' : m \in travelling \/ m = [from |-> s, sent |-> now]
    BY DEF SendShake
  <1>3. \A t \in Int : t <= outgoing[s] /\ outgoing[s] # Never =>
          t + preference[s] <= now
    BY <1>1 DEF SendShake, Over
  <1>4. \A x \in Senders : outgoing[x] <= outgoing'[x]
    BY <1>1 DEF ShakeInv, CooldownsHaveBegun, ShakeTypes
  <1>5. ShakeTypes'
    BY <1>1, <1>2 DEF ShakeInv, ShakeTypes
  <1>6. CooldownsHaveBegun'
    BY <1>1 DEF ShakeInv, ShakeTypes, CooldownsHaveBegun
  <1>7. ShakesAreRecent'
    <2>. SUFFICES ASSUME NEW m \in travelling'
                  PROVE /\ m.sent <= now /\ now <= m.sent + MaxDelay
                        /\ m.sent <= outgoing'[m.from]
      BY <1>1 DEF ShakesAreRecent
    <2>1. CASE m \in travelling
      BY <1>1, <1>4, <2>1 DEF ShakeInv, ShakesAreRecent, ShakeTypes
    <2>2. CASE m = [from |-> s, sent |-> now]
      BY <1>1, <2>2 DEF ShakeInv, ShakeTypes
    <2>. QED BY <1>2, <2>1, <2>2
  <1>8. ShakesAreApart'
    <2>. SUFFICES ASSUME NEW m \in travelling', NEW n \in travelling',
                         m.from = n.from, m # n
                  PROVE Apart(m.sent, n.sent, preference[m.from])
      BY <1>1 DEF ShakesAreApart
    <2>1. \A x \in travelling : x.from = s => x.sent + preference[s] <= now
      BY <1>1, <1>3 DEF ShakeInv, ShakesAreRecent, Never
    <2>. QED BY <1>1, <1>2, <2>1 DEF ShakeInv, ShakesAreApart, Apart
  <1>9. EntriesHaveShakes'
    <2>. SUFFICES ASSUME NEW x \in DOMAIN incoming
                  PROVE incoming[x] <= now /\ \E sent \in Times : SentFor(x, sent)'
      BY <1>1 DEF EntriesHaveShakes, Times
    <2>1. PICK sent \in Times : SentFor(x, sent)
      BY DEF ShakeInv, EntriesHaveShakes
    <2>2. x = s => sent + preference[s] <= now
      BY <1>1, <1>3, <2>1 DEF SentFor, Times, Never
    <2>3. SentFor(x, sent)'
      <3>1. /\ sent <= incoming'[x] /\ incoming'[x] <= sent + MaxDelay
            /\ sent <= outgoing'[x]
        BY <1>1, <1>4, <2>1 DEF SentFor, ShakeInv, ShakeTypes, Times
      <3>2. ASSUME NEW m \in travelling', m.from = x
            PROVE Apart(m.sent, sent, preference'[x])
        BY <1>1, <1>2, <2>1, <2>2, <3>2 DEF SentFor, Apart
      <3>. QED BY <3>1, <3>2 DEF SentFor
    <2>. QED BY <2>3 DEF ShakeInv, EntriesHaveShakes
  <1>10. PoliteShakeIsTaken'
    BY <1>1 DEF ShakeInv, PoliteShakeIsTaken
  <1>. QED BY <1>5, <1>6, <1>7, <1>8, <1>9, <1>10 DEF ShakeInv

LEMMA ReceiveKeeps ==
  ASSUME ShakeInv, NEW m \in travelling, ReceiveShake(m)
  PROVE  ShakeInv'
PROOF
  <1>. USE ShakeAssumption
  <1>1. /\ now \in Nat /\ now' = now /\ preference' = preference
        /\ outgoing' = outgoing /\ travelling' = travelling \ {m}
        /\ m.from \in Senders /\ m.sent \in Times
    <2>1. ShakeTypes /\ m \in [from : Senders, sent : Times]
      BY DEF ShakeInv, ShakeTypes
    <2>2. now \in Nat
      BY <2>1 DEF ShakeTypes, Times
    <2>. QED BY <2>1, <2>2 DEF ReceiveShake
  <1>2. /\ DOMAIN incoming' \subseteq DOMAIN incoming \union {m.from}
        /\ \A x \in DOMAIN incoming' :
             (x \in DOMAIN incoming /\ incoming'[x] = incoming[x])
               \/ (x = m.from /\ incoming'[x] = now)
    BY CoolingKeeps DEF ReceiveShake, ShakeInv
  <1>3. ShakeTypes'
    BY <1>1, <1>2 DEF ShakeInv, ShakeTypes, Times
  <1>4. CooldownsHaveBegun' /\ ShakesAreRecent' /\ ShakesAreApart'
    BY <1>1 DEF ShakeInv, CooldownsHaveBegun, ShakesAreRecent, ShakesAreApart
  <1>5. EntriesHaveShakes'
    <2>. SUFFICES ASSUME NEW x \in DOMAIN incoming'
                  PROVE incoming'[x] <= now /\ \E sent \in Times : SentFor(x, sent)'
      BY <1>1 DEF EntriesHaveShakes, Times
    <2>1. CASE x \in DOMAIN incoming /\ incoming'[x] = incoming[x]
      BY <1>1, <2>1 DEF ShakeInv, EntriesHaveShakes, SentFor
    <2>2. CASE x = m.from /\ incoming'[x] = now
      <3>1. SentFor(x, m.sent)'
        BY <1>1, <2>2 DEF ShakeInv, ShakesAreRecent, ShakesAreApart, SentFor, Apart
      <3>. QED BY <1>1, <2>2, <3>1
    <2>. QED BY <1>2, <2>1, <2>2
  <1>6. PoliteShakeIsTaken'
    <2>1. \A r \in refused' :
            r \in refused
              \/ (r.from = m.from /\ (r.why = "limited" => m.from \in DOMAIN Cooling))
      <3>. DEFINE why == IF m.from \in DOMAIN Cooling THEN "limited"
                         ELSE IF Cardinality(DOMAIN Cooling) >= MaxEntries
                                THEN "table full" ELSE "queue full"
      <3>1. why = "limited" => m.from \in DOMAIN Cooling
        OBVIOUS
      <3>2. refused' \subseteq refused \union {[from |-> m.from, why |-> why]}
        BY DEF ReceiveShake
      <3>. HIDE DEF why
      <3>. QED BY <3>1, <3>2
    <2>. QED BY <1>1, <2>1, LimitedIsImpolite DEF ShakeInv, PoliteShakeIsTaken
  <1>. QED BY <1>3, <1>4, <1>5, <1>6 DEF ShakeInv

LEMMA TickKeeps == ASSUME ShakeInv, Tick PROVE ShakeInv'
PROOF
  <1>. USE ShakeAssumption
  <1>1. /\ now \in Nat /\ now' = now + 1 /\ now' \in Times
        /\ UNCHANGED <<preference, outgoing, incoming, travelling, refused>>
        /\ \A s \in Senders : outgoing[s] \in Int
        /\ \A m \in travelling : m.sent \in Nat /\ now < m.sent + MaxDelay
        /\ \A s \in DOMAIN incoming : incoming[s] \in Nat
    <2>1. ShakeTypes /\ \A x \in Times : x \in Nat
      BY DEF ShakeInv, Times
    <2>2. /\ \A s \in Senders : outgoing[s] \in Int
          /\ \A s \in DOMAIN incoming : incoming[s] \in Nat
      BY <2>1 DEF ShakeTypes, Never
    <2>3. \A m \in travelling : m.sent \in Nat
      BY <2>1 DEF ShakeTypes
    <2>4. now \in Nat /\ now + 1 \in Times
      BY <2>1 DEF ShakeTypes, Times, Tick
    <2>. QED BY <2>2, <2>3, <2>4 DEF Tick
  <1>2. ShakeTypes' /\ PoliteShakeIsTaken' /\ ShakesAreApart'
    BY <1>1 DEF ShakeInv, ShakeTypes, PoliteShakeIsTaken, ShakesAreApart
  <1>3. CooldownsHaveBegun' /\ ShakesAreRecent'
    BY <1>1 DEF ShakeInv, CooldownsHaveBegun, ShakesAreRecent
  <1>4. EntriesHaveShakes'
    <2>. SUFFICES ASSUME NEW s \in DOMAIN incoming
                  PROVE incoming[s] <= now' /\ \E sent \in Times : SentFor(s, sent)'
      BY <1>1 DEF EntriesHaveShakes, Times
    <2>1. PICK sent \in Times : SentFor(s, sent)
      BY DEF ShakeInv, EntriesHaveShakes
    <2>2. SentFor(s, sent)'
      BY <1>1, <2>1 DEF SentFor
    <2>3. incoming[s] <= now'
      BY <1>1 DEF ShakeInv, EntriesHaveShakes
    <2>. QED BY <2>2, <2>3
  <1>. QED BY <1>2, <1>3, <1>4 DEF ShakeInv

LEMMA ShakeSteps == ShakeInv /\ [ShakeNext]_shakeVars => ShakeInv'
PROOF
  <1>. SUFFICES ASSUME ShakeInv, [ShakeNext]_shakeVars PROVE ShakeInv'
    OBVIOUS
  <1>1. CASE ApplyShake \/ UNCHANGED shakeVars
    BY <1>1 DEF ApplyShake, shakeVars, ShakeInv, ShakeTypes, CooldownsHaveBegun,
         ShakesAreRecent, ShakesAreApart, EntriesHaveShakes, SentFor,
         PoliteShakeIsTaken
  <1>. QED BY <1>1, SendKeeps, ReceiveKeeps, TickKeeps DEF ShakeNext

\* A sender that keeps to an interval not shorter than the receiver's is never
\* refused as shaking too often (tryStartOutgoingScreenShakeCooldown against
\* tryStartIncomingScreenShakeCooldown), while the way takes no longer than the
\* tolerance.
THEOREM PoliteShakes == ShakeSpec => []PoliteShakeIsTaken
PROOF
  <1>1. ShakeInv => PoliteShakeIsTaken
    BY DEF ShakeInv
  <1>. QED BY <1>1, ShakeInitially, ShakeSteps, PTL DEF ShakeSpec

\* The table and the queue never grow over their limits.
ShakeBounds ==
  /\ incoming \in [DOMAIN incoming -> Times]
  /\ IsFiniteSet(DOMAIN incoming) /\ Cardinality(DOMAIN incoming) <= MaxEntries
  /\ waiting \in Seq(Senders) /\ Len(waiting) <= MaxWaiting
  /\ refused \subseteq [from : Senders, why : {"limited", "table full", "queue full"}]

LEMMA ReceiveBounds ==
  ASSUME ShakeTypes, ShakeBounds, NEW m \in travelling, ReceiveShake(m)
  PROVE  ShakeBounds'
PROOF
  <1>. DEFINE s == m.from
              limited == s \in DOMAIN Cooling
              full == Cardinality(DOMAIN Cooling) >= MaxEntries
  <1>1. MaxEntries \in Nat /\ MaxWaiting \in Nat /\ s \in Senders
    BY ShakeAssumption DEF ShakeTypes
  <1>2. /\ IsFiniteSet(DOMAIN Cooling)
        /\ Cardinality(DOMAIN Cooling) <= Cardinality(DOMAIN incoming)
    BY CoolingKeeps, FS_Subset DEF ShakeBounds
  <1>3. /\ Cardinality(DOMAIN Cooling) \in Nat
        /\ Cardinality(DOMAIN Cooling) <= MaxEntries
    <2>1. IsFiniteSet(DOMAIN incoming) /\ Cardinality(DOMAIN incoming) <= MaxEntries
      BY DEF ShakeBounds
    <2>2. Cardinality(DOMAIN Cooling) \in Nat /\ Cardinality(DOMAIN incoming) \in Nat
      BY <1>2, <2>1, FS_CardinalityType
    <2>. QED BY <1>1, <1>2, <2>1, <2>2
  <1>4. /\ IsFiniteSet(DOMAIN Cooling \union {s})
        /\ ~limited => Cardinality(DOMAIN Cooling \union {s})
                          = Cardinality(DOMAIN Cooling) + 1
    BY <1>2, FS_AddElement
  <1>8. incoming' \in [DOMAIN incoming' -> Times]
    <2>1. Cooling \in [DOMAIN Cooling -> Times]
      BY CoolingKeeps DEF Cooling, ShakeTypes
    <2>2. now \in Times
      BY DEF ShakeTypes
    <2>3. CASE limited \/ full
      <3>1. incoming' = Cooling
        BY <2>3 DEF ReceiveShake
      <3>. QED BY <2>1, <3>1
    <2>4. CASE ~(limited \/ full)
      <3>1. incoming' = [x \in DOMAIN Cooling \union {s} |->
                           IF x = s THEN now ELSE Cooling[x]]
        BY <2>4 DEF ReceiveShake
      <3>. QED BY <2>1, <2>2, <3>1
    <2>. QED BY <2>3, <2>4
  <1>5. IsFiniteSet(DOMAIN incoming') /\ Cardinality(DOMAIN incoming') <= MaxEntries
    <2>1. CASE limited \/ full
      <3>1. incoming' = Cooling
        BY <2>1 DEF ReceiveShake
      <3>. QED BY <1>2, <1>3, <3>1
    <2>2. CASE ~(limited \/ full)
      <3>1. DOMAIN incoming' = DOMAIN Cooling \union {s}
        BY <2>2 DEF ReceiveShake
      <3>. QED BY <1>1, <1>3, <1>4, <2>2, <3>1
    <2>. QED BY <2>1, <2>2
  <1>6. waiting' \in Seq(Senders) /\ Len(waiting') <= MaxWaiting
    <2>1. waiting \in Seq(Senders) /\ Len(waiting) <= MaxWaiting
      BY DEF ShakeBounds
    <2>2. \/ waiting' = waiting
          \/ ~(Len(waiting) >= MaxWaiting) /\ waiting' = Append(waiting, s)
      BY DEF ReceiveShake
    <2>3. CASE ~(Len(waiting) >= MaxWaiting) /\ waiting' = Append(waiting, s)
      BY <1>1, <2>1, <2>3
    <2>. QED BY <2>1, <2>2, <2>3
  <1>7. refused' \subseteq [from : Senders, why : {"limited", "table full", "queue full"}]
    <2>1. refused \subseteq [from : Senders, why : {"limited", "table full", "queue full"}]
      BY DEF ShakeBounds
    <2>2. \/ refused' = refused
          \/ refused' = refused \union {[from |-> s, why |-> "limited"]}
          \/ refused' = refused \union {[from |-> s, why |-> "table full"]}
          \/ refused' = refused \union {[from |-> s, why |-> "queue full"]}
      BY DEF ReceiveShake
    <2>3. \A why \in {"limited", "table full", "queue full"} :
            [from |-> s, why |-> why]
              \in [from : Senders, why : {"limited", "table full", "queue full"}]
      BY <1>1
    <2>. QED BY <2>1, <2>2, <2>3
  <1>. QED BY <1>5, <1>6, <1>7, <1>8 DEF ShakeBounds, Times

\* The times stay in their range, and the table of senders and the queue of shakes
\* within kMaximumScreenShakeCooldownEntries and kMaximumPendingScreenShakeRequests,
\* for any number of senders.
THEOREM ShakeTypesHold == ShakeSpec => []ShakeTypeOK
PROOF
  <1>1. ShakeInit => ShakeBounds
    <2>. SUFFICES ASSUME ShakeInit PROVE ShakeBounds
      OBVIOUS
    <2>1. DOMAIN incoming = {}
      BY DEF ShakeInit
    <2>3. incoming \in [DOMAIN incoming -> Times]
      BY DEF ShakeInit
    <2>2. waiting \in Seq(Senders) /\ Len(waiting) = 0
      BY EmptySeq DEF ShakeInit
    <2>. QED BY <2>1, <2>2, <2>3, FS_EmptySet, ShakeAssumption DEF ShakeInit, ShakeBounds
  <1>2. ShakeInv /\ ShakeBounds /\ [ShakeNext]_shakeVars => ShakeBounds'
    <2>. SUFFICES ASSUME ShakeInv, ShakeBounds, [ShakeNext]_shakeVars
                  PROVE  ShakeBounds'
      OBVIOUS
    <2>1. ASSUME NEW s \in Senders, SendShake(s) PROVE ShakeBounds'
      BY <2>1 DEF SendShake, ShakeBounds
    <2>2. ASSUME NEW m \in travelling, ReceiveShake(m) PROVE ShakeBounds'
      BY <2>2, ReceiveBounds DEF ShakeInv
    <2>3. CASE ApplyShake
      <3>1. PICK n \in 1 .. Len(waiting) : waiting' = SubSeq(waiting, n + 1, Len(waiting))
        BY <2>3 DEF ApplyShake
      <3>2. waiting \in Seq(Senders) /\ Len(waiting) <= MaxWaiting
        BY DEF ShakeBounds
      <3>3. MaxWaiting \in Nat
        BY ShakeAssumption
      <3>4. waiting' \in Seq(Senders) /\ Len(waiting') <= MaxWaiting
        BY <3>1, <3>2, <3>3
      <3>5. incoming' = incoming /\ refused' = refused
        BY <2>3 DEF ApplyShake
      <3>. QED BY <3>4, <3>5 DEF ShakeBounds, Times
    <2>4. CASE Tick \/ UNCHANGED shakeVars
      BY <2>4 DEF Tick, shakeVars, ShakeBounds
    <2>. QED BY <2>1, <2>2, <2>3, <2>4 DEF ShakeNext
  <1>3. ShakeInv /\ ShakeBounds => ShakeTypeOK
    <2>. SUFFICES ASSUME ShakeInv, ShakeBounds PROVE ShakeTypeOK
      OBVIOUS
    <2>1. incoming \in [DOMAIN incoming -> Times] /\ DOMAIN incoming \in SUBSET Senders
      BY DEF ShakeInv, ShakeTypes, ShakeBounds
    <2>. QED BY <2>1 DEF ShakeInv, ShakeTypes, ShakeBounds, ShakeTypeOK
  <1>. QED BY <1>1, <1>2, <1>3, ShakeInitially, ShakeSteps, PTL DEF ShakeSpec

-----------------------------------------------------------------------------
(* A start-up entry stays switched off, for any copies of the program, any     *)
(* failures and any moment the process ends at.                              *)

ConfigRecords == [launch : BOOLEAN, dark : BOOLEAN]
Plain == [step : {"look", "write", "clear", "verify", "save", "show"},
          by : Callers, on : BOOLEAN]
Flushes == [step : {"flush"}, by : Callers, on : BOOLEAN, old : ConfigRecords]

\* The user interface thread works for a copy that runs, whose file is empty while
\* it is being written.
DutyHasProgram ==
  /\ duty # Free => running \in Folders
  /\ duty.step = "flush" => configs[running] = Unreadable

\* A write of the entry was not begun against the will Windows has recorded.
WindowsIsHeard ==
  switchedOff = Windows =>
    /\ registered # Nobody /\ approval = "disabled"
    /\ duty.step \notin {"write", "clear", "verify"}

\* A copy whose page switched the entry off, and nobody since, runs alone if any
\* does, remembers it unless its file is damaged, and is about to write nothing else.
OwnerRemembers ==
  switchedOff \in Folders =>
    /\ running \in {Nobody, switchedOff}
    /\ configs[switchedOff] # Unreadable => ~configs[switchedOff].launch
    /\ duty.step \in {"write", "clear", "verify"} => registered = Nobody /\ ~duty.on
    /\ duty.step \in {"save", "flush"} /\ duty.by # "dark" => ~duty.on
    /\ duty.step = "flush" /\ duty.by = "dark" => ~duty.old.launch

\* A page that is about to save that the entry is off has removed it.
PageSavesLast ==
  duty.step \in {"save", "flush"} => (duty.by = "launch" /\ ~duty.on => registered = Nobody)

StartInv ==
  /\ StartTypeOK /\ DutyHasProgram
  /\ WindowsIsHeard /\ OwnerRemembers /\ PageSavesLast
  /\ OffStaysOff

-----------------------------------------------------------------------------
LEMMA NamesDiffer == Nobody \notin Folders /\ Windows \notin Folders /\ Nobody # Windows
PROOF
  BY FoldersAssumption DEF Nobody, Windows

LEMMA StartInitially == StartInit => StartInv
PROOF
  <1>. SUFFICES ASSUME StartInit PROVE StartInv
    OBVIOUS
  <1>1. Defaults \in ConfigRecords
    BY DEF Defaults, ConfigRecords
  <1>2. configs \in [Folders -> ConfigRecords \union {Unreadable}]
    BY <1>1 DEF StartInit
  <1>3. StartTypeOK
    BY <1>2 DEF StartInit, StartTypeOK, ConfigRecords
  <1>4. /\ DutyHasProgram /\ WindowsIsHeard /\ OwnerRemembers /\ PageSavesLast
        /\ OffStaysOff
    BY NamesDiffer
    DEF StartInit, DutyHasProgram, WindowsIsHeard, OwnerRemembers, PageSavesLast,
        OffStaysOff, Free
  <1>. QED BY <1>3, <1>4 DEF StartInv

\* The shapes of duty at each of its steps.
LEMMA DutyShapes ==
  ASSUME StartTypeOK
  PROVE  /\ duty.step \in {"look", "write", "clear", "verify", "save", "show"} => duty \in Plain
         /\ duty.step = "flush" => duty \in Flushes
         /\ duty.step # "free" => duty # Free
PROOF
  BY DEF StartTypeOK, Plain, Flushes, Free, ConfigRecords

\* The step of a start that has nothing more to do.
LEMMA ShowIsPlain == [step |-> "show", by |-> "start", on |-> FALSE] \in Plain
PROOF
  BY DEF Plain, Callers

LEMMA SynchronizeKeeps == ASSUME StartInv, Synchronize PROVE StartInv'
PROOF
  <1>1. /\ UNCHANGED <<registered, approval, configs, running, toggleShown, switchedOff>>
        /\ running \in Folders
    BY DutyShapes DEF StartInv, DutyHasProgram, Synchronize
  <1>2. \E step \in {"save", "show", "write"}, on \in BOOLEAN :
          /\ duty' = Step(step, "start", on)
          /\ step = "save" => (on => StartupState = "Enabled")
          /\ step = "write" =>
               /\ StartupState \notin {"Enabled", "DisabledBySystem"}
               /\ Readable /\ on = configs[running].launch
    <2>1. Readable => configs[running] \in ConfigRecords
      BY <1>1 DEF StartInv, StartTypeOK, Readable, ConfigRecords
    <2>2. CASE duty' = Step("show", "start", FALSE)
      BY <2>2
    <2>3. CASE duty' # Step("show", "start", FALSE)
      <3>1. /\ Readable
            /\ LET configured == Loaded("launch") IN
               duty' = CASE StartupState = "Enabled" ->
                          Step(IF configured THEN "show" ELSE "save", "start", TRUE)
                     [] StartupState = "DisabledBySystem" ->
                          Step(IF configured THEN "save" ELSE "show", "start", FALSE)
                     [] OTHER -> Step("write", "start", configured)
        BY <2>3 DEF Synchronize
      <3>2. Loaded("launch") = configs[running].launch /\ Loaded("launch") \in BOOLEAN
        BY <2>1, <3>1 DEF Loaded, ConfigRecords
      <3>3. CASE StartupState = "Enabled"
        BY <3>1, <3>2, <3>3
      <3>4. CASE StartupState = "DisabledBySystem"
        BY <3>1, <3>2, <3>4
      <3>5. CASE StartupState \notin {"Enabled", "DisabledBySystem"}
        BY <3>1, <3>2, <3>5
      <3>. QED BY <3>3, <3>4, <3>5
    <2>. QED BY <2>2, <2>3
  <1>3. PICK step \in {"save", "show", "write"}, on \in BOOLEAN :
          /\ duty' = Step(step, "start", on)
          /\ step = "save" => (on => StartupState = "Enabled")
          /\ step = "write" =>
               /\ StartupState \notin {"Enabled", "DisabledBySystem"}
               /\ Readable /\ on = configs[running].launch
    BY <1>2
  <1>4. duty' = [step |-> step, by |-> "start", on |-> on]
    BY <1>3 DEF Step
  <1>5. StartTypeOK'
    BY <1>1, <1>4 DEF StartInv, StartTypeOK, Callers
  <1>6. switchedOff # Nobody => StartupState # "Enabled"
    BY DEF StartInv, OffStaysOff, StartupState, Registered, Disabled
  <1>7. switchedOff # Nobody /\ step = "write" => registered = Nobody
    BY <1>3 DEF StartInv, OffStaysOff, StartupState, Registered, Disabled
  <1>8. WindowsIsHeard'
    BY <1>1, <1>4, <1>7, NamesDiffer DEF StartInv, WindowsIsHeard
  <1>9. OwnerRemembers'
    <2>1. switchedOff \in Folders => switchedOff = running
      BY <1>1, NamesDiffer DEF StartInv, OwnerRemembers
    <2>2. switchedOff \in Folders /\ step = "write" => registered = Nobody /\ ~on
      BY <1>3, <1>7, <2>1, NamesDiffer DEF StartInv, OwnerRemembers, Readable
    <2>3. switchedOff \in Folders /\ step = "save" => ~on
      BY <1>3, <1>6, NamesDiffer
    <2>. QED BY <1>1, <1>4, <2>1, <2>2, <2>3 DEF StartInv, OwnerRemembers
  <1>10. DutyHasProgram' /\ PageSavesLast' /\ OffStaysOff'
    BY <1>1, <1>4
    DEF StartInv, DutyHasProgram, PageSavesLast, OffStaysOff, Registered, Disabled
  <1>. QED BY <1>5, <1>8, <1>9, <1>10 DEF StartInv
-----------------------------------------------------------------------------
LEMMA ProgramKeeps ==
  ASSUME StartInv, NEW f \in Folders, StartProgram(f)
  PROVE  StartInv'
PROOF
  BY NamesDiffer
  DEF StartProgram, Step, StartInv, StartTypeOK, Callers, DutyHasProgram, WindowsIsHeard,
      OwnerRemembers, PageSavesLast, OffStaysOff, Registered, Disabled, Free

\* The steps that change nothing but duty and what is shown, and leave nothing to do.
LEMMA RestKeeps ==
  ASSUME StartInv, ShowMain \/ OpenSettings \/ Fails \/ SaveFails
  PROVE  StartInv'
PROOF
  <1>1. UNCHANGED <<registered, approval, configs, running, switchedOff>>
    BY DEF ShowMain, OpenSettings, Fails, SaveFails
  <1>2. toggleShown' \in BOOLEAN
    <2>1. CASE ShowMain
      <3>1. Loaded("launch") \in BOOLEAN
        BY <2>1, DutyShapes
        DEF ShowMain, Loaded, Readable, Defaults, StartInv, StartTypeOK, DutyHasProgram
      <3>. QED BY <2>1, <3>1 DEF ShowMain
    <2>. QED BY <2>1 DEF StartInv, StartTypeOK, OpenSettings, Fails, SaveFails
  <1>3. duty' = duty \/ duty' = Free
          \/ (duty' = [step |-> "show", by |-> "start", on |-> FALSE] /\ duty.step # "free")
    BY DEF ShowMain, OpenSettings, Fails, SaveFails, AfterSave, Step, Free
  <1>4. StartTypeOK'
    <2>1. duty' = duty \/ duty' = Free \/ duty' \in Plain
      BY <1>3, ShowIsPlain
    <2>. QED BY <1>1, <1>2, <2>1 DEF StartInv, StartTypeOK, Plain
  <1>5. DutyHasProgram'
    BY <1>1, <1>3, DutyShapes DEF StartInv, DutyHasProgram, Free
  <1>6. WindowsIsHeard' /\ OwnerRemembers' /\ PageSavesLast' /\ OffStaysOff'
    BY <1>1, <1>3
    DEF StartInv, WindowsIsHeard, OwnerRemembers, PageSavesLast, OffStaysOff,
        Registered, Disabled, Free
  <1>. QED BY <1>4, <1>5, <1>6 DEF StartInv

LEMMA ToggleKeeps == ASSUME StartInv, ToggleLaunch PROVE StartInv'
PROOF
  BY NamesDiffer
  DEF ToggleLaunch, Step, StartInv, StartTypeOK, Callers, DutyHasProgram, WindowsIsHeard,
      OwnerRemembers, PageSavesLast, OffStaysOff, Registered, Disabled, Free

LEMMA SettingKeeps ==
  ASSUME StartInv, NEW on \in BOOLEAN, SaveSetting(on)
  PROVE  StartInv'
PROOF
  BY NamesDiffer
  DEF SaveSetting, Step, StartInv, StartTypeOK, Callers, DutyHasProgram, WindowsIsHeard,
      OwnerRemembers, PageSavesLast, OffStaysOff, Registered, Disabled, Free
-----------------------------------------------------------------------------
LEMMA EntryKeeps ==
  ASSUME StartInv, WriteEntry \/ ClearEntry \/ VerifyEntry
  PROVE  StartInv'
PROOF
  <1>1. duty \in Plain /\ duty.step \in {"write", "clear", "verify"} /\ running \in Folders
    BY DutyShapes
    DEF WriteEntry, ClearEntry, VerifyEntry, StartInv, DutyHasProgram
  <1>2. /\ switchedOff # Windows
        /\ switchedOff \in Folders => registered = Nobody /\ ~duty.on
    BY <1>1 DEF StartInv, WindowsIsHeard, OwnerRemembers
  <1>3. PICK step \in {"clear", "verify", "show", "save"} :
          /\ duty' = [duty EXCEPT !.step = step]
          /\ step = "clear" => WriteEntry
          /\ step = "verify" => ClearEntry
          /\ step \in {"show", "save"} => VerifyEntry
          /\ (step = "show") <=> (VerifyEntry /\ duty.by = "start")
    BY DEF WriteEntry, ClearEntry, VerifyEntry
  <1>4. /\ duty' \in Plain /\ duty'.step = step
        /\ duty'.by = duty.by /\ duty'.on = duty.on
    BY <1>1, <1>3 DEF Plain
  <1>5. /\ UNCHANGED <<configs, running, switchedOff>>
        /\ registered' \in Folders \union {Nobody}
        /\ approval' \in {"absent", "enabled", "disabled"}
        /\ toggleShown' \in BOOLEAN
        /\ ~duty.on => registered' = registered \/ registered' = Nobody
    BY <1>1 DEF WriteEntry, ClearEntry, VerifyEntry, StartInv, StartTypeOK, Plain
  <1>6. StartTypeOK'
    BY <1>4, <1>5 DEF StartInv, StartTypeOK, Plain
  <1>7. DutyHasProgram' /\ WindowsIsHeard'
    BY <1>1, <1>2, <1>4, <1>5 DEF DutyHasProgram, WindowsIsHeard
  <1>8. OwnerRemembers'
    BY <1>2, <1>4, <1>5 DEF StartInv, OwnerRemembers
  <1>9. PageSavesLast'
    BY <1>3, <1>4 DEF PageSavesLast, VerifyEntry, StartupState, Registered
  <1>10. OffStaysOff'
    <2>1. switchedOff \in Folders \union {Nobody}
      BY <1>2 DEF StartInv, StartTypeOK
    <2>. QED BY <1>2, <1>5, <2>1 DEF OffStaysOff, Registered
  <1>. QED BY <1>6, <1>7, <1>8, <1>9, <1>10 DEF StartInv

LEMMA SaveBeginsKeeps == ASSUME StartInv, SaveBegins PROVE StartInv'
PROOF
  <1>1. duty \in Plain /\ duty.step = "save" /\ running \in Folders
    BY DutyShapes DEF SaveBegins, StartInv, DutyHasProgram
  <1>2. configs[running] \in ConfigRecords
    BY <1>1 DEF SaveBegins, Readable, StartInv, StartTypeOK, ConfigRecords
  <1>3. /\ duty' = [step |-> "flush", by |-> duty.by, on |-> duty.on,
                    old |-> configs[running]]
        /\ duty' \in Flushes
    BY <1>1, <1>2 DEF SaveBegins, Plain, Flushes
  <1>4. /\ UNCHANGED <<registered, approval, running, toggleShown, switchedOff>>
        /\ configs' = [configs EXCEPT ![running] = Unreadable]
    BY DEF SaveBegins
  <1>5. StartTypeOK'
    BY <1>3, <1>4 DEF StartInv, StartTypeOK, Flushes, ConfigRecords
  <1>6. DutyHasProgram' /\ WindowsIsHeard' /\ PageSavesLast' /\ OffStaysOff'
    BY <1>1, <1>3, <1>4
    DEF StartInv, StartTypeOK, DutyHasProgram, WindowsIsHeard, PageSavesLast, OffStaysOff,
        Registered, Disabled
  <1>7. OwnerRemembers'
    <2>. SUFFICES ASSUME switchedOff \in Folders
                  PROVE  /\ running \in {Nobody, switchedOff}
                         /\ configs'[switchedOff] = Unreadable
                         /\ duty.by # "dark" => ~duty.on
                         /\ ~configs[running].launch
      BY <1>3, <1>4 DEF OwnerRemembers
    <2>1. switchedOff = running
      BY <1>1, NamesDiffer DEF StartInv, OwnerRemembers
    <2>. QED BY <1>1, <1>4, <2>1
      DEF StartInv, StartTypeOK, OwnerRemembers, SaveBegins, Readable
  <1>. QED BY <1>5, <1>6, <1>7 DEF StartInv

LEMMA SaveEndsKeeps == ASSUME StartInv, SaveEnds PROVE StartInv'
PROOF
  <1>1. duty \in Flushes /\ duty.step = "flush" /\ running \in Folders
    BY DutyShapes DEF SaveEnds, StartInv, DutyHasProgram
  <1>. DEFINE new == With(duty.old, FieldOf(duty.by), duty.on)
  <1>2. /\ new \in ConfigRecords
        /\ new.launch = IF duty.by = "dark" THEN duty.old.launch ELSE duty.on
    BY <1>1 DEF With, FieldOf, Flushes, ConfigRecords
  <1>3. new # Unreadable
    BY <1>2 DEF ConfigRecords, Unreadable
  <1>. HIDE DEF new
  <1>4. /\ UNCHANGED <<registered, approval, running, toggleShown>>
        /\ configs' = configs \/ configs' = [configs EXCEPT ![running] = new]
        /\ switchedOff' = IF duty.by = "launch" /\ ~duty.on THEN running ELSE switchedOff
        /\ duty' = Free \/ duty' = [step |-> "show", by |-> "start", on |-> FALSE]
    BY DEF SaveEnds, AfterSave, Step, new
  <1>5. StartTypeOK'
    <2>0. configs \in [Folders -> ConfigRecords \union {Unreadable}]
      BY DEF StartInv, StartTypeOK, ConfigRecords
    <2>1. configs' \in [Folders -> ConfigRecords \union {Unreadable}]
      BY <1>2, <1>4, <2>0
    <2>2. duty' = Free \/ duty' \in Plain
      BY <1>4, ShowIsPlain
    <2>. QED BY <1>1, <1>4, <2>1, <2>2 DEF StartInv, StartTypeOK, ConfigRecords, Plain
  <1>6. DutyHasProgram' /\ PageSavesLast'
    BY <1>1, <1>4 DEF DutyHasProgram, PageSavesLast, Free
  <1>7. OffStaysOff'
    BY <1>1, <1>4 DEF StartInv, OffStaysOff, PageSavesLast, Registered, Disabled
  <1>8. WindowsIsHeard'
    BY <1>1, <1>4, NamesDiffer DEF StartInv, WindowsIsHeard, Free
  <1>9. OwnerRemembers'
    <2>. SUFFICES ASSUME switchedOff' \in Folders
                  PROVE  /\ running = switchedOff'
                         /\ configs'[running] # Unreadable => ~configs'[running].launch
      BY <1>4 DEF OwnerRemembers, Free
    <2>1. running = switchedOff'
      BY <1>1, <1>4, NamesDiffer DEF StartInv, OwnerRemembers
    <2>2. CASE duty.by = "launch" /\ ~duty.on
      <3>1. ~new.launch
        BY <1>2, <2>2
      <3>2. configs'[running] \in {new, Unreadable}
        BY <1>1, <1>4 DEF StartInv, StartTypeOK, DutyHasProgram
      <3>. QED BY <2>1, <3>1, <3>2
    <2>3. CASE ~(duty.by = "launch" /\ ~duty.on)
      BY <1>1, <1>2, <1>4, <2>1, <2>3 DEF StartInv, StartTypeOK, OwnerRemembers
    <2>. QED BY <2>1, <2>2, <2>3
  <1>. QED BY <1>5, <1>6, <1>7, <1>8, <1>9 DEF StartInv
-----------------------------------------------------------------------------
LEMMA EndKeeps == ASSUME StartInv, EndProgram PROVE StartInv'
PROOF
  BY DEF EndProgram, StartInv, StartTypeOK, DutyHasProgram, WindowsIsHeard,
      OwnerRemembers, PageSavesLast, OffStaysOff, Registered, Disabled, Free

LEMMA WindowsKeeps == ASSUME StartInv, DisableInWindows \/ EnableInWindows PROVE StartInv'
PROOF
  BY NamesDiffer
  DEF DisableInWindows, EnableInWindows, StartInv, StartTypeOK, DutyHasProgram,
      WindowsIsHeard, OwnerRemembers, PageSavesLast, OffStaysOff, Registered, Disabled,
      Free

LEMMA MoveKeeps ==
  ASSUME StartInv, NEW f \in Folders, NEW g \in Folders, MoveProgram(f, g)
  PROVE  StartInv'
PROOF
  <1>1. /\ UNCHANGED <<registered, approval, running, duty, toggleShown>>
        /\ running = Nobody /\ f # g
        /\ configs' = [configs EXCEPT ![g] = configs[f], ![f] = Defaults]
    BY DEF MoveProgram
  <1>2. /\ switchedOff = f => switchedOff' = g
        /\ switchedOff = g => switchedOff' = Nobody
        /\ switchedOff \notin {f, g} => switchedOff' = switchedOff
    BY <1>1 DEF MoveProgram
  <1>3. configs \in [Folders -> ConfigRecords \union {Unreadable}]
    BY DEF StartInv, StartTypeOK, ConfigRecords
  <1>4. configs' \in [Folders -> ConfigRecords \union {Unreadable}]
    BY <1>1, <1>3 DEF Defaults, ConfigRecords
  <1>5. duty = Free
    BY <1>1, NamesDiffer DEF StartInv, DutyHasProgram
  <1>6. StartTypeOK'
    <2>1. switchedOff' \in Folders \union {Nobody, Windows}
      BY <1>2 DEF StartInv, StartTypeOK
    <2>. QED BY <1>1, <1>4, <2>1 DEF StartInv, StartTypeOK, ConfigRecords
  <1>7. DutyHasProgram' /\ PageSavesLast'
    BY <1>1, <1>5 DEF DutyHasProgram, PageSavesLast, Free
  <1>8. switchedOff' # Nobody => switchedOff # Nobody
    BY <1>2, NamesDiffer
  <1>9. switchedOff' = Windows => switchedOff = Windows
    BY <1>2, NamesDiffer
  <1>10. OffStaysOff' /\ WindowsIsHeard'
    BY <1>1, <1>8, <1>9 DEF StartInv, OffStaysOff, WindowsIsHeard, Registered, Disabled
  <1>11. OwnerRemembers'
    <2>. SUFFICES ASSUME switchedOff' \in Folders
                  PROVE configs'[switchedOff'] # Unreadable => ~configs'[switchedOff'].launch
      BY <1>1, <1>5 DEF OwnerRemembers, Free
    <2>1. CASE switchedOff = f
      BY <1>1, <1>2, <1>3, <2>1 DEF StartInv, OwnerRemembers
    <2>2. CASE switchedOff \notin {f, g}
      BY <1>1, <1>2, <1>3, <2>2 DEF StartInv, OwnerRemembers
    <2>. QED BY <1>2, <2>1, <2>2, NamesDiffer
  <1>. QED BY <1>6, <1>7, <1>10, <1>11 DEF StartInv

LEMMA StartSteps == StartInv /\ [StartNext]_startVars => StartInv'
PROOF
  <1>. SUFFICES ASSUME StartInv, [StartNext]_startVars PROVE StartInv'
    OBVIOUS
  <1>1. CASE UNCHANGED startVars
    BY <1>1 DEF startVars, StartInv, StartTypeOK, DutyHasProgram, WindowsIsHeard,
         OwnerRemembers, PageSavesLast, OffStaysOff, Registered, Disabled
  <1>. QED BY <1>1, ProgramKeeps, SynchronizeKeeps, RestKeeps, ToggleKeeps,
            SettingKeeps, EntryKeeps, SaveBeginsKeeps, SaveEndsKeeps, EndKeeps,
            WindowsKeeps, MoveKeeps DEF StartNext

\* An entry the user switched off is not switched on by a start of the program,
\* whatever failed or was cut short (synchronizeStartupLaunch, setStartupLaunchEnabled,
\* saveLaunchAtStartupEnabled).
THEOREM OffIsKept == StartSpec => []OffStaysOff
PROOF
  <1>1. StartInv => OffStaysOff
    BY DEF StartInv
  <1>. QED BY <1>1, StartInitially, StartSteps, PTL DEF StartSpec

\* The entry, the settings of every copy and what a process is doing have their types.
THEOREM StartTypesHold == StartSpec => []StartTypeOK
PROOF
  <1>1. StartInv => StartTypeOK
    BY DEF StartInv
  <1>. QED BY <1>1, StartInitially, StartSteps, PTL DEF StartSpec

-----------------------------------------------------------------------------
(* Avatars: the image a viewer shows exists, whatever the three threads that    *)
(* store, remove and show images do in between.                               *)

\* What the owner's identity names, or is about to name, is there.
OwnerHasImages ==
  /\ identity # NoAvatar => identity.hash \in ownImages
  /\ choosing.step = "identity" /\ choosing.of # NoAvatar => choosing.of.hash \in ownImages
  /\ choosing.step = "remove" => choosing.of = identity

\* The TCP thread stores images only.
StoredIsImage == storing = Idle \/ \E h \in Hashes : storing.of = Image(h)

\* The last announcement that was heard reaches the item.
ProfileIsComing ==
  IF upserting # Idle THEN upserting.of = profile
  ELSE IF heardHashes # <<>> THEN heardHashes[Len(heardHashes)] = profile
  ELSE item.hash = profile

\* Unless the profile changed meanwhile, what is on its way to the item is the
\* image of the profile, and it stays where the item will look for it.
ComingIsCurrent ==
  ~overtaken =>
    /\ storing # Idle => storing.of = profile
    /\ \A i \in 1 .. Len(ready) : Image(ready[i]) = profile
    /\ storing.step \in {"remove", "queue"} \/ ready # <<>> => profile.hash \in images

\* Once the announcements are applied, the path is the right one, unless an image
\* that was stored is still to be drained.
PathIsRight ==
  upserting = Idle /\ heardHashes = <<>> /\ ~overtaken
      /\ ready = <<>> /\ storing.step \in {"idle", "store"} =>
    /\ item.path # NoAvatar => item.path.hash \in images
    /\ item.hash # NoAvatar /\ item.hash.hash \in images => item.path = item.hash

ClearedShowsNothing == item.hash = NoAvatar => item.path = NoAvatar

AvatarInv ==
  /\ AvatarTypeOK
  /\ OwnerHasImages
  /\ StoredIsImage
  /\ ProfileIsComing
  /\ ComingIsCurrent
  /\ PathIsRight
  /\ ClearedShowsNothing

LEMMA AvatarFacts ==
  /\ NoAvatar \in AvatarsOf /\ Silent \notin AvatarsOf
  /\ \A h \in Hashes : Image(h) \in AvatarsOf /\ Image(h) # NoAvatar /\ Image(h).hash = h
  /\ \A avatar \in AvatarsOf :
       avatar # NoAvatar => avatar.hash \in Hashes /\ avatar = Image(avatar.hash)
PROOF
  <1>1. \A h \in Hashes : h # "none" /\ h # "silent"
    BY AvatarAssumption
  <1>2. NoAvatar.hash = "none" /\ Silent.hash = "silent" /\ \A h : Image(h).hash = h
    BY DEF NoAvatar, Silent, Image
  <1>3. \A avatar : avatar \in AvatarsOf <=> avatar = NoAvatar \/ \E h \in Hashes : avatar = Image(h)
    BY DEF AvatarsOf
  <1>4. "none" # "silent"
    OBVIOUS
  <1>5. Silent \notin AvatarsOf
    BY <1>1, <1>2, <1>3, <1>4
  <1>6. \A h \in Hashes : Image(h) \in AvatarsOf /\ Image(h) # NoAvatar
    BY <1>1, <1>2, <1>3
  <1>. QED BY <1>2, <1>3, <1>5, <1>6

\* The paths that applyStoredPeerAvatar may set are the right ones.
LEMMA PathsAreRight ==
  ASSUME images \subseteq Hashes, NEW avatar \in AvatarsOf, NEW path \in PathsFor(avatar)
  PROVE  /\ path \in AvatarsOf
         /\ path # NoAvatar => path.hash \in images
         /\ avatar = NoAvatar => path = NoAvatar
         /\ avatar # NoAvatar /\ avatar.hash \in images => path = avatar
PROOF
  <1>1. CASE avatar = NoAvatar
    BY <1>1, AvatarFacts DEF PathsFor
  <1>2. CASE avatar # NoAvatar /\ \E h \in images : Image(h) = avatar
    BY <1>2, AvatarFacts DEF PathsFor
  <1>3. CASE avatar # NoAvatar /\ ~ \E h \in images : Image(h) = avatar
    <2>1. path = NoAvatar \/ \E h \in images : path = Image(h)
      BY <1>3 DEF PathsFor
    <2>2. avatar.hash \notin images
      BY <1>3, AvatarFacts
    <2>. QED BY <1>3, <2>1, <2>2, AvatarFacts
  <1>. QED BY <1>1, <1>2, <1>3

LEMMA AvatarTypesStep ==
  ASSUME AvatarInv, AvatarNext
  PROVE  AvatarTypeOK'
PROOF
  <1>. USE DEF AvatarTypeOK, viewerVars, ownerVars, netVars
  <1>0. AvatarTypeOK /\ StoredIsImage
    BY DEF AvatarInv
  <1>1. ASSUME NEW h \in Hashes, ChooseAvatar(h) PROVE AvatarTypeOK'
    BY <1>0, <1>1, AvatarFacts, AvatarAssumption DEF ChooseAvatar
  <1>2. ASSUME NEW h \in Hashes, AnswerRequest(h) PROVE AvatarTypeOK'
    BY <1>0, <1>2 DEF AnswerRequest
  <1>3. ASSUME NEW h \in Hashes, ReceiveImage(h) PROVE AvatarTypeOK'
    BY <1>0, <1>3, AvatarFacts DEF ReceiveImage, Idle
  <1>4. CASE ClearAvatar
    BY <1>0, <1>4, AvatarFacts, AvatarAssumption DEF ClearAvatar
  <1>5. CASE SaveIdentity
    BY <1>0, <1>5, AvatarFacts DEF SaveIdentity, Idle
  <1>6. CASE RemoveOwnImages
    BY <1>0, <1>6, AvatarFacts DEF RemoveOwnImages, Idle, Matched
  <1>7. CASE Announce
    BY <1>0, <1>7 DEF Announce
  <1>8. CASE RestartOwner
    BY <1>0, <1>8, AvatarFacts, AvatarAssumption DEF RestartOwner, Idle
  <1>9. CASE Upsert
    BY <1>0, <1>9 DEF Upsert
  <1>10. CASE CleanImages
    BY <1>0, <1>10 DEF CleanImages
  <1>11. CASE QueueProfile
    BY <1>0, <1>11, AvatarFacts DEF QueueProfile, Idle
  <1>12. CASE ApplyProfile
    <2>. DEFINE head == Head(heardHashes)
    <2>1. head \in AvatarsOf /\ heardHashes' \in Seq(AvatarsOf)
      BY <1>0, <1>12 DEF ApplyProfile
    <2>2. PICK path \in PathsFor(head) :
            item' = [hash |-> head, path |-> path] /\ MayRequest(item')
      BY <1>12 DEF ApplyProfile
    <2>. HIDE DEF head
    <2>3. path \in AvatarsOf
      BY <1>0, <2>1, PathsAreRight
    <2>4. item' \in [hash : AvatarsOf, path : AvatarsOf]
      BY <2>1, <2>2, <2>3
    <2>5. asking' \in {"idle", "used"} /\ requests' \subseteq Hashes
      BY <1>0, <2>2, <2>4, AvatarFacts DEF MayRequest
    <2>. QED BY <1>0, <1>12, <2>1, <2>4, <2>5 DEF ApplyProfile
  <1>13. CASE StoreImage
    BY <1>0, <1>13, AvatarFacts DEF StoreImage, Idle, StoredIsImage
  <1>14. CASE RemoveImages
    BY <1>0, <1>14 DEF RemoveImages, Matched
  <1>15. CASE QueueImage
    <2>1. storing.of.hash \in Hashes
      BY <1>0, <1>15, AvatarFacts DEF QueueImage, StoredIsImage, Idle
    <2>. QED BY <1>0, <1>15, <2>1, AvatarFacts DEF QueueImage, Idle
  <1>16. CASE DrainImages
    <2>1. item' = item \/ \E h \in Hashes : item' = [item EXCEPT !.path = Image(h)]
      BY <1>0, <1>16 DEF DrainImages
    <2>. QED BY <1>0, <1>16, <2>1, AvatarFacts DEF DrainImages
  <1>17. CASE RestartViewer
    <2>1. PICK path \in PathsFor(profile) : item' = [hash |-> profile, path |-> path]
      BY <1>17 DEF RestartViewer
    <2>2. path \in AvatarsOf
      BY <1>0, PathsAreRight
    <2>3. item' \in [hash : AvatarsOf, path : AvatarsOf]
      BY <1>0, <2>1, <2>2
    <2>4. starts' \in 0 .. MaxStarts
      BY <1>0, <1>17, AvatarAssumption DEF RestartViewer
    <2>5. storing' = Idle /\ upserting' = Idle /\ Idle.of = NoAvatar
      BY <1>17 DEF RestartViewer, Idle
    <2>6. /\ Idle \in [step : {"idle", "clean", "queue"}, of : AvatarsOf]
          /\ Idle \in [step : {"idle", "store", "remove", "queue"}, of : AvatarsOf]
      BY AvatarFacts DEF Idle
    <2>7. /\ heardHashes' \in Seq(AvatarsOf) /\ ready' \in Seq(Hashes)
          /\ asking' = "idle" /\ replies' = {} /\ overtaken' = FALSE
          /\ UNCHANGED <<profile, images, announced, requests>> /\ UNCHANGED ownerVars
      BY <1>17 DEF RestartViewer
    <2>. QED BY <1>0, <2>3, <2>4, <2>5, <2>6, <2>7
  <1>. QED BY <1>1, <1>2, <1>3, <1>4, <1>5, <1>6, <1>7, <1>8, <1>9, <1>10, <1>11, <1>12,
              <1>13, <1>14, <1>15, <1>16, <1>17 DEF AvatarNext

OwnerNext ==
  \/ \E h \in Hashes : ChooseAvatar(h) \/ AnswerRequest(h)
  \/ ClearAvatar \/ SaveIdentity \/ RemoveOwnImages \/ Announce \/ RestartOwner

ViewerNext ==
  \/ \E h \in Hashes : ReceiveImage(h)
  \/ Upsert \/ CleanImages \/ QueueProfile \/ ApplyProfile \/ StoreImage \/ RemoveImages
  \/ QueueImage \/ DrainImages \/ RestartViewer

\* The two programs share the network only.
LEMMA TwoPrograms ==
  /\ AvatarNext <=> OwnerNext \/ ViewerNext
  /\ OwnerNext => UNCHANGED viewerVars
  /\ ViewerNext => UNCHANGED ownerVars
PROOF
  <1>1. AvatarNext <=> OwnerNext \/ ViewerNext
    BY DEF AvatarNext, OwnerNext, ViewerNext
  <1>2. OwnerNext => UNCHANGED viewerVars
    BY DEF OwnerNext, ChooseAvatar, AnswerRequest, ClearAvatar, SaveIdentity,
           RemoveOwnImages, Announce, RestartOwner
  <1>3. ViewerNext => UNCHANGED ownerVars
    BY DEF ViewerNext, ReceiveImage, Upsert, CleanImages, QueueProfile, ApplyProfile,
           StoreImage, RemoveImages, QueueImage, DrainImages, RestartViewer
  <1>. QED BY <1>1, <1>2, <1>3

LEMMA OwnerHasImagesStep ==
  ASSUME AvatarInv, AvatarNext
  PROVE  OwnerHasImages'
PROOF
  <1>. USE DEF OwnerHasImages
  <1>0. /\ OwnerHasImages /\ choosing \in [step : {"idle", "identity", "remove"}, of : AvatarsOf]
        /\ identity \in AvatarsOf
    BY DEF AvatarInv, AvatarTypeOK
  <1>1. ASSUME NEW h \in Hashes, ChooseAvatar(h) PROVE OwnerHasImages'
    BY <1>0, <1>1, AvatarFacts DEF ChooseAvatar
  <1>2. ASSUME NEW h \in Hashes, AnswerRequest(h) PROVE OwnerHasImages'
    BY <1>0, <1>2 DEF AnswerRequest
  <1>3. CASE ClearAvatar
    BY <1>0, <1>3 DEF ClearAvatar
  <1>4. CASE SaveIdentity
    BY <1>0, <1>4 DEF SaveIdentity, Idle
  <1>5. CASE RemoveOwnImages
    <2>1. identity # NoAvatar => identity.hash \in ownImages'
      BY <1>0, <1>5, AvatarFacts DEF RemoveOwnImages, Matched
    <2>. QED BY <1>5, <2>1 DEF RemoveOwnImages, Idle
  <1>6. CASE Announce \/ RestartOwner
    BY <1>0, <1>6 DEF Announce, RestartOwner, ownerVars, Idle
  <1>7. CASE ViewerNext
    BY <1>0, <1>7, TwoPrograms DEF ownerVars
  <1>. QED BY <1>1, <1>2, <1>3, <1>4, <1>5, <1>6, <1>7, TwoPrograms DEF OwnerNext

LEMMA ProfileIsComingStep ==
  ASSUME AvatarInv, AvatarNext
  PROVE  ProfileIsComing'
PROOF
  <1>. USE DEF ProfileIsComing
  <1>0. /\ ProfileIsComing /\ heardHashes \in Seq(AvatarsOf)
        /\ upserting \in [step : {"idle", "clean", "queue"}, of : AvatarsOf]
        /\ item \in [hash : AvatarsOf, path : AvatarsOf]
    BY DEF AvatarInv, AvatarTypeOK
  <1>1. CASE OwnerNext
    BY <1>0, <1>1, TwoPrograms DEF viewerVars
  <1>2. ASSUME NEW h \in Hashes, ReceiveImage(h) PROVE ProfileIsComing'
    BY <1>0, <1>2 DEF ReceiveImage
  <1>3. CASE Upsert
    BY <1>3 DEF Upsert, Idle
  <1>4. CASE CleanImages
    <2>1. upserting # Idle /\ upserting' # Idle /\ upserting'.of = upserting.of
      BY <1>0, <1>4 DEF CleanImages, Idle
    <2>. QED BY <1>0, <1>4, <2>1 DEF CleanImages
  <1>5. CASE QueueProfile
    <2>1. upserting # Idle
      BY <1>5 DEF QueueProfile, Idle
    <2>2. heardHashes' # <<>> /\ heardHashes'[Len(heardHashes')] = upserting.of
      BY <1>0, <1>5 DEF QueueProfile
    <2>. QED BY <1>0, <1>5, <2>1, <2>2 DEF QueueProfile
  <1>6. CASE ApplyProfile
    <2>1. /\ heardHashes # <<>> /\ heardHashes' = Tail(heardHashes)
          /\ UNCHANGED <<upserting, profile>>
          /\ item'.hash = Head(heardHashes)
      BY <1>6 DEF ApplyProfile
    <2>2. CASE upserting = Idle /\ Len(heardHashes) = 1
      <3>1. item'.hash = heardHashes[Len(heardHashes)] /\ heardHashes' = <<>>
        BY <1>0, <2>1, <2>2
      <3>. QED BY <1>0, <2>1, <2>2, <3>1
    <2>3. CASE upserting = Idle /\ Len(heardHashes) # 1
      <3>0. Len(heardHashes) \in Nat \ {0}
        BY <1>0, <2>1, EmptySeq
      <3>1. PICK n \in Nat : n = Len(heardHashes) /\ n > 1
        BY <2>3, <3>0
      <3>2. Len(heardHashes') = n - 1 /\ heardHashes'[n - 1] = heardHashes[n]
        BY <1>0, <2>1, <3>1
      <3>3. heardHashes' # <<>>
        BY <3>1, <3>2
      <3>. QED BY <1>0, <2>1, <2>3, <3>1, <3>2, <3>3
    <2>. QED BY <1>0, <2>1, <2>2, <2>3
  <1>7. CASE StoreImage \/ RemoveImages \/ QueueImage
    BY <1>0, <1>7 DEF StoreImage, RemoveImages, QueueImage
  <1>8. CASE DrainImages
    <2>1. item'.hash = item.hash
      BY <1>0, <1>8 DEF DrainImages
    <2>. QED BY <1>0, <1>8, <2>1 DEF DrainImages
  <1>9. CASE RestartViewer
    BY <1>9 DEF RestartViewer
  <1>. QED BY <1>1, <1>2, <1>3, <1>4, <1>5, <1>6, <1>7, <1>8, <1>9, TwoPrograms DEF ViewerNext

LEMMA StoredIsImageStep ==
  ASSUME AvatarInv, AvatarNext
  PROVE  StoredIsImage'
PROOF
  <1>. USE DEF StoredIsImage
  <1>0. /\ StoredIsImage
        /\ storing \in [step : {"idle", "store", "remove", "queue"}, of : AvatarsOf]
    BY DEF AvatarInv, AvatarTypeOK
  <1>1. CASE OwnerNext
    BY <1>0, <1>1, TwoPrograms DEF viewerVars
  <1>2. ASSUME NEW h \in Hashes, ReceiveImage(h) PROVE StoredIsImage'
    BY <1>2 DEF ReceiveImage
  <1>3. CASE StoreImage \/ RemoveImages
    <2>1. storing # Idle
      BY <1>3 DEF StoreImage, RemoveImages, Idle
    <2>2. storing' = Idle \/ storing'.of = storing.of
      BY <1>0, <1>3 DEF StoreImage, RemoveImages
    <2>. QED BY <1>0, <2>1, <2>2
  <1>4. CASE QueueImage \/ RestartViewer
    BY <1>4 DEF QueueImage, RestartViewer
  <1>5. CASE Upsert \/ CleanImages \/ QueueProfile \/ ApplyProfile \/ DrainImages
    BY <1>0, <1>5 DEF Upsert, CleanImages, QueueProfile, ApplyProfile, DrainImages
  <1>. QED BY <1>1, <1>2, <1>3, <1>4, <1>5, TwoPrograms DEF ViewerNext

LEMMA ComingIsCurrentStep ==
  ASSUME AvatarInv, AvatarNext
  PROVE  ComingIsCurrent'
PROOF
  <1>. USE DEF ComingIsCurrent
  <1>0. /\ ComingIsCurrent /\ StoredIsImage /\ ProfileIsComing
        /\ storing \in [step : {"idle", "store", "remove", "queue"}, of : AvatarsOf]
        /\ ready \in Seq(Hashes) /\ profile \in AvatarsOf
        /\ images \subseteq Hashes
    BY DEF AvatarInv, AvatarTypeOK
  <1>00. Idle.step = "idle" /\ NoneComing => ready = <<>> /\ storing = Idle
    BY DEF Idle, NoneComing
  <1>1. CASE OwnerNext
    BY <1>0, <1>1, TwoPrograms DEF viewerVars
  <1>2. ASSUME NEW h \in Hashes, ReceiveImage(h) PROVE ComingIsCurrent'
    BY <1>0, <1>2 DEF ReceiveImage, Wanted, Idle
  <1>3. CASE Upsert
    <2>1. /\ UNCHANGED <<images, storing, ready>>
          /\ ~overtaken' => ~overtaken /\ (profile' = profile \/ NoneComing)
      BY <1>3 DEF Upsert
    <2>2. CASE profile' = profile
      BY <1>0, <2>1, <2>2
    <2>3. CASE NoneComing
      BY <2>1, <2>3 DEF Idle, NoneComing
    <2>. QED BY <2>1, <2>2, <2>3
  <1>4. CASE CleanImages
    <2>1. /\ UNCHANGED <<profile, storing, ready, overtaken>>
          /\ images' = images \ Stale(profile)
      <3>1. upserting # Idle
        BY <1>4 DEF CleanImages, Idle
      <3>. QED BY <1>0, <1>4, <3>1 DEF CleanImages, ProfileIsComing
    <2>2. profile # NoAvatar /\ profile.hash \in images => profile.hash \in images'
      BY <1>0, <2>1, AvatarFacts DEF Stale, Matched
    <2>3. ~overtaken /\ (storing.step \in {"remove", "queue"} \/ ready # <<>>)
            => profile # NoAvatar
      <3>1. ASSUME ready # <<>>, ~overtaken PROVE profile # NoAvatar
        <4>1. Len(ready) \in Nat \ {0}
          BY <1>0, <3>1, EmptySeq
        <4>2. 1 \in 1 .. Len(ready) /\ ready[1] \in Hashes
          BY <1>0, <4>1, ElementOfSeq
        <4>. QED BY <1>0, <3>1, <4>2, AvatarFacts
      <3>2. ASSUME storing.step \in {"remove", "queue"}, ~overtaken PROVE profile # NoAvatar
        BY <1>0, <1>00, <3>2, AvatarFacts DEF StoredIsImage, Idle
      <3>. QED BY <3>1, <3>2
    <2>. QED BY <1>0, <2>1, <2>2, <2>3
  <1>5. CASE QueueProfile
    BY <1>0, <1>5 DEF QueueProfile
  <1>6. CASE ApplyProfile
    <2>1. /\ UNCHANGED <<profile, images, storing, ready>>
          /\ overtaken' = (overtaken /\ ~NoneComing)
      BY <1>6 DEF ApplyProfile
    <2>2. CASE NoneComing
      BY <2>1, <2>2 DEF Idle, NoneComing
    <2>. QED BY <1>0, <2>1, <2>2
  <1>7. CASE StoreImage
    <2>1. storing # Idle /\ UNCHANGED <<profile, ready, overtaken>>
      BY <1>7 DEF StoreImage, Idle
    <2>2. CASE images' = images \union {storing.of.hash}
               /\ storing' = [storing EXCEPT !.step = "remove"]
      BY <1>0, <2>1, <2>2
    <2>3. CASE storing' = Idle /\ UNCHANGED images
      BY <1>0, <2>1, <2>3 DEF Idle
    <2>. QED BY <1>7, <2>2, <2>3 DEF StoreImage
  <1>8. CASE RemoveImages
    <2>1. /\ storing # Idle /\ storing.step = "remove" /\ UNCHANGED <<profile, ready, overtaken>>
          /\ images' = Matched(images, storing.of)
          /\ storing' = [storing EXCEPT !.step = "queue"]
      BY <1>8 DEF RemoveImages, Idle
    <2>2. ~overtaken => profile.hash \in images'
      BY <1>0, <2>1, AvatarFacts DEF Matched, StoredIsImage
    <2>. QED BY <1>0, <2>1, <2>2
  <1>9. CASE QueueImage
    <2>1. /\ storing # Idle /\ storing.step = "queue" /\ UNCHANGED <<profile, images, overtaken>>
          /\ ready' = Append(ready, storing.of.hash) /\ storing' = Idle
      BY <1>9 DEF QueueImage, Idle
    <2>2. ~overtaken => storing.of = profile /\ Image(storing.of.hash) = profile
      BY <1>0, <2>1, AvatarFacts DEF StoredIsImage
    <2>3. PICK n \in Nat : n = Len(ready)
      BY <1>0, LenProperties
    <2>4. storing.of.hash \in Hashes
      BY <1>0, <2>1, AvatarFacts DEF StoredIsImage
    <2>5. /\ Len(ready') = n + 1 /\ ready'[n + 1] = storing.of.hash
          /\ \A i \in 1 .. n : ready'[i] = ready[i]
      BY <1>0, <2>1, <2>3, <2>4
    <2>6. ~overtaken => \A i \in 1 .. n + 1 : Image(ready'[i]) = profile
      BY <1>0, <2>2, <2>3, <2>5
    <2>. QED BY <1>0, <1>00, <2>1, <2>2, <2>5, <2>6
  <1>10. CASE DrainImages
    BY <1>0, <1>10 DEF DrainImages
  <1>11. CASE RestartViewer
    BY <1>00, <1>11 DEF RestartViewer, Idle
  <1>. QED BY <1>1, <1>2, <1>3, <1>4, <1>5, <1>6, <1>7, <1>8, <1>9, <1>10, <1>11,
              TwoPrograms DEF ViewerNext

\* The UI thread drains the images of the profile, or none.
LEMMA PathIsRightStep ==
  ASSUME AvatarInv, AvatarNext
  PROVE  PathIsRight' /\ ClearedShowsNothing'
PROOF
  <1>. USE DEF PathIsRight, ClearedShowsNothing
  <1>0. /\ PathIsRight /\ ClearedShowsNothing
        /\ storing \in [step : {"idle", "store", "remove", "queue"}, of : AvatarsOf]
        /\ item \in [hash : AvatarsOf, path : AvatarsOf]
        /\ ready \in Seq(Hashes) /\ heardHashes \in Seq(AvatarsOf) /\ profile \in AvatarsOf
        /\ upserting \in [step : {"idle", "clean", "queue"}, of : AvatarsOf]
        /\ images \subseteq Hashes
    BY DEF AvatarInv, AvatarTypeOK
  <1>1. CASE OwnerNext
    BY <1>0, <1>1, TwoPrograms DEF viewerVars
  <1>2. ASSUME NEW h \in Hashes, ReceiveImage(h) PROVE PathIsRight' /\ ClearedShowsNothing'
    BY <1>0, <1>2 DEF ReceiveImage, Idle
  <1>3. CASE Upsert \/ CleanImages
    <2>1. upserting' # Idle /\ UNCHANGED item
      BY <1>0, <1>3 DEF Upsert, CleanImages, Idle
    <2>. QED BY <1>0, <2>1
  <1>4. CASE QueueProfile
    <2>1. heardHashes' # <<>> /\ UNCHANGED item
      BY <1>0, <1>4 DEF QueueProfile
    <2>. QED BY <1>0, <2>1
  <1>5. CASE ApplyProfile
    <2>. DEFINE head == Head(heardHashes)
    <2>1. PICK path \in PathsFor(head) : item' = [hash |-> head, path |-> path]
      BY <1>5 DEF ApplyProfile
    <2>2. head \in AvatarsOf /\ images' = images
      BY <1>0, <1>5 DEF ApplyProfile
    <2>. HIDE DEF head
    <2>. QED BY <1>0, <2>1, <2>2, PathsAreRight
  <1>6. CASE StoreImage
    <2>1. UNCHANGED <<item, ready, upserting, heardHashes, overtaken>>
      BY <1>6 DEF StoreImage
    <2>2. CASE storing'.step = "remove"
      BY <1>0, <2>1, <2>2
    <2>3. CASE storing.step = "store" /\ UNCHANGED images
      BY <1>0, <2>1, <2>3
    <2>4. storing'.step = "remove" \/ (storing.step = "store" /\ UNCHANGED images)
      BY <1>0, <1>6 DEF StoreImage
    <2>. QED BY <2>2, <2>3, <2>4
  <1>7. CASE RemoveImages
    BY <1>0, <1>7 DEF RemoveImages
  <1>8. CASE QueueImage
    BY <1>0, <1>8 DEF QueueImage
  <1>9. CASE DrainImages
    <2>. DEFINE fit == {i \in 1 .. Len(ready) : Fits(ready[i])}
    <2>1. /\ ready # <<>> /\ UNCHANGED <<upserting, heardHashes, images, storing, overtaken, profile>>
          /\ \/ fit = {} /\ UNCHANGED item
             \/ \E last \in fit : item' = [item EXCEPT !.path = Image(ready[last])]
      BY <1>9 DEF DrainImages
    <2>2. ClearedShowsNothing'
      <3>1. \A last \in fit : ready[last] \in Hashes /\ item.hash = Image(ready[last])
        BY <1>0, ElementOfSeq DEF Fits
      <3>. HIDE DEF fit
      <3>. QED BY <1>0, <2>1, <3>1, AvatarFacts
    <2>3. ASSUME upserting = Idle, heardHashes = <<>>, ~overtaken
          PROVE  item'.hash = profile /\ item'.path = profile /\ profile.hash \in images
      <3>1. item.hash = profile
        BY <2>3 DEF AvatarInv, ProfileIsComing
      <3>2. /\ \A i \in 1 .. Len(ready) : Image(ready[i]) = profile
            /\ profile.hash \in images
        BY <2>1, <2>3 DEF AvatarInv, ComingIsCurrent
      <3>3. Len(ready) \in Nat \ {0}
        BY <1>0, <2>1, EmptySeq
      <3>4. 1 \in fit
        BY <3>1, <3>2, <3>3 DEF Fits
      <3>5. PICK last \in fit : item' = [item EXCEPT !.path = Image(ready[last])]
        BY <2>1, <3>4
      <3>. QED BY <1>0, <3>1, <3>2, <3>5
    <2>. QED BY <2>1, <2>2, <2>3
  <1>10. CASE RestartViewer
    <2>1. PICK path \in PathsFor(profile) : item' = [hash |-> profile, path |-> path]
      BY <1>10 DEF RestartViewer
    <2>2. images' = images
      BY <1>10 DEF RestartViewer
    <2>. QED BY <1>0, <2>1, <2>2, PathsAreRight
  <1>. QED BY <1>1, <1>2, <1>3, <1>4, <1>5, <1>6, <1>7, <1>8, <1>9, <1>10,
              TwoPrograms DEF ViewerNext

LEMMA AvatarInitially == AvatarInit => AvatarInv
PROOF
  <1> SUFFICES ASSUME AvatarInit
               PROVE  AvatarInv
    OBVIOUS
  <1>1. AvatarTypeOK
    <2>1. /\ Idle \in [step : {"idle", "clean", "queue"}, of : AvatarsOf]
          /\ Idle \in [step : {"idle", "store", "remove", "queue"}, of : AvatarsOf]
          /\ Idle \in [step : {"idle", "identity", "remove"}, of : AvatarsOf]
      BY AvatarFacts DEF Idle
    <2>2. 0 \in 0 .. MaxChoices /\ 0 \in 0 .. MaxStarts
      BY AvatarAssumption
    <2>3. heardHashes \in Seq(AvatarsOf) /\ ready \in Seq(Hashes)
      BY EmptySeq DEF AvatarInit
    <2>4. item \in [hash : AvatarsOf, path : AvatarsOf]
      BY AvatarFacts DEF AvatarInit
    <2>. QED BY <2>1, <2>2, <2>3, <2>4, AvatarFacts DEF AvatarInit, AvatarTypeOK
  <1>2. OwnerHasImages /\ StoredIsImage /\ ProfileIsComing /\ ComingIsCurrent
    BY DEF AvatarInit, OwnerHasImages, StoredIsImage, ProfileIsComing, ComingIsCurrent, Idle
  <1>3. PathIsRight /\ ClearedShowsNothing
    BY DEF AvatarInit, PathIsRight, ClearedShowsNothing
  <1>. QED BY <1>1, <1>2, <1>3 DEF AvatarInv

LEMMA AvatarSteps == AvatarInv /\ [AvatarNext]_avatarVars => AvatarInv'
PROOF
  <1>1. ASSUME AvatarInv, AvatarNext PROVE AvatarInv'
    BY <1>1, AvatarTypesStep, OwnerHasImagesStep, StoredIsImageStep, ProfileIsComingStep,
       ComingIsCurrentStep, PathIsRightStep DEF AvatarInv
  <1>2. ASSUME AvatarInv, UNCHANGED avatarVars PROVE AvatarInv'
    BY <1>2 DEF AvatarInv, avatarVars, AvatarTypeOK, OwnerHasImages, StoredIsImage,
       ProfileIsComing, ComingIsCurrent, PathIsRight, ClearedShowsNothing
  <1>. QED BY <1>1, <1>2

\* What the two devices keep of the avatars, and what their threads hold, has its type.
THEOREM AvatarTypesHold == AvatarSpec => []AvatarTypeOK
PROOF
  <1>1. AvatarInv => AvatarTypeOK
    BY DEF AvatarInv
  <1>. QED BY <1>1, AvatarInitially, AvatarSteps, PTL DEF AvatarSpec

\* An image that is shown exists, is the announced one if that is there, and what the
\* owner announces can be handed out: the removals of the discovery thread and of
\* the TCP thread (removeStaleAvatarFiles, removeUnmatchedAvatarFiles) and the paths
\* that the UI thread sets (applyStoredPeerAvatar, drainPendingAvatarDownloads) agree,
\* for any images, announcements and restarts.
THEOREM ShownAvatarsExist == AvatarSpec => []ShownAvatarExists
PROOF
  <1>1. AvatarInv => ShownAvatarExists
    BY DEF AvatarInv, ShownAvatarExists, OwnerHasImages, ProfileIsComing, PathIsRight,
       ClearedShowsNothing, NoneComing, Idle
  <1>. QED BY <1>1, AvatarInitially, AvatarSteps, PTL DEF AvatarSpec

-----------------------------------------------------------------------------
(* Crash reports, for any programs and threads, any number of report ids and   *)
(* of reports that are kept: the user's answers are kept, and what is asked    *)
(* about and sent of a crash is whole.                                        *)

\* A thread that began a capture has the id of its report, and keeps it.
WritersHaveIds ==
  \A w \in Writers : writer[w].step = "none" <=> writer[w].id = NoId

\* A reporter that shows a report has its id.  One that was started for a crash was
\* started by the last step of the crash's capture.
ReportersAreLaunched ==
  \A w \in Writers :
    /\ reporter[w].step = "ask" => reporter[w].id # NoId
    /\ reporter[w].filter # NoId => writer[w].step = "over"

\* An uploader was started with the id of a report that the user agreed to send, by a
\* reporter that then ended, and works on that report only.
UploadersAreAgreed ==
  \A u \in Writers :
    /\ reporter[u].step # "over" => uploader[u].step = "none"
    /\ IF uploader[u].step = "none" THEN uploader[u].filter = NoId
                                    ELSE uploader[u].filter \in agreed
    /\ uploader[u].step \in {"begin", "pack", "send", "finish"} =>
         uploader[u].todo = {uploader[u].filter}

\* An answer of the server is about a report that it stored.
SentIsStored ==
  \A u \in Writers :
    uploader[u].step = "finish" /\ uploader[u].sent => uploader[u].filter \in stored

\* A report that is marked was refused or stored, also one that was removed.
MarkedIsAnswered ==
  \A i \in ReportIds : Marker \in content[i] => i \in declined \union stored

\* The report of thread w is written by w alone, without an error, and nobody has
\* started to upload it.
Undisturbed(w) ==
  /\ writer[w].step # "none" /\ ~writer[w].failed
  /\ writer[w].id \in reports
  /\ \A u \in Writers : uploader[u].filter # writer[w].id
  /\ \A v \in Writers \ {w} : writer[v].id # writer[w].id

\* Such a report has the files of the steps that are done.
Written(w) ==
  /\ writer[w].step # "dump" => "crash.dmp" \in content[writer[w].id]
  /\ writer[w].step \notin {"dump", "texts"} => "report.txt" \in content[writer[w].id]

WrittenSoFar == \A w \in Writers : Undisturbed(w) => Written(w)

CrashInv ==
  /\ CrashTypeOK /\ WritersHaveIds /\ ReportersAreLaunched /\ UploadersAreAgreed
  /\ stored \subseteq agreed /\ SentIsStored /\ MarkedIsAnswered /\ WrittenSoFar
-----------------------------------------------------------------------------
(* The least report id.                                                      *)

\* Min returns the least element of a set of natural numbers that is not empty.
LEMMA LeastId ==
  ASSUME NEW S \in SUBSET Nat, S # {}
  PROVE  Min(S) \in S /\ \A y \in S : Min(S) <= y
PROOF
  <1>. DEFINE R == {ss \in Nat \X Nat : ss[1] < ss[2]}
  <1>1. IsWellFoundedOn(R, Nat)
    BY NatLessThanWellFounded DEF OpToRel
  <1>2. PICK x \in S : \A y \in S : <<y, x>> \notin R
    BY <1>1, WFMin
  <1>3. \A y \in S : x <= y
    <2>. SUFFICES ASSUME NEW y \in S, y < x PROVE FALSE
      OBVIOUS
    <2>1. <<y, x>> \in Nat \X Nat /\ <<y, x>>[1] < <<y, x>>[2]
      OBVIOUS
    <2>2. <<y, x>> \in R
      BY <2>1
    <2>. QED BY <1>2, <2>2
  <1>. QED BY <1>3 DEF Min

\* The report ids are natural numbers and none of them is NoId.
LEMMA IdsAreNumbers == ReportIds \subseteq Nat /\ NoId \notin ReportIds
PROOF
  BY CrashAssumption DEF ReportIds, NoId

\* The report that an uploader works on is the one it was started for, and there is
\* no other to turn to.
LEMMA ReportOfUploader ==
  ASSUME CrashInv, NEW u \in Writers,
         uploader[u].step \in {"begin", "pack", "send", "finish"}
  PROVE  /\ Report(u) = uploader[u].filter
         /\ uploader[u].todo = {uploader[u].filter}
         /\ uploader[u].filter \in agreed /\ uploader[u].filter \in ReportIds
PROOF
  <1>. USE DEF WriterStates, ReporterStates, UploaderStates
  <1>1. uploader[u].todo = {uploader[u].filter} /\ uploader[u].filter \in agreed
    BY DEF CrashInv, UploadersAreAgreed
  <1>2. uploader[u].filter \in ReportIds
    BY <1>1 DEF CrashInv, CrashTypeOK
  <1>3. Min(uploader[u].todo) \in uploader[u].todo
    BY <1>1, <1>2, LeastId, IdsAreNumbers
  <1>. QED BY <1>1, <1>2, <1>3 DEF Report
-----------------------------------------------------------------------------
(* What the steps of one process leave of the invariant to the others.        *)

\* A report stays as whole as it is where its thread does nothing, if its dump and its
\* texts are not touched while its folder remains.
LEMMA WrittenStays ==
  ASSUME CrashInv, NEW w \in Writers, Undisturbed(w)',
         /\ writer'[w].step = writer[w].step /\ writer'[w].id = writer[w].id
         /\ writer'[w].failed = writer[w].failed,
         writer[w].id \in reports,
         content'[writer[w].id] \intersect Parts = content[writer[w].id] \intersect Parts,
         \A u \in Writers :
           uploader[u].filter # NoId => uploader'[u].filter = uploader[u].filter,
         \A v \in Writers : writer[v].id # NoId => writer'[v].id = writer[v].id
  PROVE  Written(w)'
PROOF
  <1>1. writer[w].step # "none" /\ ~writer[w].failed /\ writer[w].id # NoId
    BY DEF Undisturbed, CrashInv, WritersHaveIds
  <1>2. \A u \in Writers : uploader[u].filter # writer[w].id
    BY <1>1 DEF Undisturbed
  <1>3. \A v \in Writers \ {w} : writer[v].id # writer[w].id
    BY <1>1 DEF Undisturbed
  <1>4. Written(w)
    BY <1>1, <1>2, <1>3 DEF CrashInv, WrittenSoFar, Undisturbed
  <1>. QED BY <1>4 DEF Written, Parts

\* Steps of the crashing programs that begin captures or end them with an error.
LEMMA CapturesKeep ==
  ASSUME CrashInv, CrashTypeOK',
         UNCHANGED <<reports, content, reporter, uploader, stored, agreed, declined>>,
         \A w \in Writers :
           \/ /\ writer'[w].step = writer[w].step /\ writer'[w].id = writer[w].id
              /\ writer'[w].failed = writer[w].failed
           \/ /\ writer[w].step = "none"
              /\ writer'[w].step = "dump" /\ writer'[w].id \in ReportIds
           \/ /\ writer[w].step # "none" /\ writer'[w].step = "over"
              /\ writer'[w].id = writer[w].id /\ writer'[w].failed
  PROVE  CrashInv'
PROOF
  <1>. USE DEF WriterStates, ReporterStates, UploaderStates
  <1>1. WritersHaveIds'
    BY IdsAreNumbers DEF CrashInv, WritersHaveIds
  <1>2. ReportersAreLaunched'
    BY DEF CrashInv, ReportersAreLaunched
  <1>3. UploadersAreAgreed' /\ SentIsStored' /\ MarkedIsAnswered'
    BY DEF CrashInv, UploadersAreAgreed, SentIsStored, MarkedIsAnswered
  <1>4. WrittenSoFar'
    <2>. SUFFICES ASSUME NEW w \in Writers, Undisturbed(w)' PROVE Written(w)'
      BY DEF WrittenSoFar
    <2>1. ~writer'[w].failed /\ writer'[w].id \in reports
      BY DEF Undisturbed
    <2>2. CASE writer[w].step = "none" /\ writer'[w].step = "dump"
      BY <2>2 DEF Written
    <2>3. CASE ~(writer[w].step = "none" /\ writer'[w].step = "dump")
      <3>1. /\ writer'[w].step = writer[w].step /\ writer'[w].id = writer[w].id
            /\ writer'[w].failed = writer[w].failed
        BY <2>1, <2>3
      <3>2. \A v \in Writers : writer[v].id # NoId => writer'[v].id = writer[v].id
        BY DEF CrashInv, WritersHaveIds
      <3>. QED BY <2>1, <3>1, <3>2, WrittenStays
    <2>. QED BY <2>2, <2>3
  <1>5. stored' \subseteq agreed'
    BY DEF CrashInv
  <1>. QED BY <1>1, <1>2, <1>3, <1>4, <1>5 DEF CrashInv

\* Steps of an uploader: it stays with its report, and of the folders it changes
\* archives and marks only.
LEMMA UploaderKeeps ==
  ASSUME CrashInv, CrashTypeOK', NEW u \in Writers,
         UNCHANGED <<writer, reports, reporter, agreed, declined>>,
         uploader[u].step # "none" /\ uploader'[u].step # "none",
         uploader'[u].filter = uploader[u].filter,
         uploader'[u].step \in {"begin", "pack", "send", "finish"} =>
           uploader'[u].todo = {uploader[u].filter},
         uploader'[u].step = "finish" /\ uploader'[u].sent => uploader[u].filter \in stored',
         \A v \in Writers \ {u} : uploader'[v] = uploader[v],
         stored \subseteq stored' /\ stored' \subseteq agreed,
         \A i \in ReportIds :
           /\ content'[i] \intersect Parts = content[i] \intersect Parts
           /\ Marker \in content'[i] => Marker \in content[i] \/ i \in stored
  PROVE  CrashInv'
PROOF
  <1>. USE DEF WriterStates, ReporterStates, UploaderStates
  <1>1. WritersHaveIds' /\ ReportersAreLaunched'
    BY DEF CrashInv, WritersHaveIds, ReportersAreLaunched
  <1>2. UploadersAreAgreed'
    BY DEF CrashInv, UploadersAreAgreed
  <1>3. SentIsStored'
    BY DEF CrashInv, SentIsStored
  <1>4. MarkedIsAnswered'
    BY DEF CrashInv, MarkedIsAnswered
  <1>5. WrittenSoFar'
    <2>. SUFFICES ASSUME NEW w \in Writers, Undisturbed(w)' PROVE Written(w)'
      BY DEF WrittenSoFar
    <2>1. writer[w].id \in reports /\ writer[w].id \in ReportIds
      BY DEF Undisturbed, CrashInv, CrashTypeOK
    <2>2. \A v \in Writers : uploader'[v].filter = uploader[v].filter
      OBVIOUS
    <2>. QED BY <2>1, <2>2, WrittenStays
  <1>. QED BY <1>1, <1>2, <1>3, <1>4, <1>5 DEF CrashInv
-----------------------------------------------------------------------------
(* The crashing process.                                                   *)

LEMMA CrashInitially == CrashInit => CrashInv
PROOF
  <1>. USE DEF WriterStates, ReporterStates, UploaderStates
  <1>. SUFFICES ASSUME CrashInit PROVE CrashInv
    OBVIOUS
  <1>1. CrashTypeOK
    BY DEF CrashInit, CrashTypeOK
  <1>2. WritersHaveIds /\ ReportersAreLaunched /\ UploadersAreAgreed
    BY DEF CrashInit, WritersHaveIds, ReportersAreLaunched, UploadersAreAgreed
  <1>3. stored \subseteq agreed /\ SentIsStored /\ MarkedIsAnswered
    BY DEF CrashInit, SentIsStored, MarkedIsAnswered
  <1>4. WrittenSoFar
    BY DEF CrashInit, WrittenSoFar, Undisturbed
  <1>. QED BY <1>1, <1>2, <1>3, <1>4 DEF CrashInv

\* What the types say of one thread.
LEMMA ThreadTypes ==
  ASSUME CrashTypeOK, NEW w \in Writers
  PROVE  /\ writer[w] \in WriterStates
         /\ reporter[w] \in ReporterStates
         /\ uploader[w] \in UploaderStates
PROOF
  BY DEF CrashTypeOK

\* A thread that begins writes down what the program does at most, and the end of a
\* program what its threads do.
LEMMA BeginsOrDies ==
  ASSUME CrashInv,
         \/ \E w \in Writers : writer[w].step = "none" /\ Begins(w)
         \/ \E p \in Programs : Dies(p)
  PROVE  /\ writer' \in [Writers -> WriterStates]
         /\ \A w \in Writers :
              \/ /\ writer'[w].step = writer[w].step /\ writer'[w].id = writer[w].id
                 /\ writer'[w].failed = writer[w].failed
              \/ /\ writer[w].step = "none"
                 /\ writer'[w].step = "dump" /\ writer'[w].id \in ReportIds
              \/ /\ writer[w].step # "none" /\ writer'[w].step = "over"
                 /\ writer'[w].id = writer[w].id /\ writer'[w].failed
PROOF
  <1>. USE DEF WriterStates, ReporterStates, UploaderStates
  <1>1. CrashTypeOK
    BY DEF CrashInv
  <1>2. ASSUME NEW w \in Writers, writer[w].step = "none", Begins(w)
        PROVE  /\ writer' \in [Writers -> WriterStates]
               /\ \A v \in Writers :
                    \/ /\ writer'[v].step = writer[v].step /\ writer'[v].id = writer[v].id
                       /\ writer'[v].failed = writer[v].failed
                    \/ /\ writer[v].step = "none"
                       /\ writer'[v].step = "dump" /\ writer'[v].id \in ReportIds
    <2>1. PICK i \in ReportIds :
            writer' = [writer EXCEPT ![w] = [step |-> "dump", id |-> i, failed |-> FALSE]]
      BY <1>2 DEF Begins
    <2>2. \A v \in Writers :
            writer'[v] = IF v = w THEN [step |-> "dump", id |-> i, failed |-> FALSE] ELSE writer[v]
      BY <1>1, <2>1 DEF CrashTypeOK
    <2>3. writer' \in [Writers -> WriterStates]
      BY <1>1, <2>1 DEF CrashTypeOK
    <2>. QED BY <1>2, <2>2, <2>3
  <1>3. ASSUME NEW p \in Programs, Dies(p)
        PROVE  /\ writer' \in [Writers -> WriterStates]
               /\ \A w \in Writers :
                    \/ /\ writer'[w].step = writer[w].step /\ writer'[w].id = writer[w].id
                       /\ writer'[w].failed = writer[w].failed
                    \/ /\ writer[w].step # "none" /\ writer'[w].step = "over"
                       /\ writer'[w].id = writer[w].id /\ writer'[w].failed
    <2>1. writer' = [w \in Writers |->
            IF w[1] = p /\ writer[w].step # "none"
              THEN [writer[w] EXCEPT !.step = "over", !.failed = @ \/ writer[w].step # "over"]
              ELSE writer[w]]
      BY <1>3 DEF Dies
    <2>2. ASSUME NEW w \in Writers
          PROVE  /\ writer'[w] \in WriterStates
                 /\ \/ /\ writer'[w].step = writer[w].step /\ writer'[w].id = writer[w].id
                       /\ writer'[w].failed = writer[w].failed
                    \/ /\ writer[w].step # "none" /\ writer'[w].step = "over"
                       /\ writer'[w].id = writer[w].id /\ writer'[w].failed
      <3>1. writer[w] \in WriterStates
        BY <1>1, ThreadTypes
      <3>2. CASE writer'[w] = writer[w]
        BY <3>1, <3>2
      <3>3. CASE /\ writer[w].step # "none"
                 /\ writer'[w] = [writer[w] EXCEPT !.step = "over",
                                                   !.failed = @ \/ writer[w].step # "over"]
        <4>1. CASE writer[w].step = "over"
          <5>1. writer'[w] = [writer[w] EXCEPT !.step = "over", !.failed = @]
            BY <3>1, <3>3, <4>1
          <5>. QED BY <3>1, <4>1, <5>1
        <4>2. CASE writer[w].step # "over"
          <5>1. writer'[w] = [writer[w] EXCEPT !.step = "over", !.failed = TRUE]
            BY <3>1, <3>3, <4>2
          <5>. QED BY <3>1, <3>3, <5>1
        <4>. QED BY <4>1, <4>2
      <3>. QED BY <2>1, <3>2, <3>3
    <2>. QED BY <2>1, <2>2
  <1>. QED BY <1>2, <1>3

LEMMA CrashBeginsKeeps ==
  ASSUME CrashInv, NEW w \in Writers, Crashes(w) \/ InvalidParameter(w)
  PROVE  CrashInv'
PROOF
  <1>. USE DEF WriterStates, ReporterStates, UploaderStates
  <1>1. w[1] \in Programs
    BY DEF Writers
  <1>2. \/ writer[w].step = "none" /\ Begins(w)
        \/ \E p \in Programs : Dies(p)
    BY <1>1 DEF Crashes, InvalidParameter
  <1>3. alive' \subseteq Programs /\ capturing' \in [Programs -> BOOLEAN]
    BY <1>1 DEF CrashInv, CrashTypeOK, Crashes, InvalidParameter, Dies
  <1>4. CrashTypeOK'
    BY <1>2, <1>3, BeginsOrDies DEF CrashInv, CrashTypeOK, Crashes, InvalidParameter
  <1>. QED BY <1>2, <1>4, BeginsOrDies, CapturesKeep DEF Crashes, InvalidParameter

LEMMA EndsKeeps ==
  ASSUME CrashInv, NEW p \in Programs, Ends(p)
  PROVE  CrashInv'
PROOF
  <1>. USE DEF WriterStates, ReporterStates, UploaderStates
  <1>1. CrashTypeOK'
    BY BeginsOrDies DEF CrashInv, CrashTypeOK, Ends, Dies
  <1>. QED BY <1>1, BeginsOrDies, CapturesKeep DEF Ends

\* What the end of a capture and the end of a step are for the thread and the others.
LEMMA ThreadGoesOn ==
  ASSUME CrashTypeOK, NEW w \in Writers, NEW ok \in BOOLEAN,
         writer[w].step \in {"dump", "texts", "prune", "launch"},
         GoesOn(w, ok) \/ GivesUp(w)
  PROVE  /\ writer' \in [Writers -> WriterStates]
         /\ \A v \in Writers \ {w} : writer'[v] = writer[v]
         /\ writer'[w].id = writer[w].id
         /\ GivesUp(w) => writer'[w].step = "over" /\ writer'[w].failed
         /\ GoesOn(w, ok) => /\ writer'[w].step = NextStep[writer[w].step]
                             /\ ~writer'[w].failed => ~writer[w].failed /\ ok
         /\ writer'[w].step \in {"texts", "prune", "launch", "over"}
PROOF
  <1>. USE DEF WriterStates, ReporterStates, UploaderStates
  <1>1. writer[w] \in WriterStates
    BY ThreadTypes
  <1>2. NextStep[writer[w].step] \in {"texts", "prune", "launch", "over"}
    BY DEF NextStep
  <1>3. CASE GivesUp(w)
    <2>1. writer' = [writer EXCEPT ![w].step = "over", ![w].failed = TRUE]
      BY <1>3 DEF GivesUp
    <2>2. /\ writer'[w] = [writer[w] EXCEPT !.step = "over", !.failed = TRUE]
          /\ \A v \in Writers \ {w} : writer'[v] = writer[v]
          /\ writer' \in [Writers -> WriterStates]
      BY <1>1, <2>1 DEF CrashTypeOK
    <2>3. /\ writer'[w].step = "over" /\ writer'[w].failed
          /\ writer'[w].id = writer[w].id
      BY <1>1, <2>2
    <2>4. GoesOn(w, ok) => /\ writer'[w].step = NextStep[writer[w].step]
                           /\ ~writer'[w].failed => ~writer[w].failed /\ ok
      <3>. SUFFICES ASSUME GoesOn(w, ok)
                    PROVE  writer'[w].step = NextStep[writer[w].step]
        BY <2>3
      <3>1. writer' = [writer EXCEPT ![w].step = NextStep[@], ![w].failed = @ \/ ~ok]
        BY DEF GoesOn
      <3>. QED BY <1>1, <3>1 DEF CrashTypeOK
    <2>. QED BY <2>2, <2>3, <2>4
  <1>4. CASE ~GivesUp(w)
    <2>1. writer' = [writer EXCEPT ![w].step = NextStep[@], ![w].failed = @ \/ ~ok]
      BY <1>4 DEF GoesOn
    <2>2. /\ writer'[w] = [writer[w] EXCEPT !.step = NextStep[@], !.failed = @ \/ ~ok]
          /\ \A v \in Writers \ {w} : writer'[v] = writer[v]
      BY <1>1, <2>1 DEF CrashTypeOK
    <2>3. /\ writer'[w].step = NextStep[writer[w].step]
          /\ writer'[w].id = writer[w].id
      BY <1>1, <2>2
    <2>4. writer'[w].failed = (writer[w].failed \/ ~ok)
      BY <1>1, <2>2
    <2>5. writer' \in [Writers -> WriterStates]
      <3>1. (writer[w].failed \/ ~ok) \in BOOLEAN
        OBVIOUS
      <3>. QED BY <1>1, <1>2, <2>1, <3>1 DEF CrashTypeOK
    <2>. QED BY <1>2, <1>4, <2>2, <2>3, <2>4, <2>5
  <1>. QED BY <1>3, <1>4

LEMMA CaptureFaultsKeeps ==
  ASSUME CrashInv, NEW w \in Writers, CaptureFaults(w)
  PROVE  CrashInv'
PROOF
  <1>. USE DEF WriterStates, ReporterStates, UploaderStates
  <1>1. writer[w].step \in {"dump", "texts", "prune", "launch"} /\ GivesUp(w)
    BY ThreadTypes DEF CaptureFaults, CrashInv
  <1>2. /\ writer' \in [Writers -> WriterStates]
        /\ \A v \in Writers \ {w} : writer'[v] = writer[v]
        /\ writer'[w].id = writer[w].id
        /\ writer'[w].step = "over" /\ writer'[w].failed
    BY <1>1, ThreadGoesOn DEF CrashInv
  <1>3. CrashTypeOK'
    BY <1>2 DEF CrashInv, CrashTypeOK, CaptureFaults
  <1>. QED BY <1>1, <1>2, <1>3, CapturesKeep DEF CaptureFaults

\* A step of writeCrashReport on thread w keeps the invariant if it keeps the reports
\* of the others as they are, and its own whole.
LEMMA WritingKeeps ==
  ASSUME CrashInv, CrashTypeOK', NEW w \in Writers, NEW ok \in BOOLEAN,
         writer[w].step \in {"dump", "texts", "prune", "launch"},
         GoesOn(w, ok) \/ GivesUp(w),
         UNCHANGED <<uploader, stored, agreed, declined>>,
         \A v \in Writers :
           \/ reporter'[v] = reporter[v]
           \/ v = w /\ reporter[w].step = "none"
              /\ reporter'[w].step = "select" /\ writer'[w].step = "over",
         \A i \in ReportIds : Marker \in content'[i] => Marker \in content[i],
         \A v \in Writers \ {w} :
           Undisturbed(v)' =>
             /\ writer[v].id \in reports
             /\ content'[writer[v].id] \intersect Parts = content[writer[v].id] \intersect Parts,
         Undisturbed(w)' => Written(w)'
  PROVE  CrashInv'
PROOF
  <1>. USE DEF WriterStates, ReporterStates, UploaderStates
  <1>1. /\ \A v \in Writers \ {w} : writer'[v] = writer[v]
        /\ writer'[w].id = writer[w].id
        /\ writer'[w].step \in {"texts", "prune", "launch", "over"}
    BY ThreadGoesOn DEF CrashInv
  <1>2. WritersHaveIds'
    BY <1>1 DEF CrashInv, WritersHaveIds
  <1>3. ReportersAreLaunched'
    BY <1>1 DEF CrashInv, ReportersAreLaunched
  <1>4. UploadersAreAgreed' /\ SentIsStored' /\ stored' \subseteq agreed'
    BY DEF CrashInv, UploadersAreAgreed, SentIsStored
  <1>5. MarkedIsAnswered'
    BY DEF CrashInv, MarkedIsAnswered
  <1>6. WrittenSoFar'
    <2>. SUFFICES ASSUME NEW v \in Writers, Undisturbed(v)', v # w PROVE Written(v)'
      BY DEF WrittenSoFar
    <2>. QED BY <1>1, WrittenStays
  <1>. QED BY <1>2, <1>3, <1>4, <1>5, <1>6 DEF CrashInv

LEMMA WriteDumpKeeps ==
  ASSUME CrashInv, NEW w \in Writers, WriteDump(w)
  PROVE  CrashInv'
PROOF
  <1>. USE DEF WriterStates, ReporterStates, UploaderStates
  <1>. DEFINE i == writer[w].id
  <1>1. CrashTypeOK /\ writer[w].step = "dump" /\ i \in ReportIds
    BY ThreadTypes DEF CrashInv, WritersHaveIds, WriteDump
  <1>2. UNCHANGED <<alive, capturing, reporter, uploader, stored, agreed, declined, byHand>>
    BY DEF WriteDump
  <1>3. CASE GivesUp(w) /\ UNCHANGED <<reports, content>>
    <2>1. /\ writer' \in [Writers -> WriterStates]
          /\ \A v \in Writers \ {w} : writer'[v] = writer[v]
          /\ writer'[w].id = writer[w].id
          /\ writer'[w].step = "over" /\ writer'[w].failed
      BY <1>1, <1>3, ThreadGoesOn
    <2>2. CrashTypeOK'
      BY <1>1, <1>2, <1>3, <2>1 DEF CrashTypeOK
    <2>. QED BY <1>1, <1>2, <1>3, <2>1, <2>2, CapturesKeep
  <1>4. CASE ~(GivesUp(w) /\ UNCHANGED <<reports, content>>)
    <2>1. PICK ok \in BOOLEAN :
            /\ reports' = reports \union {i}
            /\ IF ok THEN content' = [content EXCEPT ![i] = (@ \ {PartDump}) \union {"crash.dmp"}]
               ELSE \/ content' = [content EXCEPT ![i] = (@ \ {"crash.dmp"}) \union {PartDump}]
                    \/ UNCHANGED content
            /\ GoesOn(w, ok)
      BY <1>4 DEF WriteDump
    <2>2. /\ content' \in [ReportIds -> SUBSET (Parts \union {PartDump, Marker, Archive})]
          /\ \A j \in ReportIds \ {i} : content'[j] = content[j]
          /\ Marker \in content'[i] => Marker \in content[i]
          /\ ok => "crash.dmp" \in content'[i]
      <3>1. content \in [ReportIds -> SUBSET (Parts \union {PartDump, Marker, Archive})]
        BY <1>1 DEF CrashTypeOK
      <3>2. "crash.dmp" \in Parts /\ Marker # PartDump /\ Marker # "crash.dmp"
        BY DEF Parts, Marker, PartDump
      <3>3. CASE content' = [content EXCEPT ![i] = (@ \ {PartDump}) \union {"crash.dmp"}]
        BY <1>1, <3>1, <3>2, <3>3
      <3>4. CASE /\ ~ok
                 /\ content' = [content EXCEPT ![i] = (@ \ {"crash.dmp"}) \union {PartDump}]
        BY <1>1, <3>1, <3>2, <3>4
      <3>5. CASE ~ok /\ UNCHANGED content
        BY <3>1, <3>5
      <3>. QED BY <2>1, <3>3, <3>4, <3>5
    <2>3. /\ writer' \in [Writers -> WriterStates]
          /\ \A v \in Writers \ {w} : writer'[v] = writer[v]
          /\ writer'[w].id = i /\ writer'[w].step = "texts"
          /\ ~writer'[w].failed => ok
      BY <1>1, <2>1, ThreadGoesOn DEF NextStep
    <2>5. CrashTypeOK'
      BY <1>1, <1>2, <2>1, <2>2, <2>3 DEF CrashTypeOK
    <2>6. \A v \in Writers \ {w} :
            Undisturbed(v)' =>
              /\ writer[v].id \in reports
              /\ content'[writer[v].id] \intersect Parts
                   = content[writer[v].id] \intersect Parts
      <3>. SUFFICES ASSUME NEW v \in Writers \ {w}, Undisturbed(v)'
                    PROVE  writer[v].id # i /\ writer[v].id \in reports
                           /\ writer[v].id \in ReportIds
        BY <2>2
      <3>1. writer'[w].id # writer'[v].id /\ writer'[v].id \in reports'
        BY DEF Undisturbed
      <3>. QED BY <1>1, <2>1, <2>3, <3>1 DEF CrashTypeOK
    <2>7. Undisturbed(w)' => Written(w)'
      BY <1>1, <2>2, <2>3 DEF Undisturbed, Written
    <2>8. \A j \in ReportIds : Marker \in content'[j] => Marker \in content[j]
      BY <2>2
    <2>. QED BY <1>1, <1>2, <2>1, <2>5, <2>6, <2>7, <2>8, WritingKeeps
  <1>. QED BY <1>3, <1>4

LEMMA WriteTextsKeeps ==
  ASSUME CrashInv, NEW w \in Writers, WriteTexts(w)
  PROVE  CrashInv'
PROOF
  <1>. USE DEF WriterStates, ReporterStates, UploaderStates
  <1>. DEFINE i == writer[w].id
  <1>1. CrashTypeOK /\ writer[w].step = "texts" /\ i \in ReportIds
    BY ThreadTypes DEF CrashInv, WritersHaveIds, WriteTexts
  <1>2. UNCHANGED <<alive, capturing, reports, reporter, uploader, stored, agreed,
                    declined, byHand>>
    BY DEF WriteTexts
  <1>3. PICK written \in BOOLEAN :
          /\ content' = [content EXCEPT ![i] =
               IF written /\ i \in reports THEN @ \union {"report.txt"} ELSE @ \ {"report.txt"}]
          /\ GoesOn(w, written /\ i \in reports)
    BY DEF WriteTexts
  <1>4. PICK ok \in BOOLEAN : ok = (written /\ i \in reports)
    OBVIOUS
  <1>5. GoesOn(w, ok)
    BY <1>3, <1>4 DEF GoesOn
  <1>6. \A j \in ReportIds :
          content'[j] = IF j # i THEN content[j]
                        ELSE IF ok THEN content[i] \union {"report.txt"}
                                   ELSE content[i] \ {"report.txt"}
    BY <1>1, <1>3, <1>4 DEF CrashTypeOK
  <1>7. /\ writer' \in [Writers -> WriterStates]
        /\ \A v \in Writers \ {w} : writer'[v] = writer[v]
        /\ writer'[w].id = i /\ writer'[w].step = "prune"
        /\ ~writer'[w].failed => ~writer[w].failed /\ ok
    BY <1>1, <1>5, ThreadGoesOn DEF NextStep
  <1>8. content' \in [ReportIds -> SUBSET (Parts \union {PartDump, Marker, Archive})]
    BY <1>1, <1>3 DEF CrashTypeOK, Parts
  <1>9. CrashTypeOK'
    BY <1>1, <1>2, <1>4, <1>6, <1>7, <1>8 DEF CrashTypeOK
  <1>10. \A v \in Writers \ {w} :
           Undisturbed(v)' =>
             /\ writer[v].id \in reports
             /\ content'[writer[v].id] \intersect Parts
                  = content[writer[v].id] \intersect Parts
    <2>. SUFFICES ASSUME NEW v \in Writers \ {w}, Undisturbed(v)'
                  PROVE  writer[v].id # i /\ writer[v].id \in reports
                         /\ writer[v].id \in ReportIds
      BY <1>6
    <2>1. writer'[w].id # writer'[v].id /\ writer'[v].id \in reports'
      BY DEF Undisturbed
    <2>. QED BY <1>1, <1>2, <1>7, <2>1 DEF CrashTypeOK
  <1>11. Undisturbed(w)' => Written(w)'
    <2>. SUFFICES ASSUME Undisturbed(w)' PROVE Written(w)'
      OBVIOUS
    <2>1. /\ ~writer[w].failed /\ ok /\ i \in reports
          /\ \A u \in Writers : uploader[u].filter # i
          /\ \A v \in Writers \ {w} : writer[v].id # i
      BY <1>2, <1>7 DEF Undisturbed
    <2>2. Written(w)
      BY <1>1, <2>1 DEF CrashInv, WrittenSoFar, Undisturbed
    <2>. QED BY <1>1, <1>6, <1>7, <2>1, <2>2 DEF Written
  <1>12. \A j \in ReportIds : Marker \in content'[j] => Marker \in content[j]
    BY <1>6 DEF Marker
  <1>. QED BY <1>1, <1>2, <1>5, <1>9, <1>10, <1>11, <1>12, WritingKeeps

\* A folder that is removed is no report any more; one that is emptied and stays has an
\* uploader that was started for it.
LEMMA PruneReportsKeeps ==
  ASSUME CrashInv, NEW w \in Writers, PruneReports(w)
  PROVE  CrashInv'
PROOF
  <1>. USE DEF WriterStates, ReporterStates, UploaderStates
  <1>. DEFINE i == writer[w].id
              Open == {j \in ReportIds : \E u \in Writers :
                         uploader[u].step \in {"pack", "send"} /\ j = Min(uploader[u].todo)}
  <1>1. CrashTypeOK /\ writer[w].step = "prune" /\ i \in ReportIds
    BY ThreadTypes DEF CrashInv, WritersHaveIds, PruneReports
  <1>2. /\ reports' = reports \ (Superfluous \ Open)
        /\ content' = [j \in ReportIds |-> IF j \notin Superfluous THEN content[j]
             ELSE content[j] \intersect (IF j \in Open THEN {Archive} ELSE {})]
        /\ GoesOn(w, TRUE)
        /\ UNCHANGED <<alive, capturing, reporter, uploader, stored, agreed, declined, byHand>>
    BY DEF PruneReports
  <1>3. \A j \in ReportIds :
          /\ content'[j] \subseteq content[j]
          /\ j \notin Superfluous => content'[j] = content[j]
          /\ j \in Superfluous \ Open => content'[j] = {}
    BY <1>2
  <1>4. /\ writer' \in [Writers -> WriterStates]
        /\ \A v \in Writers \ {w} : writer'[v] = writer[v]
        /\ writer'[w].id = i /\ writer'[w].step = "launch"
        /\ ~writer'[w].failed => ~writer[w].failed
    <2>1. PICK ok \in BOOLEAN : GoesOn(w, ok)
      BY <1>2
    <2>. QED BY <1>1, <2>1, ThreadGoesOn DEF NextStep
  <1>5. content' \in [ReportIds -> SUBSET (Parts \union {PartDump, Marker, Archive})]
    <2>1. \A j \in ReportIds : content'[j] \in SUBSET (Parts \union {PartDump, Marker, Archive})
      BY <1>1, <1>3 DEF CrashTypeOK
    <2>. QED BY <1>2, <2>1
  <1>6. CrashTypeOK'
    <2>1. \A j \in ReportIds \ reports' : content'[j] = {}
      BY <1>1, <1>2, <1>3 DEF CrashTypeOK
    <2>. QED BY <1>1, <1>2, <1>4, <1>5, <2>1 DEF CrashTypeOK
  <1>7. ASSUME NEW v \in Writers, Undisturbed(v)'
        PROVE  /\ writer[v].id \in reports
               /\ content'[writer[v].id] = content[writer[v].id]
    <2>1. writer'[v].id = writer[v].id
      BY <1>4
    <2>2. /\ writer[v].id \in reports \ (Superfluous \ Open)
          /\ \A u \in Writers : uploader[u].filter # writer[v].id
      BY <1>2, <1>7, <2>1 DEF Undisturbed
    <2>3. writer[v].id \notin Open
      <3>. SUFFICES ASSUME writer[v].id \in Open PROVE FALSE
        OBVIOUS
      <3>1. PICK u \in Writers :
              uploader[u].step \in {"pack", "send"} /\ writer[v].id = Min(uploader[u].todo)
        OBVIOUS
      <3>2. Report(u) = uploader[u].filter
        BY <3>1, ReportOfUploader
      <3>. QED BY <2>2, <3>1, <3>2 DEF Report
    <2>. QED BY <1>1, <1>3, <2>2, <2>3 DEF CrashTypeOK
  <1>8. Undisturbed(w)' => Written(w)'
    <2>. SUFFICES ASSUME Undisturbed(w)' PROVE Written(w)'
      OBVIOUS
    <2>1. /\ ~writer[w].failed
          /\ \A u \in Writers : uploader[u].filter # i
          /\ \A v \in Writers \ {w} : writer[v].id # i
      BY <1>2, <1>4 DEF Undisturbed
    <2>2. Written(w)
      BY <1>1, <1>7, <2>1 DEF CrashInv, WrittenSoFar, Undisturbed
    <2>. QED BY <1>1, <1>4, <1>7, <2>2 DEF Written
  <1>. QED BY <1>1, <1>2, <1>3, <1>6, <1>7, <1>8, WritingKeeps

LEMMA LaunchReporterKeeps ==
  ASSUME CrashInv, NEW w \in Writers, LaunchReporter(w)
  PROVE  CrashInv'
PROOF
  <1>. USE DEF WriterStates, ReporterStates, UploaderStates
  <1>. DEFINE i == writer[w].id
  <1>1. CrashTypeOK /\ writer[w].step = "launch" /\ i \in ReportIds /\ GoesOn(w, TRUE)
    BY ThreadTypes DEF CrashInv, WritersHaveIds, LaunchReporter
  <1>2. /\ UNCHANGED <<alive, capturing, reports, content, uploader, stored, agreed,
                       declined, byHand>>
        /\ \/ /\ reporter[w].step = "none"
              /\ reporter' = [reporter EXCEPT ![w] =
                                [step |-> "select", filter |-> i, id |-> NoId]]
           \/ UNCHANGED reporter
    BY DEF LaunchReporter
  <1>3. /\ writer' \in [Writers -> WriterStates]
        /\ \A v \in Writers \ {w} : writer'[v] = writer[v]
        /\ writer'[w].id = i /\ writer'[w].step = "over"
        /\ ~writer'[w].failed => ~writer[w].failed
    <2>1. PICK ok \in BOOLEAN : GoesOn(w, ok)
      BY <1>1
    <2>. QED BY <1>1, <2>1, ThreadGoesOn DEF NextStep
  <1>4. CrashTypeOK'
    BY <1>1, <1>2, <1>3 DEF CrashTypeOK
  <1>5. \A v \in Writers :
          \/ reporter'[v] = reporter[v]
          \/ v = w /\ reporter[w].step = "none"
             /\ reporter'[w].step = "select" /\ writer'[w].step = "over"
    BY <1>1, <1>2, <1>3 DEF CrashTypeOK
  <1>6. \A v \in Writers \ {w} : Undisturbed(v)' => writer[v].id \in reports
    BY <1>2, <1>3 DEF Undisturbed
  <1>7. Undisturbed(w)' => Written(w)'
    <2>1. Undisturbed(w)' => Undisturbed(w)
      BY <1>1, <1>2, <1>3 DEF Undisturbed
    <2>. QED BY <1>1, <1>2, <1>3, <2>1 DEF CrashInv, WrittenSoFar, Written
  <1>. QED BY <1>1, <1>2, <1>4, <1>5, <1>6, <1>7, WritingKeeps
-----------------------------------------------------------------------------
(* The reporter process.                                                   *)

\* A reporter that is started or looks for reports changes nothing but itself.
LEMMA ReporterKeeps ==
  ASSUME CrashInv, CrashTypeOK',
         UNCHANGED <<writer, reports, content, uploader, stored, agreed, declined>>,
         ReportersAreLaunched',
         \A w \in Writers : reporter[w].step = "over" => reporter'[w].step = "over"
  PROVE  CrashInv'
PROOF
  <1>. USE DEF WriterStates, ReporterStates, UploaderStates
  <1>1. WritersHaveIds' /\ SentIsStored' /\ MarkedIsAnswered' /\ stored' \subseteq agreed'
    BY DEF CrashInv, WritersHaveIds, SentIsStored, MarkedIsAnswered
  <1>2. UploadersAreAgreed'
    BY DEF CrashInv, UploadersAreAgreed
  <1>3. WrittenSoFar'
    BY DEF CrashInv, WrittenSoFar, Undisturbed, Written
  <1>. QED BY <1>1, <1>2, <1>3 DEF CrashInv

LEMMA StartByHandKeeps ==
  ASSUME CrashInv, NEW w \in Writers, StartByHand(w)
  PROVE  CrashInv'
PROOF
  <1>. USE DEF WriterStates, ReporterStates, UploaderStates
  <1>1. /\ reporter[w].step = "none"
        /\ reporter' = [reporter EXCEPT ![w] =
                          [step |-> "select", filter |-> NoId, id |-> NoId]]
        /\ byHand' = TRUE
        /\ UNCHANGED <<alive, capturing, writer, reports, content, uploader, stored,
                       agreed, declined>>
    BY DEF StartByHand
  <1>2. CrashTypeOK'
    BY <1>1 DEF CrashInv, CrashTypeOK
  <1>3. \A v \in Writers : reporter'[v] = IF v = w
          THEN [step |-> "select", filter |-> NoId, id |-> NoId] ELSE reporter[v]
    BY <1>1 DEF CrashInv, CrashTypeOK
  <1>4. ReportersAreLaunched'
    BY <1>1, <1>3 DEF CrashInv, ReportersAreLaunched
  <1>. QED BY <1>1, <1>2, <1>3, <1>4, ReporterKeeps

LEMMA SelectPendingKeeps ==
  ASSUME CrashInv, NEW w \in Writers, SelectPending(w)
  PROVE  CrashInv'
PROOF
  <1>. USE DEF WriterStates, ReporterStates, UploaderStates
  <1>. DEFINE pending == Pending(reporter[w].filter)
  <1>1. /\ reporter[w].step = "select"
        /\ reporter' = [reporter EXCEPT ![w] =
             IF pending = {} THEN [@ EXCEPT !.step = "over"]
                             ELSE [@ EXCEPT !.step = "ask", !.id = Min(pending)]]
        /\ UNCHANGED <<alive, capturing, writer, reports, content, uploader, stored,
                       agreed, declined, byHand>>
    BY DEF SelectPending
  <1>2. CrashTypeOK /\ pending \subseteq ReportIds
    BY DEF CrashInv, CrashTypeOK, Pending
  <1>3. pending # {} => Min(pending) \in ReportIds
    <2>1. pending # {} => Min(pending) \in pending
      BY <1>2, LeastId, IdsAreNumbers
    <2>. QED BY <1>2, <2>1
  <1>4. reporter[w] \in ReporterStates
    BY <1>2, ThreadTypes
  <1>5. /\ reporter'[w] \in ReporterStates
        /\ reporter'[w].filter = reporter[w].filter
        /\ reporter'[w].step = "ask" => reporter'[w].id \in ReportIds
        /\ \A v \in Writers \ {w} : reporter'[v] = reporter[v]
    <2>1. /\ reporter'[w] = IF pending = {}
               THEN [reporter[w] EXCEPT !.step = "over"]
               ELSE [reporter[w] EXCEPT !.step = "ask", !.id = Min(pending)]
          /\ \A v \in Writers \ {w} : reporter'[v] = reporter[v]
      BY <1>1, <1>2 DEF CrashTypeOK
    <2>2. CASE pending = {}
      <3>1. reporter'[w] = [reporter[w] EXCEPT !.step = "over"]
        BY <2>1, <2>2
      <3>. QED BY <1>4, <2>1, <3>1
    <2>3. CASE pending # {}
      <3>1. reporter'[w] = [reporter[w] EXCEPT !.step = "ask", !.id = Min(pending)]
        BY <2>1, <2>3
      <3>. QED BY <1>3, <1>4, <2>1, <2>3, <3>1
    <2>. QED BY <2>2, <2>3
  <1>6. reporter' \in [Writers -> ReporterStates]
    <2>1. \E f : reporter' = [reporter EXCEPT ![w] = f]
      BY <1>1
    <2>2. reporter' = [reporter EXCEPT ![w] = reporter'[w]]
      BY <1>2, <2>1 DEF CrashTypeOK
    <2>. QED BY <1>2, <1>5, <2>2 DEF CrashTypeOK
  <1>7. CrashTypeOK'
    BY <1>1, <1>2, <1>6 DEF CrashTypeOK
  <1>8. ReportersAreLaunched'
    BY <1>1, <1>5, IdsAreNumbers DEF CrashInv, ReportersAreLaunched
  <1>. QED BY <1>1, <1>5, <1>7, <1>8, ReporterKeeps

\* A folder that is marked gets nothing else.
LEMMA MarkedFolder ==
  ASSUME CrashTypeOK, NEW i \in ReportIds
  PROVE  /\ Marked(i) \in [ReportIds -> SUBSET (Parts \union {PartDump, Marker, Archive})]
         /\ \A j \in ReportIds :
              /\ Marked(i)[j] \subseteq content[j] \union {Marker}
              /\ content[j] \subseteq Marked(i)[j]
              /\ j # i \/ j \notin reports => Marked(i)[j] = content[j]
PROOF
  <1>. USE DEF WriterStates, ReporterStates, UploaderStates
  <1>1. CASE i \in reports
    <2>1. Marked(i) = [content EXCEPT ![i] = @ \union {Marker}]
      BY <1>1 DEF Marked
    <2>. QED BY <1>1, <2>1 DEF CrashTypeOK
  <1>2. CASE i \notin reports
    BY <1>2 DEF Marked, CrashTypeOK
  <1>. QED BY <1>1, <1>2

\* The uploader is started for the report that the user agreed to send, and a refused
\* report is marked.
LEMMA AnswerPromptKeeps ==
  ASSUME CrashInv, NEW w \in Writers, NEW answer, AnswerPrompt(w, answer)
  PROVE  CrashInv'
PROOF
  <1>. USE DEF WriterStates, ReporterStates, UploaderStates
  <1>. DEFINE i == reporter[w].id
  <1>1. /\ reporter[w].step = "ask"
        /\ reporter' = [reporter EXCEPT ![w].step = "over"]
        /\ agreed' = IF answer = "yes" THEN agreed \union {i} ELSE agreed
        /\ declined' = IF answer = "no" THEN declined \union {i} ELSE declined
        /\ content' = IF answer = "no" THEN Marked(i) ELSE content
        /\ uploader' = IF answer = "yes"
             THEN [uploader EXCEPT ![w].step = "list", ![w].filter = i]
             ELSE uploader
        /\ UNCHANGED <<alive, capturing, writer, reports, stored, byHand>>
    BY DEF AnswerPrompt, UploadFilter
  <1>2. /\ CrashTypeOK /\ i \in ReportIds
        /\ uploader[w].step = "none" /\ uploader[w].filter = NoId
    BY <1>1, ThreadTypes DEF CrashInv, ReportersAreLaunched, UploadersAreAgreed
  <1>3. /\ reporter' \in [Writers -> ReporterStates]
        /\ reporter'[w].step = "over" /\ reporter'[w].filter = reporter[w].filter
        /\ \A v \in Writers \ {w} : reporter'[v] = reporter[v]
    <2>1. /\ reporter'[w] = [reporter[w] EXCEPT !.step = "over"]
          /\ \A v \in Writers \ {w} : reporter'[v] = reporter[v]
      BY <1>1, <1>2 DEF CrashTypeOK
    <2>2. reporter[w] \in ReporterStates
      BY <1>2, ThreadTypes
    <2>3. reporter'[w].step = "over" /\ reporter'[w].filter = reporter[w].filter
      BY <2>1, <2>2
    <2>. QED BY <1>1, <1>2, <2>1, <2>2, <2>3 DEF CrashTypeOK
  <1>4. /\ uploader' \in [Writers -> UploaderStates]
        /\ \A v \in Writers \ {w} : uploader'[v] = uploader[v]
        /\ answer = "yes" => uploader'[w].step = "list" /\ uploader'[w].filter = i
        /\ answer # "yes" => uploader'[w] = uploader[w]
    <2>1. CASE answer = "yes"
      <3>1. uploader' = [uploader EXCEPT ![w].step = "list", ![w].filter = i]
        BY <1>1, <2>1
      <3>2. uploader[w] \in UploaderStates
        BY <1>2, ThreadTypes
      <3>3. /\ uploader'[w] = [uploader[w] EXCEPT !.step = "list", !.filter = i]
            /\ \A v \in Writers \ {w} : uploader'[v] = uploader[v]
        BY <1>2, <3>1 DEF CrashTypeOK
      <3>. QED BY <1>2, <2>1, <3>1, <3>2, <3>3 DEF CrashTypeOK
    <2>2. CASE answer # "yes"
      BY <1>1, <1>2, <2>2 DEF CrashTypeOK
    <2>. QED BY <2>1, <2>2
  <1>5. /\ content' \in [ReportIds -> SUBSET (Parts \union {PartDump, Marker, Archive})]
        /\ \A j \in ReportIds :
             /\ content'[j] \intersect Parts = content[j] \intersect Parts
             /\ j \notin reports => content'[j] = content[j]
             /\ Marker \in content'[j] => Marker \in content[j] \/ j \in declined'
    <2>1. CASE answer = "no"
      <3>1. Marker \notin Parts
        BY DEF Marker, Parts
      <3>. QED BY <1>1, <1>2, <2>1, <3>1, MarkedFolder
    <2>2. CASE answer # "no"
      BY <1>1, <1>2, <2>2 DEF CrashTypeOK
    <2>. QED BY <2>1, <2>2
  <1>6. /\ agreed \subseteq agreed' /\ declined \subseteq declined'
        /\ answer = "yes" => i \in agreed'
    BY <1>1
  <1>7. CrashTypeOK'
    <2>1. agreed' \subseteq ReportIds /\ declined' \subseteq ReportIds
      BY <1>1, <1>2 DEF CrashTypeOK
    <2>. QED BY <1>1, <1>2, <1>3, <1>4, <1>5, <2>1 DEF CrashTypeOK
  <1>8. WritersHaveIds' /\ ReportersAreLaunched'
    BY <1>1, <1>3 DEF CrashInv, WritersHaveIds, ReportersAreLaunched
  <1>9. UploadersAreAgreed'
    BY <1>2, <1>3, <1>4, <1>6 DEF CrashInv, UploadersAreAgreed
  <1>10. stored' \subseteq agreed' /\ SentIsStored' /\ MarkedIsAnswered'
    <2>1. SentIsStored'
      BY <1>1, <1>4 DEF CrashInv, SentIsStored
    <2>2. MarkedIsAnswered'
      BY <1>1, <1>5, <1>6 DEF CrashInv, MarkedIsAnswered
    <2>. QED BY <1>1, <1>6, <2>1, <2>2 DEF CrashInv
  <1>11. WrittenSoFar'
    <2>. SUFFICES ASSUME NEW v \in Writers, Undisturbed(v)' PROVE Written(v)'
      BY DEF WrittenSoFar
    <2>1. writer[v].id \in reports /\ writer[v].id \in ReportIds
      BY <1>1, <1>2 DEF Undisturbed, CrashTypeOK
    <2>2. \A u \in Writers :
            uploader[u].filter # NoId => uploader'[u].filter = uploader[u].filter
      BY <1>2, <1>4
    <2>. QED BY <1>1, <1>5, <2>1, <2>2, WrittenStays
  <1>. QED BY <1>7, <1>8, <1>9, <1>10, <1>11 DEF CrashInv
-----------------------------------------------------------------------------
(* The uploader process.                                                   *)

\* With one report to send, turning to the next one is the end.
LEMMA NextReportEnds ==
  ASSUME CrashInv, NEW u \in Writers,
         uploader[u].step \in {"begin", "pack", "send", "finish"}, NextReport(u)
  PROVE  /\ uploader' \in [Writers -> UploaderStates]
         /\ uploader'[u].step = "over" /\ uploader'[u].filter = uploader[u].filter
         /\ \A v \in Writers \ {u} : uploader'[v] = uploader[v]
PROOF
  <1>. USE DEF WriterStates, ReporterStates, UploaderStates
  <1>1. uploader[u].todo \ {Report(u)} = {}
    BY ReportOfUploader
  <1>2. uploader' = [uploader EXCEPT ![u].todo = {}, ![u].packed = {}, ![u].sent = FALSE,
                                     ![u].step = "over"]
    BY <1>1 DEF NextReport
  <1>3. CrashTypeOK
    BY DEF CrashInv
  <1>4. /\ uploader'[u] = [uploader[u] EXCEPT !.todo = {}, !.packed = {},
                                             !.sent = FALSE, !.step = "over"]
        /\ \A v \in Writers \ {u} : uploader'[v] = uploader[v]
    BY <1>2, <1>3 DEF CrashTypeOK
  <1>5. uploader'[u].step = "over" /\ uploader'[u].filter = uploader[u].filter
    BY <1>3, <1>4, ThreadTypes
  <1>6. uploader' \in [Writers -> UploaderStates]
    BY <1>2, <1>3 DEF CrashTypeOK
  <1>. QED BY <1>4, <1>5, <1>6

LEMMA ListReportsKeeps ==
  ASSUME CrashInv, NEW u \in Writers, ListReports(u)
  PROVE  CrashInv'
PROOF
  <1>. USE DEF WriterStates, ReporterStates, UploaderStates
  <1>. DEFINE todo == Pending(uploader[u].filter)
  <1>1. /\ uploader[u].step = "list"
        /\ uploader' = [uploader EXCEPT ![u].todo = todo,
                                        ![u].step = IF todo = {} THEN "over" ELSE "begin"]
        /\ UNCHANGED <<alive, capturing, writer, reports, content, reporter, stored,
                       agreed, declined, byHand>>
    BY DEF ListReports
  <1>2. /\ CrashTypeOK
        /\ uploader[u].filter \in ReportIds /\ uploader[u].filter # NoId
    BY <1>1, IdsAreNumbers DEF CrashInv, CrashTypeOK, UploadersAreAgreed
  <1>3. todo \in SUBSET ReportIds /\ (todo # {} => todo = {uploader[u].filter})
    BY <1>2 DEF CrashTypeOK, Pending
  <1>4. uploader[u] \in UploaderStates
    BY <1>2, ThreadTypes
  <1>5. PICK step \in {"begin", "over"} :
          /\ step = "begin" <=> todo # {}
          /\ uploader' = [uploader EXCEPT ![u].todo = todo, ![u].step = step]
    BY <1>1
  <1>6. /\ uploader'[u] = [uploader[u] EXCEPT !.todo = todo, !.step = step]
        /\ \A v \in Writers \ {u} : uploader'[v] = uploader[v]
    BY <1>2, <1>5 DEF CrashTypeOK
  <1>7. /\ uploader'[u].step = step /\ uploader'[u].todo = todo
        /\ uploader'[u].filter = uploader[u].filter
    BY <1>4, <1>6
  <1>8. CrashTypeOK'
    <2>1. uploader' \in [Writers -> UploaderStates]
      BY <1>2, <1>3, <1>4, <1>5 DEF CrashTypeOK
    <2>. QED BY <1>1, <1>2, <2>1 DEF CrashTypeOK
  <1>9. stored' \subseteq agreed
    BY <1>1 DEF CrashInv
  <1>. QED BY <1>1, <1>3, <1>5, <1>6, <1>7, <1>8, <1>9, UploaderKeeps

LEMMA BeginArchiveKeeps ==
  ASSUME CrashInv, NEW u \in Writers, BeginArchive(u)
  PROVE  CrashInv'
PROOF
  <1>. USE DEF WriterStates, ReporterStates, UploaderStates
  <1>. DEFINE i == Report(u)
  <1>1. /\ uploader[u].step = "begin"
        /\ UNCHANGED <<alive, capturing, writer, reports, reporter, stored, agreed,
                       declined, byHand>>
    BY DEF BeginArchive
  <1>2. /\ CrashTypeOK /\ stored \subseteq agreed
        /\ i = uploader[u].filter /\ i \in ReportIds /\ uploader[u].todo = {i}
    BY <1>1, ReportOfUploader DEF CrashInv
  <1>3. CASE {"crash.dmp", PartDump} \intersect content[i] # {}
    <2>1. /\ uploader' = [uploader EXCEPT ![u].step = "pack",
                            ![u].packed = content[i] \intersect (Parts \union {PartDump})]
          /\ content' = [content EXCEPT ![i] = @ \union {Archive}]
      BY <1>3 DEF BeginArchive
    <2>2. uploader[u] \in UploaderStates
      BY <1>2, ThreadTypes
    <2>3. /\ uploader'[u] = [uploader[u] EXCEPT !.step = "pack",
                                                !.packed = content[i] \intersect (Parts \union {PartDump})]
          /\ \A v \in Writers \ {u} : uploader'[v] = uploader[v]
      BY <1>2, <2>1 DEF CrashTypeOK
    <2>4. /\ uploader'[u].step = "pack" /\ uploader'[u].todo = {i}
          /\ uploader'[u].filter = uploader[u].filter
      BY <1>2, <2>2, <2>3
    <2>5. uploader' \in [Writers -> UploaderStates]
      BY <1>2, <2>1, <2>2 DEF CrashTypeOK
    <2>6. i \in reports
      BY <1>2, <1>3 DEF CrashTypeOK
    <2>7. \A j \in ReportIds :
            content'[j] = IF j = i THEN content[i] \union {Archive} ELSE content[j]
      BY <1>2, <2>1 DEF CrashTypeOK
    <2>8. CrashTypeOK'
      <3>1. content' \in [ReportIds -> SUBSET (Parts \union {PartDump, Marker, Archive})]
        BY <1>2, <2>1 DEF CrashTypeOK
      <3>. QED BY <1>1, <1>2, <2>5, <2>6, <2>7, <3>1 DEF CrashTypeOK
    <2>9. \A j \in ReportIds :
            /\ content'[j] \intersect Parts = content[j] \intersect Parts
            /\ Marker \in content'[j] => Marker \in content[j]
      BY <2>7 DEF Parts, Archive, Marker
    <2>. QED BY <1>1, <1>2, <2>3, <2>4, <2>8, <2>9, UploaderKeeps
  <1>4. CASE ~({"crash.dmp", PartDump} \intersect content[i] # {})
    <2>1. NextReport(u) /\ UNCHANGED content
      BY <1>4 DEF BeginArchive
    <2>2. /\ uploader' \in [Writers -> UploaderStates]
          /\ uploader'[u].step = "over" /\ uploader'[u].filter = uploader[u].filter
          /\ \A v \in Writers \ {u} : uploader'[v] = uploader[v]
      BY <1>1, <2>1, NextReportEnds
    <2>3. CrashTypeOK'
      BY <1>1, <1>2, <2>1, <2>2 DEF CrashTypeOK
    <2>. QED BY <1>1, <1>2, <2>1, <2>2, <2>3, UploaderKeeps
  <1>. QED BY <1>3, <1>4

LEMMA PackArchiveKeeps ==
  ASSUME CrashInv, NEW u \in Writers, PackArchive(u)
  PROVE  CrashInv'
PROOF
  <1>. USE DEF WriterStates, ReporterStates, UploaderStates
  <1>. DEFINE i == Report(u)
  <1>1. /\ uploader[u].step = "pack"
        /\ UNCHANGED <<alive, capturing, writer, reports, reporter, stored, agreed,
                       declined, byHand>>
    BY DEF PackArchive
  <1>2. /\ CrashTypeOK /\ stored \subseteq agreed
        /\ i = uploader[u].filter /\ i \in ReportIds /\ uploader[u].todo = {i}
    BY <1>1, ReportOfUploader DEF CrashInv
  <1>3. CASE /\ uploader' = [uploader EXCEPT ![u].step = "send", ![u].packed = {}]
             /\ UNCHANGED content
    <2>1. uploader[u] \in UploaderStates
      BY <1>2, ThreadTypes
    <2>2. /\ uploader'[u] = [uploader[u] EXCEPT !.step = "send", !.packed = {}]
          /\ \A v \in Writers \ {u} : uploader'[v] = uploader[v]
      BY <1>2, <1>3 DEF CrashTypeOK
    <2>3. /\ uploader'[u].step = "send" /\ uploader'[u].todo = {i}
          /\ uploader'[u].filter = uploader[u].filter
      BY <1>2, <2>1, <2>2
    <2>4. CrashTypeOK'
      <3>1. uploader' \in [Writers -> UploaderStates]
        BY <1>2, <1>3, <2>1 DEF CrashTypeOK
      <3>. QED BY <1>1, <1>2, <1>3, <3>1 DEF CrashTypeOK
    <2>. QED BY <1>1, <1>2, <1>3, <2>2, <2>3, <2>4, UploaderKeeps
  <1>4. CASE /\ NextReport(u)
             /\ content' = [content EXCEPT ![i] = @ \ {Archive}]
    <2>1. /\ uploader' \in [Writers -> UploaderStates]
          /\ uploader'[u].step = "over" /\ uploader'[u].filter = uploader[u].filter
          /\ \A v \in Writers \ {u} : uploader'[v] = uploader[v]
      BY <1>1, <1>4, NextReportEnds
    <2>2. \A j \in ReportIds :
            content'[j] = IF j = i THEN content[i] \ {Archive} ELSE content[j]
      BY <1>2, <1>4 DEF CrashTypeOK
    <2>3. CrashTypeOK'
      <3>1. content' \in [ReportIds -> SUBSET (Parts \union {PartDump, Marker, Archive})]
        BY <1>2, <1>4 DEF CrashTypeOK
      <3>. QED BY <1>1, <1>2, <2>1, <2>2, <3>1 DEF CrashTypeOK
    <2>4. \A j \in ReportIds :
            /\ content'[j] \intersect Parts = content[j] \intersect Parts
            /\ Marker \in content'[j] => Marker \in content[j]
      BY <2>2 DEF Parts, Archive, Marker
    <2>. QED BY <1>1, <1>2, <2>1, <2>3, <2>4, UploaderKeeps
  <1>. QED BY <1>3, <1>4 DEF PackArchive

\* An answer comes with a report that the server stored, and that is one the user
\* agreed to send.
LEMMA SendArchiveKeeps ==
  ASSUME CrashInv, NEW u \in Writers, SendArchive(u)
  PROVE  CrashInv'
PROOF
  <1>. USE DEF WriterStates, ReporterStates, UploaderStates
  <1>. DEFINE i == Report(u)
  <1>1. /\ uploader[u].step = "send"
        /\ UNCHANGED <<alive, capturing, writer, reports, content, reporter, agreed,
                       declined, byHand>>
    BY DEF SendArchive
  <1>2. /\ CrashTypeOK /\ stored \subseteq agreed /\ i \in agreed
        /\ i = uploader[u].filter /\ i \in ReportIds /\ uploader[u].todo = {i}
    BY <1>1, ReportOfUploader DEF CrashInv
  <1>3. PICK sent \in BOOLEAN :
          /\ uploader' = [uploader EXCEPT ![u].step = "finish", ![u].sent = sent]
          /\ stored' \in {stored, stored \union {i}} /\ (sent => i \in stored')
    <2>1. CASE \E answered \in BOOLEAN :
                 /\ stored' = stored \union {i}
                 /\ uploader' = [uploader EXCEPT ![u].step = "finish", ![u].sent = answered]
      BY <2>1
    <2>2. CASE /\ uploader' = [uploader EXCEPT ![u].step = "finish", ![u].sent = FALSE]
               /\ UNCHANGED stored
      BY <2>2
    <2>. QED BY <2>1, <2>2 DEF SendArchive
  <1>4. uploader[u] \in UploaderStates
    BY <1>2, ThreadTypes
  <1>5. /\ uploader'[u] = [uploader[u] EXCEPT !.step = "finish", !.sent = sent]
        /\ \A v \in Writers \ {u} : uploader'[v] = uploader[v]
    BY <1>2, <1>3 DEF CrashTypeOK
  <1>6. /\ uploader'[u].step = "finish" /\ uploader'[u].todo = {i}
        /\ uploader'[u].filter = uploader[u].filter /\ uploader'[u].sent = sent
    BY <1>2, <1>4, <1>5
  <1>7. CrashTypeOK'
    <2>1. uploader' \in [Writers -> UploaderStates]
      BY <1>2, <1>3, <1>4 DEF CrashTypeOK
    <2>2. stored' \subseteq ReportIds
      BY <1>2, <1>3 DEF CrashTypeOK
    <2>. QED BY <1>1, <1>2, <2>1, <2>2 DEF CrashTypeOK
  <1>8. stored \subseteq stored' /\ stored' \subseteq agreed
    BY <1>2, <1>3
  <1>. QED BY <1>1, <1>2, <1>3, <1>5, <1>6, <1>7, <1>8, UploaderKeeps

LEMMA FinishReportKeeps ==
  ASSUME CrashInv, NEW u \in Writers, FinishReport(u)
  PROVE  CrashInv'
PROOF
  <1>. USE DEF WriterStates, ReporterStates, UploaderStates
  <1>. DEFINE i == Report(u)
  <1>1. /\ uploader[u].step = "finish" /\ NextReport(u)
        /\ content' = [content EXCEPT ![i] =
             (@ \ {Archive}) \union (IF ToMark(u) /\ i \in reports THEN {Marker} ELSE {})]
        /\ UNCHANGED <<alive, capturing, writer, reports, reporter, stored, agreed,
                       declined, byHand>>
    BY DEF FinishReport
  <1>2. /\ CrashTypeOK /\ stored \subseteq agreed
        /\ i = uploader[u].filter /\ i \in ReportIds
    BY <1>1, ReportOfUploader DEF CrashInv
  <1>3. /\ uploader' \in [Writers -> UploaderStates]
        /\ uploader'[u].step = "over" /\ uploader'[u].filter = uploader[u].filter
        /\ \A v \in Writers \ {u} : uploader'[v] = uploader[v]
    BY <1>1, NextReportEnds
  <1>4. ToMark(u) => i \in stored
    BY <1>1, <1>2 DEF ToMark, CrashInv, SentIsStored
  <1>5. \A j \in ReportIds :
          content'[j] = IF j # i THEN content[j]
                        ELSE (content[i] \ {Archive})
                               \union (IF ToMark(u) /\ i \in reports THEN {Marker} ELSE {})
    BY <1>1, <1>2 DEF CrashTypeOK
  <1>6. CrashTypeOK'
    <2>1. content' \in [ReportIds -> SUBSET (Parts \union {PartDump, Marker, Archive})]
      BY <1>1, <1>2 DEF CrashTypeOK
    <2>2. \A j \in ReportIds \ reports : content'[j] = {}
      BY <1>2, <1>5 DEF CrashTypeOK
    <2>. QED BY <1>1, <1>2, <1>3, <2>1, <2>2 DEF CrashTypeOK
  <1>7. \A j \in ReportIds :
          /\ content'[j] \intersect Parts = content[j] \intersect Parts
          /\ Marker \in content'[j] => Marker \in content[j] \/ j \in stored
    BY <1>4, <1>5 DEF Parts, Archive, Marker
  <1>. QED BY <1>1, <1>2, <1>3, <1>6, <1>7, UploaderKeeps

LEMMA KilledKeeps ==
  ASSUME CrashInv, NEW u \in Writers, Killed(u)
  PROVE  CrashInv'
PROOF
  <1>. USE DEF WriterStates, ReporterStates, UploaderStates
  <1>1. /\ uploader[u].step # "none"
        /\ uploader' = [uploader EXCEPT ![u].step = "over", ![u].todo = {},
                                        ![u].packed = {}, ![u].sent = FALSE]
        /\ UNCHANGED <<alive, capturing, writer, reports, content, reporter, stored,
                       agreed, declined, byHand>>
    BY DEF Killed
  <1>2. CrashTypeOK /\ stored \subseteq agreed
    BY DEF CrashInv
  <1>3. uploader[u] \in UploaderStates
    BY <1>2, ThreadTypes
  <1>4. /\ uploader'[u] = [uploader[u] EXCEPT !.step = "over", !.todo = {},
                                             !.packed = {}, !.sent = FALSE]
        /\ \A v \in Writers \ {u} : uploader'[v] = uploader[v]
    BY <1>1, <1>2 DEF CrashTypeOK
  <1>5. uploader'[u].step = "over" /\ uploader'[u].filter = uploader[u].filter
    BY <1>3, <1>4
  <1>6. CrashTypeOK'
    <2>1. uploader' \in [Writers -> UploaderStates]
      BY <1>1, <1>2, <1>3 DEF CrashTypeOK
    <2>. QED BY <1>1, <1>2, <2>1 DEF CrashTypeOK
  <1>. QED BY <1>1, <1>2, <1>4, <1>5, <1>6, UploaderKeeps
-----------------------------------------------------------------------------
(* The theorems.                                                             *)

LEMMA CrashStep == CrashInv /\ [CrashNext]_crashVars => CrashInv'
PROOF
  <1>. USE DEF WriterStates, ReporterStates, UploaderStates
  <1>. SUFFICES ASSUME CrashInv, [CrashNext]_crashVars PROVE CrashInv'
    OBVIOUS
  <1>1. CASE \E p \in Programs : Ends(p)
    BY <1>1, EndsKeeps
  <1>2. ASSUME NEW w \in Writers,
               \/ Crashes(w) \/ InvalidParameter(w)
               \/ WriteDump(w) \/ WriteTexts(w) \/ PruneReports(w) \/ LaunchReporter(w)
               \/ CaptureFaults(w)
        PROVE  CrashInv'
    BY <1>2, CrashBeginsKeeps, WriteDumpKeeps, WriteTextsKeeps, PruneReportsKeeps,
       LaunchReporterKeeps, CaptureFaultsKeeps
  <1>3. ASSUME NEW w \in Writers,
               \/ StartByHand(w) \/ SelectPending(w)
               \/ \E answer \in {"yes", "no", "cancel"} : AnswerPrompt(w, answer)
        PROVE  CrashInv'
    BY <1>3, StartByHandKeeps, SelectPendingKeeps, AnswerPromptKeeps
  <1>4. ASSUME NEW w \in Writers,
               \/ ListReports(w) \/ BeginArchive(w) \/ PackArchive(w) \/ SendArchive(w)
               \/ FinishReport(w) \/ Killed(w)
        PROVE  CrashInv'
    BY <1>4, ListReportsKeeps, BeginArchiveKeeps, PackArchiveKeeps, SendArchiveKeeps,
       FinishReportKeeps, KilledKeeps
  <1>5. CASE UNCHANGED crashVars
    <2>1. CrashTypeOK'
      BY <1>5 DEF CrashInv, crashVars, CrashTypeOK
    <2>2. ReportersAreLaunched'
      BY <1>5 DEF CrashInv, crashVars, ReportersAreLaunched
    <2>. QED BY <1>5, <2>1, <2>2, ReporterKeeps DEF crashVars
  <1>. QED BY <1>1, <1>2, <1>3, <1>4, <1>5 DEF CrashNext

LEMMA CrashInvariance == CrashSpec => []CrashInv
PROOF
  BY CrashInitially, CrashStep, PTL DEF CrashSpec

\* The variables of the crash reports have their types.
THEOREM CrashTypesHold == CrashSpec => []CrashTypeOK
PROOF
  <1>. USE DEF WriterStates, ReporterStates, UploaderStates
  <1>1. CrashInv => CrashTypeOK
    BY DEF CrashInv
  <1>. QED BY <1>1, CrashInvariance, PTL

\* A report is sent only if the user agreed to send that one, and one that will not be
\* asked about again was refused or is on the server, for any crashes, processes that
\* end, failed uploads and lost answers.
THEOREM AnswersAreAlwaysKept == CrashSpec => []AnswersAreKept
PROOF
  <1>. USE DEF WriterStates, ReporterStates, UploaderStates
  <1>1. CrashInv => AnswersAreKept
    BY DEF CrashInv, CrashTypeOK, MarkedIsAnswered, AnswersAreKept
  <1>. QED BY <1>1, CrashInvariance, PTL

\* A report that its reporter shows has its dump and its texts, unless something that
\* AskedIsWhole names has interfered.
THEOREM WhatIsAskedIsWhole == CrashSpec => []AskedIsWhole
PROOF
  <1>1. CrashInv => AskedIsWhole
    <2>. SUFFICES ASSUME CrashInv, NEW w \in Writers,
                         writer[w].step # "none" /\ ~writer[w].failed,
                         reporter[w].step = "ask" /\ reporter[w].filter = writer[w].id,
                         writer[w].id \in reports,
                         \A u \in Writers : uploader[u].filter # writer[w].id,
                         \A v \in Writers \ {w} : writer[v].id # writer[w].id
                  PROVE  Parts \subseteq content[writer[w].id]
      BY DEF AskedIsWhole
    <2>1. Undisturbed(w)
      BY DEF Undisturbed
    <2>2. writer[w].step = "over"
      BY DEF CrashInv, WritersHaveIds, ReportersAreLaunched
    <2>. QED BY <2>1, <2>2 DEF CrashInv, WrittenSoFar, Written, Parts
  <1>. QED BY <1>1, CrashInvariance, PTL
=============================================================================
