------------------------ MODULE IncomingTransfers_proofs ------------------------
(* Proofs about the receiving side of the file transfers, for any transfers,    *)
(* peers and file size, and any number of connections, accepts and restarts: a  *)
(* received file is an intact beginning of the sent one, and what was decided   *)
(* about a transfer stays decided.                                              *)
EXTENDS IncomingTransfers, SequenceTheorems, FiniteSetTheorems, WellFoundedInduction,
        TLAPS

\* The files that were made for t so far.
Paths(t) == 1 .. Len(files[t])

\* The updates that are queued or in the batch that is applied.
Queued == Range(transferUpdates) \union Range(stateUpdates) \union Range(ui.batch)

\* The names that a handler may choose: of a file that was made, or the next one.
Names(t) == Paths(t) \union {FreshPath(t)}

\* The path that a handler remembers names a file, once the handler has made it.
TcpNamesPath ==
  IF tcp.step = "prepare"
    THEN /\ tcp.path \in Names(tcp.t)
         /\ tcp.received # 0 => tcp.path \in Paths(tcp.t)
    ELSE /\ tcp.path \in Paths(tcp.t) \union {NoPath}
         /\ tcp.step \in {"replace", "write", "count", "publish"} => tcp.path # NoPath

UiNamesPath ==
  /\ ui.step = "prepare" => accepting.path \in Names(accepting.t)
  /\ ui.step \in {"replace", "record"} => accepting.path \in Paths(accepting.t)

\* Every path that is written down somewhere names a file that was made.
PathsExist ==
  /\ \A t \in Transfers :
       /\ Active(t) => pending[t].path \in Paths(t)
       /\ disk[t].path \in Paths(t) \union {NoPath}
       /\ pendingChat[t].path \in Paths(t) \union {NoPath}
       /\ \A i \in DOMAIN shown[t] : shown[t][i].path \in Paths(t) \union {NoPath}
  /\ \A u \in Queued : u.path \in Paths(u.t) \union {NoPath}
  /\ TcpNamesPath /\ UiNamesPath

\* What the handler of a frame remembers of it.
HandlerRemembers ==
  /\ tcp.step \in {"write", "count"} =>
       tcp.phase = "body" /\ tcp.received = tcp.offset /\ tcp.offset < Size
  /\ tcp.step = "publish" => tcp.phase = "done"

\* While the accept handler works, the copy it accepts is still shown as it was, and
\* nothing is drained.
AcceptRemembers ==
  /\ ui.step \in {"prepare", "replace", "record"} =>
       /\ ui.batch = <<>>
       /\ shown[accepting.t] # <<>> /\ shown[accepting.t][1].state \in AcceptableStates
  /\ ui.step = "prepare" => accepting.received = 0

\* A file that holds the first chunks in order.
Intact(file) == Len(file) <= Size /\ \A k \in 1 .. Len(file) : file[k] = k - 1

\* The count is right in the pending entry, unless a handler is about to replace it, ...
EntryCounts(t) ==
  Active(t) /\ ~UiReplaces(t) /\ ~TcpReplaces(t) =>
    pending[t].received = Len(files[t][pending[t].path]) - Uncounted(t)

\* ... and in what the accept handler ...
UiCounts(t) ==
  UiReplaces(t) => accepting.received = Len(files[t][accepting.path])

\* ... and the handler of a frame are about to publish.  The handler of a chunk is about to
\* append to, or has appended to, the file that ends just before the chunk, and the entry,
\* if it is still there, is the one it copied.
TcpCounts(t) ==
  /\ TcpReplaces(t) => tcp.received = Len(files[t][tcp.path])
  /\ tcp.t = t /\ tcp.step = "prepare" /\ tcp.received # 0 =>
       tcp.received = Len(files[t][tcp.path])
  /\ tcp.t = t /\ tcp.step \in {"write", "count"} =>
       /\ Len(files[t][tcp.path]) = tcp.received + Uncounted(t)
       /\ Active(t) => pending[t] = [path |-> tcp.path, received |-> tcp.received]
  /\ tcp.t = t /\ tcp.step = "publish" => Len(files[t][tcp.path]) = Size

Beginnings(t) == \A n \in Paths(t) : Intact(files[t][n])

\* And no two handlers hold the transfer at once.
FileIntact(t) ==
  /\ Beginnings(t)
  /\ EntryCounts(t) /\ UiCounts(t) /\ TcpCounts(t)
  /\ ~(UiHolds(t) /\ TcpHolds(t))

FilesAreIntact == \A t \in Transfers \ raced : FileIntact(t)

\* An update of t to the state s is queued or being applied.
InFlight(t, s) == \E u \in Queued : u.t = t /\ u.state = s

Completing(t) == tcp.step = "publish" /\ tcp.t = t

\* The sender ends a transfer once, by completing or by cancelling it, and then
\* sends no more of it.
OneVerdict ==
  \A t \in Transfers :
    /\ ~InFlight(t, "Rejected")
    /\ InFlight(t, "Completed") \/ InFlight(t, "Cancelled") \/ Completing(t) => t \in sentAll
    /\ ~(InFlight(t, "Cancelled") /\ (InFlight(t, "Completed") \/ Completing(t)))
    /\ t \in sentAll /\ tcp.t = t /\ tcp.step # "accept" => tcp.phase = "done"

\* An update to the final state s may still come.
MayCome(t, s) ==
  /\ s \in {"Completed", "Cancelled"}
  /\ t \notin sentAll \/ InFlight(t, s) \/ (s = "Completed" /\ Completing(t))

\* A copy of a message whose stored record is final agrees with it, or is in another
\* final state that no update will ask for.
AgreesWithDisk(t, record) ==
  disk[t].state \in FinalStates =>
    \/ record.state = disk[t].state
    \/ record.state \in FinalStates /\ ~MayCome(t, record.state)

\* The only copy of a message that is shown agrees with the stored record, and so does
\* the copy that will be the only one.
CopiesAgree ==
  \A t \in Transfers :
    /\ pendingChat[t] # NoRecord => disk[t] # NoRecord
    /\ Len(shown[t]) = 1 => AgreesWithDisk(t, shown[t][1])
    /\ shown[t] = <<>> /\ selected = PeerOf[t] /\ pendingChat[t] # NoRecord =>
         AgreesWithDisk(t, pendingChat[t])

TypeInv == TypeOK /\ HandlerRemembers /\ AcceptRemembers
-----------------------------------------------------------------------------
(* What the operators of the model return.                                   *)

LEMMA TransferAssumptions ==
  /\ NoTransfer \in Transfers
  /\ Size \in Nat /\ Size # 0 /\ 0 \in Offsets /\ Offsets \subseteq Nat
  /\ PeerOf \in [Transfers -> Peers] /\ NoPeer \notin Peers
PROOF
  BY TransfersAssumption, SizeAssumption, PeerOfAssumption, PeersAssumption
  DEF NoTransfer, Offsets

\* The elements of the sequences that the updates are queued in.
LEMMA Elements ==
  ASSUME NEW S, NEW s \in Seq(S)
  PROVE  /\ Range(s) \subseteq S
         /\ Range(<<>>) = {}
         /\ \A e \in S : Append(s, e) \in Seq(S) /\ Range(Append(s, e)) = Range(s) \union {e}
         /\ \A r \in Seq(S) : s \o r \in Seq(S) /\ Range(s \o r) = Range(s) \union Range(r)
         /\ s # <<>> => /\ Head(s) \in Range(s) /\ Head(s) \in S
                        /\ Tail(s) \in Seq(S) /\ Range(Tail(s)) \subseteq Range(s)
PROOF
  <1>1. Range(s) \subseteq S
    BY RangeOfSeq
  <1>2. Range(<<>>) = {}
    BY DEF Range
  <1>3. ASSUME NEW e \in S
        PROVE  Append(s, e) \in Seq(S) /\ Range(Append(s, e)) = Range(s) \union {e}
    <2>1. /\ Append(s, e) \in Seq(S) /\ Len(Append(s, e)) = Len(s) + 1 /\ Len(s) \in Nat
          /\ \A i \in 1 .. Len(s) : Append(s, e)[i] = s[i]
          /\ Append(s, e)[Len(s) + 1] = e
      BY AppendProperties, LenProperties
    <2>2. DOMAIN s = 1 .. Len(s) /\ DOMAIN Append(s, e) = 1 .. Len(s) + 1
      BY <2>1, LenProperties
    <2>3. 1 .. Len(s) + 1 = (1 .. Len(s)) \union {Len(s) + 1}
      BY <2>1
    <2>. QED BY <2>1, <2>2, <2>3 DEF Range
  <1>4. ASSUME NEW r \in Seq(S)
        PROVE  s \o r \in Seq(S) /\ Range(s \o r) = Range(s) \union Range(r)
    BY ConcatProperties, RangeConcatenation
  <1>5. ASSUME s # <<>>
        PROVE  /\ Head(s) \in Range(s) /\ Head(s) \in S
               /\ Tail(s) \in Seq(S) /\ Range(Tail(s)) \subseteq Range(s)
    <2>1. /\ Tail(s) \in Seq(S) /\ Len(Tail(s)) = Len(s) - 1 /\ Len(s) \in Nat
          /\ \A i \in 1 .. Len(Tail(s)) : Tail(s)[i] = s[i + 1]
          /\ Head(s) \in S
      BY <1>5, HeadTailProperties, LenProperties
    <2>2. Len(s) # 0 /\ Head(s) = s[1]
      BY <1>5, EmptySeq
    <2>3. DOMAIN s = 1 .. Len(s) /\ DOMAIN Tail(s) = 1 .. Len(Tail(s))
      BY <2>1, LenProperties
    <2>4. Head(s) \in Range(s)
      BY <2>1, <2>2, <2>3 DEF Range
    <2>5. \A i \in DOMAIN Tail(s) : i + 1 \in DOMAIN s /\ Tail(s)[i] = s[i + 1]
      BY <2>1, <2>3
    <2>. QED BY <2>1, <2>4, <2>5 DEF Range
  <1>. QED BY <1>1, <1>2, <1>3, <1>4, <1>5

\* A set of positions that is not empty has a first one.
LEMMA FirstPosition ==
  ASSUME NEW S \in SUBSET Nat, S # {}
  PROVE  (CHOOSE i \in S : \A j \in S : i <= j) \in S
PROOF
  <1>. DEFINE R == {ss \in Nat \X Nat : ss[1] < ss[2]}
  <1>1. IsWellFoundedOn(R, Nat)
    BY NatLessThanWellFounded DEF OpToRel
  <1>2. PICK x \in S : \A y \in S : <<y, x>> \notin R
    BY <1>1, WFMin
  <1>3. \A y \in S : x <= y
    <2>. SUFFICES ASSUME NEW y \in S, y < x PROVE FALSE
      OBVIOUS
    <2>1. <<y, x>> \in Nat \X Nat /\ <<y, x>>[1] < <<y, x>>[2]
      OBVIOUS
    <2>2. <<y, x>> \in R
      BY <2>1
    <2>. QED BY <1>2, <2>2
  <1>. QED BY <1>3

LEMMA RecordTypes ==
  ASSUME NEW record \in Records \union {NoRecord}
  PROVE  /\ record.path \in Nat
         /\ record # NoRecord => record \in Records /\ record.state \in States
PROOF
  BY DEF Records, NoRecord, NoPath

\* Emptied makes a new file or empties one there is, and leaves the others alone.
LEMMA EmptiedFile ==
  ASSUME TypeOK, NEW t \in Transfers, NEW p \in Paths(t) \union {FreshPath(t)}
  PROVE  /\ Emptied(t, p) \in [Transfers -> Seq(Seq(Offsets))]
         /\ \A v \in Transfers \ {t} : Emptied(t, p)[v] = files[v]
         /\ Len(Emptied(t, p)[t]) = IF p = FreshPath(t) THEN Len(files[t]) + 1
                                                        ELSE Len(files[t])
         /\ p \in 1 .. Len(Emptied(t, p)[t]) /\ p \in Nat /\ p # NoPath
         /\ Emptied(t, p)[t][p] = <<>>
         /\ \A n \in Paths(t) \ {p} : Emptied(t, p)[t][n] = files[t][n]
PROOF
  <1>1. /\ files[t] \in Seq(Seq(Offsets)) /\ <<>> \in Seq(Offsets)
        /\ Len(files[t]) \in Nat /\ p \in Nat /\ p # 0
        /\ files \in [Transfers -> Seq(Seq(Offsets))]
    BY EmptySeq, LenProperties DEF TypeOK, Paths, FreshPath
  <1>2. CASE p = FreshPath(t)
    <2>1. Emptied(t, p) = [files EXCEPT ![t] = Append(@, <<>>)]
      BY <1>2 DEF Emptied
    <2>2. /\ Append(files[t], <<>>) \in Seq(Seq(Offsets))
          /\ Len(Append(files[t], <<>>)) = Len(files[t]) + 1
          /\ \A n \in 1 .. Len(files[t]) : Append(files[t], <<>>)[n] = files[t][n]
          /\ Append(files[t], <<>>)[Len(files[t]) + 1] = <<>>
      BY <1>1, AppendProperties
    <2>3. /\ Emptied(t, p)[t] = Append(files[t], <<>>)
          /\ \A v \in Transfers \ {t} : Emptied(t, p)[v] = files[v]
          /\ Emptied(t, p) \in [Transfers -> Seq(Seq(Offsets))]
      BY <1>1, <2>1, <2>2
    <2>4. p = Len(files[t]) + 1 /\ Paths(t) \ {p} = 1 .. Len(files[t])
      BY <1>1, <1>2 DEF FreshPath, Paths
    <2>5. /\ Len(Emptied(t, p)[t]) = Len(files[t]) + 1
          /\ p \in 1 .. Len(Emptied(t, p)[t])
          /\ Emptied(t, p)[t][p] = <<>>
          /\ \A n \in Paths(t) \ {p} : Emptied(t, p)[t][n] = files[t][n]
      BY <1>1, <2>2, <2>3, <2>4
    <2>. QED BY <1>1, <1>2, <2>3, <2>5 DEF NoPath
  <1>3. CASE p # FreshPath(t)
    <2>1. Emptied(t, p) = [files EXCEPT ![t] = [@ EXCEPT ![p] = <<>>]] /\ p \in 1 .. Len(files[t])
      BY <1>3 DEF Emptied, Paths
    <2>. DEFINE f == [files[t] EXCEPT ![p] = <<>>]
    <2>2. /\ f \in Seq(Seq(Offsets)) /\ Len(f) = Len(files[t])
          /\ \A j \in 1 .. Len(files[t]) : f[j] = IF j = p THEN <<>> ELSE files[t][j]
      BY <1>1, <2>1, ExceptSeq
    <2>3. /\ Emptied(t, p)[t] = f
          /\ \A v \in Transfers \ {t} : Emptied(t, p)[v] = files[v]
          /\ Emptied(t, p) \in [Transfers -> Seq(Seq(Offsets))]
      BY <1>1, <2>1, <2>2
    <2>. QED BY <1>1, <1>3, <2>1, <2>2, <2>3 DEF Paths, NoPath
  <1>. QED BY <1>2, <1>3

\* Stored returns a size that fits, and the length of a file that was made and is not
\* too long.
LEMMA StoredSize ==
  ASSUME TypeOK, NEW t \in Transfers, NEW p \in Nat
  PROVE  /\ Stored(t, p) \in Offsets
         /\ p \in Paths(t) /\ Len(files[t][p]) <= Size => Stored(t, p) = Len(files[t][p])
         /\ Stored(t, p) # 0 => p \in Paths(t) /\ Stored(t, p) = Len(files[t][p])
PROOF
  <1>1. files[t] \in Seq(Seq(Offsets))
    BY DEF TypeOK
  <1>2. p \in Paths(t) => Len(files[t][p]) \in Nat
    BY <1>1, ElementOfSeq, LenProperties DEF Paths
  <1>. QED BY <1>2, TransferAssumptions DEF Stored, Paths, Offsets

\* What failIncomingTransferFromFrame does: an entry that is there is removed, and one
\* update queued at most.
LEMMA FailFrameQueues ==
  ASSUME TypeOK, NEW t \in Transfers, NEW isOffer \in BOOLEAN, FailFrame(t, isOffer)
  PROVE  /\ pending' \in [Transfers -> Pendings]
         /\ transferUpdates' \in Seq(Updates) /\ stateUpdates' \in Seq(Updates)
         /\ pending'[t] = NoPending /\ \A v \in Transfers \ {t} : pending'[v] = pending[v]
         /\ \A u \in (Range(transferUpdates) \union Range(stateUpdates))' :
              \/ u \in Range(transferUpdates) \union Range(stateUpdates)
              \/ /\ u.t = t /\ u.state = "Failed"
                 /\ u.path = NoPath \/ (Active(t) /\ u.path = pending[t].path)
PROOF
  <1>1. /\ pending \in [Transfers -> Pendings] /\ NoPending \in Pendings
        /\ transferUpdates \in Seq(Updates) /\ stateUpdates \in Seq(Updates)
        /\ pending[t].path \in Nat
    BY TransferAssumptions DEF TypeOK, NoPending, Pendings, NoPath
  <1>2. /\ [t |-> t, state |-> "Failed", path |-> pending[t].path] \in Updates
        /\ StateUpdate(t, "Failed") \in Updates
    BY <1>1 DEF Updates, StateUpdate, States, NoPath
  <1>3. CASE Active(t)
    <2>1. /\ pending' = [pending EXCEPT ![t] = NoPending]
          /\ transferUpdates' = Append(transferUpdates,
               [t |-> t, state |-> "Failed", path |-> pending[t].path])
          /\ stateUpdates' = stateUpdates
      BY <1>3 DEF FailFrame
    <2>. QED BY <1>1, <1>2, <1>3, <2>1, Elements
  <1>4. CASE ~Active(t)
    <2>1. /\ stateUpdates' = IF isOffer THEN Append(stateUpdates, StateUpdate(t, "Failed"))
                                        ELSE stateUpdates
          /\ pending' = pending /\ transferUpdates' = transferUpdates
      BY <1>4 DEF FailFrame
    <2>2. pending[t] = NoPending
      BY <1>4 DEF Active
    <2>3. StateUpdate(t, "Failed").t = t /\ StateUpdate(t, "Failed").state = "Failed"
          /\ StateUpdate(t, "Failed").path = NoPath
      BY DEF StateUpdate
    <2>. QED BY <1>1, <1>2, <2>1, <2>2, <2>3, Elements
  <1>. QED BY <1>3, <1>4
-----------------------------------------------------------------------------
(* The types, and what the handlers remember.                                *)

LEMMA NoAcceptType == NoAccept \in Accepts /\ NoAccept.received = 0
PROOF
  BY TransferAssumptions DEF NoAccept, Accepts, NoPath

LEMMA TypesAtFirst == Init => TypeInv
PROOF
  <1>. SUFFICES ASSUME Init PROVE TypeInv
    OBVIOUS
  <1>1. /\ shown \in [Transfers -> Seq(Records)]
        /\ files \in [Transfers -> Seq(Seq(Offsets))]
        /\ transferUpdates \in Seq(Updates) /\ stateUpdates \in Seq(Updates)
        /\ ui \in UiStates
    BY EmptySeq DEF Init, IdleUi, UiStates
  <1>2. tcp \in TcpStates /\ tcp.step = "accept"
    BY TransferAssumptions DEF Init, IdleTcp, TcpStates, TcpSteps, NoPath
  <1>3. pending \in [Transfers -> Pendings]
    BY TransferAssumptions DEF Init, NoPending, Pendings, NoPath
  <1>. QED
    BY <1>1, <1>2, <1>3, NoAcceptType
    DEF Init, TypeInv, TypeOK, HandlerRemembers, AcceptRemembers, IdleUi

LEMMA TypesReceiveChat ==
  ASSUME TypeInv, NEW t \in Transfers, ReceiveChat(t)
  PROVE  TypeOK' /\ HandlerRemembers'
PROOF
  <1>. USE DEF TypeInv, TypeOK
  <1>1. PICK auto \in AutoReceive :
       LET record == IF auto
                       THEN [state |-> "Transferring", path |-> FreshPath(t)]
                       ELSE [state |-> "Offered", path |-> NoPath] IN
       /\ disk' = [disk EXCEPT ![t] = record]
       /\ pendingChat' = [pendingChat EXCEPT ![t] = record]
       /\ IF auto
            THEN AutoAccept(t)
            ELSE UNCHANGED <<files, pending, consents, acceptTask>>
    BY DEF ReceiveChat
  <1>2. FreshPath(t) \in Nat /\ FreshPath(t) \in Paths(t) \union {FreshPath(t)}
    BY LenProperties DEF FreshPath
  <1>3. \A path \in Nat :
          /\ [state |-> "Transferring", path |-> path] \in Records
          /\ [state |-> "Offered", path |-> path] \in Records
    BY DEF Records, States
  <1>4. disk' \in [Transfers -> Records \union {NoRecord}]
        /\ pendingChat' \in [Transfers -> Records \union {NoRecord}]
    BY <1>1, <1>2, <1>3 DEF NoPath
  <1>5. CASE auto
    <2>. HIDE DEF TypeInv, TypeOK
    <2>0. AutoAccept(t)
      BY <1>1, <1>5
    <2>. DEFINE entry == [path |-> FreshPath(t), received |-> 0]
                task == [offset |-> 0, resuming |-> FALSE]
    <2>1. files' \in [Transfers -> Seq(Seq(Offsets))]
      BY <1>2, <2>0, EmptiedFile DEF AutoAccept, TypeInv
    <2>2. pending' \in [Transfers -> Pendings]
      <3>1. entry \in Pendings
        BY <1>2, TransferAssumptions DEF Pendings
      <3>2. pending \in [Transfers -> Pendings] /\ pending' = [pending EXCEPT ![t] = entry]
        BY <2>0 DEF AutoAccept, TypeInv, TypeOK
      <3>. HIDE DEF entry
      <3>. QED BY <3>1, <3>2
    <2>3. consents' \in [Transfers -> Nat]
      BY <2>0 DEF AutoAccept, TypeInv, TypeOK
    <2>5. acceptTask' \in [Transfers -> [Slots -> Tasks \union {NoTask}]]
      <3>1. task \in Tasks
        BY TransferAssumptions DEF Tasks
      <3>2. /\ acceptTask' = [acceptTask EXCEPT ![t]["auto_accept"] = task]
            /\ acceptTask \in [Transfers -> [Slots -> Tasks \union {NoTask}]]
            /\ "auto_accept" \in Slots
        BY <2>0 DEF AutoAccept, StartAccept, Slots, TypeInv, TypeOK
      <3>. HIDE DEF task
      <3>. QED BY <3>1, <3>2
    <2>. USE DEF TypeInv, TypeOK
    <2>. QED BY <1>4, <2>1, <2>2, <2>3, <2>5
         DEF ReceiveChat, HandlerRemembers, queueVars, senderVars
  <1>6. CASE ~auto
    BY <1>1, <1>4, <1>6 DEF ReceiveChat, HandlerRemembers, queueVars, senderVars
  <1>. QED BY <1>5, <1>6

LEMMA TypesOpenConnection ==
  ASSUME TypeInv, NEW t \in Transfers, NEW kind \in {"content", "resume"},
         NEW offset \in Offsets, OpenConnection(t, kind, offset)
  PROVE  TypeOK' /\ HandlerRemembers'
PROOF
  <1>. USE DEF TypeInv, TypeOK
  <1>1. tcp' \in TcpStates /\ tcp'.step = "read"
    BY TransferAssumptions DEF OpenConnection, IdleTcp, TcpStates, TcpSteps, NoPath
  <1>2. invited' \in [Transfers -> SUBSET Offsets]
    BY DEF OpenConnection
  <1>3. connections' \in [Transfers -> Nat]
    BY DEF OpenConnection
  <1>. QED BY <1>1, <1>2, <1>3
    DEF OpenConnection, HandlerRemembers, recordVars, queueVars, userVars

LEMMA TypesReadOffer ==
  ASSUME TypeInv, ReadOffer
  PROVE  TypeOK' /\ HandlerRemembers'
PROOF
  <1>1. tcp' \in TcpStates /\ tcp'.step \in {"install", "history"}
    BY TransferAssumptions
    DEF TypeInv, TypeOK, ReadOffer, Reading, TcpStates, TcpSteps, NoPath, Pendings
  <1>. QED BY <1>1
    DEF TypeInv, TypeOK, ReadOffer, HandlerRemembers, recordVars, queueVars,
        senderVars, userVars

\* The copy that SearchHistory finds first is one that is shown.
LEMMA FirstInterrupted ==
  ASSUME TypeOK, NEW t \in Transfers, InterruptedShown(t) # {}
  PROVE  /\ (CHOOSE i \in InterruptedShown(t) : \A j \in InterruptedShown(t) : i <= j)
              \in DOMAIN shown[t]
         /\ shown[t][CHOOSE i \in InterruptedShown(t) :
              \A j \in InterruptedShown(t) : i <= j] \in Records
PROOF
  <1>1. shown[t] \in Seq(Records)
    BY DEF TypeOK
  <1>2. InterruptedShown(t) \in SUBSET Nat /\ InterruptedShown(t) \subseteq DOMAIN shown[t]
    BY <1>1, LenProperties DEF InterruptedShown
  <1>. QED BY <1>1, <1>2, FirstPosition, ElementOfSeq

LEMMA TypesSearchHistory ==
  ASSUME TypeInv, SearchHistory
  PROVE  TypeOK' /\ HandlerRemembers'
PROOF
  <1>. USE DEF TypeInv
  <1>. DEFINE t == tcp.t
              inShown == InterruptedShown(t) # {}
              first == CHOOSE i \in InterruptedShown(t) :
                         \A j \in InterruptedShown(t) : i <= j
              shownPath == IF inShown THEN shown[t][first].path ELSE NoPath
              stored == Recovered(t, disk[t])
  <1>1. t \in Transfers /\ tcp \in TcpStates
    BY DEF TypeOK, TcpStates
  <1>2. shownPath \in Nat
    BY <1>1, FirstInterrupted, RecordTypes DEF NoPath
  <1>3. stored.path \in Nat
    BY <1>1, RecordTypes DEF TypeOK, Recovered
  <1>4. \E step \in {"recover", "install"}, found \in {"interrupted", "no"}, path \in Nat :
          tcp' = [tcp EXCEPT !.step = step, !.found = found, !.path = path]
    BY <1>2, <1>3 DEF SearchHistory
  <1>5. tcp' \in TcpStates /\ tcp'.step \in {"recover", "install"}
    BY <1>1, <1>4 DEF TcpStates, TcpSteps
  <1>. QED BY <1>5
    DEF TypeOK, SearchHistory, HandlerRemembers, recordVars, queueVars,
        senderVars, userVars

LEMMA TypesWriteRecovered ==
  ASSUME TypeInv, WriteRecovered
  PROVE  TypeOK' /\ HandlerRemembers'
PROOF
  <1>1. tcp' \in TcpStates /\ tcp'.step = "install"
    BY DEF TypeInv, TypeOK, WriteRecovered, TcpStates, TcpSteps
  <1>2. [state |-> "Interrupted", path |-> tcp.path] \in Records
    BY DEF TypeInv, TypeOK, TcpStates, Records, States
  <1>. QED BY <1>1, <1>2
    DEF TypeInv, TypeOK, WriteRecovered, HandlerRemembers, queueVars, senderVars, userVars

\* The entries and the updates that the handlers make.
LEMMA MadeValues ==
  /\ NoPending \in Pendings /\ NoPending.path = 0
  /\ \A p \in Nat, n \in Offsets : [path |-> p, received |-> n] \in Pendings
  /\ \A t \in Transfers, s \in States : StateUpdate(t, s) \in Updates
  /\ \A t \in Transfers, s \in States, p \in Nat :
       [t |-> t, state |-> s, path |-> p] \in Updates
  /\ \A s \in States, p \in Nat : [state |-> s, path |-> p] \in Records
  /\ \A n \in Offsets, b \in BOOLEAN : [offset |-> n, resuming |-> b] \in Tasks
PROOF
  BY TransferAssumptions
  DEF NoPending, Pendings, NoPath, StateUpdate, Updates, Records, Tasks

\* The TCP thread between two connections and between two frames.
LEMMA WaitingTcp ==
  ASSUME TypeOK
  PROVE  /\ IdleTcp \in TcpStates /\ IdleTcp.step = "accept" /\ IdleTcp.path = NoPath
         /\ Returned \in TcpStates /\ Returned.step = "read" /\ Returned.path = NoPath
         /\ Returned.t = tcp.t /\ Returned.phase = tcp.phase
         /\ Returned.offset = tcp.offset /\ Returned.kind = tcp.kind
PROOF
  <1>1. tcp \in TcpStates
    BY DEF TypeOK
  <1>2. /\ Returned \in TcpStates /\ Returned.step = "read" /\ Returned.path = NoPath
        /\ Returned.t = tcp.t /\ Returned.phase = tcp.phase
        /\ Returned.offset = tcp.offset /\ Returned.kind = tcp.kind
    BY <1>1, TransferAssumptions DEF Returned, TcpStates, TcpSteps, NoPath
  <1>3. IdleTcp \in TcpStates /\ IdleTcp.step = "accept" /\ IdleTcp.path = NoPath
    BY TransferAssumptions DEF IdleTcp, TcpStates, TcpSteps, NoPath
  <1>. QED BY <1>2, <1>3

LEMMA InstallTypes ==
  ASSUME TypeOK
  PROVE  /\ tcp.t \in Transfers
         /\ InstallPath \in Nat /\ InstallSize \in Offsets
         /\ tcp.path \in Paths(tcp.t) \union {NoPath} =>
              InstallPath \in Paths(tcp.t) \union {FreshPath(tcp.t)}
PROOF
  <1>1. tcp.t \in Transfers /\ tcp.path \in Nat
    BY DEF TypeOK, TcpStates
  <1>2. FreshPath(tcp.t) \in Nat
    BY <1>1, LenProperties DEF TypeOK, FreshPath
  <1>3. InstallPath \in Nat
    BY <1>1, <1>2 DEF InstallPath
  <1>4. InstallSize \in Offsets
    BY <1>1, <1>3, StoredSize, TransferAssumptions DEF InstallSize
  <1>. QED BY <1>1, <1>3, <1>4 DEF InstallPath

\* Emptied keeps the type of the files, whatever the path, and removes none.
LEMMA EmptiedType ==
  ASSUME TypeOK, NEW t \in Transfers, NEW p \in Nat
  PROVE  /\ Emptied(t, p) \in [Transfers -> Seq(Seq(Offsets))]
         /\ \A v \in Transfers : Len(files[v]) <= Len(Emptied(t, p)[v])
PROOF
  <1>0. \A v \in Transfers : Len(files[v]) \in Nat
    BY LenProperties DEF TypeOK
  <1>1. CASE p \in Paths(t) \union {FreshPath(t)}
    <2>1. Emptied(t, p) \in [Transfers -> Seq(Seq(Offsets))]
      BY <1>1, EmptiedFile
    <2>2. Len(files[t]) <= Len(Emptied(t, p)[t])
      BY <1>0, <1>1, EmptiedFile
    <2>3. \A v \in Transfers \ {t} : Emptied(t, p)[v] = files[v]
      BY <1>1, EmptiedFile
    <2>4. ASSUME NEW v \in Transfers
          PROVE  Len(files[v]) <= Len(Emptied(t, p)[v])
      <3>1. CASE v = t
        BY <2>2, <3>1
      <3>2. CASE v # t
        <4>1. Emptied(t, p)[v] = files[v]
          BY <2>3, <3>2
        <4>. QED BY <1>0, <4>1
      <3>. QED BY <3>1, <3>2
    <2>. QED BY <2>1, <2>4
  <1>2. CASE p \notin Paths(t) \union {FreshPath(t)}
    <2>1. /\ files[t] \in Seq(Seq(Offsets)) /\ DOMAIN files[t] = Paths(t)
          /\ files \in [Transfers -> Seq(Seq(Offsets))]
      BY LenProperties DEF TypeOK, Paths
    <2>2. [files[t] EXCEPT ![p] = <<>>] = files[t]
      BY <1>2, <2>1
    <2>3. Emptied(t, p) = [files EXCEPT ![t] = [files[t] EXCEPT ![p] = <<>>]]
      BY <1>2 DEF Emptied
    <2>4. Emptied(t, p) = files
      BY <2>1, <2>2, <2>3
    <2>. QED BY <1>0, <2>1, <2>4
  <1>. QED BY <1>1, <1>2

\* A transfer that both threads hold is raced from then on.
LEMMA RacedType ==
  ASSUME TypeOK, NEW t \in Transfers, NEW held
  PROVE  /\ Races(t, held) \subseteq Transfers /\ raced \subseteq Races(t, held)
         /\ held => t \in Races(t, held)
PROOF
  BY DEF Races, TypeOK

LEMMA TypesMeasureOffered ==
  ASSUME TypeInv, MeasureOffered
  PROVE  TypeOK' /\ HandlerRemembers'
PROOF
  <1>. USE DEF TypeInv
  <1>1. tcp.t \in Transfers /\ InstallPath \in Nat /\ InstallSize \in Offsets
    BY InstallTypes
  <1>2. tcp' \in TcpStates /\ tcp'.step = "prepare"
    BY <1>1 DEF MeasureOffered, TypeOK, TcpStates, TcpSteps
  <1>3. raced' \subseteq Transfers
    BY <1>1, RacedType DEF MeasureOffered
  <1>. QED BY <1>2, <1>3
    DEF MeasureOffered, TypeOK, HandlerRemembers, recordVars, queueVars, senderVars, userVars

LEMMA TypesPrepareOffered ==
  ASSUME TypeInv, PrepareOffered
  PROVE  TypeOK' /\ HandlerRemembers'
PROOF
  <1>. USE DEF TypeInv
  <1>1. tcp \in TcpStates /\ tcp.t \in Transfers /\ tcp.path \in Nat
    BY DEF TypeOK, TcpStates
  <1>2. files' \in [Transfers -> Seq(Seq(Offsets))]
    BY <1>1, EmptiedType DEF PrepareOffered, TypeOK
  <1>3. tcp' \in TcpStates /\ tcp'.step = "replace"
    BY <1>1 DEF PrepareOffered, TcpStates, TcpSteps
  <1>. QED BY <1>2, <1>3
    DEF PrepareOffered, TypeOK, HandlerRemembers, recordVars, queueVars, senderVars, userVars

LEMMA TypesReplaceOffered ==
  ASSUME TypeInv, ReplaceOffered
  PROVE  TypeOK' /\ HandlerRemembers'
PROOF
  <1>. USE DEF TypeInv
  <1>. DEFINE t == tcp.t
  <1>1. t \in Transfers /\ tcp.path \in Nat /\ tcp.received \in Offsets
    BY DEF TypeOK, TcpStates
  <1>3. pending' \in [Transfers -> Pendings]
    <2>1. /\ pending' = [pending EXCEPT ![t] = [path |-> tcp.path, received |-> tcp.received]]
          /\ pending \in [Transfers -> Pendings]
      BY DEF ReplaceOffered, TypeOK
    <2>2. [path |-> tcp.path, received |-> tcp.received] \in Pendings
      BY <1>1, MadeValues
    <2>. QED BY <2>1, <2>2
  <1>4. stateUpdates' \in Seq(Updates)
    <2>1. /\ stateUpdates' = Append(stateUpdates, StateUpdate(t, "Transferring"))
          /\ stateUpdates \in Seq(Updates)
      BY DEF ReplaceOffered, TypeOK
    <2>2. StateUpdate(t, "Transferring") \in Updates
      BY <1>1, MadeValues DEF States
    <2>. QED BY <2>1, <2>2, AppendProperties
  <1>5. tcp' \in TcpStates /\ tcp'.step \in {"accept", "read"}
    BY WaitingTcp DEF ReplaceOffered
  <1>6. acceptTask' \in [Transfers -> [Slots -> Tasks \union {NoTask}]]
    <2>. DEFINE task == [offset |-> tcp.received, resuming |-> FALSE]
    <2>1. task \in Tasks
      BY <1>1, MadeValues
    <2>2. \/ acceptTask' = acceptTask
          \/ acceptTask' = [acceptTask EXCEPT ![t]["resume_accept"] = task]
      BY DEF ReplaceOffered, StartAccept
    <2>3. "resume_accept" \in Slots /\ acceptTask \in [Transfers -> [Slots -> Tasks \union {NoTask}]]
      BY DEF Slots, TypeOK
    <2>. HIDE DEF task
    <2>. QED BY <1>1, <2>1, <2>2, <2>3
  <1>. QED BY <1>3, <1>4, <1>5, <1>6
    DEF ReplaceOffered, TypeOK, HandlerRemembers, recordVars, senderVars, userVars

LEMMA TypesInstallFails ==
  ASSUME TypeInv, InstallFails
  PROVE  TypeOK' /\ HandlerRemembers'
PROOF
  <1>. USE DEF TypeInv
  <1>1. FailFrame(tcp.t, TRUE) /\ tcp.t \in Transfers
    BY InstallTypes DEF InstallFails
  <1>2. PICK offer \in BOOLEAN : FailFrame(tcp.t, offer)
    BY <1>1
  <1>3. /\ pending' \in [Transfers -> Pendings]
        /\ transferUpdates' \in Seq(Updates) /\ stateUpdates' \in Seq(Updates)
    BY <1>1, <1>2, FailFrameQueues
  <1>4. tcp' \in TcpStates /\ tcp'.step \in {"accept", "read"}
    BY WaitingTcp DEF InstallFails
  <1>. QED BY <1>3, <1>4
    DEF InstallFails, TypeOK, HandlerRemembers, recordVars, senderVars, userVars

LEMMA TypesReadChunk ==
  ASSUME TypeInv, ReadChunk
  PROVE  TypeOK' /\ HandlerRemembers'
PROOF
  <1>. USE DEF TypeInv
  <1>. DEFINE t == tcp.t
  <1>1. t \in Transfers
    BY InstallTypes
  <1>2. CASE Active(t) /\ pending[t].received = tcp.offset
    <2>1. tcp' \in TcpStates
      BY <1>1, <1>2 DEF ReadChunk, TypeOK, TcpStates, TcpSteps, Pendings
    <2>2. HandlerRemembers'
      BY <1>1, <1>2 DEF ReadChunk, Reading, TypeOK, TcpStates, HandlerRemembers
    <2>3. raced' \subseteq Transfers
      BY <1>1, <1>2, RacedType DEF ReadChunk
    <2>. QED BY <1>2, <2>1, <2>2, <2>3
      DEF ReadChunk, TypeOK, recordVars, queueVars, senderVars, userVars
  <1>3. CASE ~(Active(t) /\ pending[t].received = tcp.offset)
    <2>1. PICK offer \in BOOLEAN : FailFrame(t, offer)
      BY <1>3 DEF ReadChunk
    <2>2. /\ pending' \in [Transfers -> Pendings]
          /\ transferUpdates' \in Seq(Updates) /\ stateUpdates' \in Seq(Updates)
      BY <1>1, <2>1, FailFrameQueues
    <2>3. tcp \in TcpStates /\ tcp.step = "read" /\ tcp' = [tcp EXCEPT !.offset = @ + 1]
      BY <1>3 DEF ReadChunk, Reading, TypeOK
    <2>4. tcp.offset + 1 \in Offsets
      BY <2>3, SizeAssumption DEF ReadChunk, TcpStates, Offsets
    <2>5. tcp' \in TcpStates /\ tcp'.step = "read"
      BY <2>3, <2>4 DEF TcpStates
    <2>. QED BY <1>3, <2>2, <2>5
      DEF ReadChunk, TypeOK, HandlerRemembers, recordVars, senderVars, userVars
  <1>. QED BY <1>2, <1>3

\* What the chunk handler does to the file: the offset of the chunk is appended.
LEMMA WrittenFile ==
  ASSUME TypeOK, WriteChunk
  PROVE  /\ tcp.t \in Transfers /\ tcp.offset \in Offsets
         /\ files' \in [Transfers -> Seq(Seq(Offsets))]
         /\ \A v \in Transfers \ {tcp.t} : files'[v] = files[v]
         /\ Len(files'[tcp.t]) = Len(files[tcp.t])
         /\ \A n \in Paths(tcp.t) :
              files'[tcp.t][n] = IF n = tcp.path THEN Append(files[tcp.t][n], tcp.offset)
                                                 ELSE files[tcp.t][n]
PROOF
  <1>. DEFINE t == tcp.t
              f == IF tcp.path \in Paths(t)
                     THEN [files[t] EXCEPT ![tcp.path] = Append(files[t][tcp.path], tcp.offset)]
                     ELSE files[t]
  <1>1. t \in Transfers /\ tcp.offset \in Offsets /\ tcp.path \in Nat
    BY DEF TypeOK, TcpStates
  <1>2. /\ files \in [Transfers -> Seq(Seq(Offsets))] /\ files[t] \in Seq(Seq(Offsets))
        /\ DOMAIN files[t] = Paths(t)
    BY <1>1, LenProperties DEF TypeOK, Paths
  <1>3. files' = [files EXCEPT ![t] =
                    [files[t] EXCEPT ![tcp.path] = Append(files[t][tcp.path], tcp.offset)]]
    BY DEF WriteChunk
  <1>4. CASE tcp.path \in Paths(t)
    <2>1. files[t][tcp.path] \in Seq(Offsets)
      BY <1>2, <1>4, ElementOfSeq DEF Paths
    <2>2. Append(files[t][tcp.path], tcp.offset) \in Seq(Offsets)
      BY <1>1, <2>1, AppendProperties
    <2>3. /\ f \in Seq(Seq(Offsets)) /\ Len(f) = Len(files[t])
          /\ \A n \in Paths(t) :
               f[n] = IF n = tcp.path THEN Append(files[t][n], tcp.offset) ELSE files[t][n]
      BY <1>2, <1>4, <2>2, ExceptSeq DEF Paths
    <2>. QED BY <1>1, <1>2, <1>3, <1>4, <2>3
  <1>5. CASE tcp.path \notin Paths(t)
    <2>1. [files[t] EXCEPT ![tcp.path] = Append(files[t][tcp.path], tcp.offset)] = files[t]
      BY <1>2, <1>5
    <2>. QED BY <1>1, <1>2, <1>3, <1>5, <2>1
  <1>. QED BY <1>4, <1>5

LEMMA TypesWriteChunk ==
  ASSUME TypeInv, WriteChunk
  PROVE  TypeOK' /\ HandlerRemembers'
PROOF
  <1>. USE DEF TypeInv
  <1>1. files' \in [Transfers -> Seq(Seq(Offsets))]
    BY WrittenFile
  <1>2. tcp' \in TcpStates /\ HandlerRemembers'
    BY DEF WriteChunk, TypeOK, TcpStates, TcpSteps, HandlerRemembers
  <1>. QED BY <1>1, <1>2
    DEF WriteChunk, TypeOK, recordVars, queueVars, senderVars, userVars

LEMMA TypesWriteFails ==
  ASSUME TypeInv, WriteFails
  PROVE  TypeOK' /\ HandlerRemembers'
PROOF
  <1>. USE DEF TypeInv
  <1>1. PICK offer \in BOOLEAN : FailFrame(tcp.t, offer)
    BY DEF WriteFails
  <1>2. /\ pending' \in [Transfers -> Pendings]
        /\ transferUpdates' \in Seq(Updates) /\ stateUpdates' \in Seq(Updates)
    BY <1>1, InstallTypes, FailFrameQueues
  <1>3. tcp.offset + 1 \in Offsets
    BY SizeAssumption DEF WriteFails, HandlerRemembers, TypeOK, TcpStates, Offsets
  <1>4. tcp' \in TcpStates /\ tcp'.step = "read"
    BY <1>3, TransferAssumptions DEF WriteFails, Returned, TypeOK, TcpStates, TcpSteps, NoPath
  <1>. QED BY <1>2, <1>4
    DEF WriteFails, TypeOK, HandlerRemembers, recordVars, senderVars, userVars

LEMMA TypesCountChunk ==
  ASSUME TypeInv, CountChunk
  PROVE  TypeOK' /\ HandlerRemembers'
PROOF
  <1>. USE DEF TypeInv
  <1>1. tcp.offset + 1 \in Offsets /\ tcp.received + 1 \in Offsets
    BY SizeAssumption DEF CountChunk, HandlerRemembers, TypeOK, TcpStates, Offsets
  <1>2. tcp' \in TcpStates /\ tcp'.step = "read"
    BY <1>1, TransferAssumptions DEF CountChunk, Returned, TypeOK, TcpStates, TcpSteps, NoPath
  <1>3. pending' \in [Transfers -> Pendings]
    BY <1>1, InstallTypes DEF CountChunk, TypeOK, Pendings
  <1>. QED BY <1>2, <1>3
    DEF CountChunk, TypeOK, HandlerRemembers, recordVars, queueVars, senderVars, userVars

LEMMA TypesReadComplete ==
  ASSUME TypeInv, ReadComplete
  PROVE  TypeOK' /\ HandlerRemembers'
PROOF
  <1>. USE DEF TypeInv
  <1>. DEFINE t == tcp.t
  <1>1. t \in Transfers /\ tcp \in TcpStates /\ sentAll' \subseteq Transfers
    BY InstallTypes DEF TypeOK, ReadComplete
  <1>2. CASE Active(t) /\ pending[t].received = Size
    <2>1. tcp' = [tcp EXCEPT !.step = "publish", !.phase = "done", !.path = pending[t].path]
          /\ pending[t].path \in Nat
      BY <1>1, <1>2 DEF ReadComplete, TypeOK, Pendings
    <2>2. tcp' \in TcpStates /\ tcp'.step = "publish" /\ tcp'.phase = "done"
      BY <1>1, <2>1 DEF TcpStates, TcpSteps
    <2>3. raced' \subseteq Transfers
      BY <1>1, <1>2, RacedType DEF ReadComplete
    <2>. QED BY <1>1, <1>2, <2>2, <2>3
      DEF ReadComplete, TypeOK, HandlerRemembers, recordVars, queueVars, userVars
  <1>3. CASE ~(Active(t) /\ pending[t].received = Size)
    <2>1. (\E offer \in BOOLEAN : FailFrame(t, offer)) /\ tcp' = [tcp EXCEPT !.phase = "done"]
      BY <1>3 DEF ReadComplete
    <2>2. PICK offer \in BOOLEAN : FailFrame(t, offer)
      BY <2>1
    <2>3. /\ pending' \in [Transfers -> Pendings]
          /\ transferUpdates' \in Seq(Updates) /\ stateUpdates' \in Seq(Updates)
      BY <1>1, <2>2, FailFrameQueues
    <2>4. tcp' \in TcpStates /\ tcp'.step = "read"
      BY <1>1, <2>1 DEF TcpStates, ReadComplete, Reading
    <2>. QED BY <1>1, <1>3, <2>3, <2>4
      DEF ReadComplete, TypeOK, HandlerRemembers, recordVars, userVars
  <1>. QED BY <1>2, <1>3

\* What PublishComplete queues.
LEMMA PublishedUpdate ==
  ASSUME TypeOK, PublishComplete
  PROVE  /\ transferUpdates' \in Seq(Updates)
         /\ \A u \in Range(transferUpdates') :
              u \in Range(transferUpdates)
              \/ u = [t |-> tcp.t, state |-> "Completed", path |-> tcp.path]
PROOF
  <1>1. [t |-> tcp.t, state |-> "Completed", path |-> tcp.path] \in Updates
    BY MadeValues DEF TypeOK, TcpStates, States
  <1>2. transferUpdates \in Seq(Updates)
        /\ transferUpdates' = Append(transferUpdates,
             [t |-> tcp.t, state |-> "Completed", path |-> tcp.path])
    BY DEF TypeOK, PublishComplete
  <1>. QED BY <1>1, <1>2, Elements

LEMMA TypesPublishComplete ==
  ASSUME TypeInv, PublishComplete
  PROVE  TypeOK' /\ HandlerRemembers'
PROOF
  <1>. USE DEF TypeInv
  <1>1. tcp' \in TcpStates /\ tcp'.step = "erase"
    BY DEF PublishComplete, TypeOK, TcpStates, TcpSteps
  <1>. QED BY <1>1, PublishedUpdate
    DEF PublishComplete, TypeOK, HandlerRemembers, recordVars, senderVars, userVars

LEMMA TypesEraseCompleted ==
  ASSUME TypeInv, EraseCompleted
  PROVE  TypeOK' /\ HandlerRemembers'
PROOF
  <1>. USE DEF TypeInv
  <1>1. tcp' \in TcpStates /\ tcp'.step = "read"
    BY WaitingTcp DEF EraseCompleted
  <1>2. pending' \in [Transfers -> Pendings]
    BY MadeValues, InstallTypes DEF EraseCompleted, TypeOK
  <1>. QED BY <1>1, <1>2
    DEF EraseCompleted, TypeOK, HandlerRemembers, recordVars, queueVars, senderVars, userVars

\* What the end of a connection queues: one update for every entry there is.
LEMMA EndedUpdates ==
  ASSUME TypeOK, EndConnection
  PROVE  /\ pending' \in [Transfers -> Pendings] /\ transferUpdates' \in Seq(Updates)
         /\ \A t \in Transfers : pending'[t] \in {pending[t], NoPending}
         /\ \A u \in Range(transferUpdates') :
              \/ u \in Range(transferUpdates)
              \/ u.t \in Transfers /\ Active(u.t) /\ u.state = "Interrupted"
                 /\ u.path = pending[u.t].path
PROOF
  <1>1. pending \in [Transfers -> Pendings] /\ transferUpdates \in Seq(Updates)
    BY DEF TypeOK
  <1>2. CASE StreamOpen
    <2>1. PICK order \in [1 .. Cardinality(ActiveTransfers) -> ActiveTransfers] :
            transferUpdates' = transferUpdates \o
              [i \in DOMAIN order |->
                 [t |-> order[i], state |-> "Interrupted", path |-> pending[order[i]].path]]
      BY <1>2 DEF EndConnection
    <2>. DEFINE n == Cardinality(ActiveTransfers)
                batch == [i \in 1 .. n |-> [t |-> order[i], state |-> "Interrupted",
                                            path |-> pending[order[i]].path]]
    <2>2. n \in Nat
      BY TransfersAssumption, FS_Subset, FS_CardinalityType DEF ActiveTransfers
    <2>3. \A i \in 1 .. n : order[i] \in Transfers /\ Active(order[i])
      BY DEF ActiveTransfers
    <2>4. \A i \in 1 .. n : batch[i] \in Updates
      BY <1>1, <2>3, MadeValues DEF Pendings, States
    <2>5. batch \in Seq(Updates)
      BY <2>2, <2>4, IsASeq
    <2>6. \A u \in Range(batch) : u.t \in Transfers /\ Active(u.t)
            /\ u.state = "Interrupted" /\ u.path = pending[u.t].path
      BY <2>3 DEF Range
    <2>7. transferUpdates' = transferUpdates \o batch
      BY <2>1
    <2>8. transferUpdates' \in Seq(Updates)
          /\ Range(transferUpdates') = Range(transferUpdates) \union Range(batch)
      <3>. HIDE DEF batch
      <3>. QED BY <1>1, <2>5, <2>7, Elements
    <2>9. pending' = [t \in Transfers |-> NoPending]
      BY <1>2 DEF EndConnection
    <2>. HIDE DEF batch
    <2>. QED BY <2>6, <2>8, <2>9, MadeValues
  <1>3. CASE ~StreamOpen
    BY <1>1, <1>3 DEF EndConnection
  <1>. QED BY <1>2, <1>3

LEMMA TypesEndConnection ==
  ASSUME TypeInv, EndConnection
  PROVE  TypeOK' /\ HandlerRemembers'
PROOF
  <1>. USE DEF TypeInv
  <1>1. tcp' \in TcpStates /\ tcp'.step = "accept"
    BY WaitingTcp DEF EndConnection
  <1>. QED BY <1>1, EndedUpdates
    DEF EndConnection, TypeOK, HandlerRemembers, recordVars, senderVars, userVars

\* What a TransferCancel frame queues.
LEMMA CancelQueues ==
  ASSUME TypeOK, NEW t \in Transfers, ReceiveCancel(t)
  PROVE  /\ pending' \in [Transfers -> Pendings]
         /\ transferUpdates' \in Seq(Updates) /\ stateUpdates' \in Seq(Updates)
         /\ \A v \in Transfers : pending'[v] \in {pending[v], NoPending}
         /\ \A u \in (Range(transferUpdates) \union Range(stateUpdates))' :
              \/ u \in Range(transferUpdates) \union Range(stateUpdates)
              \/ /\ u.t = t /\ u.state = "Cancelled"
                 /\ u.path = NoPath \/ (Active(t) /\ u.path = pending[t].path)
PROOF
  <1>1. /\ pending \in [Transfers -> Pendings] /\ NoPending \in Pendings
        /\ transferUpdates \in Seq(Updates) /\ stateUpdates \in Seq(Updates)
        /\ pending[t].path \in Nat
    BY MadeValues DEF TypeOK, Pendings
  <1>. DEFINE withPath == [t |-> t, state |-> "Cancelled", path |-> pending[t].path]
              plain == StateUpdate(t, "Cancelled")
  <1>2. /\ withPath \in Updates /\ plain \in Updates
        /\ withPath.t = t /\ withPath.state = "Cancelled" /\ withPath.path = pending[t].path
        /\ plain.t = t /\ plain.state = "Cancelled" /\ plain.path = NoPath
    BY <1>1, MadeValues DEF StateUpdate, States
  <1>3. CASE Active(t)
    <2>1. /\ pending' = [pending EXCEPT ![t] = NoPending]
          /\ transferUpdates' = Append(transferUpdates, withPath)
          /\ stateUpdates' = stateUpdates
      BY <1>3 DEF ReceiveCancel
    <2>. HIDE DEF withPath, plain
    <2>. QED BY <1>1, <1>2, <1>3, <2>1, Elements
  <1>4. CASE ~Active(t)
    <2>1. /\ stateUpdates' = Append(stateUpdates, plain)
          /\ pending' = pending /\ transferUpdates' = transferUpdates
      BY <1>4 DEF ReceiveCancel
    <2>. HIDE DEF withPath, plain
    <2>. QED BY <1>1, <1>2, <1>4, <2>1, Elements
  <1>. QED BY <1>3, <1>4

LEMMA TypesReceiveCancel ==
  ASSUME TypeInv, NEW t \in Transfers, ReceiveCancel(t)
  PROVE  TypeOK' /\ HandlerRemembers'
PROOF
  <1>. USE DEF TypeInv
  <1>1. connections' \in [Transfers -> Nat] /\ sentAll' \subseteq Transfers
    BY DEF ReceiveCancel, TypeOK
  <1>. QED BY <1>1, CancelQueues
    DEF ReceiveCancel, TypeOK, HandlerRemembers, recordVars, userVars

\* Draining shows the queued message after the copies that are shown.
LEMMA DrainedCopies ==
  ASSUME TypeOK, DrainChatMessages, NEW t \in Transfers
  PROVE  /\ pendingChat'[t] = NoRecord
         /\ IF pendingChat[t] # NoRecord /\ PeerOf[t] = selected
              THEN /\ pendingChat[t] \in Records
                   /\ shown'[t] = Append(shown[t], pendingChat[t])
              ELSE shown'[t] = shown[t]
         /\ shown'[t] \in Seq(Records)
PROOF
  <1>1. shown[t] \in Seq(Records) /\ pendingChat[t] \in Records \union {NoRecord}
    BY DEF TypeOK
  <1>. QED BY <1>1, AppendProperties DEF DrainChatMessages

LEMMA TypesDrains ==
  ASSUME TypeInv, DrainChatMessages \/ DrainTransferUpdates \/ DrainStateUpdates
  PROVE  /\ TypeOK' /\ HandlerRemembers'
         /\ DrainTransferUpdates \/ DrainStateUpdates => Queued' \subseteq Queued
PROOF
  <1>. USE DEF TypeInv
  <1>0. <<>> \in Seq(Updates) /\ Range(<<>>) = {}
    BY EmptySeq DEF Range
  <1>1. ui.batch \in Seq(Updates) /\ ui \in UiStates
        /\ transferUpdates \in Seq(Updates) /\ stateUpdates \in Seq(Updates)
    BY DEF TypeOK, UiStates
  <1>2. CASE DrainChatMessages
    <2>1. shown' \in [Transfers -> Seq(Records)]
      <3>1. \A t \in Transfers : shown'[t] \in Seq(Records)
        BY <1>2, DrainedCopies
      <3>2. DOMAIN shown' = Transfers /\ shown' = [t \in Transfers |-> shown'[t]]
        BY <1>2 DEF DrainChatMessages
      <3>. QED BY <3>1, <3>2
    <2>2. ui' \in UiStates
      BY <1>1, <1>2 DEF DrainChatMessages, UiStates
    <2>3. ~(DrainTransferUpdates \/ DrainStateUpdates)
      BY <1>2 DEF DrainChatMessages, DrainTransferUpdates, DrainStateUpdates
    <2>. QED BY <1>2, <2>1, <2>2, <2>3
      DEF DrainChatMessages, TypeOK, HandlerRemembers, queueVars, senderVars, userVars
  <1>3. CASE DrainTransferUpdates
    <2>1. ui' \in UiStates /\ ui'.batch = transferUpdates
      BY <1>1, <1>3 DEF DrainTransferUpdates, UiStates
    <2>. QED BY <1>0, <1>3, <2>1
      DEF DrainTransferUpdates, TypeOK, HandlerRemembers, Queued, recordVars, senderVars,
          userVars
  <1>4. CASE DrainStateUpdates
    <2>1. ui' \in UiStates /\ ui'.batch = stateUpdates
      BY <1>0, <1>1, <1>4 DEF DrainStateUpdates, StateBatch, IdleUi, UiStates
    <2>. QED BY <1>0, <1>4, <2>1
      DEF DrainStateUpdates, TypeOK, HandlerRemembers, Queued, recordVars, senderVars,
          userVars
  <1>. QED BY <1>2, <1>3, <1>4

\* What applying the first update u of the batch may do: change the queued copy, a
\* shown copy and the stored record, the stored record alone, or nothing.
ChangesQueued(u) ==
  /\ Takes(pendingChat[u.t], u)
  /\ pendingChat' = [pendingChat EXCEPT ![u.t] = Updated(pendingChat[u.t], u)]
  /\ UNCHANGED <<shown, disk, queueVars>>

ChangesShown(u) ==
  \E i \in DOMAIN shown[u.t] :
    /\ Takes(shown[u.t][i], u)
    /\ shown' = [shown EXCEPT ![u.t] =
                   [shown[u.t] EXCEPT ![i] = Updated(shown[u.t][i], u)]]
    /\ disk' = [disk EXCEPT ![u.t] = Updated(shown[u.t][i], u)]
    /\ UNCHANGED <<pendingChat, queueVars>>

ChangesStored(u) ==
  /\ ~Takes(pendingChat[u.t], u)
  /\ \A i \in DOMAIN shown[u.t] : ~Takes(shown[u.t][i], u)
  /\ Takes(disk[u.t], u)
  /\ disk' = [disk EXCEPT ![u.t] = Updated(disk[u.t], u)]
  /\ UNCHANGED <<shown, pendingChat, queueVars>>

PutsBack(u) ==
  /\ transferUpdates' \in Seq(Updates) /\ stateUpdates' \in Seq(Updates)
  /\ Range(transferUpdates') \subseteq Range(transferUpdates) \union {u}
  /\ Range(stateUpdates') \subseteq Range(stateUpdates) \union {u}
  /\ UNCHANGED <<disk, shown, pendingChat>>

LEMMA ApplyCases ==
  ASSUME TypeOK, ApplyUpdate, NEW u, u = Head(ui.batch)
  PROVE  /\ u \in Updates /\ u.t \in Transfers /\ u \in Range(ui.batch)
         /\ ui' \in UiStates /\ Range(ui'.batch) \subseteq Range(ui.batch)
         /\ ChangesQueued(u) \/ ChangesShown(u) \/ ChangesStored(u) \/ PutsBack(u)
PROOF
  <1>. DEFINE t == u.t
              takers == {i \in 1 .. Len(shown[t]) : Takes(shown[t][i], u)}
  <1>1. /\ ui.batch # <<>> /\ ui.batch \in Seq(Updates) /\ ui \in UiStates
        /\ transferUpdates \in Seq(Updates) /\ stateUpdates \in Seq(Updates)
    BY DEF ApplyUpdate, TypeOK, UiStates
  <1>2. /\ u \in Updates /\ u \in Range(ui.batch)
        /\ Tail(ui.batch) \in Seq(Updates) /\ Range(Tail(ui.batch)) \subseteq Range(ui.batch)
    BY <1>1, Elements
  <1>3. u.t \in Transfers
    BY <1>2 DEF Updates
  <1>4. <<>> \in Seq(Updates) /\ Range(<<>>) = {}
    BY EmptySeq DEF Range
  <1>5. ui' = IF ui.step = "states" THEN StateBatch(Tail(ui.batch))
                                    ELSE [ui EXCEPT !.batch = Tail(ui.batch)]
    BY DEF ApplyUpdate
  <1>. DEFINE rest == Tail(ui.batch)
  <1>6. ui' \in UiStates /\ ui'.batch \in {rest, <<>>}
    <2>. HIDE DEF rest
    <2>1. ui' = IF ui.step = "states" THEN StateBatch(rest) ELSE [ui EXCEPT !.batch = rest]
      BY <1>5 DEF rest
    <2>2. rest \in Seq(Updates)
      BY <1>2 DEF rest
    <2>. QED BY <1>1, <1>4, <2>1, <2>2 DEF StateBatch, IdleUi, UiStates
  <1>7. /\ shown[t] \in Seq(Records) /\ DOMAIN shown[t] = 1 .. Len(shown[t])
        /\ Len(shown[t]) \in Nat
    BY <1>3, LenProperties DEF TypeOK
  <1>8. CASE ~Takes(pendingChat[t], u) /\ takers # {}
    <2>. DEFINE i == CHOOSE i \in takers : \A j \in takers : i <= j
    <2>1. takers \in SUBSET Nat
      BY <1>7
    <2>2. i \in takers
      BY <1>8, <2>1, FirstPosition
    <2>3. /\ shown' = [shown EXCEPT ![t] = [shown[t] EXCEPT ![i] = Updated(shown[t][i], u)]]
          /\ disk' = [disk EXCEPT ![t] = Updated(shown[t][i], u)]
          /\ UNCHANGED <<pendingChat, queueVars>>
      BY <1>8 DEF ApplyUpdate
    <2>. HIDE DEF i
    <2>4. ChangesShown(u)
      BY <1>7, <2>2, <2>3 DEF ChangesShown
    <2>. QED BY <1>2, <1>3, <1>4, <1>6, <2>4
  <1>9. CASE ~Takes(pendingChat[t], u) /\ takers = {} /\ Takes(disk[t], u)
    <2>1. ChangesStored(u)
      BY <1>7, <1>9 DEF ApplyUpdate, ChangesStored
    <2>. QED BY <1>2, <1>3, <1>4, <1>6, <2>1
  <1>10. CASE ~Takes(pendingChat[t], u) /\ takers = {} /\ ~Takes(disk[t], u)
    <2>1. /\ UNCHANGED <<disk, shown, pendingChat>>
          /\ \/ transferUpdates' = Append(transferUpdates, u) /\ stateUpdates' = stateUpdates
             \/ stateUpdates' = Append(stateUpdates, u) /\ transferUpdates' = transferUpdates
      BY <1>10 DEF ApplyUpdate
    <2>2. CASE transferUpdates' = Append(transferUpdates, u) /\ stateUpdates' = stateUpdates
      <3>1. transferUpdates' \in Seq(Updates)
            /\ Range(transferUpdates') = Range(transferUpdates) \union {u}
        BY <1>1, <1>2, <2>2, Elements
      <3>2. stateUpdates' \in Seq(Updates)
            /\ Range(stateUpdates') \subseteq Range(stateUpdates) \union {u}
        BY <1>1, <2>2
      <3>3. UNCHANGED <<disk, shown, pendingChat>>
        BY <2>1
      <3>4. PutsBack(u)
        BY <3>1, <3>2, <3>3 DEF PutsBack
      <3>. QED BY <1>2, <1>3, <1>4, <1>6, <3>4
    <2>3. CASE stateUpdates' = Append(stateUpdates, u) /\ transferUpdates' = transferUpdates
      <3>1. stateUpdates' \in Seq(Updates)
            /\ Range(stateUpdates') = Range(stateUpdates) \union {u}
        BY <1>1, <1>2, <2>3, Elements
      <3>2. transferUpdates' \in Seq(Updates)
            /\ Range(transferUpdates') \subseteq Range(transferUpdates) \union {u}
        BY <1>1, <2>3
      <3>3. UNCHANGED <<disk, shown, pendingChat>>
        BY <2>1
      <3>4. PutsBack(u)
        BY <3>1, <3>2, <3>3 DEF PutsBack
      <3>. QED BY <1>2, <1>3, <1>4, <1>6, <3>4
    <2>. QED BY <2>1, <2>2, <2>3
  <1>11. CASE Takes(pendingChat[t], u)
    <2>1. ChangesQueued(u)
      BY <1>11 DEF ApplyUpdate, ChangesQueued
    <2>. QED BY <1>2, <1>3, <1>4, <1>6, <2>1
  <1>. QED BY <1>8, <1>9, <1>10, <1>11

LEMMA UpdatedType ==
  ASSUME NEW u \in Updates, NEW record \in Records \union {NoRecord}
  PROVE  /\ Updated(record, u) \in Records /\ Updated(record, u).state = u.state
         /\ Updated(record, u).path \in {record.path, u.path}
PROOF
  <1>1. record.path \in Nat /\ u.path \in Nat /\ u.state \in States
    BY RecordTypes DEF Updates
  <1>. QED BY <1>1 DEF Updated, Records

LEMMA TypesApplyUpdate ==
  ASSUME TypeInv, ApplyUpdate
  PROVE  TypeOK' /\ HandlerRemembers'
PROOF
  <1>. USE DEF TypeInv
  <1>1. PICK u : u = Head(ui.batch)
    OBVIOUS
  <1>2. /\ u \in Updates /\ u.t \in Transfers /\ ui' \in UiStates
        /\ ChangesQueued(u) \/ ChangesShown(u) \/ ChangesStored(u) \/ PutsBack(u)
    BY <1>1, ApplyCases
  <1>3. /\ disk \in [Transfers -> Records \union {NoRecord}]
        /\ pendingChat \in [Transfers -> Records \union {NoRecord}]
        /\ shown \in [Transfers -> Seq(Records)]
        /\ transferUpdates \in Seq(Updates) /\ stateUpdates \in Seq(Updates)
    BY DEF TypeOK
  <1>4. /\ disk' \in [Transfers -> Records \union {NoRecord}]
        /\ pendingChat' \in [Transfers -> Records \union {NoRecord}]
        /\ shown' \in [Transfers -> Seq(Records)]
        /\ transferUpdates' \in Seq(Updates) /\ stateUpdates' \in Seq(Updates)
    <2>1. CASE ChangesQueued(u)
      <3>1. Updated(pendingChat[u.t], u) \in Records
        BY <1>2, <1>3, UpdatedType
      <3>. QED BY <1>2, <1>3, <2>1, <3>1 DEF ChangesQueued, queueVars
    <2>2. CASE ChangesShown(u)
      <3>1. PICK i \in DOMAIN shown[u.t] :
              /\ shown' = [shown EXCEPT ![u.t] =
                             [shown[u.t] EXCEPT ![i] = Updated(shown[u.t][i], u)]]
              /\ disk' = [disk EXCEPT ![u.t] = Updated(shown[u.t][i], u)]
              /\ UNCHANGED <<pendingChat, queueVars>>
        BY <2>2 DEF ChangesShown
      <3>2. shown[u.t] \in Seq(Records) /\ i \in 1 .. Len(shown[u.t])
        BY <1>2, <1>3, <3>1, LenProperties
      <3>3. shown[u.t][i] \in Records
        BY <3>2, ElementOfSeq
      <3>4. Updated(shown[u.t][i], u) \in Records
        BY <1>2, <3>3, UpdatedType
      <3>5. [shown[u.t] EXCEPT ![i] = Updated(shown[u.t][i], u)] \in Seq(Records)
        BY <3>2, <3>4, ExceptSeq
      <3>. QED BY <1>2, <1>3, <3>1, <3>4, <3>5 DEF queueVars
    <2>3. CASE ChangesStored(u)
      <3>1. Updated(disk[u.t], u) \in Records
        BY <1>2, <1>3, UpdatedType
      <3>. QED BY <1>2, <1>3, <2>3, <3>1 DEF ChangesStored, queueVars
    <2>4. CASE PutsBack(u)
      BY <1>3, <2>4 DEF PutsBack
    <2>. QED BY <1>2, <2>1, <2>2, <2>3, <2>4
  <1>. QED BY <1>2, <1>4
    DEF ApplyUpdate, TypeOK, HandlerRemembers, senderVars, userVars

LEMMA RecoveredType ==
  ASSUME TypeOK, NEW t \in Transfers, NEW record \in Records \union {NoRecord}
  PROVE  /\ Recovered(t, record).path = record.path
         /\ record # NoRecord => Recovered(t, record) \in Records
         /\ record = NoRecord => Recovered(t, record) = NoRecord
         /\ record.state # "Transferring" => Recovered(t, record) = record
         /\ Recovered(t, record).state \in {record.state, "Interrupted"}
PROOF
  BY DEF Recovered, Recovers, Records, NoRecord, States

LEMMA TypesSelectPeer ==
  ASSUME TypeInv, NEW p \in Peers, SelectPeer(p)
  PROVE  TypeOK' /\ HandlerRemembers'
PROOF
  <1>. USE DEF TypeInv
  <1>1. disk \in [Transfers -> Records \union {NoRecord}]
    BY DEF TypeOK
  <1>2. \A t \in Transfers : Recovered(t, disk[t]) \in Records \union {NoRecord}
          /\ (disk[t] # NoRecord => Recovered(t, disk[t]) \in Records)
    BY <1>1, RecoveredType
  <1>3. disk' \in [Transfers -> Records \union {NoRecord}]
    BY <1>1, <1>2 DEF SelectPeer
  <1>4. \A record \in Records : <<record>> \in Seq(Records)
    OBVIOUS
  <1>5. <<>> \in Seq(Records)
    BY EmptySeq
  <1>6. shown' \in [Transfers -> Seq(Records)]
    BY <1>2, <1>4, <1>5 DEF SelectPeer
  <1>. QED BY <1>3, <1>6
    DEF SelectPeer, TypeOK, HandlerRemembers, queueVars, senderVars, userVars

\* What a user's action does to the message that is shown.
LEMMA RewrittenCopy ==
  ASSUME TypeOK, NEW t \in Transfers, shown[t] # <<>>, NEW record \in Records,
         Rewrite(t, record)
  PROVE  /\ disk' = [disk EXCEPT ![t] = record]
         /\ disk' \in [Transfers -> Records \union {NoRecord}]
         /\ shown' \in [Transfers -> Seq(Records)]
         /\ \A v \in Transfers \ {t} : shown'[v] = shown[v]
         /\ Len(shown'[t]) = Len(shown[t]) /\ 1 \in DOMAIN shown[t]
         /\ shown[t][1] \in Records
         /\ \A i \in DOMAIN shown[t] :
              shown'[t][i] = IF i = 1 THEN record ELSE shown[t][i]
PROOF
  <1>1. shown[t] \in Seq(Records) /\ shown \in [Transfers -> Seq(Records)]
        /\ disk \in [Transfers -> Records \union {NoRecord}]
    BY DEF TypeOK
  <1>2. 1 \in 1 .. Len(shown[t]) /\ DOMAIN shown[t] = 1 .. Len(shown[t])
    BY <1>1, EmptySeq, LenProperties
  <1>3. shown' = [shown EXCEPT ![t] = [shown[t] EXCEPT ![1] = record]]
        /\ disk' = [disk EXCEPT ![t] = record]
    BY DEF Rewrite
  <1>4. /\ [shown[t] EXCEPT ![1] = record] \in Seq(Records)
        /\ Len([shown[t] EXCEPT ![1] = record]) = Len(shown[t])
        /\ \A j \in 1 .. Len(shown[t]) :
             [shown[t] EXCEPT ![1] = record][j] = IF j = 1 THEN record ELSE shown[t][j]
    BY <1>1, <1>2, ExceptSeq
  <1>5. shown[t][1] \in Records
    BY <1>1, <1>2, ElementOfSeq
  <1>. QED BY <1>1, <1>2, <1>3, <1>4, <1>5

\* The record that is shown first, and the path an accept takes.
LEMMA AcceptTypes ==
  ASSUME TypeOK, NEW t \in Transfers, shown[t] # <<>>, NEW overwrite \in BOOLEAN
  PROVE  /\ shown[t][1] \in Records /\ 1 \in DOMAIN shown[t]
         /\ AcceptPath(t, overwrite) \in Nat
         /\ shown[t][1].path \in Paths(t) \union {NoPath} =>
              AcceptPath(t, overwrite) \in Paths(t) \union {FreshPath(t)}
PROOF
  <1>1. shown[t] \in Seq(Records)
    BY DEF TypeOK
  <1>2. 1 \in 1 .. Len(shown[t]) /\ DOMAIN shown[t] = 1 .. Len(shown[t])
    BY <1>1, EmptySeq, LenProperties
  <1>3. shown[t][1] \in Records
    BY <1>1, <1>2, ElementOfSeq
  <1>4. shown[t][1].path \in Nat
    BY <1>3 DEF Records
  <1>5. FreshPath(t) \in Nat /\ 1 \in Paths(t) \union {FreshPath(t)}
    <2>1. Len(files[t]) \in Nat
      BY LenProperties DEF TypeOK
    <2>. QED BY <2>1 DEF FreshPath, Paths
  <1>. QED BY <1>2, <1>3, <1>4, <1>5 DEF AcceptPath

LEMMA TypesBeginAccept ==
  ASSUME TypeInv, NEW t \in Transfers, NEW overwrite \in BOOLEAN, BeginAccept(t, overwrite)
  PROVE  TypeOK' /\ HandlerRemembers'
PROOF
  <1>. USE DEF TypeInv
  <1>. DEFINE resuming == shown[t][1].state = "Interrupted"
              p == AcceptPath(t, overwrite)
              offset == IF resuming THEN Stored(t, p) ELSE 0
  <1>1. shown[t] # <<>>
    BY DEF BeginAccept, UserSees
  <1>2. p \in Nat
    BY <1>1, AcceptTypes
  <1>3. offset \in Offsets
    BY <1>2, StoredSize, TransferAssumptions
  <1>4. accepting' \in Accepts
    <2>1. accepting' = [t |-> t, path |-> p, received |-> offset, resuming |-> resuming]
      BY DEF BeginAccept
    <2>2. resuming \in BOOLEAN
      OBVIOUS
    <2>. HIDE DEF resuming, p, offset
    <2>. QED BY <1>2, <1>3, <2>1, <2>2 DEF Accepts
  <1>5. files' \in [Transfers -> Seq(Seq(Offsets))]
    BY <1>2, EmptiedType DEF BeginAccept, TypeOK
  <1>6. ui' \in UiStates
    BY EmptySeq DEF BeginAccept, IdleUi, UiStates
  <1>7. consents' \in [Transfers -> Nat] /\ raced' \subseteq Transfers
    BY RacedType DEF BeginAccept, TypeOK
  <1>. QED BY <1>4, <1>5, <1>6, <1>7
    DEF BeginAccept, TypeOK, HandlerRemembers, recordVars, queueVars, senderVars

\* What the accept handler works on.
LEMMA AcceptingTypes ==
  ASSUME TypeOK
  PROVE  /\ accepting \in Accepts /\ accepting.t \in Transfers
         /\ accepting.path \in Nat /\ accepting.received \in Offsets
PROOF
  BY DEF TypeOK, Accepts

LEMMA TypesPrepareAccepted ==
  ASSUME TypeInv, PrepareAccepted
  PROVE  TypeOK' /\ HandlerRemembers'
PROOF
  <1>. USE DEF TypeInv
  <1>1. files' \in [Transfers -> Seq(Seq(Offsets))]
    BY AcceptingTypes, EmptiedType DEF PrepareAccepted
  <1>2. ui' \in UiStates
    BY EmptySeq DEF PrepareAccepted, IdleUi, UiStates
  <1>. QED BY <1>1, <1>2
    DEF PrepareAccepted, TypeOK, HandlerRemembers, recordVars, queueVars, senderVars, userVars

LEMMA TypesReplaceAccepted ==
  ASSUME TypeInv, ReplaceAccepted
  PROVE  TypeOK' /\ HandlerRemembers'
PROOF
  <1>. USE DEF TypeInv
  <1>. DEFINE entry == [path |-> accepting.path, received |-> accepting.received]
  <1>1. pending' \in [Transfers -> Pendings]
    <2>1. pending' = [pending EXCEPT ![accepting.t] = entry] /\ pending \in [Transfers -> Pendings]
      BY DEF ReplaceAccepted, TypeOK
    <2>2. entry \in Pendings
      BY AcceptingTypes, MadeValues
    <2>. HIDE DEF entry
    <2>. QED BY <2>1, <2>2, AcceptingTypes
  <1>2. ui' \in UiStates
    BY EmptySeq DEF ReplaceAccepted, IdleUi, UiStates
  <1>. QED BY <1>1, <1>2
    DEF ReplaceAccepted, TypeOK, HandlerRemembers, recordVars, queueVars, senderVars, userVars

LEMMA TypesRecordAccepted ==
  ASSUME TypeInv, RecordAccepted
  PROVE  TypeOK' /\ HandlerRemembers'
PROOF
  <1>. USE DEF TypeInv
  <1>. DEFINE t == accepting.t
              record == [state |-> "Transferring", path |-> accepting.path]
              task == [offset |-> accepting.received, resuming |-> accepting.resuming]
  <1>1. t \in Transfers /\ shown[t] # <<>>
    BY AcceptingTypes DEF RecordAccepted, AcceptRemembers
  <1>2. record \in Records /\ Rewrite(t, record)
    BY AcceptingTypes, MadeValues DEF RecordAccepted, States
  <1>3. /\ disk' \in [Transfers -> Records \union {NoRecord}]
        /\ shown' \in [Transfers -> Seq(Records)]
    <2>. HIDE DEF record, t
    <2>. QED BY <1>1, <1>2, RewrittenCopy
  <1>4. acceptTask' \in [Transfers -> [Slots -> Tasks \union {NoTask}]]
    <2>1. acceptTask' = [acceptTask EXCEPT ![t]["accept"] = task]
      BY DEF RecordAccepted, StartAccept
    <2>2. acceptTask \in [Transfers -> [Slots -> Tasks \union {NoTask}]] /\ "accept" \in Slots
      BY DEF TypeOK, Slots
    <2>3. task \in Tasks
      BY AcceptingTypes, MadeValues DEF Accepts
    <2>. HIDE DEF task
    <2>. QED BY <1>1, <2>1, <2>2, <2>3
  <1>5. ui' \in UiStates /\ accepting' \in Accepts
    BY EmptySeq, NoAcceptType DEF RecordAccepted, IdleUi, UiStates
  <1>. QED BY <1>3, <1>4, <1>5
    DEF RecordAccepted, TypeOK, HandlerRemembers, queueVars, senderVars

LEMMA TypesRejectTransfer ==
  ASSUME TypeInv, NEW t \in Transfers, RejectTransfer(t)
  PROVE  TypeOK' /\ HandlerRemembers'
PROOF
  <1>. USE DEF TypeInv
  <1>. DEFINE record == [shown[t][1] EXCEPT !.state = "Rejected"]
  <1>1. shown[t] # <<>> /\ Rewrite(t, record)
    BY DEF RejectTransfer, UserSees
  <1>2. record \in Records
    <2>1. shown[t][1] \in Records
      BY <1>1, AcceptTypes
    <2>. QED BY <2>1 DEF Records, States
  <1>3. /\ disk' \in [Transfers -> Records \union {NoRecord}]
        /\ shown' \in [Transfers -> Seq(Records)]
    <2>. HIDE DEF record
    <2>. QED BY <1>1, <1>2, RewrittenCopy
  <1>4. pending' \in [Transfers -> Pendings]
    BY MadeValues DEF RejectTransfer, TypeOK
  <1>. QED BY <1>3, <1>4
    DEF RejectTransfer, TypeOK, HandlerRemembers, queueVars, senderVars, userVars

LEMMA TypesCancelTransfer ==
  ASSUME TypeInv, NEW t \in Transfers, CancelTransfer(t)
  PROVE  TypeOK' /\ HandlerRemembers'
PROOF
  <1>. USE DEF TypeInv
  <1>. DEFINE path == IF Active(t) THEN pending[t].path ELSE shown[t][1].path
              record == [state |-> "Cancelled", path |-> path]
  <1>1. shown[t] # <<>> /\ Rewrite(t, record)
    BY DEF CancelTransfer, UserSees
  <1>2. record \in Records
    <2>1. shown[t][1] \in Records
      BY <1>1, AcceptTypes
    <2>2. path \in Nat
      BY <2>1 DEF Records, TypeOK, Pendings
    <2>. QED BY <2>2, MadeValues DEF States
  <1>3. /\ disk' \in [Transfers -> Records \union {NoRecord}]
        /\ shown' \in [Transfers -> Seq(Records)]
    <2>. HIDE DEF record
    <2>. QED BY <1>1, <1>2, RewrittenCopy
  <1>4. pending' \in [Transfers -> Pendings]
    BY MadeValues DEF CancelTransfer, TypeOK
  <1>. QED BY <1>3, <1>4
    DEF CancelTransfer, TypeOK, HandlerRemembers, queueVars, senderVars, userVars

LEMMA TypesAcceptSent ==
  ASSUME TypeInv, NEW t \in Transfers, NEW slot \in Slots, AcceptSent(t, slot)
  PROVE  TypeOK' /\ HandlerRemembers'
PROOF
  <1>. USE DEF TypeInv
  <1>1. acceptTask[t][slot].offset \in Offsets
    BY DEF AcceptSent, TypeOK, Tasks
  <1>2. invited' \in [Transfers -> SUBSET Offsets]
    BY <1>1 DEF AcceptSent, TypeOK
  <1>3. acceptTask' \in [Transfers -> [Slots -> Tasks \union {NoTask}]]
    BY DEF AcceptSent, TypeOK
  <1>. QED BY <1>2, <1>3
    DEF AcceptSent, TypeOK, HandlerRemembers, recordVars, queueVars, userVars

\* What the completion of a failed accept task queues.
LEMMA AcceptFailsQueues ==
  ASSUME TypeOK, NEW t \in Transfers, NEW slot \in Slots, AcceptFails(t, slot)
  PROVE  /\ stateUpdates' \in Seq(Updates)
         /\ \A u \in Range(stateUpdates') :
              \/ u \in Range(stateUpdates)
              \/ u.t = t /\ u.state \in {"Interrupted", "Failed"} /\ u.path = NoPath
PROOF
  <1>. DEFINE new == StateUpdate(t, IF acceptTask[t][slot].resuming THEN "Interrupted"
                                                                    ELSE "Failed")
  <1>1. /\ new \in Updates /\ new.t = t /\ new.state \in {"Interrupted", "Failed"}
        /\ new.path = NoPath
    BY MadeValues DEF StateUpdate, States
  <1>2. stateUpdates \in Seq(Updates) /\ stateUpdates' \in {stateUpdates, Append(stateUpdates, new)}
    BY DEF TypeOK, AcceptFails
  <1>. HIDE DEF new
  <1>3. Append(stateUpdates, new) \in Seq(Updates)
        /\ Range(Append(stateUpdates, new)) = Range(stateUpdates) \union {new}
    BY <1>1, <1>2, Elements
  <1>. QED BY <1>1, <1>2, <1>3

LEMMA TypesAcceptFails ==
  ASSUME TypeInv, NEW t \in Transfers, NEW slot \in Slots, AcceptFails(t, slot)
  PROVE  TypeOK' /\ HandlerRemembers'
PROOF
  <1>. USE DEF TypeInv
  <1>1. acceptTask' \in [Transfers -> [Slots -> Tasks \union {NoTask}]]
    BY DEF AcceptFails, TypeOK
  <1>. QED BY <1>1, AcceptFailsQueues
    DEF AcceptFails, TypeOK, HandlerRemembers, recordVars, senderVars, userVars

LEMMA TypesRestart ==
  ASSUME TypeInv, Restart
  PROVE  TypeOK' /\ HandlerRemembers'
PROOF
  <1>. USE DEF TypeInv
  <1>1. /\ tcp' \in TcpStates /\ tcp'.step = "accept"
        /\ pending' \in [Transfers -> Pendings]
    BY WaitingTcp, MadeValues DEF Restart
  <1>2. /\ shown' \in [Transfers -> Seq(Records)]
        /\ transferUpdates' \in Seq(Updates) /\ stateUpdates' \in Seq(Updates)
        /\ ui' \in UiStates
    BY EmptySeq DEF Restart, IdleUi, UiStates
  <1>3. acceptTask' \in [Transfers -> [Slots -> Tasks \union {NoTask}]]
    BY DEF Restart
  <1>4. pendingChat' \in [Transfers -> Records \union {NoRecord}]
        /\ selected' \in Peers \union {NoPeer} /\ restarts' \in Nat
    BY DEF Restart, TypeOK
  <1>. QED BY <1>1, <1>2, <1>3, <1>4, NoAcceptType
    DEF Restart, TypeOK, HandlerRemembers, senderVars

LEMMA TypesNext ==
  ASSUME TypeInv, [Next]_vars
  PROVE  TypeOK' /\ HandlerRemembers'
PROOF
  <1>1. CASE TcpStep
    BY <1>1, TypesReadOffer, TypesSearchHistory, TypesWriteRecovered, TypesMeasureOffered,
       TypesPrepareOffered, TypesReplaceOffered, TypesInstallFails, TypesReadChunk,
       TypesWriteChunk, TypesWriteFails, TypesCountChunk, TypesReadComplete,
       TypesPublishComplete, TypesEraseCompleted, TypesEndConnection
    DEF TcpStep
  <1>2. CASE SenderStep
    BY <1>2, TypesReceiveChat, TypesReceiveCancel, TypesOpenConnection DEF SenderStep
  <1>3. CASE UiStep
    BY <1>3, TypesDrains, TypesApplyUpdate, TypesSelectPeer, TypesBeginAccept,
       TypesPrepareAccepted, TypesReplaceAccepted, TypesRecordAccepted, TypesRejectTransfer,
       TypesCancelTransfer
    DEF UiStep, RefreshStep, AcceptStep
  <1>4. CASE TaskStep
    BY <1>4, TypesAcceptSent, TypesAcceptFails DEF TaskStep
  <1>5. CASE Restart
    BY <1>5, TypesRestart
  <1>6. CASE UNCHANGED vars
    BY <1>6 DEF vars, TypeInv, TypeOK, HandlerRemembers
  <1>. QED BY <1>1, <1>2, <1>3, <1>4, <1>5, <1>6 DEF Next

\* Only the handlers of the UI thread change what is shown and what it accepts.
LEMMA AcceptFrame ==
  ASSUME TypeInv, [Next]_vars, ~UiStep, ~Restart
  PROVE  UNCHANGED <<ui, shown, accepting>>
PROOF
  <1>1. CASE TcpStep
    BY <1>1
    DEF TcpStep, ReadOffer, SearchHistory, WriteRecovered, MeasureOffered, PrepareOffered,
        ReplaceOffered, InstallFails, ReadChunk, WriteChunk, WriteFails, CountChunk,
        ReadComplete, PublishComplete, EraseCompleted, EndConnection, recordVars, userVars
  <1>2. CASE SenderStep
    BY <1>2 DEF SenderStep, ReceiveChat, ReceiveCancel, OpenConnection, recordVars, userVars
  <1>3. CASE TaskStep
    BY <1>3 DEF TaskStep, AcceptSent, AcceptFails, recordVars, userVars
  <1>4. CASE UNCHANGED vars
    BY <1>4 DEF vars
  <1>. QED BY <1>1, <1>2, <1>3, <1>4 DEF Next

LEMMA RefreshedUi ==
  ASSUME TypeInv, RefreshStep
  PROVE  /\ ui.step \notin {"prepare", "replace", "record"}
         /\ ui'.step \notin {"prepare", "replace", "record"}
PROOF
  <1>0. ui \in UiStates /\ AcceptRemembers
    BY DEF TypeInv, TypeOK
  <1>1. CASE ApplyUpdate
    <2>1. ui.step \notin {"prepare", "replace", "record"}
      BY <1>0, <1>1 DEF ApplyUpdate, AcceptRemembers
    <2>2. \E rest : ui' = IF ui.step = "states" THEN StateBatch(rest)
                                               ELSE [ui EXCEPT !.batch = rest]
      BY <1>1 DEF ApplyUpdate
    <2>3. ui'.step \in {ui.step, "idle", "states"}
      BY <1>0, <2>2 DEF StateBatch, IdleUi, UiStates
    <2>. QED BY <2>1, <2>3
  <1>2. CASE DrainChatMessages
    BY <1>0, <1>2 DEF DrainChatMessages, UiStates
  <1>3. CASE DrainTransferUpdates \/ DrainStateUpdates
    BY <1>3 DEF DrainTransferUpdates, DrainStateUpdates, StateBatch, IdleUi
  <1>. QED BY <1>1, <1>2, <1>3 DEF RefreshStep

LEMMA AcceptStays ==
  ASSUME TypeInv, [Next]_vars
  PROVE  AcceptRemembers'
PROOF
  <1>. DEFINE Steps == {"prepare", "replace", "record"}
  <1>0. ui \in UiStates /\ AcceptRemembers
    BY DEF TypeInv, TypeOK
  <1>1. CASE UNCHANGED <<ui, shown, accepting>>
    BY <1>0, <1>1 DEF AcceptRemembers
  <1>2. ASSUME ui'.step \notin Steps
        PROVE  AcceptRemembers'
    BY <1>2 DEF AcceptRemembers
  <1>3. CASE Restart
    BY <1>2, <1>3 DEF Restart, IdleUi
  <1>4. CASE RefreshStep
    BY <1>2, <1>4, RefreshedUi
  <1>5. CASE AcceptStep
    <2>1. CASE PrepareAccepted
      BY <1>0, <2>1 DEF PrepareAccepted, IdleUi, AcceptRemembers, recordVars, userVars
    <2>2. CASE ReplaceAccepted
      BY <1>0, <2>2 DEF ReplaceAccepted, IdleUi, AcceptRemembers, recordVars, userVars
    <2>3. CASE RecordAccepted
      BY <1>2, <2>3 DEF RecordAccepted, IdleUi
    <2>. QED BY <1>5, <2>1, <2>2, <2>3 DEF AcceptStep
  <1>6. ASSUME NEW t \in Transfers, NEW overwrite \in BOOLEAN, BeginAccept(t, overwrite)
        PROVE  AcceptRemembers'
    <2>1. /\ shown' = shown /\ shown[t] # <<>> /\ shown[t][1].state \in AcceptableStates
          /\ accepting'.t = t /\ ui'.batch = <<>>
          /\ ui'.step = IF shown[t][1].state = "Interrupted" THEN "replace" ELSE "prepare"
          /\ shown[t][1].state # "Interrupted" => accepting'.received = 0
      BY <1>6 DEF BeginAccept, UserSees, IdleUi, recordVars
    <2>. QED BY <2>1 DEF AcceptRemembers
  <1>7. ASSUME NEW p \in Peers, SelectPeer(p)
        PROVE  AcceptRemembers'
    BY <1>2, <1>7 DEF SelectPeer
  <1>8. ASSUME NEW t \in Transfers, RejectTransfer(t) \/ CancelTransfer(t)
        PROVE  AcceptRemembers'
    BY <1>2, <1>8 DEF RejectTransfer, CancelTransfer, UserSees
  <1>. QED BY <1>1, <1>3, <1>4, <1>5, <1>6, <1>7, <1>8, AcceptFrame DEF UiStep

LEMMA TypesStep == TypeInv /\ [Next]_vars => TypeInv'
PROOF
  BY TypesNext, AcceptStays DEF TypeInv

LEMMA TypesInvariant == Spec => []TypeInv
PROOF
  BY TypesAtFirst, TypesStep, PTL DEF Spec

\* Every variable of the receiving side has its type, whatever the interleaving of the
\* TCP thread, the UI thread and the tasks: queued updates name transfers and paths,
\* offsets stay within the file, and a handler that was interrupted keeps the phase of
\* its connection.
THEOREM TransferTypesHold == Spec => []TypeOK
PROOF
  BY TypesInvariant, PTL DEF TypeInv
-----------------------------------------------------------------------------
(* What a step may queue, and which entries it may change.                   *)

\* A new update reports a failure, an interruption or a start, or the verdict of the
\* sender, and names no path but the one of the entry or the one that was published.
NewUpdate(u) ==
  \/ /\ u.t \in Transfers
     /\ \/ u.state \in {"Transferring", "Failed", "Interrupted"}
        \/ u.state = "Cancelled" /\ ReceiveCancel(u.t)
     /\ u.path = NoPath \/ (Active(u.t) /\ u.path = pending[u.t].path)
  \/ PublishComplete /\ u = [t |-> tcp.t, state |-> "Completed", path |-> tcp.path]

LEMMA QueuedStep ==
  ASSUME TypeInv, [Next]_vars, NEW u \in Queued'
  PROVE  u \in Queued \/ NewUpdate(u)
PROOF
  <1>. USE DEF TypeInv
  <1>0. ASSUME NEW offer \in BOOLEAN, FailFrame(tcp.t, offer), ui' = ui
        PROVE  u \in Queued \/ NewUpdate(u)
    BY <1>0, InstallTypes, FailFrameQueues DEF Queued, NewUpdate
  <1>1. CASE ui' = ui /\ transferUpdates' = transferUpdates /\ stateUpdates' = stateUpdates
    BY <1>1 DEF Queued
  <1>2. CASE ReplaceOffered
    <2>. DEFINE new == StateUpdate(tcp.t, "Transferring")
    <2>1. new \in Updates /\ new.t \in Transfers /\ new.state = "Transferring" /\ new.path = NoPath
      BY InstallTypes, MadeValues DEF StateUpdate, States
    <2>2. /\ stateUpdates \in Seq(Updates) /\ stateUpdates' = Append(stateUpdates, new)
          /\ ui' = ui /\ transferUpdates' = transferUpdates
      BY <1>2 DEF ReplaceOffered, TypeOK
    <2>. HIDE DEF new
    <2>3. Range(stateUpdates') = Range(stateUpdates) \union {new}
      BY <2>1, <2>2, Elements
    <2>. QED BY <2>1, <2>2, <2>3 DEF Queued, NewUpdate
  <1>3. CASE InstallFails
    BY <1>0, <1>3 DEF InstallFails
  <1>4. CASE ReadChunk
    <2>1. CASE Active(tcp.t) /\ pending[tcp.t].received = tcp.offset
      BY <1>1, <1>4, <2>1 DEF ReadChunk, queueVars
    <2>2. CASE ~(Active(tcp.t) /\ pending[tcp.t].received = tcp.offset)
      BY <1>0, <1>4, <2>2 DEF ReadChunk
    <2>. QED BY <2>1, <2>2
  <1>5. CASE WriteFails
    BY <1>0, <1>5 DEF WriteFails
  <1>6. CASE ReadComplete
    <2>1. CASE Active(tcp.t) /\ pending[tcp.t].received = Size
      BY <1>1, <1>6, <2>1 DEF ReadComplete, queueVars
    <2>2. CASE ~(Active(tcp.t) /\ pending[tcp.t].received = Size)
      BY <1>0, <1>6, <2>2 DEF ReadComplete
    <2>. QED BY <2>1, <2>2
  <1>7. CASE PublishComplete
    <2>1. ui' = ui /\ stateUpdates' = stateUpdates
      BY <1>7 DEF PublishComplete
    <2>. QED BY <1>7, <2>1, PublishedUpdate DEF Queued, NewUpdate
  <1>8. CASE EndConnection
    <2>1. ui' = ui /\ stateUpdates' = stateUpdates
      BY <1>8 DEF EndConnection
    <2>. QED BY <1>8, <2>1, EndedUpdates DEF Queued, NewUpdate
  <1>9. CASE ReadOffer \/ SearchHistory \/ WriteRecovered \/ MeasureOffered \/ PrepareOffered
             \/ WriteChunk \/ CountChunk \/ EraseCompleted
    BY <1>1, <1>9 DEF ReadOffer, SearchHistory, WriteRecovered, MeasureOffered, PrepareOffered,
                      WriteChunk, CountChunk, EraseCompleted, queueVars
  <1>10. CASE TcpStep
    BY <1>2, <1>3, <1>4, <1>5, <1>6, <1>7, <1>8, <1>9, <1>10 DEF TcpStep
  <1>11. CASE SenderStep
    <2>1. ASSUME NEW t \in Transfers, ReceiveCancel(t)
          PROVE  u \in Queued \/ NewUpdate(u)
      <3>1. ui' = ui
        BY <2>1 DEF ReceiveCancel
      <3>. QED BY <2>1, <3>1, CancelQueues DEF Queued, NewUpdate
    <2>2. ASSUME NEW t \in Transfers, ~ReceiveCancel(t),
                 ReceiveChat(t) \/ \E kind \in {"content", "resume"}, offset \in Offsets :
                                     OpenConnection(t, kind, offset)
          PROVE  u \in Queued \/ NewUpdate(u)
      BY <1>1, <2>2 DEF ReceiveChat, OpenConnection, queueVars
    <2>. QED BY <1>11, <2>1, <2>2 DEF SenderStep
  <1>12. CASE UiStep
    <2>1. CASE DrainChatMessages
      <3>1. ui'.batch = ui.batch
        BY <2>1 DEF DrainChatMessages, TypeOK, UiStates
      <3>. QED BY <2>1, <3>1 DEF DrainChatMessages, Queued, queueVars
    <2>2. CASE DrainTransferUpdates \/ DrainStateUpdates
      BY <2>2, TypesDrains
    <2>3. CASE ApplyUpdate
      <3>1. PICK h : h = Head(ui.batch)
        OBVIOUS
      <3>2. /\ h \in Range(ui.batch) /\ Range(ui'.batch) \subseteq Range(ui.batch)
            /\ ChangesQueued(h) \/ ChangesShown(h) \/ ChangesStored(h) \/ PutsBack(h)
        BY <2>3, <3>1, ApplyCases
      <3>3. Range(transferUpdates') \subseteq Range(transferUpdates) \union {h}
            /\ Range(stateUpdates') \subseteq Range(stateUpdates) \union {h}
        BY <3>2 DEF ChangesQueued, ChangesShown, ChangesStored, PutsBack, queueVars
      <3>. QED BY <3>2, <3>3 DEF Queued
    <2>4. ASSUME NEW p \in Peers, SelectPeer(p)
          PROVE  u \in Queued \/ NewUpdate(u)
      BY <1>1, <2>4 DEF SelectPeer, queueVars
    <2>5. ASSUME NEW t \in Transfers, RejectTransfer(t) \/ CancelTransfer(t)
          PROVE  u \in Queued \/ NewUpdate(u)
      BY <1>1, <2>5 DEF RejectTransfer, CancelTransfer, queueVars
    <2>6. CASE AcceptStep \/ \E t \in Transfers, overwrite \in BOOLEAN : BeginAccept(t, overwrite)
      <3>1. ui'.batch = <<>> /\ UNCHANGED queueVars
        BY <2>6 DEF AcceptStep, PrepareAccepted, ReplaceAccepted, RecordAccepted, BeginAccept,
                    IdleUi
      <3>. QED BY <3>1 DEF Queued, queueVars, Range
    <2>. QED BY <1>12, <2>1, <2>2, <2>3, <2>4, <2>5, <2>6 DEF UiStep, RefreshStep
  <1>13. CASE TaskStep
    <2>1. ASSUME NEW t \in Transfers, NEW slot \in Slots, AcceptSent(t, slot)
          PROVE  u \in Queued \/ NewUpdate(u)
      BY <1>1, <2>1 DEF AcceptSent, queueVars
    <2>2. ASSUME NEW t \in Transfers, NEW slot \in Slots, AcceptFails(t, slot)
          PROVE  u \in Queued \/ NewUpdate(u)
      <3>1. ui' = ui /\ transferUpdates' = transferUpdates
        BY <2>2 DEF AcceptFails
      <3>. QED BY <2>2, <3>1, AcceptFailsQueues DEF Queued, NewUpdate
    <2>. QED BY <1>13, <2>1, <2>2 DEF TaskStep
  <1>14. CASE Restart
    <2>1. Range(<<>>) = {}
      BY DEF Range
    <2>. QED BY <1>14, <2>1 DEF Restart, IdleUi, Queued
  <1>15. CASE UNCHANGED vars
    BY <1>1, <1>15 DEF vars
  <1>. QED BY <1>10, <1>11, <1>12, <1>13, <1>14, <1>15 DEF Next

\* An entry is changed by an automatic or a user's accept, an Offer and a counted chunk;
\* every other step can only remove it.
LEMMA PendingStep ==
  ASSUME TypeInv, [Next]_vars
  PROVE  \/ \A t \in Transfers : pending'[t] \in {pending[t], NoPending}
         \/ \E t \in Transfers : ReceiveChat(t) /\ AutoAccept(t)
         \/ ReplaceOffered \/ CountChunk \/ ReplaceAccepted
PROOF
  <1>. USE DEF TypeInv
  <1>. DEFINE OnlyRemoved == \A t \in Transfers : pending'[t] \in {pending[t], NoPending}
  <1>1. CASE pending' = pending
    BY <1>1
  <1>2. ASSUME NEW offer \in BOOLEAN, FailFrame(tcp.t, offer)
        PROVE  OnlyRemoved
    BY <1>2, InstallTypes, FailFrameQueues
  <1>3. CASE InstallFails \/ WriteFails
    BY <1>2, <1>3 DEF InstallFails, WriteFails
  <1>4. CASE ReadChunk
    <2>1. CASE Active(tcp.t) /\ pending[tcp.t].received = tcp.offset
      BY <1>1, <1>4, <2>1 DEF ReadChunk
    <2>2. CASE ~(Active(tcp.t) /\ pending[tcp.t].received = tcp.offset)
      BY <1>2, <1>4, <2>2 DEF ReadChunk
    <2>. QED BY <2>1, <2>2
  <1>5. CASE ReadComplete
    <2>1. CASE Active(tcp.t) /\ pending[tcp.t].received = Size
      BY <1>1, <1>5, <2>1 DEF ReadComplete
    <2>2. CASE ~(Active(tcp.t) /\ pending[tcp.t].received = Size)
      BY <1>2, <1>5, <2>2 DEF ReadComplete
    <2>. QED BY <2>1, <2>2
  <1>6. CASE EndConnection
    BY <1>6, EndedUpdates
  <1>7. CASE EraseCompleted
    BY <1>7, InstallTypes DEF EraseCompleted, TypeOK
  <1>8. CASE ReadOffer \/ SearchHistory \/ WriteRecovered \/ MeasureOffered \/ PrepareOffered
             \/ WriteChunk \/ PublishComplete
    BY <1>1, <1>8 DEF ReadOffer, SearchHistory, WriteRecovered, MeasureOffered, PrepareOffered,
                      WriteChunk, PublishComplete
  <1>9. CASE SenderStep
    <2>1. ASSUME NEW t \in Transfers, ReceiveCancel(t)
          PROVE  OnlyRemoved
      BY <2>1, CancelQueues
    <2>2. ASSUME NEW t \in Transfers, ReceiveChat(t)
          PROVE  OnlyRemoved \/ AutoAccept(t)
      BY <2>2 DEF ReceiveChat
    <2>3. ASSUME NEW t \in Transfers, NEW kind \in {"content", "resume"},
                 NEW offset \in Offsets, OpenConnection(t, kind, offset)
          PROVE  OnlyRemoved
      BY <2>3 DEF OpenConnection
    <2>. QED BY <1>9, <2>1, <2>2, <2>3 DEF SenderStep
  <1>10. CASE UiStep
    <2>1. CASE RefreshStep \/ \E p \in Peers : SelectPeer(p)
      BY <1>1, <2>1 DEF RefreshStep, DrainChatMessages, DrainTransferUpdates,
                        DrainStateUpdates, ApplyUpdate, SelectPeer
    <2>2. ASSUME NEW t \in Transfers, RejectTransfer(t) \/ CancelTransfer(t)
          PROVE  OnlyRemoved
      BY <2>2 DEF RejectTransfer, CancelTransfer, TypeOK
    <2>3. CASE PrepareAccepted \/ RecordAccepted
               \/ \E t \in Transfers, overwrite \in BOOLEAN : BeginAccept(t, overwrite)
      BY <1>1, <2>3 DEF PrepareAccepted, RecordAccepted, BeginAccept
    <2>. QED BY <1>10, <2>1, <2>2, <2>3 DEF UiStep, AcceptStep
  <1>11. CASE TaskStep
    BY <1>1, <1>11 DEF TaskStep, AcceptSent, AcceptFails
  <1>12. CASE Restart
    BY <1>12 DEF Restart
  <1>13. CASE UNCHANGED vars
    BY <1>1, <1>13 DEF vars
  <1>. QED BY <1>3, <1>4, <1>5, <1>6, <1>7, <1>8, <1>9, <1>10, <1>11, <1>12, <1>13
       DEF Next, TcpStep

\* A file is created, emptied or written to by an accept, an Offer or a chunk.
LEMMA FilesStep ==
  ASSUME [Next]_vars
  PROVE  \/ files' = files
         \/ \E t \in Transfers : ReceiveChat(t) /\ AutoAccept(t)
         \/ PrepareOffered \/ WriteChunk \/ PrepareAccepted
         \/ \E t \in Transfers, overwrite \in BOOLEAN : BeginAccept(t, overwrite)
PROOF
  <1>1. CASE TcpStep
    BY <1>1
    DEF TcpStep, ReadOffer, SearchHistory, WriteRecovered, MeasureOffered, ReplaceOffered,
        InstallFails, ReadChunk, WriteFails, CountChunk, ReadComplete, PublishComplete,
        EraseCompleted, EndConnection
  <1>2. CASE SenderStep
    BY <1>2 DEF SenderStep, ReceiveChat, ReceiveCancel, OpenConnection
  <1>3. CASE UiStep
    BY <1>3
    DEF UiStep, RefreshStep, AcceptStep, DrainChatMessages, DrainTransferUpdates,
        DrainStateUpdates, ApplyUpdate, SelectPeer, ReplaceAccepted, RecordAccepted,
        RejectTransfer, CancelTransfer
  <1>4. CASE TaskStep
    BY <1>4 DEF TaskStep, AcceptSent, AcceptFails
  <1>5. CASE Restart \/ UNCHANGED vars
    BY <1>5 DEF Restart, vars
  <1>. QED BY <1>1, <1>2, <1>3, <1>4, <1>5 DEF Next

\* No file is ever forgotten.
LEMMA PathsGrow ==
  ASSUME TypeInv, [Next]_vars, NEW t \in Transfers
  PROVE  Paths(t) \subseteq Paths(t)' /\ NoPath \notin Paths(t)'
PROOF
  <1>. USE DEF TypeInv
  <1>1. Len(files[t]) \in Nat
    BY LenProperties DEF TypeOK
  <1>2. files'[t] \in Seq(Seq(Offsets)) /\ Len(files'[t]) \in Nat
    BY TypesStep, LenProperties DEF TypeOK
  <1>. SUFFICES Len(files[t]) <= Len(files'[t])
    BY <1>1, <1>2 DEF Paths, NoPath
  <1>3. ASSUME NEW v \in Transfers, NEW p \in Nat, files' \in {files, Emptied(v, p)}
        PROVE  Len(files[t]) <= Len(files'[t])
    BY <1>1, <1>3, EmptiedType
  <1>4. CASE files' = files
    BY <1>1, <1>4
  <1>5. ASSUME NEW v \in Transfers, ReceiveChat(v) /\ AutoAccept(v)
        PROVE  Len(files[t]) <= Len(files'[t])
    <2>1. FreshPath(v) \in Nat
      BY LenProperties DEF FreshPath, TypeOK
    <2>. QED BY <1>3, <1>5, <2>1 DEF AutoAccept
  <1>6. CASE PrepareOffered
    <2>1. tcp.t \in Transfers /\ tcp.path \in Nat
      BY DEF TypeOK, TcpStates
    <2>. QED BY <1>3, <1>6, <2>1 DEF PrepareOffered
  <1>7. CASE WriteChunk
    BY <1>1, <1>7, WrittenFile
  <1>8. ASSUME NEW v \in Transfers, NEW overwrite \in BOOLEAN, BeginAccept(v, overwrite)
        PROVE  Len(files[t]) <= Len(files'[t])
    BY <1>3, <1>8, AcceptTypes DEF BeginAccept, UserSees
  <1>9. CASE PrepareAccepted
    BY <1>3, <1>9, AcceptingTypes DEF PrepareAccepted
  <1>. QED BY <1>4, <1>5, <1>6, <1>7, <1>8, <1>9, FilesStep
-----------------------------------------------------------------------------
(* Every path that is written down names a file.                             *)

\* A path that names a file still names it after the step.
LEMMA NamedStays ==
  ASSUME TypeInv, [Next]_vars, NEW t \in Transfers, NEW p \in Paths(t) \union {NoPath}
  PROVE  p \in Paths(t)' \union {NoPath}
PROOF
  BY PathsGrow

\* A name that a handler may choose stays one.
LEMMA NamesGrow ==
  ASSUME TypeInv, [Next]_vars, NEW t \in Transfers
  PROVE  Names(t) \subseteq Names(t)' /\ NoPath \notin Names(t)'
PROOF
  <1>1. Len(files[t]) \in Nat /\ Len(files'[t]) \in Nat
    BY TypesStep, LenProperties DEF TypeInv, TypeOK
  <1>2. 1 .. Len(files[t]) \subseteq 1 .. Len(files'[t])
    BY PathsGrow DEF Paths
  <1>3. Len(files[t]) <= Len(files'[t])
    BY <1>1, <1>2
  <1>. QED BY <1>1, <1>3 DEF Names, Paths, FreshPath, NoPath

\* The file that a path was emptied for is there.
LEMMA EmptiedIsThere ==
  ASSUME TypeOK, NEW t \in Transfers, NEW p \in Names(t),
         files' = Emptied(t, p)
  PROVE  p \in Paths(t)'
PROOF
  BY EmptiedFile DEF Paths, Names

LEMMA EntriesNamePaths ==
  ASSUME TypeInv, PathsExist, [Next]_vars, NEW t \in Transfers, Active(t)'
  PROVE  pending'[t].path \in Paths(t)'
PROOF
  <1>. USE DEF TypeInv
  <1>0. pending'[t] # NoPending /\ pending \in [Transfers -> Pendings]
    BY DEF Active, TypeOK
  <1>1. CASE pending'[t] \in {pending[t], NoPending}
    <2>1. pending'[t] = pending[t] /\ Active(t)
      BY <1>0, <1>1 DEF Active
    <2>2. pending[t].path \in Paths(t)
      BY <2>1 DEF PathsExist
    <2>. QED BY <2>1, <2>2, PathsGrow
  <1>2. ASSUME NEW v \in Transfers, ReceiveChat(v) /\ AutoAccept(v)
        PROVE  pending'[t].path \in Paths(t)'
    <2>1. CASE v = t
      <3>1. pending'[t].path = FreshPath(t) /\ files' = Emptied(t, FreshPath(t))
        BY <1>0, <1>2, <2>1 DEF AutoAccept
      <3>. QED BY <3>1, EmptiedIsThere DEF Names
    <2>2. CASE v # t
      BY <1>0, <1>1, <1>2, <2>2 DEF AutoAccept
    <2>. QED BY <2>1, <2>2
  <1>3. CASE ReplaceOffered
    <2>1. CASE tcp.t = t
      <3>1. pending'[t].path = tcp.path
        BY <1>0, <1>3, <2>1 DEF ReplaceOffered
      <3>2. tcp.path \in Paths(t)
        BY <1>3, <2>1 DEF PathsExist, TcpNamesPath, ReplaceOffered
      <3>. QED BY <3>1, <3>2, PathsGrow
    <2>2. CASE tcp.t # t
      BY <1>0, <1>1, <1>3, <2>2 DEF ReplaceOffered
    <2>. QED BY <2>1, <2>2
  <1>4. CASE CountChunk
    <2>1. CASE pending' = pending
      BY <1>1, <2>1
    <2>2. CASE pending' = [pending EXCEPT ![tcp.t].received = tcp.received + 1] /\ Active(tcp.t)
      <3>1. pending'[t].path = pending[t].path /\ Active(t)
        <4>1. CASE t = tcp.t
          BY <1>0, <2>2, <4>1 DEF Pendings
        <4>2. CASE t # tcp.t
          BY <1>0, <2>2, <4>2 DEF Active
        <4>. QED BY <4>1, <4>2
      <3>2. pending[t].path \in Paths(t)
        BY <3>1 DEF PathsExist
      <3>. QED BY <3>1, <3>2, PathsGrow
    <2>. QED BY <1>4, <2>1, <2>2 DEF CountChunk
  <1>5. CASE ReplaceAccepted
    <2>1. CASE accepting.t = t
      <3>1. pending'[t].path = accepting.path
        BY <1>0, <1>5, <2>1 DEF ReplaceAccepted
      <3>2. accepting.path \in Paths(t)
        BY <1>5, <2>1 DEF PathsExist, UiNamesPath, ReplaceAccepted
      <3>. QED BY <3>1, <3>2, PathsGrow
    <2>2. CASE accepting.t # t
      BY <1>0, <1>1, <1>5, <2>2 DEF ReplaceAccepted
    <2>. QED BY <2>1, <2>2
  <1>. QED BY <1>1, <1>2, <1>3, <1>4, <1>5, PendingStep

LEMMA UpdatesNamePaths ==
  ASSUME TypeInv, PathsExist, [Next]_vars, NEW u \in Queued'
  PROVE  u.path \in Paths(u.t)' \union {NoPath}
PROOF
  <1>1. u.t \in Transfers
    <2>1. Queued' \subseteq Updates
      BY TypesStep, Elements DEF TypeInv, TypeOK, Queued, UiStates
    <2>. QED BY <2>1 DEF Updates
  <1>2. u.path \in Paths(u.t) \union {NoPath}
    <2>1. CASE u \in Queued
      BY <2>1 DEF PathsExist
    <2>2. CASE NewUpdate(u)
      BY <1>1, <2>2 DEF NewUpdate, PathsExist, TcpNamesPath, PublishComplete
    <2>. QED BY <2>1, <2>2, QueuedStep
  <1>. QED BY <1>1, <1>2, NamedStays

\* The stored record, its queued copy and its shown copies name the paths they named, or
\* the path of an update, of the entry, of the handler or of a file that is made.
LEMMA RecordsNamePaths ==
  ASSUME TypeInv, PathsExist, [Next]_vars, NEW t \in Transfers
  PROVE  /\ disk'[t].path \in Paths(t)' \union {NoPath}
         /\ pendingChat'[t].path \in Paths(t)' \union {NoPath}
         /\ \A i \in DOMAIN shown'[t] : shown'[t][i].path \in Paths(t)' \union {NoPath}
PROOF
  <1>. USE DEF TypeInv
  <1>0. /\ disk \in [Transfers -> Records \union {NoRecord}]
        /\ pendingChat \in [Transfers -> Records \union {NoRecord}]
        /\ shown \in [Transfers -> Seq(Records)]
    BY DEF TypeOK
  <1>1. /\ disk[t].path \in Paths(t)' \union {NoPath}
        /\ pendingChat[t].path \in Paths(t)' \union {NoPath}
        /\ \A i \in DOMAIN shown[t] : shown[t][i].path \in Paths(t)' \union {NoPath}
    BY NamedStays DEF PathsExist
  <1>2. CASE UNCHANGED <<disk, pendingChat, shown>>
    BY <1>1, <1>2
  <1>3. ASSUME NEW v \in Transfers, ReceiveChat(v)
        PROVE  /\ disk'[t].path \in Paths(t)' \union {NoPath}
               /\ pendingChat'[t].path \in Paths(t)' \union {NoPath}
               /\ shown' = shown
    <2>1. PICK auto \in AutoReceive :
            LET record == IF auto
                            THEN [state |-> "Transferring", path |-> FreshPath(v)]
                            ELSE [state |-> "Offered", path |-> NoPath] IN
            /\ disk' = [disk EXCEPT ![v] = record]
            /\ pendingChat' = [pendingChat EXCEPT ![v] = record]
            /\ auto => AutoAccept(v)
      BY <1>3 DEF ReceiveChat
    <2>2. shown' = shown
      BY <1>3 DEF ReceiveChat
    <2>3. CASE v = t /\ auto
      <3>1. FreshPath(t) \in Paths(t)'
        BY <2>1, <2>3, EmptiedIsThere DEF AutoAccept, Names
      <3>. QED BY <1>0, <2>1, <2>2, <2>3, <3>1
    <2>4. CASE v = t /\ ~auto
      BY <1>0, <2>1, <2>2, <2>4
    <2>5. CASE v # t
      BY <1>0, <1>1, <2>1, <2>2, <2>5
    <2>. QED BY <2>3, <2>4, <2>5
  <1>4. CASE WriteRecovered
    <2>1. PICK v \in Transfers : v = tcp.t
      BY InstallTypes
    <2>2. PICK p : p = tcp.path
      OBVIOUS
    <2>3. p \in Paths(v) \union {NoPath}
      BY <1>4, <2>1, <2>2 DEF PathsExist, TcpNamesPath, WriteRecovered
    <2>4. p \in Paths(v)' \union {NoPath}
      BY <2>3, NamedStays
    <2>5. /\ disk' = [disk EXCEPT ![tcp.t] = [state |-> "Interrupted", path |-> tcp.path]]
          /\ UNCHANGED <<pendingChat, shown>>
      BY <1>4 DEF WriteRecovered
    <2>. QED BY <1>0, <1>1, <2>1, <2>2, <2>4, <2>5
  <1>5. CASE DrainChatMessages
    <2>1. disk' = disk /\ pendingChat'[t] = NoRecord
      BY <1>5 DEF DrainChatMessages
    <2>2. CASE shown'[t] = shown[t]
      BY <1>1, <2>1, <2>2 DEF NoRecord
    <2>3. CASE shown'[t] = Append(shown[t], pendingChat[t]) /\ pendingChat[t] \in Records
      <3>1. shown[t] \in Seq(Records) /\ DOMAIN shown[t] = 1 .. Len(shown[t])
            /\ Len(shown[t]) \in Nat
        BY <1>0, LenProperties
      <3>2. /\ DOMAIN shown'[t] = 1 .. Len(shown[t]) + 1
            /\ \A i \in 1 .. Len(shown[t]) : shown'[t][i] = shown[t][i]
            /\ shown'[t][Len(shown[t]) + 1] = pendingChat[t]
        BY <2>3, <3>1, AppendProperties, LenProperties
      <3>. QED BY <1>1, <2>1, <3>1, <3>2 DEF NoRecord
    <2>. QED BY <1>5, <2>2, <2>3, DrainedCopies
  <1>6. CASE ApplyUpdate
    <2>1. PICK u : u = Head(ui.batch)
      OBVIOUS
    <2>2. /\ u \in Updates /\ u.t \in Transfers /\ u \in Queued
          /\ ChangesQueued(u) \/ ChangesShown(u) \/ ChangesStored(u) \/ PutsBack(u)
      BY <1>6, <2>1, ApplyCases DEF Queued
    <2>3. u.path \in Paths(u.t)' \union {NoPath}
      BY <2>2, NamedStays DEF PathsExist
    <2>4. ASSUME t = u.t, NEW record \in Records \union {NoRecord},
                 record.path \in Paths(t)' \union {NoPath}
          PROVE  Updated(record, u).path \in Paths(t)' \union {NoPath}
      BY <2>2, <2>3, <2>4, UpdatedType
    <2>5. CASE t # u.t
      <3>1. disk'[t] = disk[t] /\ pendingChat'[t] = pendingChat[t] /\ shown'[t] = shown[t]
        BY <1>0, <2>2, <2>5 DEF ChangesQueued, ChangesShown, ChangesStored, PutsBack
      <3>. QED BY <1>1, <3>1
    <2>6. CASE t = u.t /\ ChangesQueued(u)
      BY <1>0, <1>1, <2>4, <2>6 DEF ChangesQueued
    <2>7. CASE t = u.t /\ ChangesStored(u)
      BY <1>0, <1>1, <2>4, <2>7 DEF ChangesStored
    <2>8. CASE t = u.t /\ PutsBack(u)
      BY <1>2, <2>8 DEF PutsBack
    <2>9. CASE t = u.t /\ ChangesShown(u)
      <3>1. PICK i \in DOMAIN shown[t] :
              /\ shown' = [shown EXCEPT ![t] = [shown[t] EXCEPT ![i] = Updated(shown[t][i], u)]]
              /\ disk' = [disk EXCEPT ![t] = Updated(shown[t][i], u)]
              /\ pendingChat' = pendingChat
        BY <2>9 DEF ChangesShown
      <3>2. shown[t] \in Seq(Records) /\ i \in 1 .. Len(shown[t])
        BY <1>0, <3>1, LenProperties
      <3>3. shown[t][i] \in Records
        BY <3>2, ElementOfSeq
      <3>4. Updated(shown[t][i], u).path \in Paths(t)' \union {NoPath}
        BY <1>1, <2>4, <2>9, <3>1, <3>3
      <3>5. disk'[t] = Updated(shown[t][i], u)
            /\ shown'[t] = [shown[t] EXCEPT ![i] = Updated(shown[t][i], u)]
        BY <1>0, <3>1
      <3>. QED BY <1>1, <3>1, <3>4, <3>5
    <2>. QED BY <2>2, <2>5, <2>6, <2>7, <2>8, <2>9
  <1>7. ASSUME NEW p \in Peers, SelectPeer(p)
        PROVE  /\ disk'[t].path \in Paths(t)' \union {NoPath}
               /\ pendingChat' = pendingChat
               /\ \A i \in DOMAIN shown'[t] : shown'[t][i].path \in Paths(t)' \union {NoPath}
    <2>1. Recovered(t, disk[t]).path = disk[t].path
      BY <1>0, RecoveredType
    <2>2. disk'[t] \in {disk[t], Recovered(t, disk[t])} /\ pendingChat' = pendingChat
          /\ shown'[t] \in {<<>>, <<Recovered(t, disk[t])>>}
      BY <1>7 DEF SelectPeer
    <2>. QED BY <1>1, <2>1, <2>2
  <1>8. ASSUME NEW v \in Transfers, shown[v] # <<>>, NEW record \in Records, Rewrite(v, record),
               v = t => record.path \in Paths(t)' \union {NoPath}
        PROVE  /\ disk'[t].path \in Paths(t)' \union {NoPath}
               /\ \A i \in DOMAIN shown'[t] : shown'[t][i].path \in Paths(t)' \union {NoPath}
    <2>1. CASE v # t
      BY <1>0, <1>1, <1>8, <2>1, RewrittenCopy
    <2>2. CASE v = t
      <3>1. /\ disk'[t] = record /\ Len(shown'[t]) = Len(shown[t])
            /\ \A i \in DOMAIN shown[t] : shown'[t][i] = IF i = 1 THEN record ELSE shown[t][i]
            /\ shown'[t] \in Seq(Records) /\ shown[t] \in Seq(Records)
        BY <1>0, <1>8, <2>2, RewrittenCopy
      <3>2. DOMAIN shown'[t] = DOMAIN shown[t]
        BY <3>1, LenProperties
      <3>. QED BY <1>1, <1>8, <2>2, <3>1, <3>2
    <2>. QED BY <2>1, <2>2
  <1>9. CASE AcceptStep
    <2>1. CASE PrepareAccepted \/ ReplaceAccepted
      BY <1>2, <2>1 DEF PrepareAccepted, ReplaceAccepted, recordVars
    <2>2. CASE RecordAccepted
      <3>1. PICK v \in Transfers : v = accepting.t
        BY AcceptingTypes
      <3>2. PICK p \in Nat : p = accepting.path
        BY AcceptingTypes
      <3>. DEFINE record == [state |-> "Transferring", path |-> p]
      <3>3. shown[v] # <<>> /\ Rewrite(v, record) /\ pendingChat' = pendingChat
        BY <2>2, <3>1, <3>2 DEF RecordAccepted, AcceptRemembers
      <3>4. record \in Records /\ record.path = p
        BY MadeValues DEF States
      <3>5. p \in Paths(v)'
        <4>1. p \in Paths(v)
          BY <2>2, <3>1, <3>2 DEF RecordAccepted, PathsExist, UiNamesPath
        <4>. QED BY <4>1, PathsGrow
      <3>. HIDE DEF record
      <3>. QED BY <1>1, <1>8, <3>3, <3>4, <3>5
    <2>. QED BY <1>9, <2>1, <2>2 DEF AcceptStep
  <1>10. ASSUME NEW v \in Transfers, RejectTransfer(v)
        PROVE  /\ disk'[t].path \in Paths(t)' \union {NoPath}
               /\ pendingChat' = pendingChat
               /\ \A i \in DOMAIN shown'[t] : shown'[t][i].path \in Paths(t)' \union {NoPath}
    <2>. DEFINE record == [shown[v][1] EXCEPT !.state = "Rejected"]
    <2>1. shown[v] # <<>> /\ Rewrite(v, record) /\ pendingChat' = pendingChat
      BY <1>10 DEF RejectTransfer, UserSees
    <2>2. shown[v][1] \in Records /\ 1 \in DOMAIN shown[v]
      BY <2>1, AcceptTypes
    <2>3. record \in Records /\ record.path = shown[v][1].path
      BY <2>2 DEF Records, States
    <2>4. v = t => shown[v][1].path \in Paths(t)' \union {NoPath}
      BY <1>1, <2>2
    <2>. HIDE DEF record
    <2>. QED BY <1>8, <2>1, <2>3, <2>4
  <1>11. ASSUME NEW v \in Transfers, CancelTransfer(v)
        PROVE  /\ disk'[t].path \in Paths(t)' \union {NoPath}
               /\ pendingChat' = pendingChat
               /\ \A i \in DOMAIN shown'[t] : shown'[t][i].path \in Paths(t)' \union {NoPath}
    <2>. DEFINE path == IF Active(v) THEN pending[v].path ELSE shown[v][1].path
                record == [state |-> "Cancelled", path |-> path]
    <2>1. shown[v] # <<>> /\ Rewrite(v, record) /\ pendingChat' = pendingChat
      BY <1>11 DEF CancelTransfer, UserSees
    <2>2. shown[v][1] \in Records /\ 1 \in DOMAIN shown[v]
      BY <2>1, AcceptTypes
    <2>3. path \in Paths(v) \union {NoPath}
      BY <2>2 DEF PathsExist
    <2>4. path \in Paths(v)' \union {NoPath}
      BY <2>3, NamedStays
    <2>5. path \in Nat
      BY <2>3 DEF Paths, NoPath
    <2>6. record \in Records /\ record.path = path
      BY <2>5, MadeValues DEF States
    <2>. HIDE DEF record
    <2>. QED BY <1>8, <2>1, <2>4, <2>6
  <1>12. CASE Restart
    BY <1>1, <1>12 DEF Restart, NoRecord
  <1>13. CASE TcpStep
    BY <1>2, <1>4, <1>13
    DEF TcpStep, ReadOffer, SearchHistory, MeasureOffered, PrepareOffered, ReplaceOffered,
        InstallFails, ReadChunk, WriteChunk, WriteFails, CountChunk, ReadComplete,
        PublishComplete, EraseCompleted, EndConnection, recordVars
  <1>14. CASE SenderStep
    <2>1. ASSUME NEW v \in Transfers, NEW kind \in {"content", "resume"}, NEW offset \in Offsets,
                 ReceiveCancel(v) \/ OpenConnection(v, kind, offset)
          PROVE  UNCHANGED <<disk, pendingChat, shown>>
      BY <2>1 DEF ReceiveCancel, OpenConnection, recordVars
    <2>2. 0 \in Offsets
      BY TransferAssumptions
    <2>. QED BY <1>1, <1>2, <1>3, <1>14, <2>1, <2>2 DEF SenderStep
  <1>15. CASE UiStep
    <2>1. CASE DrainTransferUpdates \/ DrainStateUpdates
      BY <1>2, <2>1 DEF DrainTransferUpdates, DrainStateUpdates, recordVars
    <2>2. ASSUME NEW v \in Transfers, NEW overwrite \in BOOLEAN, BeginAccept(v, overwrite)
          PROVE  UNCHANGED <<disk, pendingChat, shown>>
      BY <2>2 DEF BeginAccept, recordVars
    <2>. QED BY <1>1, <1>2, <1>5, <1>6, <1>7, <1>9, <1>10, <1>11, <1>15, <2>1, <2>2
         DEF UiStep, RefreshStep
  <1>16. CASE TaskStep \/ UNCHANGED vars
    BY <1>2, <1>16 DEF TaskStep, AcceptSent, AcceptFails, recordVars, vars
  <1>. QED BY <1>12, <1>13, <1>14, <1>15, <1>16 DEF Next

\* What the handler remembers of the record or of the entry is the path of a file, and
\* one that is about to be written to or published is there.
LEMMA HandlerNamesPaths ==
  ASSUME TypeInv, PathsExist, [Next]_vars
  PROVE  TcpNamesPath'
PROOF
  <1>. USE DEF TypeInv
  <1>. DEFINE Making == {"replace", "write", "count", "publish"}
              Goal == TcpNamesPath'
  <1>0. PICK t \in Transfers : t = tcp.t
    BY InstallTypes
  <1>1. /\ tcp \in TcpStates
        /\ tcp.step # "prepare" => tcp.path \in Paths(t) \union {NoPath}
        /\ tcp.step \in Making => tcp.path # NoPath
        /\ Active(t) => pending[t].path \in Paths(t)
        /\ NoPath \notin Paths(t)
    BY <1>0 DEF PathsExist, TcpNamesPath, TypeOK, Paths, NoPath
  <1>2. ASSUME tcp'.path = NoPath, tcp'.step \notin Making, tcp'.step # "prepare"
        PROVE  Goal
    BY <1>2 DEF TcpNamesPath
  <1>3. ASSUME tcp'.t = t, tcp'.path \in Paths(t) \union {NoPath}, tcp'.step # "prepare",
               tcp'.step \in Making => tcp'.path # NoPath
        PROVE  Goal
    <2>1. tcp'.path \in Paths(t)' \union {NoPath}
      BY <1>3, PathsGrow
    <2>. QED BY <1>3, <2>1 DEF Paths, TcpNamesPath
  <1>. SUFFICES Goal
    OBVIOUS
  <1>. HIDE DEF Goal
  <1>4. CASE UNCHANGED tcp
    <2>1. CASE tcp.step = "prepare"
      <3>1. /\ tcp.path \in Names(t)' /\ (tcp.received # 0 => tcp.path \in Paths(t)')
        BY <1>0, <2>1, NamesGrow, PathsGrow DEF PathsExist, TcpNamesPath
      <3>. QED BY <1>0, <1>4, <2>1, <3>1 DEF Goal, TcpNamesPath, Names, Paths, FreshPath
    <2>. QED BY <1>0, <1>1, <1>3, <1>4, <2>1
  <1>5. CASE ReadOffer
    <2>1. tcp'.t = t /\ tcp'.path \in {NoPath, pending[t].path} /\ tcp'.step \in {"install", "history"}
          /\ (tcp'.path = pending[t].path => Active(t) \/ tcp'.path = NoPath)
      BY <1>0, <1>1, <1>5 DEF ReadOffer, TcpStates
    <2>. QED BY <1>1, <1>3, <2>1
  <1>6. CASE SearchHistory
    <2>. DEFINE first == CHOOSE i \in InterruptedShown(t) :
                           \A j \in InterruptedShown(t) : i <= j
                shownPath == IF InterruptedShown(t) # {} THEN shown[t][first].path ELSE NoPath
                stored == Recovered(t, disk[t])
    <2>1. shownPath \in Paths(t) \union {NoPath}
      BY FirstInterrupted DEF PathsExist
    <2>2. stored.path \in Paths(t) \union {NoPath}
      <3>1. disk[t] \in Records \union {NoRecord} /\ disk[t].path \in Paths(t) \union {NoPath}
        BY DEF TypeOK, PathsExist
      <3>. QED BY <3>1, RecoveredType
    <2>3. \E step \in {"recover", "install"}, found \in {"interrupted", "no"},
             path \in {shownPath, stored.path} :
            tcp' = [tcp EXCEPT !.step = step, !.found = found, !.path = path]
      BY <1>0, <1>6 DEF SearchHistory
    <2>. HIDE DEF shownPath, stored
    <2>4. tcp'.t = t /\ tcp'.path \in {shownPath, stored.path} /\ tcp'.step \in {"recover", "install"}
      BY <1>0, <1>1, <2>3 DEF TcpStates
    <2>. QED BY <1>3, <2>1, <2>2, <2>4
  <1>7. CASE WriteRecovered
    BY <1>0, <1>1, <1>3, <1>7 DEF WriteRecovered, TcpStates
  <1>8. CASE ReplaceOffered \/ InstallFails \/ EraseCompleted \/ EndConnection
    <2>1. tcp'.path = NoPath /\ tcp'.step \in {"accept", "read"}
      BY <1>8, WaitingTcp DEF ReplaceOffered, InstallFails, EraseCompleted, EndConnection
    <2>. QED BY <1>2, <2>1
  <1>19. CASE MeasureOffered
    <2>1. /\ tcp'.t = t /\ tcp'.step = "prepare" /\ tcp'.path = InstallPath
          /\ tcp'.received = InstallSize
      BY <1>0, <1>1, <1>19 DEF MeasureOffered, TcpStates
    <2>2. tcp.step = "install" /\ tcp.path \in Paths(t) \union {NoPath}
      BY <1>1, <1>19 DEF MeasureOffered
    <2>3. InstallPath \in Names(t) /\ InstallPath \in Nat
      BY <1>0, <2>2, InstallTypes DEF Names
    <2>4. InstallSize # 0 => InstallPath \in Paths(t)
      BY <1>0, <2>3, StoredSize DEF InstallSize
    <2>5. InstallPath \in Names(t)' /\ (InstallSize # 0 => InstallPath \in Paths(t)')
      BY <2>3, <2>4, NamesGrow, PathsGrow
    <2>. QED BY <2>1, <2>5 DEF Goal, TcpNamesPath, Names, Paths, FreshPath
  <1>20. CASE PrepareOffered
    <2>1. tcp'.t = t /\ tcp'.step = "replace" /\ tcp'.path = tcp.path /\ tcp.step = "prepare"
      BY <1>0, <1>1, <1>20 DEF PrepareOffered, TcpStates
    <2>2. tcp.path \in Names(t) /\ (tcp.received # 0 => tcp.path \in Paths(t))
      BY <1>0, <2>1 DEF PathsExist, TcpNamesPath
    <2>3. tcp.path \in Paths(t)'
      <3>1. CASE tcp.received = 0
        <4>1. files' = Emptied(t, tcp.path)
          BY <1>0, <1>20, <3>1 DEF PrepareOffered
        <4>. QED BY <2>2, <4>1, EmptiedIsThere
      <3>2. CASE tcp.received # 0
        BY <2>2, <3>2, PathsGrow
      <3>. QED BY <3>1, <3>2
    <2>4. tcp.path # NoPath
      BY <2>3, PathsGrow
    <2>. QED BY <2>1, <2>3, <2>4 DEF Goal, TcpNamesPath, Paths
  <1>9. CASE WriteFails \/ CountChunk
    <2>1. tcp' = [Returned EXCEPT !.offset = @ + 1]
      BY <1>9 DEF WriteFails, CountChunk
    <2>2. tcp'.path = NoPath /\ tcp'.step = "read"
      BY <2>1, WaitingTcp DEF TcpStates
    <2>. QED BY <1>2, <2>2
  <1>10. CASE ReadChunk
    <2>1. CASE Active(t) /\ pending[t].received = tcp.offset
      <3>1. tcp'.t = t /\ tcp'.path = pending[t].path /\ tcp'.step = "write"
        BY <1>0, <1>1, <1>10, <2>1 DEF ReadChunk, TcpStates
      <3>. QED BY <1>1, <1>3, <2>1, <3>1
    <2>2. CASE ~(Active(t) /\ pending[t].received = tcp.offset)
      <3>1. tcp'.t = t /\ tcp'.path = tcp.path /\ tcp'.step = "read" /\ tcp.step = "read"
        BY <1>0, <1>1, <1>10, <2>2 DEF ReadChunk, Reading, TcpStates
      <3>. QED BY <1>1, <1>3, <3>1
    <2>. QED BY <2>1, <2>2
  <1>11. CASE WriteChunk
    BY <1>0, <1>1, <1>3, <1>11 DEF WriteChunk, TcpStates
  <1>12. CASE ReadComplete
    <2>1. CASE Active(t) /\ pending[t].received = Size
      <3>1. tcp'.t = t /\ tcp'.path = pending[t].path /\ tcp'.step = "publish"
        BY <1>0, <1>1, <1>12, <2>1 DEF ReadComplete, TcpStates
      <3>. QED BY <1>1, <1>3, <2>1, <3>1
    <2>2. CASE ~(Active(t) /\ pending[t].received = Size)
      <3>1. tcp'.t = t /\ tcp'.path = tcp.path /\ tcp'.step = "read" /\ tcp.step = "read"
        BY <1>0, <1>1, <1>12, <2>2 DEF ReadComplete, Reading, TcpStates
      <3>. QED BY <1>1, <1>3, <3>1
    <2>. QED BY <2>1, <2>2
  <1>13. CASE PublishComplete
    BY <1>0, <1>1, <1>3, <1>13 DEF PublishComplete, TcpStates
  <1>14. CASE TcpStep
    BY <1>5, <1>6, <1>7, <1>8, <1>9, <1>10, <1>11, <1>12, <1>13, <1>14, <1>19, <1>20 DEF TcpStep
  <1>15. CASE SenderStep
    <2>1. ASSUME NEW v \in Transfers, NEW kind \in {"content", "resume"},
                 NEW offset \in Offsets, OpenConnection(v, kind, offset)
          PROVE  Goal
      <3>1. tcp'.path = NoPath /\ tcp'.step = "read"
        BY <2>1 DEF OpenConnection, IdleTcp
      <3>. QED BY <1>2, <3>1
    <2>2. ASSUME NEW v \in Transfers, ReceiveChat(v) \/ ReceiveCancel(v)
          PROVE  Goal
      BY <1>4, <2>2 DEF ReceiveChat, ReceiveCancel
    <2>. QED BY <1>15, <2>1, <2>2 DEF SenderStep
  <1>16. CASE UiStep
    BY <1>4, <1>16
    DEF UiStep, RefreshStep, AcceptStep, DrainChatMessages, DrainTransferUpdates,
        DrainStateUpdates, ApplyUpdate, SelectPeer, BeginAccept, PrepareAccepted,
        ReplaceAccepted, RecordAccepted, RejectTransfer, CancelTransfer
  <1>17. CASE TaskStep \/ UNCHANGED vars
    BY <1>4, <1>17 DEF TaskStep, AcceptSent, AcceptFails, vars
  <1>18. CASE Restart
    BY <1>2, <1>18, WaitingTcp DEF Restart
  <1>. QED BY <1>14, <1>15, <1>16, <1>17, <1>18 DEF Next

\* So does the accept handler.
LEMMA AcceptNamesPaths ==
  ASSUME TypeInv, PathsExist, [Next]_vars
  PROVE  UiNamesPath'
PROOF
  <1>. USE DEF TypeInv
  <1>0. PICK t \in Transfers : t = accepting.t
    BY AcceptingTypes
  <1>1. /\ ui.step = "prepare" => accepting.path \in Names(t)
        /\ ui.step \in {"replace", "record"} => accepting.path \in Paths(t)
    BY <1>0 DEF PathsExist, UiNamesPath
  <1>2. /\ ui.step = "prepare" => accepting.path \in Names(t)'
        /\ ui.step \in {"replace", "record"} => accepting.path \in Paths(t)'
    BY <1>1, NamesGrow, PathsGrow
  <1>3. CASE UNCHANGED <<ui, accepting>>
    BY <1>0, <1>2, <1>3 DEF UiNamesPath, Names, Paths, FreshPath
  <1>4. ASSUME ui'.step \notin {"prepare", "replace", "record"}
        PROVE  UiNamesPath'
    BY <1>4 DEF UiNamesPath
  <1>5. CASE Restart
    BY <1>4, <1>5 DEF Restart, IdleUi
  <1>6. CASE RefreshStep
    <2>1. ui'.step \notin {"prepare", "replace", "record"}
      BY <1>6, RefreshedUi
    <2>. QED BY <1>4, <2>1
  <1>7. CASE PrepareAccepted
    <2>1. ui'.step = "replace" /\ accepting' = accepting /\ files' = Emptied(t, accepting.path)
          /\ ui.step = "prepare"
      BY <1>0, <1>7 DEF PrepareAccepted, IdleUi, userVars
    <2>2. accepting.path \in Paths(t)'
      BY <1>1, <2>1, EmptiedIsThere
    <2>. QED BY <1>0, <2>1, <2>2 DEF UiNamesPath, Paths
  <1>8. CASE ReplaceAccepted
    <2>1. ui'.step = "record" /\ accepting' = accepting /\ ui.step = "replace"
      BY <1>8 DEF ReplaceAccepted, IdleUi, userVars
    <2>. QED BY <1>0, <1>2, <2>1 DEF UiNamesPath, Paths
  <1>9. CASE RecordAccepted
    BY <1>4, <1>9 DEF RecordAccepted, IdleUi
  <1>10. ASSUME NEW v \in Transfers, NEW overwrite \in BOOLEAN, BeginAccept(v, overwrite)
         PROVE  UiNamesPath'
    <2>1. shown[v] # <<>>
      BY <1>10 DEF BeginAccept, UserSees
    <2>2. PICK p \in Nat : p = AcceptPath(v, overwrite)
      BY <2>1, AcceptTypes
    <2>3. p \in Names(v)
      BY <2>1, <2>2, AcceptTypes DEF PathsExist, Names
    <2>4. accepting'.t = v /\ accepting'.path = p
      BY <1>10, <2>2 DEF BeginAccept
    <2>5. CASE shown[v][1].state = "Interrupted"
      <3>1. ui'.step = "replace"
            /\ files' = IF Stored(v, p) = 0 THEN Emptied(v, p) ELSE files
        BY <1>10, <2>2, <2>5 DEF BeginAccept, IdleUi
      <3>2. Stored(v, p) # 0 => p \in Paths(v)
        BY <2>2, StoredSize
      <3>3. p \in Paths(v)'
        BY <2>3, <3>1, <3>2, EmptiedIsThere, PathsGrow
      <3>. QED BY <2>4, <3>1, <3>3 DEF UiNamesPath, Paths
    <2>6. CASE shown[v][1].state # "Interrupted"
      <3>1. ui'.step = "prepare"
        BY <1>10, <2>6 DEF BeginAccept, IdleUi
      <3>2. p \in Names(v)'
        BY <2>3, NamesGrow
      <3>. QED BY <2>4, <3>1, <3>2 DEF UiNamesPath, Names, Paths, FreshPath
    <2>. QED BY <2>5, <2>6
  <1>11. ASSUME NEW v \in Transfers, RejectTransfer(v) \/ CancelTransfer(v)
         PROVE  UiNamesPath'
    BY <1>3, <1>11 DEF RejectTransfer, CancelTransfer, userVars
  <1>12. ASSUME NEW p \in Peers, SelectPeer(p)
         PROVE  UiNamesPath'
    BY <1>3, <1>12 DEF SelectPeer, userVars
  <1>13. CASE ~UiStep /\ ~Restart
    BY <1>3, <1>13, AcceptFrame
  <1>. QED BY <1>5, <1>6, <1>7, <1>8, <1>9, <1>10, <1>11, <1>12, <1>13 DEF UiStep, AcceptStep

LEMMA PathsStep == TypeInv /\ PathsExist /\ [Next]_vars => PathsExist'
PROOF
  BY EntriesNamePaths, UpdatesNamePaths, RecordsNamePaths, HandlerNamesPaths, AcceptNamesPaths
  DEF PathsExist

LEMMA PathsAtFirst == Init => PathsExist
PROOF
  <1>. SUFFICES ASSUME Init PROVE PathsExist
    OBVIOUS
  <1>1. Queued = {}
    BY DEF Init, IdleUi, Queued, Range
  <1>2. \A t \in Transfers : DOMAIN shown[t] = {}
    BY EmptySeq DEF Init
  <1>. QED BY <1>1, <1>2
    DEF Init, PathsExist, TcpNamesPath, UiNamesPath, Active, NoRecord, IdleTcp, IdleUi

LEMMA PathsInvariant == Spec => []PathsExist
PROOF
  BY PathsAtFirst, PathsStep, TypesInvariant, PTL DEF Spec
-----------------------------------------------------------------------------
(* The files.                                                                *)

\* A step that neither writes to the file of t nor adds an entry, and where a handler that
\* stops to hold t published what it held or leaves no entry.
LEMMA FileStays ==
  ASSUME NEW t \in Transfers, FileIntact(t), files'[t] = files[t],
         pending'[t] \in {pending[t], NoPending},
         \/ UNCHANGED <<ui, accepting>>
         \/ ~UiHolds(t)' /\ (~UiReplaces(t) \/ ~Active(t)'),
         \/ tcp' = tcp
         \/ ~TcpHolds(t)' /\ ((~TcpReplaces(t) /\ Uncounted(t) = 0) \/ ~Active(t)')
  PROVE  FileIntact(t)'
PROOF
  <1>1. (Beginnings(t) /\ EntryCounts(t) /\ UiCounts(t) /\ TcpCounts(t))
        /\ ~(UiHolds(t) /\ TcpHolds(t))
    BY DEF FileIntact
  <1>2. Beginnings(t)'
    BY <1>1 DEF Beginnings, Paths
  <1>3. Active(t)' => pending'[t] = pending[t] /\ Active(t)
    BY DEF Active
  <1>4. /\ UNCHANGED <<ui, accepting>> => (UiHolds(t)' <=> UiHolds(t)) /\ (UiReplaces(t)' <=> UiReplaces(t))
        /\ ~UiHolds(t)' => ~UiReplaces(t)'
    BY DEF UiHolds, UiReplaces
  <1>5. /\ tcp' = tcp => /\ (TcpHolds(t)' <=> TcpHolds(t)) /\ (TcpReplaces(t)' <=> TcpReplaces(t))
                         /\ Uncounted(t)' = Uncounted(t)
        /\ ~TcpHolds(t)' => ~TcpReplaces(t)' /\ Uncounted(t)' = 0
    BY DEF TcpHolds, TcpReplaces, Uncounted
  <1>6. ~(UiHolds(t)' /\ TcpHolds(t)')
    BY <1>1, <1>4, <1>5
  <1>7. UiCounts(t)'
    BY <1>1, <1>4 DEF UiCounts
  <1>8. EntryCounts(t)'
    <2>1. ASSUME Active(t)', ~UiReplaces(t)', ~TcpReplaces(t)'
          PROVE  Active(t) /\ ~UiReplaces(t) /\ ~TcpReplaces(t) /\ Uncounted(t)' = Uncounted(t)
      BY <1>3, <1>4, <1>5, <2>1
    <2>. QED BY <1>1, <1>3, <2>1 DEF EntryCounts
  <1>9. TcpCounts(t)'
    <2>1. CASE tcp' = tcp
      <3>1. Uncounted(t)' = Uncounted(t) /\ (TcpReplaces(t)' => TcpReplaces(t))
        BY <1>5, <2>1
      <3>. QED BY <1>1, <1>3, <2>1, <3>1 DEF TcpCounts
    <2>2. CASE ~TcpHolds(t)'
      BY <2>2 DEF TcpHolds, TcpReplaces, TcpCounts
    <2>. QED BY <2>1, <2>2
  <1>. QED BY <1>2, <1>6, <1>7, <1>8, <1>9 DEF FileIntact

\* A step of the TCP thread that works on another transfer.
LEMMA FileOfOther ==
  ASSUME TypeInv, NEW t \in Transfers, FileIntact(t), t # tcp.t, tcp'.t = tcp.t,
         files'[t] = files[t], pending'[t] \in {pending[t], NoPending},
         UNCHANGED <<ui, accepting>>
  PROVE  FileIntact(t)'
PROOF
  <1>1. ~TcpHolds(t)' /\ ~TcpReplaces(t) /\ Uncounted(t) = 0
    BY DEF TcpHolds, TcpReplaces, Uncounted
  <1>. QED BY <1>1, FileStays

\* An empty file is intact, and so is one that is extended by the chunk that is next.
LEMMA IntactFiles ==
  /\ Intact(<<>>)
  /\ \A file \in Seq(Offsets) :
       Intact(file) /\ Len(file) < Size => Intact(Append(file, Len(file)))
PROOF
  <1>1. Intact(<<>>)
    BY SizeAssumption, EmptySeq DEF Intact
  <1>2. ASSUME NEW file \in Seq(Offsets), Intact(file), Len(file) < Size
        PROVE  Intact(Append(file, Len(file)))
    <2>1. Len(file) \in Nat /\ Len(file) \in Offsets
      BY <1>2, LenProperties, SizeAssumption DEF Offsets
    <2>2. /\ Len(Append(file, Len(file))) = Len(file) + 1
          /\ \A k \in 1 .. Len(file) : Append(file, Len(file))[k] = file[k]
          /\ Append(file, Len(file))[Len(file) + 1] = Len(file)
      BY <2>1, AppendProperties
    <2>. QED BY <1>2, <2>1, <2>2, SizeAssumption DEF Intact
  <1>. QED BY <1>1, <1>2

\* A file is made or emptied.
LEMMA FilesEmptied ==
  ASSUME TypeInv, NEW t \in Transfers, NEW p \in Names(t), files' = Emptied(t, p)
  PROVE  /\ \A v \in Transfers \ {t} : files'[v] = files[v]
         /\ p \in Paths(t)' /\ Len(files'[t][p]) = 0
         /\ \A m \in Paths(t) \ {p} : files'[t][m] = files[t][m]
         /\ Beginnings(t) => Beginnings(t)'
PROOF
  <1>. USE DEF TypeInv
  <1>1. Len(files[t]) \in Nat /\ p \in Paths(t) \union {FreshPath(t)}
    BY LenProperties DEF TypeOK, Names
  <1>2. p \in Paths(t)' /\ files'[t][p] = <<>> /\ Len(<<>>) = 0
    BY <1>1, EmptiedFile, EmptySeq DEF Paths
  <1>3. \A v \in Transfers \ {t} : files'[v] = files[v]
    BY <1>1, EmptiedFile
  <1>4. \A m \in Paths(t)' \ {p} : m \in Paths(t)
    BY <1>1, EmptiedFile DEF Paths, FreshPath
  <1>5. \A m \in Paths(t) \ {p} : files'[t][m] = files[t][m]
    BY <1>1, EmptiedFile
  <1>6. ASSUME Beginnings(t)
        PROVE  Beginnings(t)'
    <2>1. \A m \in Paths(t)' : Intact(files'[t][m])
      BY <1>2, <1>4, <1>5, <1>6, IntactFiles DEF Beginnings
    <2>. QED BY <2>1 DEF Beginnings, Intact
  <1>. QED BY <1>2, <1>3, <1>5, <1>6

LEMMA FilesReceiveChat ==
  ASSUME TypeInv, PathsExist, FilesAreIntact, NEW t \in Transfers, ReceiveChat(t)
  PROVE  FilesAreIntact'
PROOF
  <1>. USE DEF TypeInv
  <1>1. tcp' = tcp /\ raced' = raced /\ tcp.step = "accept" /\ UNCHANGED <<ui, accepting>>
    BY DEF ReceiveChat
  <1>2. ASSUME NEW v \in Transfers, v \notin raced', files'[v] = files[v], pending'[v] = pending[v]
        PROVE  FileIntact(v)'
    <2>1. FileIntact(v)
      BY <1>1, <1>2 DEF FilesAreIntact
    <2>. QED BY <1>1, <1>2, <2>1, FileStays
  <1>3. CASE AutoAccept(t)
    <2>1. PICK p \in Names(t) : p = FreshPath(t)
      BY DEF Names
    <2>2. /\ files' = Emptied(t, p)
          /\ pending' = [pending EXCEPT ![t] = [path |-> p, received |-> 0]]
      BY <1>3, <2>1 DEF AutoAccept
    <2>3. /\ \A v \in Transfers \ {t} : files'[v] = files[v] /\ pending'[v] = pending[v]
          /\ pending'[t].path = p /\ pending'[t].received = 0
      BY <2>2, FilesEmptied DEF TypeOK
    <2>4. ASSUME t \notin raced'
          PROVE  FileIntact(t)'
      <3>1. Beginnings(t) /\ UiCounts(t)
        BY <1>1, <2>4 DEF FilesAreIntact, FileIntact
      <3>2. Beginnings(t)' /\ Len(files'[t][p]) = 0
        BY <2>2, <3>1, FilesEmptied
      <3>3. ~TcpHolds(t)' /\ ~TcpReplaces(t)' /\ Uncounted(t)' = 0 /\ TcpCounts(t)'
        BY <1>1 DEF TcpHolds, TcpReplaces, Uncounted, TcpCounts
      <3>4. EntryCounts(t)'
        BY <2>3, <3>2, <3>3 DEF EntryCounts
      <3>5. UiCounts(t)'
        <4>1. UiReplaces(t) => files'[t][accepting.path] = files[t][accepting.path]
          <5>1. UiReplaces(t) => accepting.path \in Paths(t)
            BY DEF UiReplaces, PathsExist, UiNamesPath
          <5>2. p \notin Paths(t)
            BY <2>1, LenProperties DEF TypeOK, FreshPath, Paths
          <5>. QED BY <2>2, <5>1, <5>2, FilesEmptied
        <4>. QED BY <1>1, <3>1, <4>1 DEF UiCounts, UiReplaces
      <3>. QED BY <3>2, <3>3, <3>4, <3>5 DEF FileIntact
    <2>5. \A v \in Transfers \ {t} : v \notin raced' => FileIntact(v)'
      BY <1>2, <2>3
    <2>. QED BY <2>4, <2>5 DEF FilesAreIntact
  <1>4. CASE UNCHANGED <<files, pending>>
    BY <1>2, <1>4 DEF FilesAreIntact
  <1>. QED BY <1>3, <1>4 DEF ReceiveChat

\* The handler of an Offer looks at a file that nobody else holds, ...
LEMMA FilesMeasureOffered ==
  ASSUME TypeInv, PathsExist, FilesAreIntact, MeasureOffered
  PROVE  FilesAreIntact'
PROOF
  <1>. USE DEF TypeInv
  <1>0. PICK t \in Transfers : t = tcp.t
    BY InstallTypes
  <1>1. /\ UNCHANGED <<files, pending, ui, accepting>> /\ tcp.step = "install" /\ tcp \in TcpStates
        /\ raced' = Races(t, UiHolds(t))
    BY <1>0 DEF MeasureOffered, userVars, TypeOK
  <1>2. /\ tcp'.t = t /\ tcp'.step = "prepare" /\ tcp'.path = InstallPath
        /\ tcp'.received = InstallSize
    BY <1>0, <1>1 DEF MeasureOffered, TcpStates
  <1>3. InstallSize # 0 => InstallSize = Len(files[t][InstallPath])
    BY <1>0, InstallTypes, StoredSize DEF InstallSize
  <1>4. raced \subseteq raced' /\ (t \notin raced' => ~UiHolds(t))
    BY <1>1 DEF Races
  <1>5. ASSUME t \notin raced'
        PROVE  FileIntact(t)'
    <2>1. FileIntact(t) /\ ~UiHolds(t)
      BY <1>4, <1>5 DEF FilesAreIntact
    <2>2. Beginnings(t)' /\ UiCounts(t)' /\ ~UiHolds(t)'
      BY <1>1, <2>1 DEF FileIntact, Beginnings, Paths, UiCounts, UiReplaces, UiHolds
    <2>3. /\ ~TcpReplaces(t) /\ Uncounted(t) = 0 /\ Uncounted(t)' = 0
          /\ ~UiReplaces(t)
      BY <1>1, <1>2, <2>1 DEF TcpReplaces, Uncounted, UiReplaces, UiHolds
    <2>4. EntryCounts(t)'
      BY <1>1, <2>1, <2>3 DEF FileIntact, EntryCounts, Active
    <2>5. TcpCounts(t)'
      BY <1>1, <1>2, <1>3 DEF TcpCounts, TcpReplaces
    <2>. QED BY <2>2, <2>4, <2>5 DEF FileIntact
  <1>6. ASSUME NEW v \in Transfers, v # t, v \notin raced'
        PROVE  FileIntact(v)'
    BY <1>0, <1>1, <1>2, <1>4, <1>6, FileOfOther DEF FilesAreIntact
  <1>. QED BY <1>5, <1>6 DEF FilesAreIntact

\* ... empties it unless some of it is kept, ...
LEMMA FilesPrepareOffered ==
  ASSUME TypeInv, PathsExist, FilesAreIntact, PrepareOffered
  PROVE  FilesAreIntact'
PROOF
  <1>. USE DEF TypeInv
  <1>0. PICK t \in Transfers : t = tcp.t
    BY InstallTypes
  <1>1. /\ UNCHANGED <<pending, ui, accepting, raced>> /\ tcp.step = "prepare" /\ tcp \in TcpStates
        /\ tcp.received \in Nat
    BY SizeAssumption DEF PrepareOffered, userVars, TypeOK, TcpStates, Offsets
  <1>2. PICK p \in Names(t) : p = tcp.path
    BY <1>0, <1>1 DEF PathsExist, TcpNamesPath
  <1>3. /\ tcp'.t = t /\ tcp'.step = "replace" /\ tcp'.path = p
        /\ tcp'.received = tcp.received
        /\ files' = IF tcp.received = 0 THEN Emptied(t, p) ELSE files
    BY <1>0, <1>1, <1>2 DEF PrepareOffered, TcpStates
  <1>4. ASSUME t \notin raced'
        PROVE  FileIntact(t)'
    <2>1. Beginnings(t) /\ TcpCounts(t) /\ ~(UiHolds(t) /\ TcpHolds(t))
      BY <1>1, <1>4 DEF FilesAreIntact, FileIntact
    <2>2. ~UiHolds(t)' /\ UiCounts(t)'
      BY <1>0, <1>1, <2>1 DEF UiHolds, TcpHolds, UiCounts, UiReplaces
    <2>3. TcpReplaces(t)' /\ EntryCounts(t)'
      BY <1>3 DEF TcpReplaces, EntryCounts
    <2>4. Beginnings(t)' /\ tcp.received = Len(files'[t][p])
      <3>1. CASE tcp.received = 0
        BY <1>3, <2>1, <3>1, FilesEmptied
      <3>2. CASE tcp.received # 0
        BY <1>0, <1>1, <1>2, <1>3, <2>1, <3>2 DEF TcpCounts, Beginnings, Paths
      <3>. QED BY <3>1, <3>2
    <2>5. TcpCounts(t)'
      BY <1>3, <2>4 DEF TcpCounts
    <2>. QED BY <2>2, <2>3, <2>4, <2>5 DEF FileIntact
  <1>5. ASSUME NEW v \in Transfers, v # t, v \notin raced'
        PROVE  FileIntact(v)'
    <2>1. files'[v] = files[v] /\ FileIntact(v)
      BY <1>1, <1>3, <1>5, FilesEmptied DEF FilesAreIntact
    <2>. QED BY <1>0, <1>1, <1>3, <1>5, <2>1, FileOfOther
  <1>. QED BY <1>4, <1>5 DEF FilesAreIntact

\* ... and publishes what it holds.
LEMMA FilesReplaceOffered ==
  ASSUME TypeInv, PathsExist, FilesAreIntact, ReplaceOffered
  PROVE  FilesAreIntact'
PROOF
  <1>. USE DEF TypeInv
  <1>0. PICK t \in Transfers : t = tcp.t
    BY InstallTypes
  <1>1. /\ UNCHANGED <<files, ui, accepting, raced>> /\ tcp.step = "replace"
        /\ tcp.received \in Nat
        /\ pending' = [pending EXCEPT ![t] = [path |-> tcp.path, received |-> tcp.received]]
    BY <1>0, SizeAssumption DEF ReplaceOffered, userVars, TypeOK, TcpStates, Offsets
  <1>2. tcp'.step \in {"accept", "read"}
    BY WaitingTcp DEF ReplaceOffered
  <1>3. /\ \A v \in Transfers \ {t} : pending'[v] = pending[v]
        /\ pending'[t].path = tcp.path /\ pending'[t].received = tcp.received
    BY <1>1 DEF TypeOK
  <1>4. ASSUME NEW v \in Transfers
        PROVE  ~TcpHolds(v)' /\ ~TcpReplaces(v)' /\ Uncounted(v)' = 0 /\ TcpCounts(v)'
    BY <1>2 DEF TcpHolds, TcpReplaces, Uncounted, TcpCounts
  <1>5. ASSUME t \notin raced'
        PROVE  FileIntact(t)'
    <2>1. Beginnings(t) /\ UiCounts(t) /\ TcpCounts(t) /\ ~(UiHolds(t) /\ TcpHolds(t))
      BY <1>1, <1>5 DEF FilesAreIntact, FileIntact
    <2>2. Beginnings(t)' /\ UiCounts(t)'
      BY <1>1, <2>1 DEF Beginnings, Paths, UiCounts, UiReplaces
    <2>3. tcp.received = Len(files[t][tcp.path])
      BY <1>0, <1>1, <2>1 DEF TcpCounts, TcpReplaces
    <2>4. EntryCounts(t)'
      BY <1>1, <1>3, <1>4, <2>3 DEF EntryCounts
    <2>. QED BY <1>4, <2>2, <2>4 DEF FileIntact
  <1>6. ASSUME NEW v \in Transfers, v # t, v \notin raced'
        PROVE  FileIntact(v)'
    <2>1. FileIntact(v) /\ ~TcpReplaces(v) /\ Uncounted(v) = 0
      BY <1>0, <1>1, <1>6 DEF FilesAreIntact, TcpReplaces, Uncounted
    <2>. QED BY <1>1, <1>3, <1>4, <1>6, <2>1, FileStays
  <1>. QED BY <1>5, <1>6 DEF FilesAreIntact

\* The handler of a chunk or of a Complete begins to hold the transfer, or fails.
LEMMA FilesReadFails ==
  ASSUME TypeInv, FilesAreIntact, tcp.step = "read", tcp'.step = "read", raced' = raced,
         UNCHANGED <<files, ui, accepting>>,
         \A v \in Transfers : pending'[v] \in {pending[v], NoPending}
  PROVE  FilesAreIntact'
PROOF
  <1>1. ASSUME NEW v \in Transfers, v \notin raced'
        PROVE  FileIntact(v)'
    <2>1. FileIntact(v) /\ ~TcpHolds(v)' /\ ~TcpReplaces(v) /\ Uncounted(v) = 0
      BY <1>1 DEF FilesAreIntact, TcpHolds, TcpReplaces, Uncounted
    <2>. QED BY <1>1, <2>1, FileStays
  <1>. QED BY <1>1 DEF FilesAreIntact

LEMMA FilesReadHolds ==
  ASSUME TypeInv, PathsExist, FilesAreIntact, NEW t \in Transfers, t = tcp.t, Active(t), tcp.step = "read",
         tcp'.t = t, tcp'.path = pending[t].path,
         \/ tcp'.step = "write" /\ tcp'.received = pending[t].received
         \/ tcp'.step = "publish" /\ pending[t].received = Size,
         raced' = Races(t, UiHolds(t)), UNCHANGED <<files, pending, ui, accepting>>
  PROVE  FilesAreIntact'
PROOF
  <1>. USE DEF TypeInv
  <1>1. raced \subseteq raced' /\ (t \notin raced' => ~UiHolds(t))
    BY DEF Races
  <1>2. /\ pending[t] = [path |-> pending[t].path, received |-> pending[t].received]
        /\ pending[t].received \in Nat
    BY SizeAssumption DEF TypeOK, Pendings, Offsets
  <1>3. ASSUME t \notin raced'
        PROVE  FileIntact(t)'
    <2>1. FileIntact(t) /\ ~UiHolds(t)
      BY <1>1, <1>3 DEF FilesAreIntact
    <2>2. Beginnings(t)' /\ UiCounts(t)' /\ ~UiHolds(t)'
      BY <2>1 DEF FileIntact, Beginnings, Paths, UiCounts, UiReplaces, UiHolds
    <2>3. /\ ~TcpReplaces(t) /\ Uncounted(t) = 0 /\ Uncounted(t)' = 0
          /\ ~UiReplaces(t) /\ ~TcpReplaces(t)'
      BY <2>1 DEF TcpReplaces, Uncounted, UiReplaces, UiHolds
    <2>4. EntryCounts(t)'
      BY <2>1, <2>3 DEF FileIntact, EntryCounts, Active
    <2>5. pending[t].received = Len(files[t][pending[t].path]) - 0
      BY <2>1, <2>3 DEF FileIntact, EntryCounts
    <2>6. Len(files[t][pending[t].path]) \in Nat
      <3>1. files[t] \in Seq(Seq(Offsets)) /\ pending[t].path \in Paths(t)
        BY DEF TypeOK, PathsExist
      <3>. QED BY <3>1, ElementOfSeq, LenProperties DEF Paths
    <2>7. TcpCounts(t)'
      BY <1>2, <2>3, <2>5, <2>6 DEF TcpCounts
    <2>. QED BY <2>2, <2>4, <2>7 DEF FileIntact
  <1>4. ASSUME NEW v \in Transfers, v # t, v \notin raced'
        PROVE  FileIntact(v)'
    BY <1>1, <1>4, FileOfOther DEF FilesAreIntact
  <1>. QED BY <1>3, <1>4 DEF FilesAreIntact

LEMMA FilesReadChunk ==
  ASSUME TypeInv, PathsExist, FilesAreIntact, ReadChunk
  PROVE  FilesAreIntact'
PROOF
  <1>. USE DEF TypeInv
  <1>0. PICK t \in Transfers : t = tcp.t
    BY InstallTypes
  <1>1. UNCHANGED <<files, ui, accepting>> /\ tcp.step = "read" /\ tcp \in TcpStates
    BY DEF ReadChunk, Reading, TypeOK, userVars
  <1>2. CASE Active(t) /\ pending[t].received = tcp.offset
    <2>1. /\ tcp'.step = "write" /\ tcp'.t = t /\ tcp'.path = pending[t].path
          /\ tcp'.received = pending[t].received /\ pending' = pending
          /\ raced' = Races(t, UiHolds(t))
      BY <1>0, <1>1, <1>2 DEF ReadChunk, TcpStates
    <2>. QED BY <1>0, <1>1, <1>2, <2>1, FilesReadHolds
  <1>3. CASE ~(Active(t) /\ pending[t].received = tcp.offset)
    <2>1. /\ \E offer \in BOOLEAN : FailFrame(t, offer)
          /\ tcp' = [tcp EXCEPT !.offset = @ + 1] /\ raced' = raced
      BY <1>0, <1>3 DEF ReadChunk
    <2>2. \A v \in Transfers : pending'[v] \in {pending[v], NoPending}
      BY <2>1, FailFrameQueues
    <2>3. tcp'.step = "read"
      BY <1>1, <2>1 DEF TcpStates
    <2>. QED BY <1>1, <2>1, <2>2, <2>3, FilesReadFails
  <1>. QED BY <1>2, <1>3

LEMMA FilesReadComplete ==
  ASSUME TypeInv, PathsExist, FilesAreIntact, ReadComplete
  PROVE  FilesAreIntact'
PROOF
  <1>. USE DEF TypeInv
  <1>0. PICK t \in Transfers : t = tcp.t
    BY InstallTypes
  <1>1. UNCHANGED <<files, ui, accepting>> /\ tcp.step = "read" /\ tcp \in TcpStates
    BY DEF ReadComplete, Reading, TypeOK, userVars
  <1>2. CASE Active(t) /\ pending[t].received = Size
    <2>1. /\ tcp'.step = "publish" /\ tcp'.t = t /\ tcp'.path = pending[t].path
          /\ pending' = pending /\ raced' = Races(t, UiHolds(t))
      BY <1>0, <1>1, <1>2 DEF ReadComplete, TcpStates
    <2>. QED BY <1>0, <1>1, <1>2, <2>1, FilesReadHolds
  <1>3. CASE ~(Active(t) /\ pending[t].received = Size)
    <2>1. /\ \E offer \in BOOLEAN : FailFrame(t, offer)
          /\ tcp' = [tcp EXCEPT !.phase = "done"] /\ raced' = raced
      BY <1>0, <1>3 DEF ReadComplete
    <2>2. \A v \in Transfers : pending'[v] \in {pending[v], NoPending}
      BY <2>1, FailFrameQueues
    <2>3. tcp'.step = "read"
      BY <1>1, <2>1 DEF TcpStates
    <2>. QED BY <1>1, <2>1, <2>2, <2>3, FilesReadFails
  <1>. QED BY <1>2, <1>3

\* The chunk extends the file that it was checked against.
LEMMA FilesWriteChunk ==
  ASSUME TypeInv, PathsExist, FilesAreIntact, WriteChunk
  PROVE  FilesAreIntact'
PROOF
  <1>. USE DEF TypeInv
  <1>0. PICK t \in Transfers : t = tcp.t
    BY InstallTypes
  <1>1. PICK p \in Paths(t) : p = tcp.path
    BY <1>0 DEF PathsExist, TcpNamesPath, WriteChunk
  <1>2. /\ UNCHANGED <<pending, ui, accepting, raced>> /\ tcp.step = "write" /\ tcp \in TcpStates
        /\ tcp' = [tcp EXCEPT !.step = "count"]
    BY DEF WriteChunk, TypeOK, userVars
  <1>3. tcp'.t = t /\ tcp'.path = p /\ tcp'.received = tcp.received /\ tcp'.step = "count"
        /\ tcp.received = tcp.offset /\ tcp.offset < Size /\ tcp.offset \in Nat
    BY <1>0, <1>1, <1>2, SizeAssumption DEF TcpStates, HandlerRemembers, Offsets
  <1>4. /\ \A v \in Transfers \ {t} : files'[v] = files[v]
        /\ Len(files'[t]) = Len(files[t])
        /\ \A n \in Paths(t) : files'[t][n] = IF n = p THEN Append(files[t][n], tcp.offset)
                                                       ELSE files[t][n]
    BY <1>0, <1>1, WrittenFile
  <1>5. files[t][p] \in Seq(Offsets) /\ tcp.offset \in Offsets
    <2>1. files[t] \in Seq(Seq(Offsets)) /\ p \in 1 .. Len(files[t])
      BY <1>1 DEF TypeOK, Paths
    <2>. QED BY <1>2, <2>1, ElementOfSeq DEF TcpStates
  <1>6. Len(Append(files[t][p], tcp.offset)) = Len(files[t][p]) + 1 /\ Len(files[t][p]) \in Nat
    BY <1>5, AppendProperties, LenProperties
  <1>7. ASSUME t \notin raced'
        PROVE  FileIntact(t)'
    <2>1. Beginnings(t) /\ TcpCounts(t) /\ ~(UiHolds(t) /\ TcpHolds(t))
      BY <1>2, <1>7 DEF FilesAreIntact, FileIntact
    <2>2. Uncounted(t) = 0 /\ Uncounted(t)' = 1 /\ TcpHolds(t)
      BY <1>0, <1>2, <1>3 DEF Uncounted, TcpHolds
    <2>3. ~UiHolds(t)' /\ UiCounts(t)'
      BY <1>2, <2>1, <2>2 DEF UiHolds, UiCounts, UiReplaces
    <2>4. /\ Len(files[t][p]) = tcp.received + 0
          /\ Active(t) => pending[t] = [path |-> p, received |-> tcp.received]
      BY <1>0, <1>1, <1>2, <2>1, <2>2 DEF TcpCounts
    <2>5. Beginnings(t)'
      <3>1. Len(files[t][p]) = tcp.offset /\ Intact(files[t][p])
        BY <1>1, <1>3, <2>1, <2>4 DEF Beginnings
      <3>2. Intact(Append(files[t][p], tcp.offset))
        BY <1>3, <1>5, <3>1, IntactFiles
      <3>3. \A n \in Paths(t)' : Intact(files'[t][n])
        BY <1>4, <2>1, <3>2 DEF Paths, Beginnings
      <3>. QED BY <3>3 DEF Beginnings, Intact
    <2>6. Len(files'[t][p]) = tcp.received + 1 /\ tcp.received \in Nat
      <3>1. files'[t][p] = Append(files[t][p], tcp.offset)
        BY <1>1, <1>4
      <3>2. tcp.received \in Nat /\ Len(files[t][p]) = tcp.received
        BY <1>3, <2>4
      <3>. QED BY <1>6, <3>1, <3>2
    <2>7. Active(t)' => /\ pending'[t] = [path |-> p, received |-> tcp.received]
                        /\ pending'[t].path = p /\ pending'[t].received = tcp.received
      BY <1>2, <2>4 DEF Active
    <2>8. EntryCounts(t)'
      BY <2>2, <2>6, <2>7 DEF EntryCounts
    <2>9. TcpCounts(t)'
      BY <1>3, <2>2, <2>6, <2>7 DEF TcpCounts, TcpReplaces
    <2>. QED BY <2>3, <2>5, <2>8, <2>9 DEF FileIntact
  <1>8. ASSUME NEW v \in Transfers, v # t, v \notin raced'
        PROVE  FileIntact(v)'
    <2>1. FileIntact(v) /\ files'[v] = files[v]
      BY <1>2, <1>4, <1>8 DEF FilesAreIntact
    <2>. QED BY <1>0, <1>2, <1>3, <1>8, <2>1, FileOfOther
  <1>. QED BY <1>7, <1>8 DEF FilesAreIntact

LEMMA FilesCountChunk ==
  ASSUME TypeInv, PathsExist, FilesAreIntact, CountChunk
  PROVE  FilesAreIntact'
PROOF
  <1>. USE DEF TypeInv
  <1>0. PICK t \in Transfers : t = tcp.t
    BY InstallTypes
  <1>1. /\ UNCHANGED <<files, ui, accepting, raced>> /\ tcp.step = "count" /\ tcp \in TcpStates
        /\ pending \in [Transfers -> Pendings] /\ tcp.received \in Nat
    BY SizeAssumption DEF CountChunk, TypeOK, TcpStates, Offsets, userVars
  <1>2. tcp'.step = "read"
    <2>1. tcp' = [Returned EXCEPT !.offset = @ + 1]
      BY DEF CountChunk
    <2>. QED BY <2>1, WaitingTcp DEF TcpStates
  <1>3. ASSUME NEW v \in Transfers
        PROVE  ~TcpHolds(v)' /\ ~TcpReplaces(v)' /\ Uncounted(v)' = 0 /\ TcpCounts(v)'
    BY <1>2 DEF TcpHolds, TcpReplaces, Uncounted, TcpCounts
  <1>4. CASE Active(t)
    <2>1. pending' = [pending EXCEPT ![t].received = tcp.received + 1]
      BY <1>0, <1>4 DEF CountChunk
    <2>2. /\ pending'[t].path = pending[t].path /\ pending'[t].received = tcp.received + 1
          /\ \A v \in Transfers \ {t} : pending'[v] = pending[v]
      BY <1>1, <2>1 DEF Pendings
    <2>3. ASSUME t \notin raced'
          PROVE  FileIntact(t)'
      <3>1. Beginnings(t) /\ UiCounts(t) /\ TcpCounts(t)
        BY <1>1, <2>3 DEF FilesAreIntact, FileIntact
      <3>2. Beginnings(t)' /\ UiCounts(t)'
        BY <1>1, <3>1 DEF Beginnings, Paths, UiCounts, UiReplaces
      <3>3. Uncounted(t) = 1
        BY <1>0, <1>1 DEF Uncounted
      <3>4. /\ Len(files[t][tcp.path]) = tcp.received + Uncounted(t)
            /\ pending[t] = [path |-> tcp.path, received |-> tcp.received]
        BY <1>0, <1>1, <1>4, <3>1 DEF TcpCounts
      <3>5. pending'[t].received = Len(files'[t][pending'[t].path]) - 0
        BY <1>1, <2>2, <3>3, <3>4
      <3>6. EntryCounts(t)'
        BY <1>3, <3>5 DEF EntryCounts
      <3>. QED BY <1>3, <3>2, <3>6 DEF FileIntact
    <2>4. ASSUME NEW v \in Transfers, v # t, v \notin raced'
          PROVE  FileIntact(v)'
      <3>1. FileIntact(v) /\ ~TcpReplaces(v) /\ Uncounted(v) = 0
        BY <1>0, <1>1, <2>4 DEF FilesAreIntact, TcpReplaces, Uncounted
      <3>. QED BY <1>1, <1>3, <2>2, <2>4, <3>1, FileStays
    <2>. QED BY <2>3, <2>4 DEF FilesAreIntact
  <1>5. CASE ~Active(t)
    <2>1. pending' = pending
      BY <1>0, <1>5 DEF CountChunk
    <2>2. ASSUME NEW v \in Transfers, v \notin raced'
          PROVE  FileIntact(v)'
      <3>1. FileIntact(v) /\ ~TcpReplaces(v) /\ (Uncounted(v) = 0 \/ ~Active(v)')
        BY <1>0, <1>1, <1>5, <2>1, <2>2 DEF FilesAreIntact, TcpReplaces, Uncounted, Active
      <3>. QED BY <1>1, <1>3, <2>1, <2>2, <3>1, FileStays
    <2>. QED BY <2>2 DEF FilesAreIntact
  <1>. QED BY <1>4, <1>5

\* The accept handler begins to hold a transfer that nobody else holds; the file it is
\* going to publish is emptied when it is not resumed.
LEMMA FilesBeginAccept ==
  ASSUME TypeInv, PathsExist, FilesAreIntact, NEW t \in Transfers, NEW overwrite \in BOOLEAN,
         BeginAccept(t, overwrite)
  PROVE  FilesAreIntact'
PROOF
  <1>. USE DEF TypeInv
  <1>1. shown[t] # <<>>
    BY DEF BeginAccept, UserSees
  <1>2. PICK p \in Names(t) : p = AcceptPath(t, overwrite)
    BY <1>1, AcceptTypes DEF PathsExist, Names
  <1>3. p \in Nat
    BY <1>1, <1>2, AcceptTypes
  <1>4. PICK n \in Offsets : n = IF shown[t][1].state = "Interrupted" THEN Stored(t, p) ELSE 0
    BY <1>3, StoredSize, TransferAssumptions
  <1>5. n # 0 => p \in Paths(t) /\ n = Len(files[t][p])
    BY <1>3, <1>4, StoredSize
  <1>6. /\ files' = IF shown[t][1].state = "Interrupted" /\ n = 0 THEN Emptied(t, p) ELSE files
        /\ ui'.step = IF shown[t][1].state = "Interrupted" THEN "replace" ELSE "prepare"
        /\ accepting'.t = t /\ accepting'.path = p /\ accepting'.received = n
        /\ UNCHANGED <<pending, tcp>> /\ raced' = Races(t, TcpHolds(t)) /\ ui.step = "idle"
    BY <1>2, <1>4 DEF BeginAccept, UserSees, IdleUi
  <1>7. raced \subseteq raced' /\ (t \notin raced' => ~TcpHolds(t))
    BY <1>6 DEF Races
  <1>8. ASSUME t \notin raced'
        PROVE  FileIntact(t)'
    <2>1. FileIntact(t) /\ ~TcpHolds(t)
      BY <1>7, <1>8 DEF FilesAreIntact
    <2>2. /\ ~TcpHolds(t)' /\ ~TcpReplaces(t)' /\ Uncounted(t)' = 0 /\ TcpCounts(t)'
          /\ ~TcpReplaces(t) /\ Uncounted(t) = 0
      BY <1>6, <2>1 DEF TcpHolds, TcpReplaces, Uncounted, TcpCounts
    <2>3. ~UiReplaces(t)
      BY <1>6 DEF UiReplaces
    <2>4. CASE shown[t][1].state = "Interrupted"
      <3>1. UiReplaces(t)' /\ EntryCounts(t)'
        BY <1>6, <2>4 DEF UiReplaces, EntryCounts
      <3>2. Beginnings(t)' /\ n = Len(files'[t][p])
        <4>1. CASE n = 0
          BY <1>6, <2>1, <2>4, <4>1, FilesEmptied DEF FileIntact
        <4>2. CASE n # 0
          BY <1>5, <1>6, <2>1, <4>2 DEF FileIntact, Beginnings, Paths
        <4>. QED BY <4>1, <4>2
      <3>3. UiCounts(t)'
        BY <1>6, <3>2 DEF UiCounts
      <3>. QED BY <2>2, <3>1, <3>2, <3>3 DEF FileIntact
    <2>5. CASE shown[t][1].state # "Interrupted"
      <3>1. ~UiReplaces(t)' /\ UiCounts(t)' /\ files' = files
        BY <1>6, <2>5 DEF UiReplaces, UiCounts
      <3>2. Beginnings(t)' /\ EntryCounts(t)'
        BY <1>6, <2>1, <2>2, <2>3, <3>1 DEF FileIntact, Beginnings, Paths, EntryCounts, Active
      <3>. QED BY <2>2, <3>1, <3>2 DEF FileIntact
    <2>. QED BY <2>4, <2>5
  <1>9. ASSUME NEW v \in Transfers, v # t, v \notin raced'
        PROVE  FileIntact(v)'
    <2>1. FileIntact(v) /\ ~UiReplaces(v) /\ ~UiHolds(v)'
      BY <1>6, <1>7, <1>9 DEF FilesAreIntact, UiReplaces, UiHolds
    <2>2. files'[v] = files[v]
      BY <1>6, <1>9, FilesEmptied
    <2>. QED BY <1>6, <2>1, <2>2, FileStays
  <1>. QED BY <1>8, <1>9 DEF FilesAreIntact

LEMMA FilesPrepareAccepted ==
  ASSUME TypeInv, PathsExist, FilesAreIntact, PrepareAccepted
  PROVE  FilesAreIntact'
PROOF
  <1>. USE DEF TypeInv
  <1>0. PICK t \in Transfers : t = accepting.t
    BY AcceptingTypes
  <1>1. /\ UNCHANGED <<pending, tcp, accepting, raced>> /\ ui.step = "prepare"
        /\ ui'.step = "replace" /\ accepting.received = 0
    BY DEF PrepareAccepted, IdleUi, userVars, AcceptRemembers
  <1>2. PICK p \in Names(t) : p = accepting.path
    BY <1>0, <1>1 DEF PathsExist, UiNamesPath
  <1>3. files' = Emptied(t, p)
    BY <1>0, <1>2 DEF PrepareAccepted
  <1>4. ASSUME t \notin raced'
        PROVE  FileIntact(t)'
    <2>1. Beginnings(t) /\ ~(UiHolds(t) /\ TcpHolds(t))
      BY <1>1, <1>4 DEF FilesAreIntact, FileIntact
    <2>2. ~TcpHolds(t)' /\ TcpCounts(t)'
      BY <1>0, <1>1, <2>1 DEF UiHolds, TcpHolds, TcpReplaces, TcpCounts
    <2>3. UiReplaces(t)' /\ EntryCounts(t)'
      BY <1>0, <1>1 DEF UiReplaces, EntryCounts
    <2>4. Beginnings(t)' /\ UiCounts(t)'
      BY <1>1, <1>2, <1>3, <2>1, FilesEmptied DEF UiCounts
    <2>. QED BY <2>2, <2>3, <2>4 DEF FileIntact
  <1>5. ASSUME NEW v \in Transfers, v # t, v \notin raced'
        PROVE  FileIntact(v)'
    <2>1. FileIntact(v) /\ ~UiReplaces(v) /\ ~UiHolds(v)'
      BY <1>0, <1>1, <1>5 DEF FilesAreIntact, UiReplaces, UiHolds
    <2>2. files'[v] = files[v]
      BY <1>3, <1>5, FilesEmptied
    <2>. QED BY <1>1, <2>1, <2>2, FileStays
  <1>. QED BY <1>4, <1>5 DEF FilesAreIntact

\* The accept handler publishes what it holds.
LEMMA FilesReplaceAccepted ==
  ASSUME TypeInv, PathsExist, FilesAreIntact, ReplaceAccepted
  PROVE  FilesAreIntact'
PROOF
  <1>. USE DEF TypeInv
  <1>0. PICK t \in Transfers : t = accepting.t
    BY AcceptingTypes
  <1>1. /\ UNCHANGED <<files, tcp, accepting, raced>> /\ ui.step = "replace"
        /\ ui'.step = "record" /\ accepting.received \in Nat
        /\ pending' = [pending EXCEPT
             ![t] = [path |-> accepting.path, received |-> accepting.received]]
    BY <1>0, SizeAssumption, AcceptingTypes DEF ReplaceAccepted, IdleUi, userVars, Offsets
  <1>2. /\ \A v \in Transfers \ {t} : pending'[v] = pending[v]
        /\ pending'[t].path = accepting.path /\ pending'[t].received = accepting.received
    BY <1>1 DEF TypeOK
  <1>3. ASSUME t \notin raced'
        PROVE  FileIntact(t)'
    <2>1. Beginnings(t) /\ UiCounts(t) /\ UiReplaces(t) /\ ~TcpHolds(t)
      BY <1>0, <1>1, <1>3 DEF FilesAreIntact, FileIntact, UiReplaces, UiHolds
    <2>2. /\ ~TcpHolds(t)' /\ TcpCounts(t)' /\ Uncounted(t)' = 0
      BY <1>1, <2>1 DEF TcpHolds, TcpReplaces, TcpCounts, Uncounted
    <2>3. ~UiReplaces(t)' /\ UiCounts(t)' /\ Beginnings(t)'
      BY <1>1, <2>1 DEF UiReplaces, UiCounts, Beginnings, Paths
    <2>4. accepting.received = Len(files[t][accepting.path])
      BY <2>1 DEF UiCounts
    <2>5. EntryCounts(t)'
      BY <1>1, <1>2, <2>2, <2>4 DEF EntryCounts
    <2>. QED BY <2>2, <2>3, <2>5 DEF FileIntact
  <1>4. ASSUME NEW v \in Transfers, v # t, v \notin raced'
        PROVE  FileIntact(v)'
    <2>1. FileIntact(v) /\ ~UiReplaces(v) /\ ~UiHolds(v)'
      BY <1>0, <1>1, <1>4 DEF FilesAreIntact, UiReplaces, UiHolds
    <2>. QED BY <1>1, <1>2, <1>4, <2>1, FileStays
  <1>. QED BY <1>3, <1>4 DEF FilesAreIntact

\* Every other step leaves the files alone, only removes entries, and ends no handler that
\* was about to publish.
LEMMA FilesOtherSteps ==
  ASSUME TypeInv, [Next]_vars, FilesAreIntact, ~MeasureOffered, ~PrepareOffered,
         ~ReplaceOffered, ~ReadChunk, ~WriteChunk, ~CountChunk, ~ReadComplete,
         ~PrepareAccepted, ~ReplaceAccepted,
         ~\E t \in Transfers : ReceiveChat(t),
         ~\E t \in Transfers, overwrite \in BOOLEAN : BeginAccept(t, overwrite)
  PROVE  FilesAreIntact'
PROOF
  <1>. USE DEF TypeInv
  <1>1. \A t \in Transfers : pending'[t] \in {pending[t], NoPending}
    BY PendingStep
  <1>2. files' = files
    BY FilesStep
  <1>. DEFINE Gone == \A t \in Transfers : pending'[t] = NoPending
              Held == {"prepare", "replace", "write", "count", "publish"}
              CalmTcp == \/ tcp' = tcp
                         \/ tcp'.step \notin Held /\ (tcp.step \notin {"replace", "count"} \/ Gone)
              CalmUi == \/ UNCHANGED <<ui, accepting>>
                        \/ ui'.step \notin {"prepare", "replace"} /\ (ui.step # "replace" \/ Gone)
  <1>3. ASSUME raced' = raced, CalmTcp, CalmUi
        PROVE  FilesAreIntact'
    <2>1. ASSUME NEW t \in Transfers, t \notin raced'
          PROVE  FileIntact(t)'
      <3>1. FileIntact(t)
        BY <1>3, <2>1 DEF FilesAreIntact
      <3>2. Gone => ~Active(t)'
        BY DEF Active
      <3>3. \/ tcp' = tcp
            \/ ~TcpHolds(t)' /\ ((~TcpReplaces(t) /\ Uncounted(t) = 0) \/ ~Active(t)')
        BY <1>3, <3>2 DEF TcpHolds, TcpReplaces, Uncounted
      <3>4. \/ UNCHANGED <<ui, accepting>>
            \/ ~UiHolds(t)' /\ (~UiReplaces(t) \/ ~Active(t)')
        BY <1>3, <3>2 DEF UiHolds, UiReplaces
      <3>. QED BY <1>1, <1>2, <3>1, <3>3, <3>4, FileStays
    <2>. QED BY <2>1 DEF FilesAreIntact
  <1>. SUFFICES raced' = raced /\ CalmTcp /\ CalmUi
    BY <1>3
  <1>4. tcp \in TcpStates
    BY DEF TypeOK
  <1>5. ASSUME tcp' = tcp PROVE CalmTcp
    BY <1>5
  <1>6. ASSUME tcp'.step \notin Held, tcp.step \notin {"replace", "count"} PROVE CalmTcp
    BY <1>6
  <1>7. ASSUME UNCHANGED <<ui, accepting>> PROVE CalmUi
    BY <1>7
  <1>8. ASSUME ui'.step \notin {"prepare", "replace"}, ui.step # "replace" PROVE CalmUi
    BY <1>8
  <1>9. CASE Restart
    <2>1. /\ raced' = raced /\ Gone /\ ui'.step = "idle"
      BY <1>9 DEF Restart, IdleUi
    <2>2. tcp'.step = "accept"
      BY <1>9, WaitingTcp DEF Restart
    <2>. QED BY <2>1, <2>2
  <1>. HIDE DEF Gone, CalmTcp, CalmUi
  <1>10. CASE TcpStep
    <2>1. raced' = raced /\ UNCHANGED <<ui, accepting>>
      BY <1>10 DEF TcpStep, ReadOffer, SearchHistory, WriteRecovered, InstallFails, WriteFails,
                   PublishComplete, EraseCompleted, EndConnection, userVars
    <2>2. CASE ReadOffer
      <3>1. tcp'.step \in {"install", "history"} /\ tcp.step = "read"
        BY <1>4, <2>2 DEF ReadOffer, Reading, TcpStates
      <3>. QED BY <1>6, <1>7, <2>1, <3>1
    <2>3. CASE SearchHistory
      <3>1. /\ \E step \in {"recover", "install"} : \E found, path :
                 tcp' = [tcp EXCEPT !.step = step, !.found = found, !.path = path]
            /\ tcp.step = "history"
        BY <2>3 DEF SearchHistory
      <3>2. tcp'.step \in {"recover", "install"}
        BY <1>4, <3>1 DEF TcpStates
      <3>. QED BY <1>6, <1>7, <2>1, <3>1, <3>2
    <2>4. CASE WriteRecovered
      <3>1. tcp'.step = "install" /\ tcp.step = "recover"
        BY <1>4, <2>4 DEF WriteRecovered, TcpStates
      <3>. QED BY <1>6, <1>7, <2>1, <3>1
    <2>5. CASE InstallFails \/ EraseCompleted \/ EndConnection
      <3>1. tcp'.step \in {"accept", "read"} /\ tcp.step \in {"prepare", "erase", "read"}
        BY <2>5, WaitingTcp DEF InstallFails, EraseCompleted, EndConnection
      <3>. QED BY <1>6, <1>7, <2>1, <3>1
    <2>6. CASE WriteFails
      <3>1. tcp'.step = "read" /\ tcp.step = "write"
        BY <2>6, WaitingTcp DEF WriteFails, TcpStates
      <3>. QED BY <1>6, <1>7, <2>1, <3>1
    <2>7. CASE PublishComplete
      <3>1. tcp'.step = "erase" /\ tcp.step = "publish"
        BY <1>4, <2>7 DEF PublishComplete, TcpStates
      <3>. QED BY <1>6, <1>7, <2>1, <3>1
    <2>. QED BY <1>10, <2>2, <2>3, <2>4, <2>5, <2>6, <2>7 DEF TcpStep
  <1>11. CASE SenderStep
    <2>1. ASSUME NEW t \in Transfers, NEW kind \in {"content", "resume"},
                 NEW offset \in Offsets, OpenConnection(t, kind, offset)
          PROVE  raced' = raced /\ CalmTcp /\ CalmUi
      <3>1. /\ raced' = raced /\ tcp'.step = "read" /\ tcp.step = "accept"
            /\ UNCHANGED <<ui, accepting>>
        BY <2>1 DEF OpenConnection, IdleTcp, userVars
      <3>. QED BY <1>6, <1>7, <3>1
    <2>2. ASSUME NEW t \in Transfers, ReceiveCancel(t)
          PROVE  raced' = raced /\ CalmTcp /\ CalmUi
      BY <1>5, <1>7, <2>2 DEF ReceiveCancel, userVars
    <2>. QED BY <1>11, <2>1, <2>2 DEF SenderStep
  <1>12. CASE UiStep
    <2>1. CASE RefreshStep
      <3>1. tcp' = tcp /\ raced' = raced
        <4>1. CASE ApplyUpdate
          BY <4>1 DEF ApplyUpdate
        <4>2. CASE DrainChatMessages \/ DrainTransferUpdates \/ DrainStateUpdates
          BY <4>2 DEF DrainChatMessages, DrainTransferUpdates, DrainStateUpdates
        <4>. QED BY <2>1, <4>1, <4>2 DEF RefreshStep
      <3>2. ui'.step \notin {"prepare", "replace"} /\ ui.step # "replace"
        BY <2>1, RefreshedUi
      <3>. QED BY <1>5, <1>8, <3>1, <3>2
    <2>2. CASE RecordAccepted
      BY <1>5, <1>8, <2>2 DEF RecordAccepted, IdleUi
    <2>3. ASSUME NEW p \in Peers, SelectPeer(p)
          PROVE  raced' = raced /\ CalmTcp /\ CalmUi
      BY <1>5, <1>7, <2>3 DEF SelectPeer, userVars
    <2>4. ASSUME NEW t \in Transfers, RejectTransfer(t) \/ CancelTransfer(t)
          PROVE  raced' = raced /\ CalmTcp /\ CalmUi
      BY <1>5, <1>7, <2>4 DEF RejectTransfer, CancelTransfer, userVars
    <2>. QED BY <1>12, <2>1, <2>2, <2>3, <2>4 DEF UiStep, AcceptStep
  <1>13. CASE TaskStep \/ UNCHANGED vars
    BY <1>5, <1>7, <1>13 DEF TaskStep, AcceptSent, AcceptFails, vars, userVars
  <1>. QED BY <1>9, <1>10, <1>11, <1>12, <1>13 DEF Next

LEMMA FilesStaysIntact == TypeInv /\ PathsExist /\ FilesAreIntact /\ [Next]_vars => FilesAreIntact'
PROOF
  BY FilesReceiveChat, FilesMeasureOffered, FilesPrepareOffered, FilesReplaceOffered,
     FilesReadChunk, FilesWriteChunk, FilesCountChunk, FilesReadComplete, FilesBeginAccept,
     FilesPrepareAccepted, FilesReplaceAccepted, FilesOtherSteps

LEMMA FilesAtFirst == Init => FilesAreIntact
PROOF
  <1>. SUFFICES ASSUME Init PROVE FilesAreIntact
    OBVIOUS
  <1>1. \A t \in Transfers : Paths(t) = {}
    BY EmptySeq DEF Init, Paths
  <1>2. tcp.step = "accept" /\ ui.step = "idle"
    BY DEF Init, IdleTcp, IdleUi
  <1>. QED BY <1>1, <1>2 DEF Init, FilesAreIntact, FileIntact, Beginnings, EntryCounts, UiCounts,
                             TcpCounts, Active, UiHolds, UiReplaces, TcpReplaces

LEMMA FilesInvariant == Spec => []FilesAreIntact
PROOF
  BY FilesAtFirst, FilesStaysIntact, TypesInvariant, PathsInvariant, PTL DEF Spec

\* An intact file is a beginning of the sent one.
LEMMA IntactIsBeginning ==
  ASSUME NEW file \in Seq(Offsets), Intact(file)
  PROVE  /\ file = SubSeq(Whole, 1, Len(file))
         /\ Len(file) = Size => file = Whole
PROOF
  <1>1. Len(file) \in Nat /\ Len(file) <= Size /\ file \in [1 .. Len(file) -> Offsets]
    BY LenProperties DEF Intact
  <1>2. /\ Whole \in Seq(Offsets) /\ Len(Whole) = Size
        /\ \A i \in 1 .. Size : Whole[i] = i - 1
    <2>1. \A i \in 1 .. Size : i - 1 \in Offsets
      BY SizeAssumption DEF Offsets
    <2>2. Size \in Nat
      BY SizeAssumption
    <2>. QED BY <2>1, <2>2 DEF Whole
  <1>3. /\ SubSeq(Whole, 1, Len(file)) \in Seq(Offsets)
        /\ Len(SubSeq(Whole, 1, Len(file))) = Len(file)
        /\ \A i \in 1 .. Len(file) : SubSeq(Whole, 1, Len(file))[i] = Whole[i]
    BY <1>1, <1>2, SizeAssumption
  <1>4. file = SubSeq(Whole, 1, Len(file))
    BY <1>1, <1>2, <1>3, SizeAssumption, SeqEqual DEF Intact
  <1>5. ASSUME Len(file) = Size
        PROVE  file = Whole
    BY <1>1, <1>2, <1>5, SeqEqual DEF Intact
  <1>. QED BY <1>4, <1>5

LEMMA FilesMatch == TypeInv /\ PathsExist /\ FilesAreIntact => FilesMatchCounts
PROOF
  <1>. SUFFICES ASSUME TypeInv, PathsExist, FilesAreIntact, NEW t \in Transfers \ raced
                PROVE  /\ \A n \in 1 .. Len(files[t]) :
                            files[t][n] = SubSeq(Whole, 1, Len(files[t][n]))
                       /\ (Active(t) /\ ~UiReplaces(t) /\ ~TcpReplaces(t)) =>
                            pending[t].received = Stored(t, pending[t].path) - Uncounted(t)
                       /\ UiReplaces(t) => accepting.received = Stored(t, accepting.path)
                       /\ TcpReplaces(t) => tcp.received = Stored(t, tcp.path)
                       /\ (tcp.step = "publish" /\ tcp.t = t) => files[t][tcp.path] = Whole
    BY DEF FilesMatchCounts
  <1>0. Beginnings(t) /\ EntryCounts(t) /\ UiCounts(t) /\ TcpCounts(t)
    BY DEF FilesAreIntact, FileIntact
  <1>1. \A n \in Paths(t) : files[t][n] \in Seq(Offsets) /\ Intact(files[t][n])
    <2>1. files[t] \in Seq(Seq(Offsets))
      BY DEF TypeInv, TypeOK
    <2>. QED BY <1>0, <2>1, ElementOfSeq DEF Beginnings, Paths
  <1>2. \A n \in 1 .. Len(files[t]) : files[t][n] = SubSeq(Whole, 1, Len(files[t][n]))
    BY <1>1, IntactIsBeginning DEF Paths
  <1>3. \A p \in Paths(t) : Stored(t, p) = Len(files[t][p])
    BY <1>1, StoredSize DEF TypeInv, Intact, Paths
  <1>4. ASSUME Active(t), ~UiReplaces(t), ~TcpReplaces(t)
        PROVE  pending[t].received = Stored(t, pending[t].path) - Uncounted(t)
    BY <1>0, <1>3, <1>4 DEF PathsExist, EntryCounts
  <1>5. UiReplaces(t) => accepting.received = Stored(t, accepting.path)
    BY <1>0, <1>3 DEF UiCounts, UiReplaces, PathsExist, UiNamesPath
  <1>6. TcpReplaces(t) => tcp.received = Stored(t, tcp.path)
    BY <1>0, <1>3 DEF TcpCounts, TcpReplaces, PathsExist, TcpNamesPath
  <1>7. ASSUME tcp.step = "publish", tcp.t = t
        PROVE  files[t][tcp.path] = Whole
    <2>1. tcp.path \in Paths(t)
      BY <1>7 DEF PathsExist, TcpNamesPath
    <2>2. Len(files[t][tcp.path]) = Size
      BY <1>0, <1>7 DEF TcpCounts
    <2>. QED BY <1>1, <2>1, <2>2, IntactIsBeginning
  <1>. QED BY <1>2, <1>4, <1>5, <1>6, <1>7

\* Whatever streams were cut, resumed, started again or failed half-way, every received file
\* is an intact beginning of the sent one, the count in the pending entry, or in the one
\* that a handler is about to publish, is the length of the file it names, and a file that
\* is published as completed is whole: for any number of transfers, connections, accepts
\* and restarts, except the transfers that both threads held at once.
THEOREM ReceivedFilesAreIntact == Spec => []FilesMatchCounts
PROOF
  BY TypesInvariant, PathsInvariant, FilesInvariant, FilesMatch, PTL
-----------------------------------------------------------------------------
(* The verdict of the sender.                                                *)

LEMMA InFlightStep ==
  ASSUME TypeInv, [Next]_vars, NEW t \in Transfers, NEW s \in States, InFlight(t, s)'
  PROVE  \/ InFlight(t, s)
         \/ s \in {"Transferring", "Failed", "Interrupted"}
         \/ s = "Cancelled" /\ ReceiveCancel(t)
         \/ s = "Completed" /\ PublishComplete /\ tcp.t = t
PROOF
  <1>1. PICK u \in Queued' : u.t = t /\ u.state = s
    BY DEF InFlight
  <1>2. CASE u \in Queued
    BY <1>1, <1>2 DEF InFlight
  <1>3. CASE NewUpdate(u)
    BY <1>1, <1>3 DEF NewUpdate
  <1>. QED BY <1>2, <1>3, QueuedStep

\* The sender's last word on a transfer is a Complete frame of an open stream or a Cancel
\* frame of a transfer that was not ended before.
LEMMA SentAllStep ==
  ASSUME [Next]_vars
  PROVE  \/ sentAll' = sentAll /\ ~ReadComplete
         \/ ReadComplete /\ tcp.step = "read" /\ tcp.phase = "body"
            /\ sentAll' = sentAll \union {tcp.t}
         \/ \E t \in Transfers : /\ ReceiveCancel(t) /\ t \notin sentAll /\ tcp.step = "accept"
                                 /\ tcp' = tcp /\ sentAll' = sentAll \union {t}
PROOF
  <1>1. CASE ReadComplete
    BY <1>1 DEF ReadComplete, Reading
  <1>2. CASE TcpStep /\ ~ReadComplete
    BY <1>2
    DEF TcpStep, ReadOffer, SearchHistory, WriteRecovered, MeasureOffered, PrepareOffered,
        ReplaceOffered, InstallFails, ReadChunk, WriteChunk, WriteFails, CountChunk,
        PublishComplete, EraseCompleted, EndConnection, senderVars
  <1>3. CASE SenderStep /\ ~ReadComplete
    <2>1. ASSUME NEW t \in Transfers, ReceiveCancel(t)
          PROVE  /\ t \notin sentAll /\ tcp.step = "accept" /\ tcp' = tcp
                 /\ sentAll' = sentAll \union {t}
      BY <2>1 DEF ReceiveCancel, MayOpen
    <2>2. ASSUME NEW t \in Transfers, NEW kind \in {"content", "resume"},
                 NEW offset \in Offsets, OpenConnection(t, kind, offset)
          PROVE  sentAll' = sentAll
      BY <2>2 DEF OpenConnection
    <2>3. ASSUME NEW t \in Transfers, ReceiveChat(t)
          PROVE  sentAll' = sentAll
      BY <2>3 DEF ReceiveChat, senderVars
    <2>. QED BY <1>3, <2>1, <2>2, <2>3 DEF SenderStep
  <1>4. CASE UiStep /\ ~ReadComplete
    BY <1>4
    DEF UiStep, RefreshStep, DrainChatMessages, DrainTransferUpdates, DrainStateUpdates,
        ApplyUpdate, SelectPeer, BeginAccept, AcceptStep, PrepareAccepted, ReplaceAccepted,
        RecordAccepted, RejectTransfer, CancelTransfer, senderVars
  <1>5. CASE (TaskStep \/ Restart \/ UNCHANGED vars) /\ ~ReadComplete
    BY <1>5 DEF TaskStep, AcceptSent, AcceptFails, Restart, senderVars, vars
  <1>. QED BY <1>1, <1>2, <1>3, <1>4, <1>5 DEF Next

\* A connection carries the frames of one transfer; only the Offer opens its body.
LEMMA TcpStepPhase ==
  ASSUME TypeInv, [Next]_vars
  PROVE  \/ tcp' = tcp /\ ~ReadComplete /\ ~PublishComplete
         \/ tcp'.step = "accept"
         \/ \E t \in Transfers : t \notin sentAll /\ tcp'.t = t /\ tcp'.step = "read"
                                 /\ tcp.step = "accept" /\ sentAll' = sentAll
         \/ /\ tcp'.t = tcp.t /\ tcp.step # "accept"
            /\ tcp'.step = "publish" => ReadComplete
            /\ ReadComplete => tcp'.phase = "done"
            /\ tcp.phase = "done" => tcp'.phase = "done"
PROOF
  <1>. USE DEF TypeInv
  <1>1. tcp \in TcpStates
    BY DEF TypeOK
  <1>2. CASE ReadOffer
    <2>1. tcp'.t = tcp.t /\ tcp.step = "read" /\ tcp.phase = "offer"
          /\ tcp'.step \in {"install", "history"}
      BY <1>1, <1>2 DEF ReadOffer, Reading, TcpStates
    <2>2. ~ReadComplete
      BY <2>1 DEF ReadComplete, Reading
    <2>. QED BY <2>1, <2>2
  <1>3. CASE SearchHistory
    <2>1. \E step \in {"recover", "install"} : \E found, path :
            tcp' = [tcp EXCEPT !.step = step, !.found = found, !.path = path]
      BY <1>3 DEF SearchHistory
    <2>2. tcp'.t = tcp.t /\ tcp'.phase = tcp.phase /\ tcp'.step \in {"recover", "install"}
      BY <1>1, <2>1 DEF TcpStates
    <2>3. tcp.step = "history" /\ ~ReadComplete
      BY <1>3 DEF SearchHistory, ReadComplete, Reading
    <2>. QED BY <2>2, <2>3
  <1>4. CASE WriteRecovered \/ PublishComplete \/ WriteChunk \/ MeasureOffered \/ PrepareOffered
    <2>1. /\ tcp'.t = tcp.t /\ tcp'.phase = tcp.phase
          /\ tcp'.step \in {"install", "prepare", "replace", "erase", "count"}
      BY <1>1, <1>4 DEF WriteRecovered, PublishComplete, WriteChunk, MeasureOffered,
                        PrepareOffered, TcpStates
    <2>2. tcp.step \in {"recover", "install", "prepare", "publish", "write"} /\ ~ReadComplete
      BY <1>4 DEF WriteRecovered, PublishComplete, WriteChunk, MeasureOffered, PrepareOffered,
                  ReadComplete, Reading
    <2>. QED BY <2>1, <2>2
  <1>5. CASE ReplaceOffered \/ InstallFails \/ EraseCompleted
    <2>1. tcp' \in {IdleTcp, Returned}
      BY <1>5 DEF ReplaceOffered, InstallFails, EraseCompleted
    <2>2. tcp.step \in {"prepare", "replace", "erase"} /\ ~ReadComplete
      BY <1>5 DEF ReplaceOffered, InstallFails, EraseCompleted, ReadComplete, Reading
    <2>. QED BY <2>1, <2>2, WaitingTcp
  <1>6. CASE WriteFails \/ CountChunk
    <2>1. tcp' = [Returned EXCEPT !.offset = @ + 1]
      BY <1>6 DEF WriteFails, CountChunk
    <2>2. tcp'.t = tcp.t /\ tcp'.phase = tcp.phase /\ tcp'.step = "read"
      BY <2>1, WaitingTcp DEF TcpStates
    <2>3. tcp.step \in {"write", "count"} /\ ~ReadComplete
      BY <1>6 DEF WriteFails, CountChunk, ReadComplete, Reading
    <2>. QED BY <2>2, <2>3
  <1>7. CASE ReadChunk
    <2>1. tcp.step = "read" /\ tcp.offset < Size
      BY <1>7 DEF ReadChunk, Reading
    <2>2. ~ReadComplete
      <3>1. ReadComplete => tcp.offset = Size
        BY DEF ReadComplete
      <3>2. tcp.offset # Size
        BY <2>1, SizeAssumption
      <3>. QED BY <3>1, <3>2
    <2>3. tcp'.t = tcp.t /\ tcp'.phase = tcp.phase /\ tcp'.step \in {"write", "read"}
      <3>1. CASE Active(tcp.t) /\ pending[tcp.t].received = tcp.offset
        BY <1>1, <1>7, <3>1 DEF ReadChunk, TcpStates
      <3>2. CASE ~(Active(tcp.t) /\ pending[tcp.t].received = tcp.offset)
        <4>1. tcp' = [tcp EXCEPT !.offset = @ + 1]
          BY <1>7, <3>2 DEF ReadChunk
        <4>. QED BY <1>1, <2>1, <4>1 DEF TcpStates
      <3>. QED BY <3>1, <3>2
    <2>. QED BY <2>1, <2>2, <2>3
  <1>8. CASE ReadComplete
    <2>1. tcp.step = "read"
      BY <1>8 DEF ReadComplete, Reading
    <2>2. tcp'.t = tcp.t /\ tcp'.phase = "done"
      <3>1. CASE Active(tcp.t) /\ pending[tcp.t].received = Size
        BY <1>1, <1>8, <3>1 DEF ReadComplete, TcpStates
      <3>2. CASE ~(Active(tcp.t) /\ pending[tcp.t].received = Size)
        <4>1. tcp' = [tcp EXCEPT !.phase = "done"]
          BY <1>8, <3>2 DEF ReadComplete
        <4>. QED BY <1>1, <4>1 DEF TcpStates
      <3>. QED BY <3>1, <3>2
    <2>. QED BY <1>8, <2>1, <2>2
  <1>9. CASE EndConnection \/ Restart
    BY <1>9, WaitingTcp DEF EndConnection, Restart
  <1>10. ASSUME NEW t \in Transfers, NEW kind \in {"content", "resume"},
                NEW offset \in Offsets, OpenConnection(t, kind, offset)
         PROVE  t \notin sentAll /\ tcp'.t = t /\ tcp'.step = "read" /\ tcp.step = "accept"
                /\ sentAll' = sentAll
    BY <1>10 DEF OpenConnection, MayOpen, IdleTcp
  <1>11. CASE tcp' = tcp /\ ~TcpStep
    BY <1>11 DEF TcpStep
  <1>12. CASE ~TcpStep /\ ~Restart /\ ~\E t \in Transfers, kind \in {"content", "resume"},
                                          offset \in Offsets : OpenConnection(t, kind, offset)
    <2>1. CASE SenderStep
      <3>1. PICK t \in Transfers : ReceiveChat(t) \/ ReceiveCancel(t)
        BY <1>12, <2>1 DEF SenderStep
      <3>2. tcp' = tcp
        BY <3>1 DEF ReceiveChat, ReceiveCancel
      <3>. QED BY <1>11, <1>12, <3>2
    <2>2. CASE UiStep
      <3>1. tcp' = tcp
        BY <2>2
        DEF UiStep, RefreshStep, DrainChatMessages, DrainTransferUpdates, DrainStateUpdates,
            ApplyUpdate, SelectPeer, BeginAccept, AcceptStep, PrepareAccepted, ReplaceAccepted,
            RecordAccepted, RejectTransfer, CancelTransfer
      <3>. QED BY <1>11, <1>12, <3>1
    <2>3. CASE TaskStep \/ UNCHANGED vars
      <3>1. tcp' = tcp
        BY <2>3 DEF TaskStep, AcceptSent, AcceptFails, vars
      <3>. QED BY <1>11, <1>12, <3>1
    <2>. QED BY <1>12, <2>1, <2>2, <2>3 DEF Next
  <1>13. CASE TcpStep
    BY <1>2, <1>3, <1>4, <1>5, <1>6, <1>7, <1>8, <1>9, <1>13 DEF TcpStep
  <1>. QED BY <1>9, <1>10, <1>12, <1>13

\* A stream is completing from the Complete frame until it is published, and the sender
\* had not ended the transfer before.
LEMMA CompletingStep ==
  ASSUME TypeInv, OneVerdict, [Next]_vars, NEW t \in Transfers, Completing(t)'
  PROVE  \/ Completing(t) /\ tcp' = tcp /\ ~ReadComplete /\ ~PublishComplete
         \/ ReadComplete /\ tcp.t = t /\ t \notin sentAll /\ t \in sentAll'
PROOF
  <1>1. tcp'.step = "publish" /\ tcp'.t = t
    BY DEF Completing
  <1>2. \/ tcp' = tcp /\ ~ReadComplete /\ ~PublishComplete
        \/ tcp.t = t /\ ReadComplete
    BY <1>1, TcpStepPhase
  <1>3. CASE tcp.t = t /\ ReadComplete
    <2>1. tcp.step = "read" /\ tcp.phase = "body" /\ sentAll' = sentAll \union {tcp.t}
      BY <1>3 DEF ReadComplete, Reading
    <2>. QED BY <1>3, <2>1 DEF OneVerdict
  <1>. QED BY <1>1, <1>2, <1>3 DEF Completing

LEMMA VerdictStep == TypeInv /\ OneVerdict /\ [Next]_vars => OneVerdict'
PROOF
  <1>. SUFFICES ASSUME TypeInv, OneVerdict, [Next]_vars, NEW t \in Transfers
                PROVE  (/\ ~InFlight(t, "Rejected")
                        /\ InFlight(t, "Completed") \/ InFlight(t, "Cancelled") \/ Completing(t)
                             => t \in sentAll
                        /\ ~(InFlight(t, "Cancelled") /\ (InFlight(t, "Completed") \/ Completing(t)))
                        /\ t \in sentAll /\ tcp.t = t /\ tcp.step # "accept" => tcp.phase = "done")'
    BY DEF OneVerdict
  <1>1. /\ ~InFlight(t, "Rejected")
        /\ InFlight(t, "Completed") \/ InFlight(t, "Cancelled") \/ Completing(t) => t \in sentAll
        /\ ~(InFlight(t, "Cancelled") /\ (InFlight(t, "Completed") \/ Completing(t)))
        /\ t \in sentAll /\ tcp.t = t /\ tcp.step # "accept" => tcp.phase = "done"
    BY DEF OneVerdict
  <1>2. {"Rejected", "Completed", "Cancelled"} \subseteq States
    BY DEF States
  <1>3. ~InFlight(t, "Rejected")'
    BY <1>1, <1>2, InFlightStep
  <1>4. InFlight(t, "Completed")' => InFlight(t, "Completed") \/ (Completing(t) /\ PublishComplete)
    BY <1>2, InFlightStep DEF PublishComplete, Completing
  <1>5. InFlight(t, "Cancelled")' => InFlight(t, "Cancelled") \/ ReceiveCancel(t)
    BY <1>2, InFlightStep
  <1>6. Completing(t)' => (Completing(t) /\ ~PublishComplete)
                          \/ (ReadComplete /\ t \notin sentAll /\ t \in sentAll')
    BY CompletingStep
  <1>7. sentAll \subseteq sentAll'
    BY SentAllStep
  <1>8. ReceiveCancel(t) => t \notin sentAll /\ t \in sentAll' /\ tcp.step = "accept"
    BY DEF ReceiveCancel, MayOpen
  <1>9. PublishComplete => tcp.step = "publish"
    BY DEF PublishComplete
  <1>10. ReadComplete => tcp.step = "read"
    BY DEF ReadComplete, Reading
  <1>11. InFlight(t, "Completed")' \/ InFlight(t, "Cancelled")' \/ Completing(t)'
           => t \in sentAll'
    BY <1>1, <1>4, <1>5, <1>6, <1>7, <1>8
  <1>12. ~(InFlight(t, "Cancelled")' /\ (InFlight(t, "Completed")' \/ Completing(t)'))
    BY <1>1, <1>4, <1>5, <1>6, <1>8, <1>9, <1>10
  <1>13. ASSUME t \in sentAll', tcp'.t = t, tcp'.step # "accept"
         PROVE  tcp'.phase = "done"
    <2>1. CASE ReadComplete
      <3>1. ~(tcp.step = "accept")
        BY <1>10, <2>1
      <3>. QED BY <1>13, <2>1, <3>1, TcpStepPhase
    <2>2. CASE sentAll' = sentAll /\ ~ReadComplete
      BY <1>1, <1>13, <2>2, TcpStepPhase
    <2>3. CASE \E v \in Transfers : ReceiveCancel(v) /\ tcp.step = "accept" /\ tcp' = tcp
      BY <1>13, <2>3
    <2>. QED BY <2>1, <2>2, <2>3, SentAllStep
  <1>. QED BY <1>3, <1>11, <1>12, <1>13

LEMMA VerdictAtFirst == Init => OneVerdict
PROOF
  <1>. SUFFICES ASSUME Init PROVE OneVerdict
    OBVIOUS
  <1>1. Queued = {}
    BY DEF Init, IdleUi, Queued, Range
  <1>2. tcp.step = "accept"
    BY DEF Init, IdleTcp
  <1>. QED BY <1>1, <1>2 DEF OneVerdict, InFlight, Completing

LEMMA VerdictInvariant == Spec => []OneVerdict
PROOF
  BY VerdictAtFirst, VerdictStep, TypesInvariant, PTL DEF Spec

\* What can still come was to be expected before.
LEMMA MayComeStep ==
  ASSUME TypeInv, OneVerdict, [Next]_vars, NEW t \in Transfers, NEW s \in States, MayCome(t, s)'
  PROVE  MayCome(t, s)
PROOF
  <1>1. s \in {"Completed", "Cancelled"}
    BY DEF MayCome
  <1>2. CASE t \notin sentAll'
    BY <1>1, <1>2, SentAllStep DEF MayCome
  <1>3. CASE InFlight(t, s)'
    <2>1. CASE InFlight(t, s)
      BY <1>1, <2>1 DEF MayCome
    <2>2. CASE ReceiveCancel(t)
      BY <1>1, <2>2 DEF ReceiveCancel, MayOpen, MayCome
    <2>3. CASE s = "Completed" /\ PublishComplete /\ tcp.t = t
      BY <2>3 DEF PublishComplete, Completing, MayCome
    <2>. QED BY <1>1, <1>3, <2>1, <2>2, <2>3, InFlightStep
  <1>4. CASE s = "Completed" /\ Completing(t)'
    BY <1>4, CompletingStep DEF MayCome
  <1>. QED BY <1>2, <1>3, <1>4 DEF MayCome
-----------------------------------------------------------------------------
(* The copies of a message and its stored record.                            *)

LEMMA FinalStatesAre == FinalStates = {"Completed", "Cancelled", "Rejected"}
PROOF
  BY DEF FinalStates, TerminalStates, Replacements

\* A copy in a final state takes only updates to that state; one that does not take an
\* update to another final state is itself in a final state.
LEMMA TakesFinal ==
  ASSUME NEW u \in Updates, NEW record \in Records \union {NoRecord}
  PROVE  /\ Takes(record, u) /\ record.state \in FinalStates => u.state = record.state
         /\ Takes(record, u) => record # NoRecord
         /\ record # NoRecord /\ ~Takes(record, u) /\ u.state \in FinalStates =>
              record.state \in FinalStates /\ record.state # u.state
PROOF
  BY DEF Takes, IgnoresUpdate, TerminalStates, Replacements, FinalStates

\* What is no record is in no final state.
LEMMA NoFinalRecord ==
  /\ NoRecord.state \notin FinalStates
  /\ \A record \in Records : record # NoRecord
  /\ \A s \in {"Transferring", "Offered", "Interrupted"} : s \notin FinalStates /\ s \in States
PROOF
  BY FinalStatesAre DEF NoRecord, Records, States

\* A copy that agreed agrees as long as neither it nor the stored record changes its state.
LEMMA AgreementStays ==
  ASSUME TypeInv, OneVerdict, [Next]_vars, NEW t \in Transfers,
         NEW old \in Records \union {NoRecord}, NEW new, AgreesWithDisk(t, old),
         old.state \in FinalStates => new.state = old.state,
         disk'[t].state \in FinalStates => disk'[t].state = disk[t].state
  PROVE  disk'[t].state \in FinalStates =>
           \/ new.state = disk'[t].state
           \/ new.state \in FinalStates /\ ~MayCome(t, new.state)'
PROOF
  <1>. SUFFICES ASSUME disk'[t].state \in FinalStates
                PROVE  \/ new.state = disk'[t].state
                       \/ new.state \in FinalStates /\ ~MayCome(t, new.state)'
    OBVIOUS
  <1>1. disk[t].state \in FinalStates /\ disk'[t].state = disk[t].state
    OBVIOUS
  <1>2. CASE old.state = disk[t].state
    BY <1>1, <1>2
  <1>3. CASE old.state \in FinalStates /\ ~MayCome(t, old.state)
    <2>1. PICK s \in States : s = old.state
      BY <1>3, FinalStatesAre DEF States
    <2>2. ~MayCome(t, s)'
      BY <1>3, <2>1, MayComeStep
    <2>. QED BY <1>3, <2>1, <2>2
  <1>. QED BY <1>1, <1>2, <1>3 DEF AgreesWithDisk

\* What CopiesAgree says of one message.
CopyAgrees(t) ==
  /\ pendingChat[t] # NoRecord => disk[t] # NoRecord
  /\ Len(shown[t]) = 1 => AgreesWithDisk(t, shown[t][1])
  /\ shown[t] = <<>> /\ selected = PeerOf[t] /\ pendingChat[t] # NoRecord =>
       AgreesWithDisk(t, pendingChat[t])

\* A step that leaves the message as it is.
LEMMA CopyStays ==
  ASSUME TypeInv, OneVerdict, [Next]_vars, NEW t \in Transfers, CopyAgrees(t),
         disk'[t] = disk[t], shown'[t] = shown[t], pendingChat'[t] = pendingChat[t],
         selected' = selected
  PROVE  CopyAgrees(t)'
PROOF
  <1>1. pendingChat[t] \in Records \union {NoRecord} /\ shown[t] \in Seq(Records)
    BY DEF TypeInv, TypeOK
  <1>2. ASSUME Len(shown[t]) = 1
        PROVE  AgreesWithDisk(t, shown[t][1])'
    <2>1. shown[t][1] \in Records
      BY <1>1, <1>2, ElementOfSeq
    <2>. QED BY <1>2, <2>1, AgreementStays DEF CopyAgrees, AgreesWithDisk
  <1>3. ASSUME AgreesWithDisk(t, pendingChat[t])
        PROVE  AgreesWithDisk(t, pendingChat[t])'
    BY <1>1, <1>3, AgreementStays DEF AgreesWithDisk
  <1>. QED BY <1>2, <1>3 DEF CopyAgrees

LEMMA CopyReceiveChat ==
  ASSUME TypeInv, OneVerdict, [Next]_vars, NEW t \in Transfers, CopyAgrees(t),
         NEW v \in Transfers, ReceiveChat(v)
  PROVE  CopyAgrees(t)'
PROOF
  <1>1. PICK record : /\ disk' = [disk EXCEPT ![v] = record]
                      /\ pendingChat' = [pendingChat EXCEPT ![v] = record]
                      /\ record.state \in {"Transferring", "Offered"}
    <2>1. PICK auto \in AutoReceive :
            LET record == IF auto
                            THEN [state |-> "Transferring", path |-> FreshPath(v)]
                            ELSE [state |-> "Offered", path |-> NoPath] IN
            /\ disk' = [disk EXCEPT ![v] = record]
            /\ pendingChat' = [pendingChat EXCEPT ![v] = record]
      BY DEF ReceiveChat
    <2>. DEFINE record == IF auto
                            THEN [state |-> "Transferring", path |-> FreshPath(v)]
                            ELSE [state |-> "Offered", path |-> NoPath]
    <2>2. record.state \in {"Transferring", "Offered"}
      OBVIOUS
    <2>3. /\ disk' = [disk EXCEPT ![v] = record]
          /\ pendingChat' = [pendingChat EXCEPT ![v] = record]
      BY <2>1
    <2>. HIDE DEF record
    <2>. QED BY <2>2, <2>3
  <1>2. shown' = shown /\ selected' = selected
    BY DEF ReceiveChat
  <1>3. CASE v # t
    BY <1>1, <1>2, <1>3, CopyStays DEF TypeInv, TypeOK
  <1>4. CASE v = t
    <2>1. disk'[t] = record
      BY <1>1, <1>4 DEF TypeInv, TypeOK
    <2>2. record.state \notin FinalStates /\ record # NoRecord
      BY <1>1, NoFinalRecord DEF NoRecord
    <2>. QED BY <2>1, <2>2 DEF CopyAgrees, AgreesWithDisk
  <1>. QED BY <1>3, <1>4

LEMMA CopyWriteRecovered ==
  ASSUME TypeInv, OneVerdict, [Next]_vars, NEW t \in Transfers, CopyAgrees(t), WriteRecovered
  PROVE  CopyAgrees(t)'
PROOF
  <1>1. disk' = [disk EXCEPT ![tcp.t] = [state |-> "Interrupted", path |-> tcp.path]]
        /\ UNCHANGED <<shown, pendingChat, selected>>
    BY DEF WriteRecovered
  <1>2. CASE tcp.t # t
    BY <1>1, <1>2, CopyStays DEF TypeInv, TypeOK
  <1>3. CASE tcp.t = t
    <2>1. disk'[t].state = "Interrupted"
      BY <1>1, <1>3 DEF TypeInv, TypeOK
    <2>2. disk'[t].state \notin FinalStates /\ disk'[t] # NoRecord
      BY <2>1, NoFinalRecord DEF NoRecord
    <2>. QED BY <2>2 DEF CopyAgrees, AgreesWithDisk
  <1>. QED BY <1>2, <1>3

LEMMA CopyDrainChat ==
  ASSUME TypeInv, OneVerdict, [Next]_vars, NEW t \in Transfers, CopyAgrees(t), DrainChatMessages
  PROVE  CopyAgrees(t)'
PROOF
  <1>1. disk' = disk /\ selected' = selected /\ pendingChat'[t] = NoRecord
    BY DEF DrainChatMessages
  <1>2. shown[t] \in Seq(Records) /\ pendingChat[t] \in Records \union {NoRecord}
    BY DEF TypeInv, TypeOK
  <1>3. CASE shown'[t] = shown[t]
    <2>1. ASSUME Len(shown[t]) = 1
          PROVE  AgreesWithDisk(t, shown[t][1])'
      <3>1. shown[t][1] \in Records
        BY <1>2, <2>1, ElementOfSeq
      <3>. QED BY <1>1, <1>3, <2>1, <3>1, AgreementStays DEF CopyAgrees, AgreesWithDisk
    <2>. QED BY <1>1, <1>3, <2>1 DEF CopyAgrees
  <1>4. CASE /\ pendingChat[t] \in Records /\ pendingChat[t] # NoRecord /\ PeerOf[t] = selected
             /\ shown'[t] = Append(shown[t], pendingChat[t])
    <2>1. Len(shown[t]) \in Nat /\ Len(shown'[t]) = Len(shown[t]) + 1
          /\ shown'[t][Len(shown[t]) + 1] = pendingChat[t]
      BY <1>2, <1>4, AppendProperties, LenProperties
    <2>2. ASSUME Len(shown'[t]) = 1
          PROVE  AgreesWithDisk(t, shown[t][1])'
      <3>1. shown[t] = <<>> /\ shown'[t][1] = pendingChat[t]
        BY <1>2, <2>1, <2>2, EmptySeq
      <3>2. AgreesWithDisk(t, pendingChat[t])
        BY <1>4, <3>1 DEF CopyAgrees
      <3>. QED BY <1>1, <1>2, <3>1, <3>2, AgreementStays DEF AgreesWithDisk
    <2>. QED BY <1>1, <2>2 DEF CopyAgrees
  <1>. QED BY <1>3, <1>4, DrainedCopies DEF TypeInv

\* The update that is applied is one that was queued: an update to a final state is the
\* verdict of the sender.
LEMMA AppliedVerdict ==
  ASSUME TypeInv, OneVerdict, NEW u \in Updates, u \in Queued, u.state \in FinalStates
  PROVE  /\ MayCome(u.t, u.state)
         /\ \A s \in FinalStates : s # u.state => ~MayCome(u.t, s)
PROOF
  <1>1. u.t \in Transfers /\ InFlight(u.t, u.state)
    BY DEF Updates, InFlight
  <1>2. /\ ~InFlight(u.t, "Rejected")
        /\ InFlight(u.t, "Completed") \/ InFlight(u.t, "Cancelled") => u.t \in sentAll
        /\ ~(InFlight(u.t, "Cancelled") /\ (InFlight(u.t, "Completed") \/ Completing(u.t)))
    BY <1>1 DEF OneVerdict
  <1>3. u.state \in {"Completed", "Cancelled"}
    BY <1>1, <1>2, FinalStatesAre
  <1>4. u.t \in sentAll
    BY <1>1, <1>2, <1>3
  <1>5. ~MayCome(u.t, IF u.state = "Completed" THEN "Cancelled" ELSE "Completed")
    BY <1>1, <1>2, <1>3, <1>4 DEF MayCome
  <1>6. ~MayCome(u.t, "Rejected")
    BY DEF MayCome
  <1>. QED BY <1>1, <1>3, <1>5, <1>6, FinalStatesAre DEF MayCome

LEMMA CopyApplyUpdate ==
  ASSUME TypeInv, OneVerdict, [Next]_vars, NEW t \in Transfers, CopyAgrees(t), ApplyUpdate
  PROVE  CopyAgrees(t)'
PROOF
  <1>1. PICK u : u = Head(ui.batch)
    OBVIOUS
  <1>2. /\ u \in Updates /\ u.t \in Transfers /\ u \in Queued
        /\ ChangesQueued(u) \/ ChangesShown(u) \/ ChangesStored(u) \/ PutsBack(u)
    BY <1>1, ApplyCases DEF Queued, TypeInv
  <1>3. /\ disk \in [Transfers -> Records \union {NoRecord}]
        /\ pendingChat \in [Transfers -> Records \union {NoRecord}]
        /\ shown \in [Transfers -> Seq(Records)]
    BY DEF TypeInv, TypeOK
  <1>4. selected' = selected
    BY DEF ApplyUpdate
  <1>5. shown[t] \in Seq(Records) /\ (Len(shown[t]) = 1 => shown[t][1] \in Records)
    BY <1>3, ElementOfSeq
  <1>6. CASE t # u.t \/ PutsBack(u)
    <2>1. disk'[t] = disk[t] /\ pendingChat'[t] = pendingChat[t] /\ shown'[t] = shown[t]
      BY <1>2, <1>3, <1>6 DEF ChangesQueued, ChangesShown, ChangesStored, PutsBack
    <2>. QED BY <1>4, <2>1, CopyStays
  <1>7. CASE t = u.t /\ ChangesQueued(u)
    <2>1. /\ disk'[t] = disk[t] /\ shown'[t] = shown[t]
          /\ pendingChat'[t] = Updated(pendingChat[t], u) /\ Takes(pendingChat[t], u)
      BY <1>3, <1>7 DEF ChangesQueued
    <2>2. /\ pendingChat[t] # NoRecord /\ disk[t] # NoRecord
          /\ pendingChat[t] \in Records \union {NoRecord}
      BY <1>2, <1>3, <2>1, TakesFinal DEF CopyAgrees
    <2>3. pendingChat[t].state \in FinalStates => pendingChat'[t].state = pendingChat[t].state
      BY <1>2, <1>3, <2>1, TakesFinal, UpdatedType
    <2>4. ASSUME Len(shown[t]) = 1
          PROVE  AgreesWithDisk(t, shown[t][1])'
      BY <1>5, <2>1, <2>4, AgreementStays DEF CopyAgrees, AgreesWithDisk
    <2>5. ASSUME AgreesWithDisk(t, pendingChat[t])
          PROVE  AgreesWithDisk(t, pendingChat[t])'
      BY <2>1, <2>2, <2>3, <2>5, AgreementStays DEF AgreesWithDisk
    <2>. QED BY <1>4, <2>1, <2>2, <2>4, <2>5 DEF CopyAgrees
  <1>8. CASE t = u.t /\ ChangesShown(u)
    <2>1. PICK i \in DOMAIN shown[t] :
            /\ shown' = [shown EXCEPT ![t] = [shown[t] EXCEPT ![i] = Updated(shown[t][i], u)]]
            /\ disk' = [disk EXCEPT ![t] = Updated(shown[t][i], u)]
            /\ pendingChat' = pendingChat
      BY <1>8 DEF ChangesShown
    <2>2. DOMAIN shown[t] = 1 .. Len(shown[t]) /\ Len(shown[t]) \in Nat
          /\ shown[t][i] \in Records
      BY <1>5, <2>1, LenProperties, ElementOfSeq
    <2>3. PICK new \in Records : new = Updated(shown[t][i], u)
      BY <1>2, <2>2, UpdatedType
    <2>4. /\ disk'[t] = new /\ shown'[t] = [shown[t] EXCEPT ![i] = new]
          /\ shown'[t] \in Seq(Records) /\ Len(shown'[t]) = Len(shown[t])
      BY <1>3, <1>5, <2>1, <2>2, <2>3, ExceptSeq
    <2>5. Len(shown'[t]) = 1 => shown'[t][1] = new
      BY <2>1, <2>2, <2>4
    <2>6. shown'[t] # <<>>
      BY <2>1, <2>2, <2>4, EmptySeq
    <2>. QED BY <2>3, <2>4, <2>5, <2>6, NoFinalRecord DEF CopyAgrees, AgreesWithDisk
  <1>9. CASE t = u.t /\ ChangesStored(u)
    <2>1. /\ disk'[t] = Updated(disk[t], u) /\ shown'[t] = shown[t]
          /\ pendingChat'[t] = pendingChat[t]
          /\ ~Takes(pendingChat[t], u) /\ \A i \in DOMAIN shown[t] : ~Takes(shown[t][i], u)
      BY <1>3, <1>9 DEF ChangesStored
    <2>2. disk'[t] # NoRecord /\ disk'[t].state = u.state
      BY <1>2, <1>3, <2>1, UpdatedType, NoFinalRecord
    <2>3. ASSUME NEW record \in Records \union {NoRecord}, record # NoRecord, ~Takes(record, u),
                 disk'[t].state \in FinalStates
          PROVE  record.state \in FinalStates /\ ~MayCome(t, record.state)'
      <3>1. record.state \in FinalStates /\ record.state # u.state
        BY <1>2, <2>2, <2>3, TakesFinal
      <3>2. PICK s \in States : s = record.state
        BY <3>1, FinalStatesAre DEF States
      <3>3. ~MayCome(t, s)
        BY <1>2, <1>9, <2>2, <2>3, <3>1, <3>2, AppliedVerdict
      <3>. QED BY <3>1, <3>2, <3>3, MayComeStep
    <2>4. ASSUME Len(shown[t]) = 1
          PROVE  AgreesWithDisk(t, shown[t][1])'
      <3>1. 1 \in DOMAIN shown[t]
        BY <1>5, <2>4, LenProperties
      <3>. QED BY <1>5, <2>1, <2>3, <2>4, <3>1, NoFinalRecord DEF AgreesWithDisk
    <2>5. ASSUME pendingChat[t] # NoRecord
          PROVE  AgreesWithDisk(t, pendingChat[t])'
      BY <1>3, <2>1, <2>3, <2>5 DEF AgreesWithDisk
    <2>. QED BY <1>4, <2>1, <2>2, <2>4, <2>5 DEF CopyAgrees
  <1>. QED BY <1>2, <1>6, <1>7, <1>8, <1>9

LEMMA CopySelectPeer ==
  ASSUME TypeInv, OneVerdict, [Next]_vars, NEW t \in Transfers, CopyAgrees(t),
         NEW p \in Peers, SelectPeer(p)
  PROVE  CopyAgrees(t)'
PROOF
  <1>1. disk[t] \in Records \union {NoRecord}
    BY DEF TypeInv, TypeOK
  <1>2. /\ Recovered(t, disk[t]) # NoRecord \/ disk[t] = NoRecord
        /\ disk'[t] = IF PeerOf[t] = p THEN Recovered(t, disk[t]) ELSE disk[t]
        /\ shown'[t] = IF PeerOf[t] = p /\ disk[t] # NoRecord
                         THEN <<Recovered(t, disk[t])>> ELSE <<>>
        /\ pendingChat'[t] = pendingChat[t] /\ selected' = p
    <2>1. Recovered(t, disk[t]) # NoRecord \/ disk[t] = NoRecord
      BY <1>1, RecoveredType, NoFinalRecord DEF TypeInv
    <2>. QED BY <2>1 DEF SelectPeer
  <1>3. pendingChat'[t] # NoRecord => disk'[t] # NoRecord
    BY <1>2 DEF CopyAgrees
  <1>4. ASSUME Len(shown'[t]) = 1
        PROVE  shown'[t][1] = disk'[t]
    <2>1. Len(<<>>) = 0
      BY EmptySeq
    <2>. QED BY <1>2, <1>4, <2>1
  <1>5. ~(shown'[t] = <<>> /\ selected' = PeerOf[t] /\ pendingChat'[t] # NoRecord)
    BY <1>2 DEF CopyAgrees
  <1>. QED BY <1>3, <1>4, <1>5 DEF CopyAgrees, AgreesWithDisk

LEMMA CopyRewrite ==
  ASSUME TypeInv, OneVerdict, [Next]_vars, NEW t \in Transfers, CopyAgrees(t),
         NEW v \in Transfers, shown[v] # <<>>, NEW record \in Records, Rewrite(v, record),
         pendingChat' = pendingChat, selected' = selected
  PROVE  CopyAgrees(t)'
PROOF
  <1>. USE DEF TypeInv
  <1>1. CASE v # t
    <2>1. disk'[t] = disk[t] /\ shown'[t] = shown[t]
      BY <1>1, RewrittenCopy DEF TypeOK
    <2>. QED BY <2>1, CopyStays
  <1>2. CASE v = t
    <2>1. /\ disk'[t] = record /\ Len(shown'[t]) = Len(shown[t]) /\ 1 \in DOMAIN shown[t]
          /\ shown'[t][1] = record
      BY <1>2, RewrittenCopy DEF TypeOK
    <2>2. shown'[t] # <<>>
      BY <1>2, <2>1, EmptySeq DEF TypeOK
    <2>. QED BY <2>1, <2>2, NoFinalRecord DEF CopyAgrees, AgreesWithDisk
  <1>. QED BY <1>1, <1>2

\* A user's action rewrites the first copy; it is taken only where the copy is not final.
LEMMA UserRewrites ==
  ASSUME TypeInv, NEW v \in Transfers,
         \/ RecordAccepted /\ v = accepting.t
         \/ RejectTransfer(v) \/ CancelTransfer(v)
  PROVE  /\ shown[v] # <<>> /\ \E record \in Records : Rewrite(v, record)
         /\ shown[v][1].state \notin FinalStates
         /\ pendingChat' = pendingChat /\ selected' = selected
PROOF
  <1>. USE DEF TypeInv
  <1>0. \A s \in {"Offered", "Interrupted", "Transferring"} : s \notin FinalStates
    BY NoFinalRecord
  <1>1. ASSUME RecordAccepted, v = accepting.t
        PROVE  /\ shown[v] # <<>> /\ \E record \in Records : Rewrite(v, record)
               /\ shown[v][1].state \in {"Offered", "Interrupted"}
               /\ pendingChat' = pendingChat /\ selected' = selected
    <2>1. shown[v] # <<>> /\ shown[v][1].state \in {"Offered", "Interrupted"}
      BY <1>1 DEF RecordAccepted, AcceptRemembers, AcceptableStates
    <2>2. [state |-> "Transferring", path |-> accepting.path] \in Records
      BY AcceptingTypes, MadeValues DEF States
    <2>3. Rewrite(v, [state |-> "Transferring", path |-> accepting.path])
          /\ pendingChat' = pendingChat /\ selected' = selected
      BY <1>1 DEF RecordAccepted
    <2>. QED BY <2>1, <2>2, <2>3
  <1>2. ASSUME RejectTransfer(v)
        PROVE  /\ shown[v] # <<>> /\ \E record \in Records : Rewrite(v, record)
               /\ shown[v][1].state = "Offered"
               /\ pendingChat' = pendingChat /\ selected' = selected
    <2>1. shown[v] # <<>> /\ shown[v][1].state = "Offered"
      BY <1>2 DEF RejectTransfer, UserSees
    <2>2. shown[v][1] \in Records
      BY <2>1, AcceptTypes
    <2>3. [shown[v][1] EXCEPT !.state = "Rejected"] \in Records
      BY <2>2 DEF Records, States
    <2>. QED BY <1>2, <2>1, <2>3 DEF RejectTransfer
  <1>3. ASSUME CancelTransfer(v)
        PROVE  /\ shown[v] # <<>> /\ \E record \in Records : Rewrite(v, record)
               /\ shown[v][1].state = "Transferring"
               /\ pendingChat' = pendingChat /\ selected' = selected
    <2>. DEFINE path == IF Active(v) THEN pending[v].path ELSE shown[v][1].path
    <2>1. shown[v] # <<>> /\ shown[v][1].state = "Transferring"
      BY <1>3 DEF CancelTransfer, UserSees
    <2>2. shown[v][1] \in Records
      BY <2>1, AcceptTypes
    <2>3. path \in Nat
      BY <2>2 DEF Records, TypeOK, Pendings
    <2>4. [state |-> "Cancelled", path |-> path] \in Records
      BY <2>3, MadeValues DEF States
    <2>5. Rewrite(v, [state |-> "Cancelled", path |-> path])
          /\ pendingChat' = pendingChat /\ selected' = selected
      BY <1>3 DEF CancelTransfer
    <2>. QED BY <2>1, <2>4, <2>5
  <1>. QED BY <1>0, <1>1, <1>2, <1>3

\* The steps that touch no copy.
LEMMA CopyOtherSteps ==
  ASSUME [Next]_vars, ~WriteRecovered, ~DrainChatMessages, ~ApplyUpdate, ~RecordAccepted,
         ~Restart,
         ~\E v \in Transfers : ReceiveChat(v) \/ RejectTransfer(v) \/ CancelTransfer(v),
         ~\E p \in Peers : SelectPeer(p)
  PROVE  UNCHANGED recordVars
PROOF
  <1>1. CASE TcpStep
    BY <1>1
    DEF TcpStep, ReadOffer, SearchHistory, MeasureOffered, PrepareOffered, ReplaceOffered,
        InstallFails, ReadChunk, WriteChunk, WriteFails, CountChunk, ReadComplete,
        PublishComplete, EraseCompleted, EndConnection
  <1>2. CASE SenderStep
    BY <1>2 DEF SenderStep, ReceiveCancel, OpenConnection
  <1>3. CASE UiStep
    BY <1>3 DEF UiStep, RefreshStep, DrainTransferUpdates, DrainStateUpdates, AcceptStep,
                BeginAccept, PrepareAccepted, ReplaceAccepted
  <1>4. CASE TaskStep
    BY <1>4 DEF TaskStep, AcceptSent, AcceptFails
  <1>5. CASE UNCHANGED vars
    BY <1>5 DEF vars, recordVars
  <1>. QED BY <1>1, <1>2, <1>3, <1>4, <1>5 DEF Next

LEMMA CopiesStep == TypeInv /\ OneVerdict /\ CopiesAgree /\ [Next]_vars => CopiesAgree'
PROOF
  <1>. SUFFICES ASSUME TypeInv, OneVerdict, CopiesAgree, [Next]_vars, NEW t \in Transfers
                PROVE  CopyAgrees(t)'
    BY DEF CopiesAgree, CopyAgrees
  <1>1. CopyAgrees(t)
    BY DEF CopiesAgree, CopyAgrees
  <1>2. ASSUME NEW v \in Transfers,
               \/ RecordAccepted /\ v = accepting.t
               \/ RejectTransfer(v) \/ CancelTransfer(v)
        PROVE  CopyAgrees(t)'
    BY <1>1, <1>2, UserRewrites, CopyRewrite
  <1>3. CASE Restart
    <2>1. shown'[t] = <<>> /\ pendingChat'[t] = NoRecord /\ Len(<<>>) = 0
      BY <1>3, EmptySeq DEF Restart
    <2>. QED BY <2>1 DEF CopyAgrees
  <1>4. CASE UNCHANGED recordVars
    BY <1>1, <1>4, CopyStays DEF recordVars
  <1>. QED BY <1>1, <1>2, <1>3, <1>4, AcceptingTypes, CopyReceiveChat, CopyWriteRecovered,
              CopyDrainChat, CopyApplyUpdate, CopySelectPeer, CopyOtherSteps DEF TypeInv

LEMMA CopiesAtFirst == Init => CopiesAgree
PROOF
  <1>. SUFFICES ASSUME Init PROVE CopiesAgree
    OBVIOUS
  <1>1. Len(<<>>) = 0
    BY EmptySeq
  <1>. QED BY <1>1 DEF Init, CopiesAgree

LEMMA CopiesInvariant == Spec => []CopiesAgree
PROOF
  BY CopiesAtFirst, CopiesStep, TypesInvariant, VerdictInvariant, PTL DEF Spec

\* A sequence of at most one element: an index of it is the first one.
LEMMA AtMostOne ==
  ASSUME NEW n \in Nat, n <= 1
  PROVE  /\ n # 0 => n = 1
         /\ \A i \in 1 .. n : i = 1 /\ n = 1
PROOF OBVIOUS

\* A step keeps the final state of a stored record whose only shown copy agrees with it.
LEMMA FinalStateStep ==
  ASSUME TypeInv, OneVerdict, CopiesAgree, [Next]_vars, NEW t \in Transfers,
         disk[t].state \in FinalStates, Len(shown[t]) <= 1, ~(tcp.step = "recover" /\ tcp.t = t)
  PROVE  disk'[t].state = disk[t].state
PROOF
  <1>1. /\ disk \in [Transfers -> Records \union {NoRecord}]
        /\ shown[t] \in Seq(Records) /\ Len(shown[t]) \in Nat
        /\ pendingChat \in [Transfers -> Records \union {NoRecord}]
    BY LenProperties DEF TypeInv, TypeOK
  <1>. PICK length \in Nat : length = Len(shown[t])
    BY <1>1
  <1>0. length <= 1
    OBVIOUS
  <1>2. CASE disk'[t] = disk[t]
    BY <1>2
  <1>3. ASSUME NEW v \in Transfers, ReceiveChat(v)
        PROVE  disk'[t] = disk[t]
    <2>1. v # t
      BY <1>3, NoFinalRecord DEF ReceiveChat
    <2>. QED BY <1>1, <1>3, <2>1 DEF ReceiveChat
  <1>4. CASE WriteRecovered
    BY <1>1, <1>4 DEF WriteRecovered
  <1>5. CASE ApplyUpdate
    <2>1. PICK u : u = Head(ui.batch)
      OBVIOUS
    <2>2. /\ u \in Updates /\ u.t \in Transfers /\ u \in Queued
          /\ ChangesQueued(u) \/ ChangesShown(u) \/ ChangesStored(u) \/ PutsBack(u)
      BY <1>5, <2>1, ApplyCases DEF Queued, TypeInv
    <2>3. CASE t # u.t \/ ChangesQueued(u) \/ PutsBack(u)
      BY <1>1, <2>2, <2>3 DEF ChangesQueued, ChangesShown, ChangesStored, PutsBack
    <2>4. CASE t = u.t /\ ChangesStored(u)
      <3>1. Takes(disk[t], u) /\ disk'[t] = Updated(disk[t], u)
        BY <1>1, <2>4 DEF ChangesStored
      <3>. QED BY <1>1, <2>2, <3>1, TakesFinal, UpdatedType
    <2>5. CASE t = u.t /\ ChangesShown(u)
      <3>1. PICK i \in DOMAIN shown[t] :
              /\ Takes(shown[t][i], u)
              /\ disk' = [disk EXCEPT ![t] = Updated(shown[t][i], u)]
        BY <2>5 DEF ChangesShown
      <3>2. i = 1 /\ Len(shown[t]) = 1 /\ shown[t][1] \in Records
        <4>1. i \in 1 .. Len(shown[t])
          BY <1>1, <3>1, LenProperties
        <4>2. i \in 1 .. length
          BY <4>1
        <4>3. i = 1 /\ length = 1
          BY <1>0, <4>2, AtMostOne, Zenon
        <4>. QED BY <1>1, <4>1, <4>3, ElementOfSeq
      <3>3. AgreesWithDisk(t, shown[t][1])
        BY <3>2 DEF CopiesAgree
      <3>4. disk'[t].state = u.state
        BY <1>1, <2>2, <3>1, <3>2, UpdatedType
      <3>5. shown[t][1].state \in FinalStates => u.state = shown[t][1].state
        BY <2>2, <3>1, <3>2, TakesFinal
      <3>6. shown[t][1].state \in FinalStates => MayCome(t, shown[t][1].state)
        BY <2>2, <2>5, <3>5, AppliedVerdict
      <3>. QED BY <3>3, <3>4, <3>5, <3>6 DEF AgreesWithDisk
    <2>. QED BY <2>2, <2>3, <2>4, <2>5
  <1>6. ASSUME NEW p \in Peers, SelectPeer(p)
        PROVE  disk'[t] = disk[t]
    <2>1. disk[t].state # "Transferring"
      BY NoFinalRecord
    <2>2. Recovered(t, disk[t]) = disk[t]
      BY <1>1, <2>1, RecoveredType DEF TypeInv
    <2>. QED BY <1>6, <2>2 DEF SelectPeer
  <1>7. ASSUME NEW v \in Transfers,
               \/ RecordAccepted /\ v = accepting.t
               \/ RejectTransfer(v) \/ CancelTransfer(v)
        PROVE  disk'[t] = disk[t]
    <2>1. /\ shown[v] # <<>> /\ shown[v][1].state \notin FinalStates
          /\ \E record \in Records : Rewrite(v, record)
      BY <1>7, UserRewrites
    <2>2. CASE v = t
      <3>1. Len(shown[t]) = 1
        <4>1. length # 0
          BY <1>1, <2>1, <2>2, EmptySeq
        <4>2. length = 1
          BY <1>0, <4>1, AtMostOne, Zenon
        <4>. QED BY <4>2
      <3>2. AgreesWithDisk(t, shown[t][1])
        BY <3>1 DEF CopiesAgree
      <3>. QED BY <2>1, <2>2, <3>2 DEF AgreesWithDisk
    <2>3. CASE v # t
      BY <1>1, <2>1, <2>3 DEF Rewrite
    <2>. QED BY <2>2, <2>3
  <1>8. CASE Restart \/ DrainChatMessages
    BY <1>8 DEF Restart, DrainChatMessages
  <1>9. CASE UNCHANGED recordVars
    BY <1>9 DEF recordVars
  <1>. QED BY <1>3, <1>4, <1>5, <1>6, <1>7, <1>8, <1>9, AcceptingTypes, CopyOtherSteps DEF TypeInv

\* What the user or the sender decided about a transfer stays decided: a late frame, a late
\* accept result, a requeued update, a reload of the history or a restart never takes a
\* stored Completed, Cancelled or Rejected back, except in the two cases that the property
\* names, for any number of transfers, peers, connections, accepts and restarts.
THEOREM FinalStatesAreKept == Spec => FinalStateKept
PROOF
  <1>. DEFINE Kept(t) == (/\ disk[t].state \in FinalStates
                          /\ Len(shown[t]) <= 1
                          /\ ~(tcp.step = "recover" /\ tcp.t = t))
                            => disk'[t].state = disk[t].state
  <1>1. TypeInv /\ OneVerdict /\ CopiesAgree /\ [Next]_vars => [\A t \in Transfers : Kept(t)]_vars
    BY FinalStateStep
  <1>2. Spec => [][\A t \in Transfers : Kept(t)]_vars
    BY <1>1, TypesInvariant, VerdictInvariant, CopiesInvariant, PTL DEF Spec
  <1>. QED BY <1>2 DEF FinalStateKept
=============================================================================
