------------------------------- MODULE HistoryStore -------------------------------
(***************************************************************************)
(* The chat history file of one peer (storage/history_store.cpp), the page of   *)
(* it the user interface shows, and the messages on their way there             *)
(* (app_runtime.cpp).                                                          *)
(*                                                                         *)
(* All file operations run under chatHistoryStorageMutex_, so other threads      *)
(* see each of them whole.  What a crash or a full disk leaves behind is one of   *)
(* the results an operation may have.                                           *)
(***************************************************************************)
EXTENDS Naturals, Sequences, FiniteSets, FiniteSetsExt

CONSTANTS
  Messages,     \* message ids
  PageSize,     \* kSelectedPeerMessagePageSize
  FaultKinds,   \* what can go wrong: "crash", "error" or an unnoticed failure, "ok"
  MaxFaults,    \* bound on faults
  MaxArrivals   \* bound on messages received, repetitions included

ASSUME HistoryAssumption ==
  /\ PageSize \in Nat \ {0} /\ MaxFaults \in Nat /\ MaxArrivals \in Nat
  /\ FaultKinds \subseteq {"crash", "error", "ok"}

VARIABLES
  history,    \* messages.jsonl: its lines, and whether the last one has its end
  chat,       \* the peer is the selected one: "open", or "failed" to load
  page,       \* selectedPeerMessages_
  hasMore,    \* selectedPeerHasMoreMessages_
  arrived,    \* pendingChatMessages_: [id, persisted]
  unsaved,    \* messages shown as Pending that their completion stores
  reported,   \* (history) messages whose storing was reported as done
  excused,    \* (history) messages that are not in the file owing to a fault
  missed,     \* (history) messages stored behind an open page that lacks them
  faults, arrivals

histVars == <<history, chat, page, hasMore, arrived, unsaved, reported, excused,
              missed, faults, arrivals>>

Damaged == "damaged line"
ASSUME DamagedAssumption == Damaged \notin Messages
Empty == [lines |-> <<>>, ended |-> TRUE]
Ids(s) == {s[i] : i \in DOMAIN s} \ {Damaged}
Valid(file) ==
  LET upTo[n \in 0..Len(file.lines)] ==
        IF n = 0 THEN <<>>
        ELSE IF file.lines[n] = Damaged THEN upTo[n - 1]
        ELSE Append(upTo[n - 1], file.lines[n])
  IN upTo[Len(file.lines)]
Stored(file) == Ids(file.lines)
Selected == chat # "closed"

HistTypeOK ==
  /\ history.lines \in Seq(Messages \union {Damaged})
  /\ history.ended \in BOOLEAN
  /\ chat \in {"closed", "open", "failed"} /\ hasMore \in BOOLEAN
  /\ page \in Seq(Messages)
  /\ arrived \in Seq([id : Messages, persisted : BOOLEAN])
  /\ unsaved \subseteq Messages
  /\ {reported, excused, missed} \subseteq SUBSET Messages
  /\ faults \in 0..MaxFaults /\ arrivals \in 0..MaxArrivals
  /\ chat = "closed" => page = <<>> /\ ~hasMore

HistInit ==
  /\ history = Empty /\ chat = "closed" /\ page = <<>> /\ hasMore = FALSE
  /\ arrived = <<>> /\ unsaved = {} /\ reported = {} /\ excused = {}
  /\ missed = {}
  /\ faults = 0 /\ arrivals = 0

-----------------------------------------------------------------------------
(* Writing the file.  An operation has a result for its caller: "ok", "error"   *)
(* (it throws) or "crash" (there is no caller any more).                       *)

\* What is written goes behind a line without an end, which spoils both.
Put(file, line, ended) ==
  [lines |-> IF file.ended THEN Append(file.lines, line)
             ELSE [file.lines EXCEPT ![Len(file.lines)] = Damaged],
   ended |-> ended]

Results(files, kinds, fault) ==
  [file : files, result : kinds, fault : {fault}]
Kinds == IF faults < MaxFaults THEN FaultKinds ELSE {}

\* appendChatMessage: a fault leaves nothing, a part of the line or all but its
\* end.  The stream is not asked again after its last flush.
AppendResults(file, m) ==
  Results({Put(file, m, TRUE)}, {"ok"}, FALSE)
    \union Results({file, Put(file, Damaged, FALSE), Put(file, m, FALSE)},
                   Kinds, TRUE)

NewestPage(v) ==
  SubSeq(v, IF Len(v) > PageSize THEN Len(v) - PageSize + 1 ELSE 1, Len(v))

\* Mutant of Rewritten: only the newest page is written back.
RewrittenPage(file) == [lines |-> NewestPage(Valid(file)), ended |-> TRUE]

\* The records in their order, one of them replaced, without the damaged lines.
Rewritten(file) == [lines |-> Valid(file), ended |-> TRUE]

\* replaceChatMessage writes a temporary file, removes the old one and renames:
\* an error or a crash keeps the old file or, after the removal, none; a failure
\* of the last flush goes unnoticed and keeps a part of the new file.
ReplaceFaults(file, kind) ==
  IF kind = "ok"
    THEN {[lines |-> SubSeq(Valid(file), 1, n), ended |-> TRUE] :
            n \in 0..(Len(Valid(file)) - 1)}
    ELSE {file, Empty}

ReplaceResults(file) ==
  Results({Rewritten(file)}, {"ok"}, FALSE)
    \union UNION {Results(ReplaceFaults(file, k), {k}, TRUE) : k \in Kinds}

\* persistChatMessageRecord: what is not there to be replaced is appended.
PersistResults(file, m, replacing) ==
  IF replacing /\ m \in Stored(file) THEN ReplaceResults(file)
                                     ELSE AppendResults(file, m)

\* The program is gone; the file stays.  Started again, it shows no chat.
Restarted ==
  /\ chat' = "closed" /\ page' = <<>> /\ hasMore' = FALSE
  /\ arrived' = <<>> /\ unsaved' = {} /\ missed' = {}

\* The file after one of the results, and what a fault excuses.
Apply(r, ids) ==
  /\ history' = r.file
  /\ reported' = IF r.result = "ok" THEN reported \union ids ELSE reported
  /\ faults' = IF r.fault THEN faults + 1 ELSE faults
  /\ excused' =
       LET gone == (reported' \union Stored(history)) \ Stored(r.file)
       IN excused \union IF r.fault \/ ~history.ended THEN gone ELSE {}

\* For the history: what is in the file now and not on the open page.
Misses(m) ==
  missed' = IF chat = "open" /\ m \in Stored(history') \ Ids(page)
              THEN missed \union {m} ELSE missed

-----------------------------------------------------------------------------
(* The TCP thread.                                                         *)

\* enqueueIncomingChatMessage: stored, then queued for the UI thread.  A message
\* whose sender tries again may arrive twice.
ReceiveChat(m) ==
  /\ arrivals < MaxArrivals /\ m \notin unsaved
  /\ arrivals' = arrivals + 1
  /\ \E r \in AppendResults(history, m) :
       /\ Apply(r, {m})
       /\ IF r.result = "crash" THEN Restarted
          ELSE /\ arrived' = Append(arrived,
                    [id |-> m, persisted |-> r.result = "ok"])
               /\ UNCHANGED <<chat, page, hasMore, unsaved, missed>>

-----------------------------------------------------------------------------
(* The UI thread.                                                          *)

\* drainPendingChatMessages, one message at a time.
DrainArrived ==
  /\ arrived # <<>>
  /\ LET m == Head(arrived)
         Shown == page' = IF Selected THEN Append(page, m.id) ELSE page
     IN IF m.persisted
          THEN /\ arrived' = Tail(arrived) /\ Shown
               /\ UNCHANGED <<history, chat, hasMore, unsaved, reported, excused,
                              missed, faults>>
          ELSE \E r \in AppendResults(history, m.id) :
                 /\ Apply(r, {m.id})
                 /\ IF r.result = "crash" THEN Restarted
                    ELSE /\ arrived' = Tail(arrived)
                         /\ IF r.result = "ok" THEN Shown /\ UNCHANGED missed
                                               ELSE Misses(m.id) /\ UNCHANGED page
                         /\ UNCHANGED <<chat, hasMore, unsaved>>
  /\ UNCHANGED arrivals

\* sendMessagePartsToSelectedPeer: a new message is shown before it is stored.
SendChat(m) ==
  /\ Selected /\ m \notin unsaved \union Stored(history) \union Ids(page)
  /\ arrivals < MaxArrivals /\ \A i \in DOMAIN arrived : arrived[i].id # m
  /\ arrivals' = arrivals + 1
  /\ page' = Append(page, m)
  /\ unsaved' = unsaved \union {m}
  /\ UNCHANGED <<history, chat, hasMore, arrived, reported, excused, missed,
                 faults>>

\* The completion of a first attempt appends the record, that of a later one and
\* every state update replace it.
Persist(m, replacing) ==
  /\ replacing = (m \notin unsaved)
  /\ replacing => m \in Stored(history)
  /\ \E r \in PersistResults(history, m, replacing) :
       /\ Apply(r, {m})
       /\ IF r.result = "crash" THEN Restarted
          ELSE /\ unsaved' = unsaved \ {m}
               /\ Misses(m)
               /\ UNCHANGED <<chat, page, hasMore, arrived>>
  /\ UNCHANGED arrivals

\* The records of a page whose transfers were interrupted are replaced while it
\* is loaded; Loaded tells what the page is then, Thrown what it is if that fails.
Recover(records, Loaded, Thrown) ==
  \/ Loaded /\ UNCHANGED <<history, arrived, unsaved, reported, excused, faults>>
  \/ /\ records # <<>>
     /\ \E r \in ReplaceResults(history) :
          /\ Apply(r, {})
          /\ IF r.result = "crash" THEN Restarted
             ELSE /\ IF r.result = "error" THEN Thrown ELSE Loaded
                  /\ UNCHANGED <<arrived, unsaved>>

\* Mutant of HasMore: a page that is full but for one record counts as the last.
HasMoreOffByOne(v) == Len(v) > PageSize + 1
HasMore(v) == Len(v) > PageSize

\* loadSelectedPeerMessages and loadRecentChatHistory
OpenChat ==
  /\ ~Selected
  /\ LET v == Valid(history) IN
     Recover(v,
       /\ chat' = "open" /\ missed' = {}
       /\ page' = NewestPage(v) /\ hasMore' = HasMore(v),
       chat' = "failed" /\ missed' = {} /\ page' = <<>> /\ hasMore' = FALSE)
  /\ UNCHANGED arrivals

CloseChat ==
  /\ Selected
  /\ chat' = "closed" /\ page' = <<>> /\ hasMore' = FALSE
  /\ missed' = {}
  /\ UNCHANGED <<history, arrived, unsaved, reported, excused, faults, arrivals>>

\* loadChatHistoryBefore: the records before the first line with this id.
Before(v, id) ==
  IF id \in Ids(v)
    THEN SubSeq(v, 1, Min({i \in DOMAIN v : v[i] = id}) - 1) ELSE <<>>

\* loadMoreSelectedPeerMessages
LoadMore ==
  /\ hasMore /\ page # <<>>
  /\ LET older == Before(Valid(history), Head(page)) IN
     IF older = <<>>
       THEN /\ hasMore' = FALSE
            /\ UNCHANGED <<history, chat, page, arrived, unsaved, reported,
                           excused, missed, faults>>
       ELSE Recover(older,
              /\ page' = NewestPage(older) \o page
              /\ hasMore' = HasMore(older) /\ UNCHANGED <<chat, missed>>,
              UNCHANGED <<chat, page, hasMore, missed>>)
  /\ UNCHANGED arrivals

\* loadSelectedPeerMessagesAround, for the target of a quotation or a search
ShowAround(m) ==
  /\ Selected /\ m \in Stored(history)
  /\ LET v == Valid(history)
         at == Min({i \in DOMAIN v : v[i] = m})
         half == PageSize \div 2
         first == IF at - 1 > half THEN at - half ELSE 1
     IN /\ page' = SubSeq(v, first, Min({Len(v), first + PageSize - 1}))
        /\ hasMore' = (first > 1)
        /\ chat' = "open"
  /\ UNCHANGED <<history, arrived, unsaved, reported, excused, missed, faults,
                 arrivals>>

HistNext ==
  \/ DrainArrived \/ OpenChat \/ CloseChat \/ LoadMore
  \/ \E m \in Messages :
       \/ ReceiveChat(m) \/ SendChat(m) \/ ShowAround(m)
       \/ \E replacing \in BOOLEAN : Persist(m, replacing)

HistSpec == HistInit /\ [][HistNext]_histVars
-----------------------------------------------------------------------------
(* Properties.                                                             *)

\* A record that was stored stays readable through appends, replacements and the
\* dropping of damaged lines, whatever a fault has left in the file before.
\* What is excused was lost by a fault in the very operation, or was written
\* behind a line such a fault had left without its end.
HistoryKept == reported \ excused \subseteq Stored(history)

\* The user can page back to the first record: when there is no more to load, it
\* is on the page, on its way there or was stored behind it, whatever is stored,
\* drained and rewritten between the loading of the pages.  It needs a page whose
\* records were not lost by a fault since, and one that could be loaded: a failure
\* of a recovery shows an empty chat until another peer was selected.
OldestReachable ==
  LET v == Valid(history)
      Coming == {arrived[i].id : i \in DOMAIN arrived}
  IN (chat = "open" /\ ~hasMore /\ Ids(page) \intersect excused = {} /\ v # <<>>)
       => Head(v) \in Ids(page) \union Coming \union missed

\* "The history can be viewed after a restart" (RelayDesk_Project_Plan.md:799) and
\* a damaged line does not keep the others from being loaded (:399).
HistorySurvives == reported \subseteq Stored(history)
=============================================================================
