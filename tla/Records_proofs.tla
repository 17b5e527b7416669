----------------------------- MODULE Records_proofs -----------------------------
(* Proofs about the components that keep files of their own and share no state. *)
EXTENDS PeerProfiles, AppUpdate, Integers, TLAPS

-----------------------------------------------------------------------------
(* Application updates: what is installed is a whole program file, for any     *)
(* peers, versions, requests and sizes.                                       *)

\* What the argument needs of the types.
UpdateTypes ==
  /\ pending \subseteq Requests
  /\ payload \in [Requests -> 0 .. Removed]
  /\ received \in [Requests -> 0 .. Size]
  /\ task \in [Requests -> {"none", "running", "done", "failed", "over"}]
  /\ stream \in [Requests -> 0 .. Size + 1]
  /\ helper \in [Requests -> {"none", "running", "over"}]
  /\ DOMAIN asked = Requests
  /\ scheduled # NoUpdate => scheduled.request \in Requests

FreshIsUntouched ==
  \A r \in Requests : task[r] = "none" => r \notin pending /\ received[r] = 0

\* A peer sends only what a request that went out has asked for.
StreamsArePeers ==
  \A r \in Requests :
    stream[r] # Over => ~IsGitHub(r) /\ task[r] \in {"done", "over"}

\* The file of r is about to be installed, or was.
Given(r) ==
  \/ scheduled # NoUpdate /\ scheduled.request = r
  \/ helper[r] # "none"
  \/ installed = r

\* A file that was given away is whole, and nothing that writes or removes files
\* has a reason left to touch it.
GivenIsWhole ==
  \A r \in Requests : Given(r) =>
    /\ payload[r] = Size /\ r \notin pending
    /\ task[r] # "none" /\ (IsGitHub(r) => task[r] = "over")

DownloadedIsWhole ==
  \A r \in pending : (IsGitHub(r) /\ task[r] = "done") => payload[r] = Size

\* The TCP thread is between the locked sections of a chunk, whose request may
\* be dismissed meanwhile and its file removed.
Taking(r, n) ==
  /\ handler \in {[step |-> "append", of |-> r, at |-> n],
                  [step |-> "count", of |-> r, at |-> n]}
  /\ ~IsGitHub(r) /\ task[r] \in {"done", "over"}
  /\ r \notin pending => payload[r] = Removed
  /\ (Running /\ r \in pending) => n = received[r] + 1

\* It is between those of the last frame.
Finishing(r) ==
  /\ handler.step = "finish" /\ handler.of = r
  /\ ~IsGitHub(r) /\ task[r] \in {"done", "over"}
  /\ r \notin pending /\ payload[r] = Size

HandlerIsSound ==
  \/ handler = Waiting
  \/ \E r \in Requests : Finishing(r) \/ \E n \in 1 .. Size : Taking(r, n)

\* What was counted is what was appended, but for a chunk that is being counted.
ChunksAreCounted ==
  Running => \A r \in pending : ~IsGitHub(r) =>
    payload[r] = received[r] + (IF handler.step = "count" /\ handler.of = r
                                  THEN 1 ELSE 0)

UpdInv ==
  /\ UpdateTypes
  /\ FreshIsUntouched
  /\ StreamsArePeers
  /\ GivenIsWhole
  /\ DownloadedIsWhole
  /\ HandlerIsSound
  /\ ChunksAreCounted

\* What markAppUpdateFailed does to the downloads: some of "rest" are removed with
\* their files.
LEMMA MarkFailedRemoves ==
  ASSUME NEW source, NEW version, NEW rest \in SUBSET Requests,
         MarkFailed(source, version, rest)
  PROVE  \E gone \in SUBSET rest :
           /\ pending' = rest \ gone
           /\ payload' = [r \in Requests |-> IF r \in gone THEN Removed ELSE payload[r]]
PROOF
  <1>. DEFINE gone == {r \in rest : asked[r].source = source /\ asked[r].version = version}
  <1>. WITNESS gone \in SUBSET rest
  <1>. QED BY DEF MarkFailed

\* Steps that take downloads away, with their files, or give away files that are
\* whole.  "ended" leaves the map, "gone" loses its files: what only ends is no
\* download that the TCP thread may be working for.
LEMMA LeavingKeeps ==
  ASSUME UpdInv,
         NEW ended \in SUBSET pending, NEW gone \in SUBSET ended,
         \A r \in ended \ gone : IsGitHub(r) \/ task[r] = "failed",
         pending' = pending \ ended,
         payload' = [r \in Requests |-> IF r \in gone THEN Removed ELSE payload[r]],
         task' \in [Requests -> {"none", "running", "done", "failed", "over"}],
         \A r \in Requests :
           task'[r] = task[r] \/ (task[r] # "none" /\ task'[r] = "over"),
         stream' \in [Requests -> 0 .. Size + 1],
         \A r \in Requests : stream'[r] \in {stream[r], Over},
         UNCHANGED <<asked, received>>,
         Running' => Running,
         handler' = handler \/ (handler' = Waiting /\ (handler.step # "count" \/ ~Running')),
         helper' \in [Requests -> {"none", "running", "over"}],
         scheduled' # NoUpdate => scheduled'.request \in Requests,
         \A r \in Requests : Given(r)' =>
           \/ Given(r)
           \/ /\ payload'[r] = Size /\ r \notin pending'
              /\ task'[r] # "none" /\ (IsGitHub(r) => task'[r] = "over")
  PROVE  UpdInv'
PROOF
  <1>0. /\ pending \subseteq Requests /\ payload \in [Requests -> 0 .. Removed]
        /\ Size \in Nat /\ Removed \in Nat
        /\ \A r \in Requests : /\ IsGitHub(r)' <=> IsGitHub(r)
                               /\ payload'[r] = IF r \in gone THEN Removed ELSE payload[r]
    BY UpdateAssumption DEF UpdInv, UpdateTypes, IsGitHub, Removed
  <1>1. UpdateTypes'
    BY <1>0 DEF UpdInv, UpdateTypes
  <1>2. FreshIsUntouched'
    BY <1>0 DEF UpdInv, FreshIsUntouched
  <1>3. StreamsArePeers'
    BY <1>0 DEF UpdInv, StreamsArePeers
  <1>4. GivenIsWhole'
    <2> SUFFICES ASSUME NEW r \in Requests, Given(r)'
                 PROVE  /\ payload'[r] = Size /\ r \notin pending'
                        /\ task'[r] # "none" /\ (IsGitHub(r) => task'[r] = "over")
      BY <1>0 DEF GivenIsWhole
    <2>1. CASE Given(r)
      BY <1>0, <2>1 DEF UpdInv, GivenIsWhole
    <2>. QED BY <2>1
  <1>5. DownloadedIsWhole'
    BY <1>0 DEF UpdInv, DownloadedIsWhole
  <1>6. HandlerIsSound'
    <2>1. CASE handler' = Waiting
      BY <2>1 DEF HandlerIsSound
    <2>2. ASSUME NEW r \in Requests, Finishing(r), handler' = handler
          PROVE  Finishing(r)'
      BY <1>0, <2>2 DEF Finishing
    <2>3. ASSUME NEW r \in Requests, NEW n \in 1 .. Size, Taking(r, n), handler' = handler
          PROVE  Taking(r, n)'
      <3>1. r \notin pending' => payload'[r] = Removed
        <4>1. r \notin pending => payload[r] = Removed
          BY <2>3 DEF Taking
        <4>2. r \notin ended \ gone
          BY <2>3 DEF Taking
        <4>. QED BY <1>0, <4>1, <4>2
      <3>2. task'[r] \in {"done", "over"}
        BY <2>3 DEF Taking
      <3>. QED BY <1>0, <2>3, <3>1, <3>2 DEF Taking
    <2>. QED BY <2>1, <2>2, <2>3 DEF UpdInv, HandlerIsSound
  <1>7. ChunksAreCounted'
    <2> SUFFICES ASSUME Running', NEW r \in pending', ~IsGitHub(r)
                 PROVE  payload'[r] = received[r]
                          + (IF handler'.step = "count" /\ handler'.of = r THEN 1 ELSE 0)
      BY <1>0 DEF ChunksAreCounted
    <2>1. /\ r \in pending /\ payload'[r] = payload[r]
          /\ payload[r] = received[r]
               + (IF handler.step = "count" /\ handler.of = r THEN 1 ELSE 0)
      BY <1>0 DEF UpdInv, ChunksAreCounted
    <2>2. handler' = handler \/ (handler'.step = "wait" /\ handler.step # "count")
      BY DEF Waiting
    <2>. QED BY <2>1, <2>2
  <1>. QED BY <1>1, <1>2, <1>3, <1>4, <1>5, <1>6, <1>7 DEF UpdInv

-----------------------------------------------------------------------------
(* The steps that start, count or end something.                           *)

\* A step that changes nothing the invariant looks at.
LEMMA UpdUnchanged ==
  ASSUME UpdInv,
         UNCHANGED <<asked, pending, received, payload, task, stream, handler, helper,
                     scheduled, installed, exit>>
  PROVE  UpdInv'
PROOF
  <1>1. UpdateTypes' /\ FreshIsUntouched' /\ StreamsArePeers' /\ DownloadedIsWhole'
    BY DEF UpdInv, UpdateTypes, FreshIsUntouched, StreamsArePeers, DownloadedIsWhole,
           IsGitHub
  <1>2. GivenIsWhole'
    BY DEF UpdInv, GivenIsWhole, Given, IsGitHub
  <1>3. HandlerIsSound'
    BY DEF UpdInv, HandlerIsSound, Finishing, Taking, IsGitHub, Running
  <1>4. ChunksAreCounted'
    BY DEF UpdInv, ChunksAreCounted, IsGitHub, Running
  <1>. QED BY <1>1, <1>2, <1>3, <1>4 DEF UpdInv

\* The TCP thread works for no request that has not gone out.
LEMMA HandlersRequest ==
  ASSUME UpdInv, handler # Waiting
  PROVE  /\ handler.of \in Requests
         /\ task[handler.of] \in {"done", "over"} /\ ~IsGitHub(handler.of)
         /\ \/ Finishing(handler.of)
            \/ \E n \in 1 .. Size : Taking(handler.of, n)
PROOF
  <1>1. PICK r \in Requests : Finishing(r) \/ \E n \in 1 .. Size : Taking(r, n)
    BY DEF UpdInv, HandlerIsSound
  <1>2. handler.of = r
    BY <1>1 DEF Finishing, Taking
  <1>. QED BY <1>1, <1>2 DEF Finishing, Taking

\* A step for another request leaves the TCP thread's work as it is.
LEMMA HandlerStays ==
  ASSUME UpdInv, NEW r \in Requests, handler = Waiting \/ handler.of # r,
         UNCHANGED <<handler, exit>>,
         \A s \in Requests \ {r} :
           /\ payload'[s] = payload[s] /\ task'[s] = task[s] /\ received'[s] = received[s]
           /\ (IsGitHub(s)' <=> IsGitHub(s)) /\ (s \in pending' <=> s \in pending)
  PROVE  HandlerIsSound'
PROOF
  <1>1. CASE handler = Waiting
    BY <1>1 DEF HandlerIsSound
  <1>2. CASE handler # Waiting
    <2>1. PICK s \in Requests \ {r} :
            Finishing(s) \/ \E n \in 1 .. Size : Taking(s, n)
      BY <1>2, HandlersRequest
    <2>2. CASE Finishing(s)
      BY <2>2 DEF HandlerIsSound, Finishing
    <2>3. ASSUME NEW n \in 1 .. Size, Taking(s, n)
          PROVE  Taking(s, n)'
      BY <2>3 DEF Taking, Running
    <2>. QED BY <2>1, <2>2, <2>3 DEF HandlerIsSound
  <1>. QED BY <1>1, <1>2

\* A request that begins was untouched: nothing is streamed for it, its file is
\* new, and nobody was given it.
LEMMA BeginKeeps ==
  ASSUME UpdInv, NEW r \in Requests, task[r] = "none",
         NEW source, NEW version, NEW mode, Begin(r, source, version, mode),
         UNCHANGED <<received, scheduled, stream, handler, helper, installed, exit>>
  PROVE  UpdInv'
PROOF
  <1>0. /\ pending \subseteq Requests /\ payload \in [Requests -> 0 .. Removed]
        /\ Size \in Nat /\ Removed \in Nat /\ DOMAIN asked = Requests
        /\ task \in [Requests -> {"none", "running", "done", "failed", "over"}]
    BY UpdateAssumption DEF UpdInv, UpdateTypes, Removed
  <1>1. /\ pending' = pending \union {r}
        /\ payload' = [payload EXCEPT ![r] = 0]
        /\ task' = [task EXCEPT ![r] = "running"]
        /\ DOMAIN asked' = Requests
        /\ \A s \in Requests : s # r => asked'[s] = asked[s]
    BY <1>0 DEF Begin
  <1>2. /\ payload'[r] = 0 /\ task'[r] = "running"
        /\ \A s \in Requests \ {r} :
             /\ payload'[s] = payload[s] /\ task'[s] = task[s]
             /\ IsGitHub(s)' <=> IsGitHub(s)
    BY <1>0, <1>1 DEF IsGitHub
  <1>3. /\ r \notin pending /\ received[r] = 0 /\ stream[r] = Over /\ ~Given(r)
        /\ handler = Waiting \/ handler.of # r
    BY HandlersRequest DEF UpdInv, FreshIsUntouched, StreamsArePeers, GivenIsWhole
  <1>4. UpdateTypes'
    BY <1>0, <1>1 DEF UpdInv, UpdateTypes
  <1>5. FreshIsUntouched'
    BY <1>1, <1>2 DEF UpdInv, FreshIsUntouched
  <1>6. StreamsArePeers'
    BY <1>2, <1>3 DEF UpdInv, StreamsArePeers
  <1>7. GivenIsWhole'
    <2>1. \A s \in Requests : Given(s)' => Given(s)
      BY DEF Given
    <2>. QED BY <1>1, <1>2, <1>3, <2>1 DEF UpdInv, GivenIsWhole
  <1>8. DownloadedIsWhole'
    BY <1>0, <1>1, <1>2 DEF UpdInv, DownloadedIsWhole
  <1>9. HandlerIsSound'
    BY <1>1, <1>2, <1>3, HandlerStays
  <1>10. ChunksAreCounted'
    <2> SUFFICES ASSUME Running, NEW s \in pending', ~IsGitHub(s)'
                 PROVE  payload'[s] = received[s]
                          + (IF handler.step = "count" /\ handler.of = s THEN 1 ELSE 0)
      BY DEF ChunksAreCounted, Running
    <2>1. CASE s = r
      BY <1>2, <1>3, <2>1 DEF Waiting
    <2>2. CASE s # r
      BY <1>0, <1>1, <1>2, <2>2 DEF UpdInv, ChunksAreCounted
    <2>. QED BY <2>1, <2>2
  <1>. QED BY <1>4, <1>5, <1>6, <1>7, <1>8, <1>9, <1>10 DEF UpdInv

\* What every step keeps of the types, spelled out for the proofs below.
LEMMA UpdateFacts ==
  ASSUME UpdInv
  PROVE  /\ pending \subseteq Requests /\ payload \in [Requests -> 0 .. Removed]
         /\ received \in [Requests -> 0 .. Size]
         /\ task \in [Requests -> {"none", "running", "done", "failed", "over"}]
         /\ stream \in [Requests -> 0 .. Size + 1]
         /\ helper \in [Requests -> {"none", "running", "over"}]
         /\ Size \in Nat \ {0} /\ Removed = Size + 1 /\ Over = 0
BY UpdateAssumption DEF UpdInv, UpdateTypes, Removed, Over

LEMMA StartUpdateKeeps ==
  ASSUME UpdInv, NEW r \in Requests, NEW mode, StartUpdate(r, mode)
  PROVE  UpdInv'
PROOF
  <1>1. ASSUME NEW source, NEW version, MarkFailed(source, version, pending),
               UNCHANGED <<asked, task>>
        PROVE  UpdInv'
    <2>1. PICK gone \in SUBSET pending :
            /\ pending' = pending \ gone
            /\ payload' = [q \in Requests |-> IF q \in gone THEN Removed ELSE payload[q]]
      BY <1>1, UpdateFacts, MarkFailedRemoves
    <2>2. \A q \in Requests : Given(q)' => Given(q)
      BY DEF Given, StartUpdate
    <2>3. UNCHANGED <<asked, received, task, stream, handler, helper, scheduled, exit>>
      BY <1>1 DEF StartUpdate
    <2>. QED BY <2>1, <2>2, <2>3, UpdateFacts, LeavingKeeps
             DEF UpdInv, UpdateTypes, Running
  <1>2. ASSUME NEW source, NEW version, Begin(r, source, version, mode)
        PROVE  UpdInv'
    BY <1>2, BeginKeeps DEF StartUpdate
  <1>. QED BY <1>1, <1>2 DEF StartUpdate

LEMMA DismissUpdateKeeps ==
  ASSUME UpdInv, DismissUpdate
  PROVE  UpdInv'
PROOF
  <1>1. PICK gone \in SUBSET pending :
          /\ pending' = pending \ gone
          /\ payload' = [r \in Requests |-> IF r \in gone THEN Removed ELSE payload[r]]
          /\ task' = [r \in Requests |->
               IF r \in gone /\ IsGitHub(r) /\ task[r] = "running" THEN "over" ELSE task[r]]
    BY DEF DismissUpdate
  <1>2. /\ task' \in [Requests -> {"none", "running", "done", "failed", "over"}]
        /\ \A r \in Requests :
             task'[r] = task[r] \/ (task[r] # "none" /\ task'[r] = "over")
    BY <1>1, UpdateFacts
  <1>3. UNCHANGED <<asked, received, stream, handler, helper, scheduled, installed, exit>>
    BY DEF DismissUpdate
  <1>4. \A r \in Requests : Given(r)' => Given(r)
    BY <1>3 DEF Given
  <1>. QED BY <1>1, <1>2, <1>3, <1>4, UpdateFacts, LeavingKeeps
           DEF UpdInv, UpdateTypes, Running

\* A peer may start to send when the request has gone out.
LEMMA SendRequestKeeps ==
  ASSUME UpdInv, NEW r \in Requests, SendRequest(r)
  PROVE  UpdInv'
PROOF
  <1>1. /\ task[r] = "running" /\ ~IsGitHub(r)
        /\ \/ task' = [task EXCEPT ![r] = "failed"] /\ UNCHANGED stream
           \/ /\ task' = [task EXCEPT ![r] = "done"]
              /\ stream' = [stream EXCEPT ![r] = 1] \/ UNCHANGED stream
        /\ UNCHANGED <<asked, pending, received, payload, handler, helper, scheduled,
                       installed, exit>>
    BY DEF SendRequest, PeerAnswers
  <1>2. /\ task'[r] \in {"failed", "done"}
        /\ \A s \in Requests \ {r} : task'[s] = task[s] /\ stream'[s] = stream[s]
        /\ \A s \in Requests : IsGitHub(s)' <=> IsGitHub(s)
        /\ stream'[r] # Over => task'[r] = "done" \/ stream'[r] = stream[r]
    BY <1>1, UpdateFacts DEF IsGitHub
  <1>3. handler = Waiting \/ handler.of # r
    BY <1>1, HandlersRequest
  <1>4. UpdateTypes'
    BY <1>1, UpdateFacts DEF UpdInv, UpdateTypes
  <1>5. FreshIsUntouched'
    BY <1>1, <1>2 DEF UpdInv, FreshIsUntouched
  <1>6. StreamsArePeers'
    BY <1>1, <1>2 DEF UpdInv, StreamsArePeers
  <1>7. GivenIsWhole'
    <2>1. \A s \in Requests : Given(s)' => Given(s)
      BY <1>1 DEF Given
    <2>. QED BY <1>1, <1>2, <2>1 DEF UpdInv, GivenIsWhole
  <1>8. DownloadedIsWhole'
    BY <1>1, <1>2, UpdateFacts DEF UpdInv, DownloadedIsWhole
  <1>9. HandlerIsSound'
    BY <1>1, <1>2, <1>3, HandlerStays
  <1>10. ChunksAreCounted'
    BY <1>1, <1>2, UpdateFacts DEF UpdInv, ChunksAreCounted, Running
  <1>. QED BY <1>4, <1>5, <1>6, <1>7, <1>8, <1>9, <1>10 DEF UpdInv

\* A download from GitHub writes a file that no one was given, and ends well
\* only with the whole one.
LEMMA DownloadKeeps ==
  ASSUME UpdInv, NEW r \in Requests, Download(r)
  PROVE  UpdInv'
PROOF
  <1>1. /\ task[r] = "running" /\ IsGitHub(r)
        /\ UNCHANGED <<asked, pending, stream, handler, helper, scheduled, installed, exit>>
    BY DEF Download
  <1>2. ~Given(r)
    BY <1>1 DEF UpdInv, GivenIsWhole
  <1>3. /\ payload' \in [Requests -> 0 .. Removed] /\ received' \in [Requests -> 0 .. Size]
        /\ task' \in [Requests -> {"none", "running", "done", "failed", "over"}]
        /\ task'[r] # "none" /\ (task'[r] = "done" => payload'[r] = Size)
        /\ \A s \in Requests \ {r} :
             task'[s] = task[s] /\ payload'[s] = payload[s] /\ received'[s] = received[s]
    <2>1. CASE DownloadChunk(r)
      BY <1>1, <2>1, UpdateFacts DEF DownloadChunk
    <2>2. CASE DownloadEnds(r)
      BY <1>1, <2>2, UpdateFacts DEF DownloadEnds
    <2>. QED BY <2>1, <2>2 DEF Download
  <1>4. \A s \in Requests : (IsGitHub(s)' <=> IsGitHub(s)) /\ (Given(s)' => Given(s))
    BY <1>1 DEF IsGitHub, Given
  <1>5. handler = Waiting \/ handler.of # r
    BY <1>1, HandlersRequest
  <1>6. UpdateTypes'
    BY <1>1, <1>3 DEF UpdInv, UpdateTypes
  <1>7. FreshIsUntouched'
    BY <1>1, <1>3 DEF UpdInv, FreshIsUntouched
  <1>8. StreamsArePeers'
    BY <1>1, <1>3, <1>4 DEF UpdInv, StreamsArePeers
  <1>9. GivenIsWhole'
    BY <1>1, <1>2, <1>3, <1>4 DEF UpdInv, GivenIsWhole
  <1>10. DownloadedIsWhole'
    BY <1>1, <1>3, <1>4, UpdateFacts DEF UpdInv, DownloadedIsWhole
  <1>11. HandlerIsSound'
    BY <1>1, <1>3, <1>4, <1>5, HandlerStays
  <1>12. ChunksAreCounted'
    BY <1>1, <1>3, <1>4, UpdateFacts DEF UpdInv, ChunksAreCounted, Running
  <1>. QED BY <1>6, <1>7, <1>8, <1>9, <1>10, <1>11, <1>12 DEF UpdInv

\* The first locked section of a chunk, or the end of its connection.
LEMMA ReadUpdateChunkKeeps ==
  ASSUME UpdInv, NEW r \in Requests, ReadUpdateChunk(r)
  PROVE  UpdInv'
PROOF
  <1>0. /\ Running /\ handler = Waiting /\ stream[r] \in 1 .. Size
        /\ UNCHANGED <<asked, pending, received, payload, task, helper, scheduled,
                       installed, exit>>
        /\ ~IsGitHub(r) /\ task[r] \in {"done", "over"}
        /\ \A s \in Requests : IsGitHub(s)' <=> IsGitHub(s)
    BY UpdateFacts DEF ReadUpdateChunk, UpdInv, StreamsArePeers, IsGitHub
  <1>1. /\ UpdateTypes'
        /\ \A s \in Requests : stream'[s] # Over => stream[s] # Over
    BY <1>0, UpdateFacts DEF ReadUpdateChunk, UpdInv, UpdateTypes
  <1>2. HandlerIsSound' /\ ~(handler'.step = "count")
    <2>1. CASE r \in pending /\ received[r] = stream[r] - 1
      <3>. DEFINE n == stream[r]
      <3>1. handler' = [step |-> "append", of |-> r, at |-> n]
        BY <2>1 DEF ReadUpdateChunk
      <3>2. n \in 1 .. Size /\ n = received[r] + 1
        BY <1>0, <2>1, UpdateFacts
      <3>. HIDE DEF n
      <3>3. PICK m \in 1 .. Size : m = n
        BY <3>2
      <3>4. Taking(r, m)'
        BY <1>0, <2>1, <3>1, <3>2, <3>3 DEF Taking
      <3>. QED BY <3>1, <3>4 DEF HandlerIsSound
    <2>2. CASE ~(r \in pending /\ received[r] = stream[r] - 1)
      BY <1>0, <2>2 DEF ReadUpdateChunk, HandlerIsSound, Waiting
    <2>. QED BY <2>1, <2>2
  <1>3. FreshIsUntouched' /\ StreamsArePeers' /\ DownloadedIsWhole'
    BY <1>0, <1>1, UpdateFacts DEF UpdInv, FreshIsUntouched, StreamsArePeers, DownloadedIsWhole
  <1>4. GivenIsWhole'
    BY <1>0 DEF UpdInv, GivenIsWhole, Given
  <1>5. ChunksAreCounted'
    BY <1>0, <1>2, UpdateFacts DEF UpdInv, ChunksAreCounted, Waiting, Running
  <1>. QED BY <1>1, <1>2, <1>3, <1>4, <1>5 DEF UpdInv

\* The last frame: a request that is still pending leaves the map with a whole
\* file, which is given away in the second step.
LEMMA ReadUpdateCompleteKeeps ==
  ASSUME UpdInv, NEW r \in Requests, NEW version, ReadUpdateComplete(r, version)
  PROVE  UpdInv'
PROOF
  <1>0. /\ Running /\ handler = Waiting /\ stream[r] = Size + 1
        /\ stream' = [stream EXCEPT ![r] = Over]
        /\ UNCHANGED <<asked, received, payload, task, helper, scheduled, installed, exit>>
        /\ ~IsGitHub(r) /\ task[r] \in {"done", "over"}
        /\ \A s \in Requests : IsGitHub(s)' <=> IsGitHub(s)
    BY UpdateFacts DEF ReadUpdateComplete, UpdInv, StreamsArePeers, IsGitHub
  <1>1. CASE r \in pending /\ received[r] = Size
    <2>1. /\ handler' = [step |-> "finish", of |-> r, version |-> version]
          /\ pending' = pending \ {r}
      BY <1>1 DEF ReadUpdateComplete, Without
    <2>2. payload[r] = Size
      BY <1>0, <1>1, UpdateFacts DEF UpdInv, ChunksAreCounted, Waiting
    <2>3. UpdateTypes'
      BY <1>0, <2>1, UpdateFacts DEF UpdInv, UpdateTypes
    <2>4. HandlerIsSound'
      <3>1. Finishing(r)'
        BY <1>0, <2>1, <2>2 DEF Finishing
      <3>. QED BY <3>1 DEF HandlerIsSound
    <2>5. FreshIsUntouched' /\ DownloadedIsWhole'
      BY <1>0, <2>1, UpdateFacts DEF UpdInv, FreshIsUntouched, DownloadedIsWhole
    <2>6. StreamsArePeers'
      BY <1>0, UpdateFacts DEF UpdInv, StreamsArePeers
    <2>7. GivenIsWhole'
      BY <1>0, <2>1 DEF UpdInv, GivenIsWhole, Given
    <2>8. ChunksAreCounted'
      BY <1>0, <2>1, UpdateFacts DEF UpdInv, ChunksAreCounted, Waiting, Running
    <2>. QED BY <2>3, <2>4, <2>5, <2>6, <2>7, <2>8 DEF UpdInv
  <1>2. CASE ~(r \in pending /\ received[r] = Size)
    <2>1. UNCHANGED <<handler, pending>>
      BY <1>2 DEF ReadUpdateComplete
    <2>2. UpdateTypes'
      BY <1>0, <2>1, UpdateFacts DEF UpdInv, UpdateTypes
    <2>3. HandlerIsSound'
      BY <1>0, <2>1 DEF HandlerIsSound
    <2>4. FreshIsUntouched' /\ DownloadedIsWhole'
      BY <1>0, <2>1, UpdateFacts DEF UpdInv, FreshIsUntouched, DownloadedIsWhole
    <2>5. StreamsArePeers'
      BY <1>0, UpdateFacts DEF UpdInv, StreamsArePeers
    <2>6. GivenIsWhole'
      BY <1>0, <2>1 DEF UpdInv, GivenIsWhole, Given
    <2>7. ChunksAreCounted'
      BY <1>0, <2>1, UpdateFacts DEF UpdInv, ChunksAreCounted, Running
    <2>. QED BY <2>2, <2>3, <2>4, <2>5, <2>6, <2>7 DEF UpdInv
  <1>. QED BY <1>1, <1>2

\* The append without the lock: it finds the file of a pending request, or none.
LEMMA AppendUpdateChunkKeeps ==
  ASSUME UpdInv, AppendUpdateChunk
  PROVE  UpdInv'
PROOF
  <1>1. PICK r \in Requests, n \in 1 .. Size :
          /\ handler = [step |-> "append", of |-> r, at |-> n]
          /\ Taking(r, n)
    <2>1. handler.step = "append" /\ handler # Waiting
      BY DEF AppendUpdateChunk, Waiting
    <2>2. PICK n \in 1 .. Size : Taking(handler.of, n)
      BY <2>1, HandlersRequest DEF Finishing
    <2>3. handler = [step |-> "append", of |-> handler.of, at |-> n]
      BY <2>1, <2>2 DEF Taking
    <2>. QED BY <2>1, <2>2, <2>3, HandlersRequest
  <1>2. /\ UNCHANGED <<asked, received, task, helper, scheduled, installed, exit>>
        /\ \A s \in Requests : (IsGitHub(s)' <=> IsGitHub(s)) /\ (Given(s)' => Given(s))
    BY DEF AppendUpdateChunk, IsGitHub, Given
  <1>3. ASSUME MarkFailed(asked[r].source, asked[r].version, pending),
               handler' = Waiting, stream' = [stream EXCEPT ![r] = Over]
        PROVE  UpdInv'
    <2>1. PICK gone \in SUBSET pending :
            /\ pending' = pending \ gone
            /\ payload' = [q \in Requests |-> IF q \in gone THEN Removed ELSE payload[q]]
      BY <1>3, UpdateFacts, MarkFailedRemoves
    <2>2. /\ stream' \in [Requests -> 0 .. Size + 1]
          /\ \A s \in Requests : stream'[s] \in {stream[s], Over}
      BY <1>3, UpdateFacts
    <2>3. handler.step # "count"
      BY <1>1
    <2>. QED BY <1>2, <1>3, <2>1, <2>2, <2>3, UpdateFacts, LeavingKeeps
             DEF UpdInv, UpdateTypes, Running
  <1>4. ASSUME payload[r] # Removed,
               payload' = [payload EXCEPT ![r] = @ + 1],
               handler' = [handler EXCEPT !.step = "count"],
               UNCHANGED <<pending, stream>>
        PROVE  UpdInv'
    <2>1. /\ r \in pending /\ ~IsGitHub(r) /\ task[r] \in {"done", "over"}
          /\ handler' = [step |-> "count", of |-> r, at |-> n]
      BY <1>1, <1>4 DEF Taking
    <2>2. /\ payload' \in [Requests -> 0 .. Removed] /\ payload'[r] = payload[r] + 1
          /\ \A s \in Requests \ {r} : payload'[s] = payload[s]
      BY <1>4, UpdateFacts
    <2>3. UpdateTypes'
      BY <1>2, <1>4, <2>2 DEF UpdInv, UpdateTypes
    <2>4. HandlerIsSound'
      <3>1. Taking(r, n)'
        BY <1>1, <1>2, <1>4, <2>1 DEF Taking, Running
      <3>. QED BY <3>1 DEF HandlerIsSound
    <2>5. FreshIsUntouched' /\ StreamsArePeers'
      BY <1>2, <1>4 DEF UpdInv, FreshIsUntouched, StreamsArePeers
    <2>6. GivenIsWhole'
      BY <1>2, <1>4, <2>1, <2>2 DEF UpdInv, GivenIsWhole
    <2>7. DownloadedIsWhole'
      BY <1>2, <1>4, <2>1, <2>2, UpdateFacts DEF UpdInv, DownloadedIsWhole
    <2>8. ChunksAreCounted'
      <3> SUFFICES ASSUME Running, NEW s \in pending, ~IsGitHub(s)
                   PROVE  payload'[s] = received[s] + (IF s = r THEN 1 ELSE 0)
        BY <1>2, <1>4, <2>1, UpdateFacts DEF ChunksAreCounted, Running
      <3>1. payload[s] = received[s]
        BY <1>1, UpdateFacts DEF UpdInv, ChunksAreCounted
      <3>. QED BY <2>2, <3>1, UpdateFacts
    <2>. QED BY <2>3, <2>4, <2>5, <2>6, <2>7, <2>8 DEF UpdInv
  <1>. QED BY <1>1, <1>3, <1>4 DEF AppendUpdateChunk

\* The second locked section.
LEMMA CountUpdateChunkKeeps ==
  ASSUME UpdInv, CountUpdateChunk
  PROVE  UpdInv'
PROOF
  <1>1. PICK r \in Requests, n \in 1 .. Size :
          /\ handler = [step |-> "count", of |-> r, at |-> n]
          /\ Taking(r, n)
    <2>1. handler.step = "count" /\ handler # Waiting
      BY DEF CountUpdateChunk, Waiting
    <2>2. PICK n \in 1 .. Size : Taking(handler.of, n)
      BY <2>1, HandlersRequest DEF Finishing
    <2>3. handler = [step |-> "count", of |-> handler.of, at |-> n]
      BY <2>1, <2>2 DEF Taking
    <2>. QED BY <2>1, <2>2, <2>3, HandlersRequest
  <1>2. /\ UNCHANGED <<asked, pending, payload, task, stream, helper, scheduled,
                       installed, exit>>
        /\ handler' = Waiting
        /\ received' = IF r \in pending THEN [received EXCEPT ![r] = n] ELSE received
        /\ \A s \in Requests : IsGitHub(s)' <=> IsGitHub(s)
    BY <1>1 DEF CountUpdateChunk, IsGitHub
  <1>3. /\ received' \in [Requests -> 0 .. Size]
        /\ \A s \in Requests : s # r \/ s \notin pending => received'[s] = received[s]
        /\ r \in pending => received'[r] = n
    BY <1>2, UpdateFacts
  <1>4. UpdateTypes'
    BY <1>2, <1>3 DEF UpdInv, UpdateTypes
  <1>5. FreshIsUntouched'
    BY <1>1, <1>2, <1>3 DEF UpdInv, FreshIsUntouched, Taking
  <1>6. StreamsArePeers' /\ DownloadedIsWhole' /\ HandlerIsSound'
    BY <1>2, UpdateFacts DEF UpdInv, StreamsArePeers, DownloadedIsWhole, HandlerIsSound
  <1>7. GivenIsWhole'
    BY <1>2 DEF UpdInv, GivenIsWhole, Given
  <1>8. ChunksAreCounted'
    <2> SUFFICES ASSUME Running, NEW s \in pending, ~IsGitHub(s)
                 PROVE  payload[s] = received'[s]
      BY <1>2, <1>3, UpdateFacts DEF ChunksAreCounted, Running, Waiting
    <2>1. payload[s] = received[s] + (IF s = r THEN 1 ELSE 0)
      BY <1>1 DEF UpdInv, ChunksAreCounted
    <2>2. CASE s = r
      BY <1>1, <1>3, <2>1, <2>2 DEF Taking
    <2>3. CASE s # r
      BY <1>3, <2>1, <2>3, UpdateFacts
    <2>. QED BY <2>2, <2>3
  <1>. QED BY <1>4, <1>5, <1>6, <1>7, <1>8 DEF UpdInv

-----------------------------------------------------------------------------
(* The steps that give a file away or take downloads away.                 *)

\* What completeDownloadedAppUpdate does to the downloads.
Completes(r, version, rest) ==
  \/ Schedule(r, version) /\ pending' = rest
  \/ Launch(r) /\ pending' = rest
  \/ /\ MarkFailed(asked[r].source, version, rest)
     /\ UNCHANGED <<scheduled, helper, exit>>

\* It gives away the file of r, or removes downloads.
LEMMA CompletionGives ==
  ASSUME UpdInv, NEW r \in Requests, NEW version, NEW rest \in SUBSET Requests,
         Completes(r, version, rest),
         UNCHANGED installed
  PROVE  /\ helper' \in [Requests -> {"none", "running", "over"}]
         /\ scheduled' # NoUpdate => scheduled'.request \in Requests
         /\ Running' => Running
         /\ \E gone \in SUBSET rest :
              /\ pending' = rest \ gone
              /\ payload' = [s \in Requests |-> IF s \in gone THEN Removed ELSE payload[s]]
              /\ \A s \in Requests : Given(s)' => Given(s) \/ (s = r /\ gone = {})
PROOF
  <1>. DEFINE Same == payload' = [s \in Requests |->
                                    IF s \in {} THEN Removed ELSE payload[s]]
  <1>1. CASE Schedule(r, version) /\ pending' = rest
    <2>1. /\ Same
          /\ \A s \in Requests : Given(s)' => Given(s) \/ s = r
      BY <1>1, UpdateFacts DEF Schedule, Given
    <2>. QED BY <1>1, <2>1, UpdateFacts DEF Schedule, Running
  <1>2. CASE Launch(r) /\ pending' = rest
    <2>1. /\ Same
          /\ helper' \in [Requests -> {"none", "running", "over"}]
          /\ \A s \in Requests : Given(s)' => Given(s) \/ s = r
      BY <1>2, UpdateFacts DEF Launch, HelperStarts, Given
    <2>2. scheduled' # NoUpdate => scheduled'.request \in Requests
      BY <1>2 DEF Launch, UpdInv, UpdateTypes
    <2>3. Running' => Running
      BY <1>2 DEF Launch, Running
    <2>. QED BY <1>2, <2>1, <2>2, <2>3
  <1>3. CASE /\ MarkFailed(asked[r].source, version, rest)
             /\ UNCHANGED <<scheduled, helper, exit>>
    <2>1. \A s \in Requests : Given(s)' => Given(s)
      BY <1>3 DEF Given
    <2>2. scheduled' # NoUpdate => scheduled'.request \in Requests
      BY <1>3 DEF UpdInv, UpdateTypes
    <2>. QED BY <1>3, <2>1, <2>2, MarkFailedRemoves, UpdateFacts DEF Running
  <1>. QED BY <1>1, <1>2, <1>3 DEF Completes

LEMMA TaskCompletesKeeps ==
  ASSUME UpdInv, NEW r \in Requests, TaskCompletes(r)
  PROVE  UpdInv'
PROOF
  <1>0. /\ task[r] # "none"
        /\ task' = [task EXCEPT ![r] = "over"]
        /\ UNCHANGED <<asked, received, stream, handler, installed>>
        /\ \A s \in Requests : IsGitHub(s)' <=> IsGitHub(s)
    BY DEF TaskCompletes, IsGitHub
  <1>1. /\ task' \in [Requests -> {"none", "running", "done", "failed", "over"}]
        /\ task'[r] = "over"
        /\ \A s \in Requests :
             task'[s] = task[s] \/ (task[s] # "none" /\ task'[s] = "over")
    BY <1>0, UpdateFacts
  <1>2. ASSUME task[r] = "failed", UNCHANGED <<scheduled, helper, exit>>,
               NEW source, NEW version, NEW rest \in SUBSET pending,
               pending \ rest \subseteq {r}, MarkFailed(source, version, rest)
        PROVE  UpdInv'
    <2>1. PICK gone \in SUBSET rest :
            /\ pending' = rest \ gone
            /\ payload' = [s \in Requests |-> IF s \in gone THEN Removed ELSE payload[s]]
      BY <1>2, UpdateFacts, MarkFailedRemoves
    <2>. DEFINE ended == gone \union (pending \ rest)
    <2>2. ended \in SUBSET pending /\ gone \in SUBSET ended /\ pending' = pending \ ended
      BY <1>2, <2>1
    <2>3. \A s \in ended \ gone : task[s] = "failed"
      BY <1>2
    <2>. HIDE DEF ended
    <2>4. \A s \in Requests : Given(s)' => Given(s)
      BY <1>0, <1>2 DEF Given
    <2>. QED BY <1>0, <1>1, <1>2, <2>1, <2>2, <2>3, <2>4, UpdateFacts, LeavingKeeps
             DEF UpdInv, UpdateTypes, Running
  <1>3. ASSUME task[r] = "done", IsGitHub(r), r \in pending,
               Completes(r, asked[r].version, pending \ {r})
        PROVE  UpdInv'
    <2>1. pending \ {r} \in SUBSET Requests
      BY UpdateFacts
    <2>2. /\ helper' \in [Requests -> {"none", "running", "over"}]
          /\ scheduled' # NoUpdate => scheduled'.request \in Requests
          /\ Running' => Running
          /\ \E gone \in SUBSET (pending \ {r}) :
               /\ pending' = (pending \ {r}) \ gone
               /\ payload' = [s \in Requests |-> IF s \in gone THEN Removed ELSE payload[s]]
               /\ \A s \in Requests : Given(s)' => Given(s) \/ (s = r /\ gone = {})
      BY <1>0, <1>3, <2>1, CompletionGives
    <2>3. PICK gone \in SUBSET (pending \ {r}) :
            /\ pending' = (pending \ {r}) \ gone
            /\ payload' = [s \in Requests |-> IF s \in gone THEN Removed ELSE payload[s]]
            /\ \A s \in Requests : Given(s)' => Given(s) \/ (s = r /\ gone = {})
      BY <2>2
    <2>. DEFINE ended == gone \union {r}
    <2>4. /\ ended \in SUBSET pending /\ gone \in SUBSET ended /\ pending' = pending \ ended
          /\ \A s \in ended \ gone : IsGitHub(s)
      BY <1>3, <2>3
    <2>5. r \notin pending'
      BY <2>3
    <2>. HIDE DEF ended
    <2>6. payload[r] = Size
      BY <1>3 DEF UpdInv, DownloadedIsWhole
    <2>7. \A s \in Requests : Given(s)' =>
            \/ Given(s)
            \/ /\ payload'[s] = Size /\ s \notin pending'
               /\ task'[s] # "none" /\ (IsGitHub(s) => task'[s] = "over")
      BY <1>1, <2>3, <2>5, <2>6
    <2>. QED BY <1>0, <1>1, <2>2, <2>3, <2>4, <2>7, UpdateFacts, LeavingKeeps
  <1>4. ASSUME UNCHANGED <<pending, payload, scheduled, helper, exit>>
        PROVE  UpdInv'
    <2>. DEFINE nothing == {}
    <2>1. /\ nothing \in SUBSET pending /\ nothing \in SUBSET nothing
          /\ pending' = pending \ nothing
          /\ payload' = [s \in Requests |-> IF s \in nothing THEN Removed ELSE payload[s]]
          /\ \A s \in nothing \ nothing : IsGitHub(s)
      BY <1>4, UpdateFacts
    <2>. HIDE DEF nothing
    <2>2. \A s \in Requests : Given(s)' => Given(s)
      BY <1>0, <1>4 DEF Given
    <2>. QED BY <1>0, <1>1, <1>4, <2>1, <2>2, UpdateFacts, LeavingKeeps
             DEF UpdInv, UpdateTypes, Running
  <1>5. CASE /\ task[r] = "failed" /\ UNCHANGED <<scheduled, helper, exit>>
             /\ IF IsGitHub(r) THEN MarkFailed(GitHub, asked[r].version, pending)
                               ELSE RequestFails(r)
    <2>1. CASE IsGitHub(r)
      BY <1>2, <1>5, <2>1
    <2>2. CASE ~IsGitHub(r)
      BY <1>2, <1>5, <2>2 DEF RequestFails
    <2>. QED BY <2>1, <2>2
  <1>6. CASE /\ task[r] = "done" /\ IsGitHub(r) /\ r \in pending
             /\ CompleteDownload(r, asked[r].version, Without(r),
                                 UNCHANGED requestedVersion)
    BY <1>3, <1>6 DEF CompleteDownload, Completes, Without
  <1>. QED BY <1>4, <1>5, <1>6 DEF TaskCompletes

LEMMA FinishUpdateKeeps ==
  ASSUME UpdInv, FinishUpdate
  PROVE  UpdInv'
PROOF
  <1>1. PICK r \in Requests : Finishing(r)
    <2>1. handler.step = "finish" /\ handler # Waiting
      BY DEF FinishUpdate, Waiting
    <2>. QED BY <2>1, HandlersRequest DEF Taking
  <1>2. /\ handler.of = r /\ handler.step = "finish" /\ handler' = Waiting
        /\ UNCHANGED <<asked, received, task, stream, installed>>
        /\ Completes(r, handler.version, pending)
    BY <1>1 DEF FinishUpdate, Finishing, CompleteDownload, Completes
  <1>3. /\ helper' \in [Requests -> {"none", "running", "over"}]
        /\ scheduled' # NoUpdate => scheduled'.request \in Requests
        /\ Running' => Running
        /\ \E gone \in SUBSET pending :
             /\ pending' = pending \ gone
             /\ payload' = [s \in Requests |-> IF s \in gone THEN Removed ELSE payload[s]]
             /\ \A s \in Requests : Given(s)' => Given(s) \/ (s = r /\ gone = {})
    <2>1. pending \in SUBSET Requests
      BY UpdateFacts
    <2>. QED BY <1>2, <2>1, CompletionGives
  <1>4. PICK gone \in SUBSET pending :
          /\ pending' = pending \ gone
          /\ payload' = [s \in Requests |-> IF s \in gone THEN Removed ELSE payload[s]]
          /\ \A s \in Requests : Given(s)' => Given(s) \/ (s = r /\ gone = {})
    BY <1>3
  <1>5. \A s \in Requests : Given(s)' =>
          \/ Given(s)
          \/ /\ payload'[s] = Size /\ s \notin pending'
             /\ task'[s] # "none" /\ (IsGitHub(s) => task'[s] = "over")
    BY <1>1, <1>2, <1>4 DEF Finishing
  <1>. QED BY <1>2, <1>3, <1>4, <1>5, UpdateFacts, LeavingKeeps

\* The steps that take no download away and touch no file.
LEMMA NothingLeaves ==
  ASSUME UpdInv,
         UNCHANGED <<asked, pending, received, payload, task>>,
         stream' \in [Requests -> 0 .. Size + 1],
         \A r \in Requests : stream'[r] \in {stream[r], Over},
         Running' => Running,
         handler' = handler \/ (handler' = Waiting /\ ~Running'),
         helper' \in [Requests -> {"none", "running", "over"}],
         scheduled' # NoUpdate => scheduled'.request \in Requests,
         \A r \in Requests : Given(r)' =>
           \/ Given(r)
           \/ /\ payload[r] = Size /\ r \notin pending
              /\ task[r] # "none" /\ (IsGitHub(r) => task[r] = "over")
  PROVE  UpdInv'
PROOF
  <1>. DEFINE nothing == {}
  <1>1. /\ nothing \in SUBSET pending /\ nothing \in SUBSET nothing
        /\ pending' = pending \ nothing
        /\ payload' = [s \in Requests |-> IF s \in nothing THEN Removed ELSE payload[s]]
        /\ \A s \in nothing \ nothing : IsGitHub(s)
    BY UpdateFacts
  <1>. HIDE DEF nothing
  <1>. QED BY <1>1, UpdateFacts, LeavingKeeps

\* The end of the program, its helper, and a broken connection.
LEMMA EndingsKeep ==
  ASSUME UpdInv,
         \/ ExitProgram
         \/ \E r \in Requests : EnforceExit(r) \/ ReplaceProgram(r) \/ CutStream(r)
  PROVE  UpdInv'
PROOF
  <1>1. scheduled # NoUpdate => scheduled.request \in Requests
    BY DEF UpdInv, UpdateTypes
  <1>2. CASE ExitProgram
    <2>1. /\ UNCHANGED <<asked, pending, received, payload, task, stream, handler, installed>>
          /\ scheduled' = NoUpdate /\ ~Running'
      BY <1>2 DEF ExitProgram, Running
    <2>2. CASE scheduled # NoUpdate /\ HelperStarts(scheduled.request)
      <3>. DEFINE s == scheduled.request
      <3>1. s \in Requests /\ Given(s) /\ helper' = [helper EXCEPT ![s] = "running"]
        BY <1>1, <2>2 DEF Given, HelperStarts
      <3>2. helper' \in [Requests -> {"none", "running", "over"}]
        BY <3>1, UpdateFacts
      <3>3. \A q \in Requests : Given(q)' => Given(q)
        BY <2>1, <3>1, UpdateFacts DEF Given
      <3>. QED BY <2>1, <3>2, <3>3, UpdateFacts, NothingLeaves
    <2>3. CASE UNCHANGED helper
      <3>1. \A q \in Requests : Given(q)' => Given(q)
        BY <2>1, <2>3 DEF Given
      <3>. QED BY <2>1, <2>3, <3>1, UpdateFacts, NothingLeaves
    <2>. QED BY <1>2, <2>2, <2>3 DEF ExitProgram
  <1>3. ASSUME NEW r \in Requests, EnforceExit(r)
        PROVE  UpdInv'
    <2>1. /\ UNCHANGED <<asked, pending, received, payload, task, stream, helper,
                         scheduled, installed>>
          /\ handler' = Waiting /\ ~Running'
      BY <1>3 DEF EnforceExit, Running
    <2>2. \A q \in Requests : Given(q)' => Given(q)
      BY <2>1 DEF Given
    <2>. QED BY <1>1, <2>1, <2>2, UpdateFacts, NothingLeaves
  <1>4. ASSUME NEW r \in Requests, ReplaceProgram(r)
        PROVE  UpdInv'
    <2>1. /\ UNCHANGED <<asked, pending, received, payload, task, stream, handler,
                         scheduled, exit>>
          /\ helper[r] = "running" /\ helper' = [helper EXCEPT ![r] = "over"]
          /\ installed' = r \/ UNCHANGED installed
      BY <1>4 DEF ReplaceProgram, CopyPayload
    <2>2. helper' \in [Requests -> {"none", "running", "over"}]
      BY <2>1, UpdateFacts
    <2>3. \A q \in Requests : Given(q)' => Given(q)
      BY <2>1, UpdateFacts DEF Given
    <2>. QED BY <1>1, <2>1, <2>2, <2>3, UpdateFacts, NothingLeaves DEF Running
  <1>5. ASSUME NEW r \in Requests, CutStream(r)
        PROVE  UpdInv'
    <2>1. /\ UNCHANGED <<asked, pending, received, payload, task, handler, helper,
                         scheduled, installed, exit>>
          /\ stream' = [stream EXCEPT ![r] = Over]
      BY <1>5 DEF CutStream
    <2>2. /\ stream' \in [Requests -> 0 .. Size + 1]
          /\ \A q \in Requests : stream'[q] \in {stream[q], Over}
      BY <2>1, UpdateFacts
    <2>3. \A q \in Requests : Given(q)' => Given(q)
      BY <2>1 DEF Given
    <2>. QED BY <1>1, <2>1, <2>2, <2>3, UpdateFacts, NothingLeaves DEF Running
  <1>. QED BY <1>2, <1>3, <1>4, <1>5

-----------------------------------------------------------------------------
(* The theorem.                                                            *)

LEMMA UpdInvInit ==
  ASSUME UpdInit
  PROVE  UpdInv
PROOF
  <1>0. /\ Size \in Nat \ {0} /\ Removed = Size + 1 /\ Over = 0
        /\ \A r \in Requests : r # None
    BY UpdateAssumption, RequestsAssumption DEF Removed, Over
  <1>1. UpdateTypes
    BY <1>0 DEF UpdInit, UpdateTypes
  <1>2. \A r \in Requests : ~Given(r)
    BY <1>0 DEF UpdInit, Given
  <1>3. GivenIsWhole
    BY <1>2 DEF GivenIsWhole
  <1>4. FreshIsUntouched /\ StreamsArePeers /\ DownloadedIsWhole
    BY DEF UpdInit, FreshIsUntouched, StreamsArePeers, DownloadedIsWhole
  <1>5. HandlerIsSound /\ ChunksAreCounted
    BY DEF UpdInit, HandlerIsSound, ChunksAreCounted
  <1>. QED BY <1>1, <1>3, <1>4, <1>5 DEF UpdInv

LEMMA UpdInvStep ==
  ASSUME UpdInv, [UpdNext]_updVars
  PROVE  UpdInv'
PROOF
  <1>1. ASSUME UNCHANGED <<asked, pending, received, payload, task, stream, handler,
                           helper, scheduled, installed, exit>>
        PROVE  UpdInv'
    BY <1>1, UpdUnchanged
  <1>2. CASE UNCHANGED updVars
    BY <1>1, <1>2 DEF updVars
  <1>3. ASSUME NEW p \in Peers, PeerGone(p) \/ \E v \in NewVersions : PeerSeen(p, v)
        PROVE  UpdInv'
    BY <1>1, <1>3 DEF PeerGone, PeerSeen
  <1>4. CASE CheckGitHub
    BY <1>1, <1>4 DEF CheckGitHub
  <1>5. CASE CheckDone
    BY <1>1, <1>5 DEF CheckDone
  <1>6. CASE DismissUpdate
    BY <1>6, DismissUpdateKeeps
  <1>7. ASSUME NEW r \in Requests,
               \/ \E mode \in Modes : StartUpdate(r, mode)
               \/ SendRequest(r) \/ Download(r) \/ TaskCompletes(r)
        PROVE  UpdInv'
    BY <1>7, StartUpdateKeeps, SendRequestKeeps, DownloadKeeps, TaskCompletesKeeps
  <1>8. ASSUME NEW r \in Requests,
               ReadUpdateChunk(r) \/ \E v \in NewVersions : ReadUpdateComplete(r, v)
        PROVE  UpdInv'
    BY <1>8, ReadUpdateChunkKeeps, ReadUpdateCompleteKeeps
  <1>9. ASSUME NEW r \in Requests, CutStream(r) \/ EnforceExit(r) \/ ReplaceProgram(r)
        PROVE  UpdInv'
    BY <1>9, EndingsKeep
  <1>10. CASE AppendUpdateChunk \/ CountUpdateChunk \/ FinishUpdate
    BY <1>10, AppendUpdateChunkKeeps, CountUpdateChunkKeeps, FinishUpdateKeeps
  <1>11. CASE ExitProgram
    BY <1>11, EndingsKeep
  <1>. QED BY <1>2, <1>3, <1>4, <1>5, <1>6, <1>7, <1>8, <1>9, <1>10, <1>11 DEF UpdNext

\* What is scheduled for the exit, was given to a helper or replaced the program is
\* a whole program file, whatever was dismissed, failed or downloaded meanwhile: the
\* locked sections of the TCP thread leave no moment at which a chunk is written to,
\* or a failure removes, a file that completeDownloadedAppUpdate has passed on.
THEOREM InstalledFilesAreWhole == UpdSpec => []InstalledIsWhole
PROOF
  <1>1. UpdInit => UpdInv
    BY UpdInvInit
  <1>2. UpdInv /\ [UpdNext]_updVars => UpdInv'
    BY UpdInvStep
  <1>3. UpdInv => InstalledIsWhole
    <2> SUFFICES ASSUME UpdInv
                 PROVE  InstalledIsWhole
      OBVIOUS
    <2>1. ASSUME NEW r \in Requests, helper[r] # "none" \/ installed = r
          PROVE  payload[r] = Size
      BY <2>1 DEF UpdInv, GivenIsWhole, Given
    <2>2. scheduled # NoUpdate => payload[scheduled.request] = Size
      BY DEF UpdInv, UpdateTypes, GivenIsWhole, Given
    <2>. QED BY <2>1, <2>2 DEF InstalledIsWhole
  <1>. QED BY <1>1, <1>2, <1>3, PTL DEF UpdSpec

-----------------------------------------------------------------------------
(* Every download is the one the prompt shows.                              *)

\* The prompt is about a peer or GitHub.
PromptTypes ==
  /\ online \subseteq Peers
  /\ prompt # NoUpdate =>
       /\ prompt.source \in Sources
       /\ prompt = [source |-> prompt.source, version |-> prompt.version,
                    state |-> prompt.state]

\* A prompt for GitHub is about the release that the last check found.
ReleaseIsPrompted ==
  Running /\ prompt # NoUpdate /\ prompt.source = GitHub =>
    /\ prompt.version = githubRelease /\ githubRelease > 0
    /\ ~checking

PlainIsShown ==
  Running => \A r \in pending :
    asked[r].plain => PromptOf(asked[r].source, asked[r].version) /\ Downloading

\* There is one GitHub download at most; it is shown and reported.
GitHubIsShown ==
  Running => \A r \in pending : IsGitHub(r) =>
    /\ PromptOf(GitHub, asked[r].version) /\ Downloading
    /\ githubState = "Downloading"
    /\ \A s \in pending : IsGitHub(s) => s = r

\* A task that downloads from GitHub has not been dismissed ...
RunningIsPending ==
  Running => \A r \in Requests : IsGitHub(r) /\ task[r] = "running" => r \in pending

\* ... and the completion of one that was dismissed after it had ended comes before
\* a release is prompted again.
OrphansEndFirst ==
  Running => \A r \in Requests \ pending :
    IsGitHub(r) /\ task[r] \in {"done", "failed"} =>
      (prompt = NoUpdate \/ prompt.source # GitHub)

\* A download that is shown is the only one from its source.
PlainIsAlone ==
  Running => \A r \in pending : \A s \in Requests :
    asked[r].plain /\ asked[s].source = asked[r].source =>
      /\ s \in pending => s = r
      /\ ~(handler.step = "finish" /\ handler.of = s)

BusyIsPending ==
  githubState = "Downloading" => (\E r \in pending : IsGitHub(r)) \/ exit # "no"

ShownInv ==
  /\ PromptTypes /\ ReleaseIsPrompted /\ PlainIsShown /\ GitHubIsShown
  /\ RunningIsPending /\ OrphansEndFirst /\ PlainIsAlone /\ BusyIsPending

\* What a step that begins no download may do to the prompt: it leaves it, reports
\* progress, or fails or takes away one that shows none of the downloads in "rest".
PromptLeft(rest) ==
  \/ prompt' = prompt
  \/ prompt # NoUpdate /\ prompt' = [prompt EXCEPT !.state = "Downloading"]
  \/ /\ prompt # NoUpdate
     /\ prompt' = NoUpdate \/ prompt' = [prompt EXCEPT !.state = "Failed"]
     /\ Running' => \A s \in rest :
          asked[s].plain \/ IsGitHub(s) => ~PromptOf(asked[s].source, asked[s].version)

\* The names of the sources, and a prompt whose state changes.
LEMMA SourcesDiffer ==
  /\ GitHub \notin Peers /\ GitHub # NoUpdate.source
  /\ \A p, v, x : p \in Sources =>
       [source |-> p, version |-> v, state |-> x] # NoUpdate
PROOF
  <1>1. NoUpdate.source \notin Sources /\ GitHub \notin Peers /\ GitHub # NoUpdate.source
    BY PeerNamesAssumption DEF Sources, GitHub, NoUpdate
  <1>2. ASSUME NEW p, NEW v, NEW x, p \in Sources
        PROVE  [source |-> p, version |-> v, state |-> x] # NoUpdate
    <2>1. [source |-> p, version |-> v, state |-> x].source = p
      OBVIOUS
    <2>. QED BY <1>1, <1>2, <2>1
  <1>. QED BY <1>1, <1>2

LEMMA PromptChanges ==
  ASSUME PromptTypes, prompt # NoUpdate, NEW x
  PROVE  /\ [prompt EXCEPT !.state = x] # NoUpdate
         /\ [prompt EXCEPT !.state = x] =
              [source |-> prompt.source, version |-> prompt.version, state |-> x]
         /\ [prompt EXCEPT !.state = x].source = prompt.source
         /\ [prompt EXCEPT !.state = x].version = prompt.version
         /\ [prompt EXCEPT !.state = x].state = x
PROOF
  <1>1. PICK p, v, y :
          p \in Sources /\ prompt = [source |-> p, version |-> v, state |-> y]
    BY DEF PromptTypes
  <1>2. [prompt EXCEPT !.state = x] = [source |-> p, version |-> v, state |-> x]
    BY <1>1
  <1>3. prompt.source = p /\ prompt.version = v
    BY <1>1
  <1>4. [source |-> p, version |-> v, state |-> x] # NoUpdate
    BY <1>1, SourcesDiffer
  <1>. QED BY <1>2, <1>3, <1>4

\* The steps that begin no download and offer none.
LEMMA LeavingShows ==
  ASSUME ShownInv, UNCHANGED <<asked, githubRelease, checking, online>>,
         NEW gone \in SUBSET pending, pending' = pending \ gone,
         Running' => Running, exit' = "no" => exit = "no",
         PromptLeft(pending'),
         \/ githubState' = githubState
         \/ /\ githubState' # "Downloading"
            /\ Running' => \A s \in pending' : ~IsGitHub(s),
         \A s \in Requests : IsGitHub(s) =>
           /\ task'[s] = "running" => task[s] = "running"
           /\ task'[s] \in {"done", "failed"} => task[s] \in {"done", "failed"} \/ s \in pending,
         \A s \in gone : IsGitHub(s) =>
           /\ task'[s] = "over" \/ (task'[s] # "running" /\ prompt' = NoUpdate)
           /\ githubState' # "Downloading" \/ exit' # "no",
         handler'.step = "finish" => handler' = handler \/ handler'.of \in gone
  PROVE  ShownInv'
PROOF
  <1>0. /\ \A s \in Requests : IsGitHub(s)' <=> IsGitHub(s)
        /\ pending' \subseteq pending
    BY DEF IsGitHub
  <1>1. PromptTypes' /\ (prompt' # NoUpdate =>
          /\ prompt # NoUpdate /\ prompt'.source = prompt.source
          /\ prompt'.version = prompt.version)
    <2>1. PromptTypes
      BY DEF ShownInv
    <2>2. CASE prompt' = prompt \/ prompt' = NoUpdate
      BY <2>1, <2>2 DEF PromptTypes
    <2>3. CASE /\ prompt # NoUpdate
               /\ \E x : prompt' = [prompt EXCEPT !.state = x]
      BY <2>1, <2>3, PromptChanges DEF PromptTypes
    <2>. QED BY <2>2, <2>3 DEF PromptLeft
  <1>2. ReleaseIsPrompted'
    BY <1>1 DEF ShownInv, ReleaseIsPrompted
  \* A download that is shown stays so.
  <1>3. ASSUME Running', NEW s \in pending', asked[s].plain \/ IsGitHub(s)
        PROVE  (PromptOf(asked[s].source, asked[s].version) /\ Downloading)'
    <2>1. PromptOf(asked[s].source, asked[s].version) /\ Downloading
      BY <1>0, <1>3 DEF ShownInv, PlainIsShown, GitHubIsShown, IsGitHub
    <2>2. CASE prompt' = prompt
      BY <2>1, <2>2 DEF PromptOf, Downloading
    <2>3. CASE prompt # NoUpdate /\ prompt' = [prompt EXCEPT !.state = "Downloading"]
      BY <2>1, <2>3, PromptChanges DEF PromptOf, Downloading, ShownInv
    <2>. QED BY <1>3, <2>1, <2>2, <2>3 DEF PromptLeft
  <1>4. PlainIsShown'
    BY <1>3 DEF PlainIsShown
  <1>5. GitHubIsShown'
    <2> SUFFICES ASSUME Running', NEW r \in pending', IsGitHub(r)
                 PROVE  /\ (PromptOf(GitHub, asked[r].version) /\ Downloading)'
                        /\ githubState' = "Downloading"
                        /\ \A s \in pending' : IsGitHub(s) => s = r
      BY DEF GitHubIsShown, IsGitHub
    <2>1. (PromptOf(GitHub, asked[r].version) /\ Downloading)'
      BY <1>3 DEF IsGitHub
    <2>. QED BY <1>0, <2>1 DEF ShownInv, GitHubIsShown
  <1>6. RunningIsPending'
    BY <1>0 DEF ShownInv, RunningIsPending
  <1>7. OrphansEndFirst'
    <2> SUFFICES ASSUME Running', NEW r \in Requests \ pending', IsGitHub(r),
                        task'[r] \in {"done", "failed"}
                 PROVE  prompt' = NoUpdate \/ prompt'.source # GitHub
      BY DEF OrphansEndFirst, IsGitHub
    <2>1. CASE r \in gone
      BY <2>1
    <2>2. CASE r \notin gone
      BY <1>1, <2>2 DEF ShownInv, OrphansEndFirst
    <2>. QED BY <2>1, <2>2
  <1>8. PlainIsAlone'
    <2> SUFFICES ASSUME Running', NEW r \in pending', NEW s \in Requests,
                        asked[r].plain, asked[s].source = asked[r].source
                 PROVE  /\ s \in pending' => s = r
                        /\ ~(handler'.step = "finish" /\ handler'.of = s)
      BY DEF PlainIsAlone
    <2>1. /\ s \in pending => s = r
          /\ ~(handler.step = "finish" /\ handler.of = s)
      BY <1>0 DEF ShownInv, PlainIsAlone
    <2>. QED BY <1>0, <2>1
  <1>9. BusyIsPending'
    BY <1>0 DEF ShownInv, BusyIsPending, IsGitHub
  <1>. QED
    BY <1>1, <1>2, <1>4, <1>5, <1>6, <1>7, <1>8, <1>9 DEF ShownInv

\* A failure, which removes the downloads of a source and version.
LEMMA FailingShows ==
  ASSUME ShownInv, UNCHANGED <<asked, githubRelease, checking, online, exit>>,
         NEW source, NEW version, NEW rest \in SUBSET pending,
         MarkFailed(source, version, rest),
         \A s \in pending : IsGitHub(s) =>
           \/ source # GitHub /\ s \in rest
           \/ /\ source = GitHub /\ (s \in rest => asked[s].version = version)
              /\ task'[s] = "over",
         \A s \in Requests : IsGitHub(s) => task'[s] \in {task[s], "over"},
         handler'.step = "finish" => handler' = handler
  PROVE  ShownInv'
PROOF
  <1>. DEFINE lost == {s \in rest : asked[s].source = source /\ asked[s].version = version}
  <1>1. /\ pending' = rest \ lost
        /\ prompt' = IF PromptOf(source, version)
             THEN [prompt EXCEPT !.state = "Failed"] ELSE prompt
        /\ githubState' = IF source = GitHub THEN "Failed" ELSE githubState
    BY DEF MarkFailed, GitHubFails
  <1>2. \A s \in pending' : ~(asked[s].source = source /\ asked[s].version = version)
    BY <1>1
  <1>3. pending' \subseteq rest
    BY <1>1
  <1>4. \A s \in pending \ pending' : IsGitHub(s) => source = GitHub /\ task'[s] = "over"
    BY <1>1 DEF IsGitHub
  <1>. HIDE DEF lost
  <1>5. PromptLeft(pending')
    BY <1>1, <1>2 DEF PromptLeft, PromptOf
  <1>6. \/ githubState' = githubState
        \/ githubState' # "Downloading" /\ \A s \in pending' : ~IsGitHub(s)
    BY <1>1, <1>2, <1>3 DEF IsGitHub
  <1>7. PICK gone \in SUBSET pending : gone = pending \ pending'
    OBVIOUS
  <1>8. pending' = pending \ gone
    BY <1>3, <1>7
  <1>9. \A s \in gone : IsGitHub(s) => task'[s] = "over" /\ githubState' # "Downloading"
    BY <1>1, <1>4, <1>7
  <1>10. (Running' => Running) /\ (exit' = "no" => exit = "no")
    BY DEF Running
  <1>11. \A s \in Requests : IsGitHub(s) =>
           /\ task'[s] = "running" => task[s] = "running"
           /\ task'[s] \in {"done", "failed"} => task[s] \in {"done", "failed"} \/ s \in pending
    OBVIOUS
  <1>. QED BY <1>5, <1>6, <1>8, <1>9, <1>10, <1>11, LeavingShows

\* The steps that take no download away.
LEMMA KeepingShows ==
  ASSUME ShownInv,
         UNCHANGED <<asked, pending, githubState, githubRelease, checking, online>>,
         Running' => Running, exit' = "no" => exit = "no",
         PromptLeft(pending),
         \A s \in Requests : IsGitHub(s) =>
           /\ task'[s] = "running" => task[s] = "running"
           /\ task'[s] \in {"done", "failed"} => task[s] \in {"done", "failed"} \/ s \in pending,
         handler'.step = "finish" => handler' = handler
  PROVE  ShownInv'
PROOF
  <1>1. PICK gone \in SUBSET pending : gone = {}
    OBVIOUS
  <1>2. pending' = pending \ gone
    BY <1>1
  <1>3. PromptLeft(pending')
    OBVIOUS
  <1>. QED BY <1>1, <1>2, <1>3, LeavingShows

\* The steps that offer something or check for it.
LEMMA PromptingShows ==
  ASSUME ShownInv, Running, UNCHANGED <<asked, pending, task, handler, exit>>,
         PromptTypes',
         \/ prompt' = prompt
         \/ \A s \in pending : ~asked[s].plain /\ ~IsGitHub(s),
         \/ githubState' = githubState
         \/ githubState' # "Downloading" /\ \A s \in pending : ~IsGitHub(s),
         prompt' # NoUpdate /\ prompt'.source = GitHub =>
           /\ prompt'.version = githubRelease' /\ githubRelease' > 0 /\ ~checking'
           /\ \A s \in Requests \ pending :
                IsGitHub(s) => task[s] \notin {"done", "failed"}
  PROVE  ShownInv'
PROOF
  <1>1. /\ \A s \in Requests : IsGitHub(s)' <=> IsGitHub(s)
        /\ Running'
    BY DEF IsGitHub, Running
  <1>2. ReleaseIsPrompted'
    BY DEF ReleaseIsPrompted
  <1>3. PlainIsShown'
    BY DEF ShownInv, PlainIsShown, PromptOf, Downloading
  <1>4. GitHubIsShown'
    BY DEF ShownInv, GitHubIsShown, PromptOf, Downloading, IsGitHub
  <1>5. RunningIsPending' /\ OrphansEndFirst'
    BY DEF ShownInv, RunningIsPending, OrphansEndFirst, IsGitHub
  <1>6. PlainIsAlone'
    BY DEF ShownInv, PlainIsAlone
  <1>7. BusyIsPending'
    BY DEF ShownInv, BusyIsPending, IsGitHub
  <1>. QED BY <1>2, <1>3, <1>4, <1>5, <1>6, <1>7 DEF ShownInv

\* While no prompt shows a download, there is none to be shown.
LEMMA NoneIsShown ==
  ASSUME ShownInv, Running
  PROVE  /\ ~Downloading => \A s \in pending : ~asked[s].plain /\ ~IsGitHub(s)
         /\ (prompt = NoUpdate \/ prompt.source # GitHub \/ githubState # "Downloading") =>
              \A s \in pending : ~IsGitHub(s)
BY DEF ShownInv, PlainIsShown, GitHubIsShown, PromptOf

LEMMA OfferShows ==
  ASSUME ShownInv, Running,
         UNCHANGED <<asked, pending, task, handler, exit, githubState, githubRelease,
                     checking>>,
         online' \subseteq Peers, NEW version,
         Offer(version, online') \/ UNCHANGED prompt
  PROVE  ShownInv'
PROOF
  <1>1. CASE UNCHANGED prompt
    <2>1. PromptTypes'
      BY <1>1 DEF ShownInv, PromptTypes
    <2>2. prompt # NoUpdate /\ prompt.source = GitHub =>
            /\ prompt.version = githubRelease /\ githubRelease > 0 /\ ~checking
            /\ \A s \in Requests \ pending :
                 IsGitHub(s) => task[s] \notin {"done", "failed"}
      BY DEF ShownInv, ReleaseIsPrompted, OrphansEndFirst
    <2>. QED BY <1>1, <2>1, <2>2, PromptingShows
  <1>2. CASE ~UNCHANGED prompt
    <2>1. ~Downloading /\ \E p \in Best(version, Candidates(version, online')) :
            prompt' = Available(p, version[p])
      BY <1>2 DEF Offer
    <2>2. PICK p, v :
            /\ p \in online'
            /\ prompt' = [source |-> p, version |-> v, state |-> "Available"]
      BY <2>1 DEF Best, Candidates, Available
    <2>3. p \in Sources /\ p # GitHub
      BY <2>2, SourcesDiffer DEF Sources
    <2>4. prompt' # NoUpdate /\ prompt'.source = p /\ PromptTypes'
      BY <2>2, <2>3, SourcesDiffer DEF PromptTypes
    <2>. QED BY <2>1, <2>3, <2>4, NoneIsShown, PromptingShows
  <1>. QED BY <1>1, <1>2

LEMMA ChecksShow ==
  ASSUME ShownInv, CheckGitHub \/ CheckDone
  PROVE  ShownInv'
PROOF
  <1>1. CASE CheckGitHub
    <2>1. /\ Running /\ githubState # "Downloading" /\ githubState' = "Checking"
          /\ UNCHANGED <<asked, pending, task, handler, exit, online>>
          /\ prompt' = WithoutGitHub
      BY <1>1 DEF CheckGitHub, MayCheck
    <2>2. prompt' = NoUpdate \/ prompt'.source # GitHub
      BY <2>1 DEF WithoutGitHub
    <2>3. \A s \in pending : ~IsGitHub(s)
      BY <2>1, NoneIsShown
    <2>4. PromptTypes'
      BY <2>1 DEF ShownInv, PromptTypes, WithoutGitHub
    <2>5. prompt' = prompt \/ \A s \in pending : ~asked[s].plain
      BY <2>1, <2>3 DEF WithoutGitHub, ShownInv, PlainIsShown, PromptOf, IsGitHub
    <2>. QED BY <2>1, <2>2, <2>3, <2>4, <2>5, PromptingShows
  <1>2. CASE CheckDone
    <2>1. /\ Running /\ checking /\ checking' = FALSE
          /\ UNCHANGED <<asked, pending, task, handler, exit, online>>
          /\ \A s \in Requests \ pending : task[s] \in {"done", "failed"} => ~IsGitHub(s)
          /\ githubState' # "Downloading"
      BY <1>2 DEF CheckDone
    <2>2. prompt = NoUpdate \/ prompt.source # GitHub
      BY <2>1 DEF ShownInv, ReleaseIsPrompted
    <2>3. \A s \in pending : ~IsGitHub(s)
      BY <2>1, <2>2, NoneIsShown
    <2>4. \/ prompt' = prompt
          \/ \E v \in NewVersions : /\ githubRelease' = v /\ prompt = NoUpdate
                                    /\ prompt' = Available(GitHub, v)
      BY <1>2, <2>2 DEF CheckDone, WithoutGitHub
    <2>5. CASE prompt' = prompt
      <3>1. PromptTypes'
        BY <2>1, <2>5 DEF ShownInv, PromptTypes
      <3>. QED BY <2>1, <2>2, <2>3, <2>5, <3>1, PromptingShows
    <2>6. ASSUME NEW v \in NewVersions, githubRelease' = v, prompt = NoUpdate,
                 prompt' = Available(GitHub, v)
          PROVE  ShownInv'
      <3>1. prompt' = [source |-> GitHub, version |-> v, state |-> "Available"]
        BY <2>6 DEF Available
      <3>2. GitHub \in Sources
        BY DEF Sources
      <3>3. /\ prompt' # NoUpdate /\ prompt'.version = v
            /\ PromptTypes'
        BY <2>1, <3>1, <3>2, SourcesDiffer DEF PromptTypes, ShownInv
      <3>4. v > 0
        BY UpdateAssumption
      <3>5. \A s \in pending : ~asked[s].plain /\ ~IsGitHub(s)
        BY <2>1, <2>6, NoneIsShown DEF Downloading
      <3>. QED BY <2>1, <2>6, <3>3, <3>4, <3>5, PromptingShows
    <2>. QED BY <2>4, <2>5, <2>6
  <1>. QED BY <1>1, <1>2

-----------------------------------------------------------------------------
(* The steps, one by one.                                                   *)

LEMMA BeginShows ==
  ASSUME UpdInv, ShownInv, Running, NEW r \in Requests, task[r] = "none",
         prompt # NoUpdate, ~Downloading,
         NEW version, prompt.source = GitHub => version = prompt.version,
         NEW mode, Begin(r, prompt.source, version, mode),
         UNCHANGED <<online, githubRelease, checking, handler, exit>>
  PROVE  ShownInv'
PROOF
  <1>0. PICK source : prompt.source = source
    OBVIOUS
  <1>1. /\ DOMAIN asked = Requests /\ pending \subseteq Requests
        /\ r \notin pending
        /\ task \in [Requests -> {"none", "running", "done", "failed", "over"}]
        /\ ~(handler.step = "finish" /\ handler.of = r)
    BY UpdateFacts, HandlersRequest DEF UpdInv, UpdateTypes, FreshIsUntouched, Waiting
  <1>2. /\ pending' = pending \union {r}
        /\ task' = [task EXCEPT ![r] = "running"]
        /\ githubState' = IF source = GitHub THEN "Downloading" ELSE githubState
        /\ prompt' = IF PromptOf(source, version)
             THEN [prompt EXCEPT !.state = "Downloading"] ELSE prompt
        /\ asked' = [asked EXCEPT ![r] =
             [source |-> source, version |-> version, mode |-> mode,
              plain |-> PromptOf(source, version) /\ ~HasEarlier(source)]]
    BY <1>0 DEF Begin
  <1>3. /\ asked'[r] = [source |-> source, version |-> version, mode |-> mode,
                        plain |-> PromptOf(source, version) /\ ~HasEarlier(source)]
        /\ \A s \in Requests : s # r => asked'[s] = asked[s]
    BY <1>1, <1>2
  <1>4. /\ asked'[r].source = source /\ asked'[r].version = version
        /\ asked'[r].plain = (PromptOf(source, version) /\ ~HasEarlier(source))
    BY <1>3
  <1>5. /\ IsGitHub(r)' <=> source = GitHub
        /\ \A s \in Requests : s # r => (IsGitHub(s)' <=> IsGitHub(s))
        /\ task'[r] = "running" /\ \A s \in Requests : s # r => task'[s] = task[s]
        /\ Running'
    BY <1>1, <1>2, <1>3, <1>4 DEF IsGitHub, Running
  <1>6. \A s \in pending : ~asked[s].plain /\ ~IsGitHub(s)
    BY NoneIsShown
  <1>7. /\ prompt' # NoUpdate /\ prompt'.source = source
        /\ prompt'.version = prompt.version
        /\ PromptOf(source, version) => prompt'.state = "Downloading"
        /\ PromptTypes'
    <2>1. CASE PromptOf(source, version)
      BY <1>2, <1>0, <2>1, PromptChanges DEF ShownInv, PromptTypes
    <2>2. CASE ~PromptOf(source, version)
      BY <1>2, <1>0, <2>2 DEF ShownInv, PromptTypes
    <2>. QED BY <2>1, <2>2
  <1>8. ReleaseIsPrompted'
    BY <1>5, <1>7, <1>0 DEF ShownInv, ReleaseIsPrompted
  <1>9. PromptOf(source, version) => (PromptOf(source, version) /\ Downloading)'
    BY <1>7 DEF PromptOf, Downloading
  <1>10. PlainIsShown'
    BY <1>1, <1>2, <1>3, <1>4, <1>6, <1>9 DEF PlainIsShown
  <1>11. GitHubIsShown'
    <2> SUFFICES ASSUME NEW s \in pending', IsGitHub(s)'
                 PROVE  /\ (PromptOf(GitHub, asked[s].version) /\ Downloading)'
                        /\ githubState' = "Downloading"
                        /\ \A q \in pending' : IsGitHub(q)' => q = s
      BY DEF GitHubIsShown
    <2>1. s = r /\ \A q \in pending' : IsGitHub(q)' => q = r
      BY <1>1, <1>2, <1>5, <1>6
    <2>2. source = GitHub /\ PromptOf(source, version)
      BY <1>5, <1>0, <2>1 DEF PromptOf
    <2>. QED BY <1>2, <1>4, <1>9, <2>1, <2>2
  <1>12. RunningIsPending'
    BY <1>1, <1>2, <1>5 DEF ShownInv, RunningIsPending
  <1>13. OrphansEndFirst'
    BY <1>1, <1>2, <1>5, <1>7, <1>0 DEF ShownInv, OrphansEndFirst
  <1>14. PlainIsAlone'
    <2> SUFFICES ASSUME NEW q \in pending', NEW s \in Requests, asked'[q].plain,
                        asked'[s].source = asked'[q].source
                 PROVE  /\ s \in pending' => s = q
                        /\ ~(handler.step = "finish" /\ handler.of = s)
      BY DEF PlainIsAlone
    <2>1. q = r /\ ~HasEarlier(source)
      BY <1>1, <1>2, <1>3, <1>4, <1>6
    <2>2. CASE s = r
      BY <1>1, <2>1, <2>2
    <2>3. CASE s # r
      BY <1>2, <1>3, <1>4, <2>1, <2>3 DEF HasEarlier
    <2>. QED BY <2>2, <2>3
  <1>15. BusyIsPending'
    BY <1>2, <1>5, <1>6 DEF ShownInv, BusyIsPending
  <1>. QED BY <1>7, <1>8, <1>10, <1>11, <1>12, <1>13, <1>14, <1>15 DEF ShownInv

LEMMA StartUpdateShows ==
  ASSUME UpdInv, ShownInv, NEW r \in Requests, NEW mode, StartUpdate(r, mode)
  PROVE  ShownInv'
PROOF
  <1>0. /\ Running /\ task[r] = "none" /\ prompt # NoUpdate /\ ~Downloading
        /\ UNCHANGED <<online, githubRelease, checking, handler, exit>>
    BY DEF StartUpdate
  <1>1. \A s \in pending : ~IsGitHub(s)
    BY <1>0, NoneIsShown
  <1>2. ASSUME NEW source, NEW version, MarkFailed(source, version, pending),
               UNCHANGED <<asked, task>>
        PROVE  ShownInv'
    BY <1>0, <1>1, <1>2, FailingShows
  <1>3. CASE prompt.source = GitHub
    <2>1. prompt.version = githubRelease
      BY <1>0, <1>3 DEF ShownInv, ReleaseIsPrompted
    <2>2. CASE Begin(r, prompt.source, githubRelease, mode)
      BY <1>0, <2>1, <2>2, BeginShows
    <2>. QED BY <1>2, <1>3, <2>2 DEF StartUpdate
  <1>4. CASE prompt.source # GitHub
    <2>1. CASE Begin(r, prompt.source, known[prompt.source], mode)
      BY <1>0, <1>4, <2>1, BeginShows
    <2>. QED BY <1>2, <1>4, <2>1 DEF StartUpdate
  <1>. QED BY <1>3, <1>4

LEMMA DismissUpdateShows ==
  ASSUME UpdInv, ShownInv, DismissUpdate
  PROVE  ShownInv'
PROOF
  <1>1. PICK gone \in SUBSET pending :
          gone = {s \in pending : asked[s].source = prompt.source}
    OBVIOUS
  <1>2. /\ Running /\ prompt # NoUpdate /\ prompt' = NoUpdate
        /\ UNCHANGED <<asked, checking, online, handler, exit>>
        /\ pending' = pending \ gone
        /\ \A s \in Requests : task'[s] =
             IF s \in gone /\ IsGitHub(s) /\ task[s] = "running" THEN "over" ELSE task[s]
        /\ IF prompt.source = GitHub THEN githubState' = "Idle" /\ githubRelease' = 0
                                     ELSE UNCHANGED <<githubState, githubRelease>>
    BY <1>1 DEF DismissUpdate
  <1>3. /\ \A s \in pending' : asked[s].source # prompt.source
        /\ \A s \in gone : asked[s].source = prompt.source
    BY <1>1, <1>2
  <1>4. /\ \A s \in Requests : IsGitHub(s)' <=> IsGitHub(s)
        /\ Running' /\ pending \subseteq Requests
    BY <1>2, UpdateFacts DEF IsGitHub, Running
  <1>5. \A s \in pending' : ~asked[s].plain /\ ~IsGitHub(s)
    BY <1>2, <1>3 DEF ShownInv, PlainIsShown, GitHubIsShown, PromptOf, IsGitHub
  <1>6. PromptTypes' /\ ReleaseIsPrompted'
    BY <1>2 DEF ShownInv, PromptTypes, ReleaseIsPrompted
  <1>7. PlainIsShown' /\ GitHubIsShown'
    BY <1>2, <1>4, <1>5 DEF PlainIsShown, GitHubIsShown
  <1>8. RunningIsPending'
    BY <1>2, <1>4 DEF ShownInv, RunningIsPending
  <1>9. OrphansEndFirst'
    BY <1>2 DEF OrphansEndFirst
  <1>10. PlainIsAlone'
    BY <1>2, <1>5 DEF PlainIsAlone
  <1>11. BusyIsPending'
    BY <1>2, <1>3, <1>4 DEF ShownInv, BusyIsPending, IsGitHub
  <1>. QED BY <1>6, <1>7, <1>8, <1>9, <1>10, <1>11 DEF ShownInv

\* The tasks: none but the one that downloads from GitHub matters here.
LEMMA TasksShow ==
  ASSUME UpdInv, ShownInv, NEW r \in Requests, SendRequest(r) \/ Download(r)
  PROVE  ShownInv'
PROOF
  <1>1. /\ Running /\ task[r] = "running"
        /\ UNCHANGED <<asked, pending, prompt, githubState, githubRelease, checking,
                       online, handler, exit>>
        /\ PromptLeft(pending) /\ Running'
    BY DEF SendRequest, Download, Running, PromptLeft
  <1>2. IsGitHub(r) => r \in pending
    BY <1>1 DEF ShownInv, RunningIsPending
  <1>3. \/ task' = task
        \/ \E x \in {"done", "failed"} : task' = [task EXCEPT ![r] = x]
    BY DEF SendRequest, Download, DownloadChunk, DownloadEnds
  <1>4. \A s \in Requests : IsGitHub(s) =>
          /\ task'[s] = "running" => task[s] = "running"
          /\ task'[s] \in {"done", "failed"} => task[s] \in {"done", "failed"} \/ s \in pending
    BY <1>1, <1>2, <1>3, UpdateFacts
  <1>. QED BY <1>1, <1>4, KeepingShows

LEMMA TaskCompletesShows ==
  ASSUME UpdInv, ShownInv, NEW r \in Requests, TaskCompletes(r)
  PROVE  ShownInv'
PROOF
  <1>0. /\ Running /\ UNCHANGED <<asked, githubRelease, checking, online, handler>>
        /\ task' = [task EXCEPT ![r] = "over"]
    BY DEF TaskCompletes
  <1>1. /\ task'[r] = "over" /\ \A s \in Requests : task'[s] \in {task[s], "over"}
        /\ pending \subseteq Requests
    BY <1>0, UpdateFacts
  <1>2. ASSUME r \in pending, IsGitHub(r), NEW s \in pending, IsGitHub(s)
        PROVE  s = r
    BY <1>0, <1>2 DEF ShownInv, GitHubIsShown
  <1>3. CASE task[r] = "failed" /\ IsGitHub(r) /\ UNCHANGED exit
                /\ MarkFailed(GitHub, asked[r].version, pending)
    <2>1. ASSUME NEW s \in pending, IsGitHub(s)
          PROVE  s = r
      <3>1. CASE r \in pending
        BY <1>2, <1>3, <2>1, <3>1
      <3>2. CASE r \notin pending
        BY <1>0, <1>3, <2>1, <3>2 DEF ShownInv, OrphansEndFirst, GitHubIsShown, PromptOf
      <3>. QED BY <3>1, <3>2
    <2>. QED BY <1>0, <1>1, <1>3, <2>1, FailingShows
  <1>4. CASE ~IsGitHub(r) /\ UNCHANGED exit /\ RequestFails(r)
    <2>1. asked[r].source # GitHub /\ MarkFailed(asked[r].source, asked[r].version, pending \ {r})
      BY <1>4 DEF RequestFails, IsGitHub
    <2>2. \A s \in pending : IsGitHub(s) => s \in pending \ {r}
      BY <1>4
    <2>. QED BY <1>0, <1>1, <1>4, <2>1, <2>2, FailingShows
  <1>5. CASE /\ task[r] = "done" /\ IsGitHub(r) /\ r \in pending
             /\ CompleteDownload(r, asked[r].version, Without(r), UNCHANGED requestedVersion)
    <2>0. /\ Without(r) = pending \ {r} /\ asked[r].source = GitHub
          /\ PromptOf(GitHub, asked[r].version)
      BY <1>0, <1>5 DEF Without, IsGitHub, ShownInv, GitHubIsShown
    <2>1. CASE MarkFailed(GitHub, asked[r].version, pending \ {r}) /\ UNCHANGED exit
      BY <1>0, <1>1, <1>2, <1>5, <2>1, FailingShows
    <2>2. CASE pending' = pending \ {r} /\ Schedule(r, asked[r].version)
      <3>1. /\ githubState' = "Available" /\ prompt' = NoUpdate /\ UNCHANGED exit
            /\ prompt # NoUpdate /\ prompt.source = GitHub
        BY <1>5, <2>0, <2>2 DEF Schedule, PromptOf
      <3>2. \A s \in pending' : ~IsGitHub(s) /\ asked[s].source # GitHub
        BY <1>2, <1>5, <2>2 DEF IsGitHub
      <3>3. PromptLeft(pending')
        BY <3>1, <3>2 DEF PromptLeft, PromptOf
      <3>4. {r} \in SUBSET pending /\ Running'
        BY <1>0, <1>5, <3>1 DEF Running
      <3>. QED BY <1>0, <1>1, <2>2, <3>1, <3>2, <3>3, <3>4, LeavingShows
    <2>3. CASE pending' = pending \ {r} /\ Launch(r)
      <3>1. /\ UNCHANGED <<githubState, prompt>> /\ exit' # "no"
            /\ PromptLeft(pending')
        BY <2>3 DEF Launch, PromptLeft
      <3>2. {r} \in SUBSET pending
        BY <1>5
      <3>. QED BY <1>0, <1>1, <2>3, <3>1, <3>2, LeavingShows
    <2>. QED BY <1>5, <2>0, <2>1, <2>2, <2>3 DEF CompleteDownload
  <1>6. CASE UNCHANGED <<prompt, pending, githubState, exit>>
    <2>1. Running' /\ PromptLeft(pending)
      BY <1>0, <1>6 DEF Running, PromptLeft
    <2>. QED BY <1>0, <1>1, <1>6, <2>1, KeepingShows
  <1>. QED BY <1>3, <1>4, <1>5, <1>6 DEF TaskCompletes

\* The TCP thread: a request it works for is none for GitHub.
LEMMA ChunksShow ==
  ASSUME UpdInv, ShownInv,
         \/ \E r \in Requests : ReadUpdateChunk(r)
         \/ AppendUpdateChunk \/ CountUpdateChunk
  PROVE  ShownInv'
PROOF
  <1>1. ASSUME UNCHANGED <<asked, pending, githubState, githubRelease, checking, online,
                           task, exit>>,
               PromptLeft(pending), handler'.step = "finish" => handler' = handler
        PROVE  ShownInv'
    BY <1>1, KeepingShows DEF Running
  <1>2. ASSUME NEW r \in Requests, ReadUpdateChunk(r)
        PROVE  ShownInv'
    <2>1. handler' = [step |-> "append", of |-> r, at |-> stream[r]] \/ handler' = handler
      BY <1>2 DEF ReadUpdateChunk
    <2>2. handler'.step = "finish" => handler' = handler
      BY <2>1
    <2>. QED BY <1>1, <1>2, <2>2 DEF ReadUpdateChunk, PromptLeft
  <1>3. CASE AppendUpdateChunk
    <2>1. handler # Waiting /\ UNCHANGED <<asked, githubRelease, checking, online, task, exit>>
      BY <1>3 DEF AppendUpdateChunk, Waiting
    <2>2. PICK r : r = handler.of
      OBVIOUS
    <2>3. ~IsGitHub(r) /\ asked[r].source # GitHub
      BY <2>1, <2>2, HandlersRequest DEF IsGitHub
    <2>4. CASE /\ handler.step = "append" /\ handler' = [handler EXCEPT !.step = "count"]
               /\ UNCHANGED <<prompt, pending, githubState>>
      <3>1. handler'.step # "finish"
        <4>1. PICK n : handler \in {[step |-> "append", of |-> r, at |-> n],
                                    [step |-> "count", of |-> r, at |-> n]}
          BY <2>1, <2>2, <2>4, HandlersRequest DEF Taking, Finishing
        <4>. QED BY <2>4, <4>1
      <3>. QED BY <1>1, <2>1, <2>4, <3>1 DEF PromptLeft
    <2>5. CASE handler' = Waiting /\ MarkFailed(asked[r].source, asked[r].version, pending)
      <3>1. handler'.step # "finish"
        BY <2>5 DEF Waiting
      <3>. QED BY <2>1, <2>3, <2>5, <3>1, FailingShows
    <2>. QED BY <1>3, <2>2, <2>4, <2>5 DEF AppendUpdateChunk
  <1>4. CASE CountUpdateChunk
    <2>1. /\ UNCHANGED <<asked, pending, githubState, githubRelease, checking, online,
                         task, exit>>
          /\ handler'.step # "finish"
      BY <1>4 DEF CountUpdateChunk, Waiting
    <2>2. \/ prompt' = prompt
          \/ prompt # NoUpdate /\ prompt' = [prompt EXCEPT !.state = "Downloading"]
      BY <1>4 DEF CountUpdateChunk, PromptOf
    <2>. QED BY <1>1, <2>1, <2>2 DEF PromptLeft
  <1>. QED BY <1>2, <1>3, <1>4

LEMMA ReadUpdateCompleteShows ==
  ASSUME UpdInv, ShownInv, NEW r \in Requests, NEW version, ReadUpdateComplete(r, version)
  PROVE  ShownInv'
PROOF
  <1>1. /\ UNCHANGED <<asked, githubState, githubRelease, checking, online, task, exit,
                       prompt>>
        /\ stream[r] = Size + 1
    BY DEF ReadUpdateComplete
  <1>2. ~IsGitHub(r)
    BY <1>1, UpdateFacts DEF UpdInv, StreamsArePeers
  <1>3. PromptLeft(pending) /\ PromptLeft(pending')
    BY <1>1 DEF PromptLeft
  <1>4. CASE UNCHANGED <<handler, pending>>
    BY <1>1, <1>3, <1>4, KeepingShows DEF Running
  <1>5. CASE /\ r \in pending /\ pending' = pending \ {r}
             /\ handler' = [step |-> "finish", of |-> r, version |-> version]
    <2>1. {r} \in SUBSET pending /\ handler'.of = r
      BY <1>5
    <2>. QED BY <1>1, <1>2, <1>3, <1>5, <2>1, LeavingShows DEF Running
  <1>. QED BY <1>4, <1>5 DEF ReadUpdateComplete, Without

LEMMA FinishUpdateShows ==
  ASSUME UpdInv, ShownInv, FinishUpdate
  PROVE  ShownInv'
PROOF
  <1>0. PICK r : r = handler.of
    OBVIOUS
  <1>1. /\ handler.step = "finish" /\ handler'.step # "finish"
        /\ UNCHANGED <<asked, githubRelease, checking, online, task>>
        /\ CompleteDownload(r, handler.version, pending, UNCHANGED requestedVersion)
    BY <1>0 DEF FinishUpdate, Waiting
  <1>2. r \in Requests /\ ~IsGitHub(r) /\ asked[r].source # GitHub
    BY <1>0, <1>1, HandlersRequest DEF IsGitHub, Waiting
  <1>3. CASE MarkFailed(asked[r].source, handler.version, pending) /\ UNCHANGED exit
    BY <1>1, <1>2, <1>3, FailingShows
  <1>4. CASE pending' = pending /\ Schedule(r, handler.version)
    <2>1. /\ githubState' = githubState /\ UNCHANGED exit
          /\ prompt' = IF PromptOf(asked[r].source, handler.version) THEN NoUpdate ELSE prompt
      BY <1>2, <1>4 DEF Schedule
    \* No other download from this source is shown.
    <2>2. ASSUME Running, NEW s \in pending, asked[s].plain \/ IsGitHub(s)
          PROVE  asked[s].source # asked[r].source
      <3>1. CASE IsGitHub(s)
        BY <1>2, <3>1 DEF IsGitHub
      <3>2. CASE asked[s].plain
        BY <1>0, <1>1, <1>2, <2>2, <3>2 DEF ShownInv, PlainIsAlone
      <3>. QED BY <2>2, <3>1, <3>2
    <2>3. PromptLeft(pending)
      BY <2>1, <2>2 DEF PromptLeft, PromptOf, Running
    <2>. QED BY <1>1, <1>4, <2>1, <2>3, KeepingShows DEF Running
  <1>5. CASE pending' = pending /\ Launch(r)
    <2>1. /\ UNCHANGED <<githubState, prompt>> /\ exit' # "no"
          /\ Running' => Running
      BY <1>5 DEF Launch, Running
    <2>. QED BY <1>1, <1>5, <2>1, KeepingShows DEF PromptLeft
  <1>. QED BY <1>1, <1>3, <1>4, <1>5 DEF CompleteDownload

LEMMA EndingsShow ==
  ASSUME ShownInv,
         \/ ExitProgram \/ UNCHANGED updVars
         \/ \E r \in Requests : EnforceExit(r) \/ ReplaceProgram(r) \/ CutStream(r)
  PROVE  ShownInv'
PROOF
  <1>1. ASSUME UNCHANGED <<asked, pending, prompt, githubState, githubRelease, checking,
                           online, task>>,
               exit' = "yes" \/ exit' = exit, handler'.step = "finish" => handler' = handler
        PROVE  ShownInv'
    BY <1>1, KeepingShows DEF PromptLeft, Running
  <1>2. CASE ExitProgram
    BY <1>1, <1>2 DEF ExitProgram
  <1>3. CASE UNCHANGED updVars
    BY <1>1, <1>3 DEF updVars
  <1>4. ASSUME NEW r \in Requests, EnforceExit(r)
        PROVE  ShownInv'
    BY <1>1, <1>4 DEF EnforceExit, Waiting
  <1>5. ASSUME NEW r \in Requests, ReplaceProgram(r) \/ CutStream(r)
        PROVE  ShownInv'
    BY <1>1, <1>5 DEF ReplaceProgram, CutStream
  <1>. QED BY <1>2, <1>3, <1>4, <1>5

LEMMA ShownInvInit ==
  ASSUME UpdInit
  PROVE  ShownInv
BY SourcesDiffer DEF UpdInit, ShownInv, PromptTypes, ReleaseIsPrompted, PlainIsShown,
   GitHubIsShown, RunningIsPending, OrphansEndFirst, PlainIsAlone, BusyIsPending, Over

LEMMA ShownInvStep ==
  ASSUME UpdInv, ShownInv, [UpdNext]_updVars
  PROVE  ShownInv'
PROOF
  <1>1. ASSUME NEW p \in Peers, PeerGone(p) \/ \E v \in NewVersions : PeerSeen(p, v)
        PROVE  ShownInv'
    <2>1. /\ Running /\ online' \subseteq Peers
          /\ UNCHANGED <<asked, pending, task, handler, exit, githubState, githubRelease,
                         checking>>
          /\ Offer(known', online') \/ UNCHANGED prompt
      BY <1>1 DEF PeerGone, PeerSeen, ShownInv, PromptTypes
    <2>. QED BY <2>1, OfferShows
  <1>2. CASE CheckGitHub \/ CheckDone
    BY <1>2, ChecksShow
  <1>3. CASE DismissUpdate
    BY <1>3, DismissUpdateShows
  <1>4. ASSUME NEW r \in Requests,
               \/ \E mode \in Modes : StartUpdate(r, mode)
               \/ SendRequest(r) \/ Download(r) \/ TaskCompletes(r)
        PROVE  ShownInv'
    BY <1>4, StartUpdateShows, TasksShow, TaskCompletesShows
  <1>5. ASSUME NEW r \in Requests,
               ReadUpdateChunk(r) \/ \E v \in NewVersions : ReadUpdateComplete(r, v)
        PROVE  ShownInv'
    BY <1>5, ChunksShow, ReadUpdateCompleteShows
  <1>6. CASE AppendUpdateChunk \/ CountUpdateChunk \/ FinishUpdate
    BY <1>6, ChunksShow, FinishUpdateShows
  <1>7. ASSUME NEW r \in Requests, CutStream(r) \/ EnforceExit(r) \/ ReplaceProgram(r)
        PROVE  ShownInv'
    BY <1>7, EndingsShow
  <1>8. CASE ExitProgram \/ UNCHANGED updVars
    BY <1>8, EndingsShow
  <1>. QED BY <1>1, <1>2, <1>3, <1>4, <1>5, <1>6, <1>7, <1>8 DEF UpdNext

\* The user sees every download that was begun from a prompt that named its version,
\* and no GitHub download is reported when there is none: however downloads are
\* dismissed, fail, complete and are begun again, markAppUpdateFailed,
\* maybeOfferAppUpdateFromPeer and the late completion of a dismissed task take no
\* prompt from a download that is still pending.
THEOREM DownloadsAreShown == UpdSpec => []DownloadIsShown
PROOF
  <1>1. UpdInit => UpdInv /\ ShownInv
    BY UpdInvInit, ShownInvInit
  <1>2. UpdInv /\ ShownInv /\ [UpdNext]_updVars => (UpdInv /\ ShownInv)'
    BY UpdInvStep, ShownInvStep
  <1>3. UpdInv /\ ShownInv => DownloadIsShown
    BY DEF ShownInv, PlainIsShown, BusyIsPending, DownloadIsShown
  <1>. QED BY <1>1, <1>2, <1>3, PTL DEF UpdSpec

-----------------------------------------------------------------------------
(* The types of the update: the versions that are asked for are above the        *)
(* program's own, also when a peer that is prompted changes its version.        *)

Numbers == NewVersions \union {0}
Prompts == [source : Sources, version : NewVersions,
            state : {"Available", "Downloading", "Failed"}]
Questions == [source : Sources, version : NewVersions, mode : Modes, plain : BOOLEAN]
Schedules == [request : Requests, version : NewVersions]

\* The peer of a prompt runs a newer version: it is what a retry asks for.
VersionsAreNew ==
  /\ known \in [Peers -> Numbers]
  /\ requestedVersion \in [Peers -> Numbers]
  /\ dismissedVersion \in [Peers -> Numbers]
  /\ githubRelease \in Numbers
  /\ prompt \in Prompts \union {NoUpdate}
  /\ prompt # NoUpdate /\ prompt.source \in Peers => known[prompt.source] # 0
  /\ asked \in [Requests -> Questions \union {NoUpdate}]
  /\ \A r \in pending : asked[r] # NoUpdate
  /\ scheduled \in Schedules \union {NoUpdate}
  /\ handler.step = "finish" => handler.version \in NewVersions

\* A check that is shown is under way.
StatesAreShown ==
  /\ githubState \in {"Idle", "Checking", "UpToDate", "Available", "Downloading",
                      "Failed"}
  /\ checking \in BOOLEAN
  /\ installed \in Requests \union {None}
  /\ exit \in {"no", "requested", "yes"}
  /\ checks \in 0..MaxChecks
  /\ githubState = "Checking" => checking

\* A prompt whose state changes, or that is taken away.
PromptStays ==
  \/ prompt' = prompt \/ prompt' = NoUpdate
  \/ /\ prompt # NoUpdate
     /\ prompt' = [prompt EXCEPT !.state = "Downloading"]
          \/ prompt' = [prompt EXCEPT !.state = "Failed"]

LEMMA StayingPrompt ==
  ASSUME PromptTypes, VersionsAreNew, PromptStays
  PROVE  /\ prompt' \in Prompts \union {NoUpdate}
         /\ prompt' # NoUpdate => prompt # NoUpdate /\ prompt'.source = prompt.source
PROOF
  <1>1. ASSUME NEW x \in {"Downloading", "Failed"}, prompt # NoUpdate,
               prompt' = [prompt EXCEPT !.state = x]
        PROVE  prompt' \in Prompts /\ prompt'.source = prompt.source
    <2>1. prompt' = [source |-> prompt.source, version |-> prompt.version, state |-> x]
      BY <1>1, PromptChanges
    <2>2. prompt.source \in Sources /\ prompt.version \in NewVersions
      BY <1>1 DEF VersionsAreNew, Prompts
    <2>. QED BY <1>1, <2>1, <2>2 DEF Prompts
  <1>2. CASE prompt' = prompt \/ prompt' = NoUpdate
    BY <1>2 DEF VersionsAreNew
  <1>. QED BY <1>1, <1>2 DEF PromptStays

\* The steps that begin no download and offer none.
LEMMA VersionsStay ==
  ASSUME PromptTypes, VersionsAreNew, PromptStays, UNCHANGED <<known, asked>>,
         pending' \subseteq pending,
         requestedVersion' \in [Peers -> Numbers],
         dismissedVersion' \in [Peers -> Numbers],
         githubRelease' \in Numbers,
         scheduled' \in Schedules \union {NoUpdate},
         handler'.step = "finish" => handler'.version \in NewVersions
  PROVE  VersionsAreNew'
PROOF
  <1>1. /\ prompt' \in Prompts \union {NoUpdate}
        /\ prompt' # NoUpdate => prompt # NoUpdate /\ prompt'.source = prompt.source
    BY StayingPrompt
  <1>. QED BY <1>1 DEF VersionsAreNew

LEMMA MarkFailedStays ==
  ASSUME VersionsAreNew, NEW source, NEW version, NEW rest \in SUBSET pending,
         MarkFailed(source, version, rest)
  PROVE  /\ pending' \subseteq pending /\ PromptStays
         /\ requestedVersion' \in [Peers -> Numbers]
         /\ githubState' = githubState \/ githubState' = "Failed"
PROOF
  <1>1. pending' \subseteq pending
    BY DEF MarkFailed
  <1>2. PromptStays
    BY DEF MarkFailed, PromptOf, PromptStays
  <1>3. requestedVersion' \in [Peers -> Numbers]
    BY DEF MarkFailed, ForgetRequest, VersionsAreNew, Numbers
  <1>4. githubState' = githubState \/ githubState' = "Failed"
    BY DEF MarkFailed, GitHubFails
  <1>. QED BY <1>1, <1>2, <1>3, <1>4

\* An offer is about a peer that runs a version above every one that was dismissed.
LEMMA OfferIsNew ==
  ASSUME PromptTypes, VersionsAreNew, known' \in [Peers -> Numbers],
         \A p \in Peers : known[p] # 0 => known'[p] # 0,
         NEW present \in SUBSET Peers, Offer(known', present) \/ UNCHANGED prompt
  PROVE  /\ prompt' \in Prompts \union {NoUpdate}
         /\ prompt' # NoUpdate /\ prompt'.source \in Peers => known'[prompt'.source] # 0
PROOF
  <1>1. CASE prompt' = prompt
    BY <1>1 DEF VersionsAreNew
  <1>2. CASE prompt' # prompt
    <2>1. PICK p \in Candidates(known', present) : prompt' = Available(p, known'[p])
      BY <1>2 DEF Offer, Best
    <2>2. p \in Peers /\ known'[p] > dismissedVersion[p]
      BY <2>1 DEF Candidates
    <2>3. Numbers \subseteq Nat
      BY UpdateAssumption DEF Numbers
    <2>4. dismissedVersion[p] \in Numbers /\ known'[p] \in Numbers
      BY <2>2 DEF VersionsAreNew
    <2>5. known'[p] # 0
      <3>1. known'[p] \in Nat /\ dismissedVersion[p] \in Nat
        BY <2>3, <2>4
      <3>. QED BY <2>2, <3>1
    <2>6. known'[p] \in NewVersions
      BY <2>4, <2>5 DEF Numbers
    <2>7. prompt'.source = p
      BY <2>1 DEF Available
    <2>. QED BY <2>1, <2>2, <2>5, <2>6, <2>7 DEF Available, Prompts, Sources
  <1>. QED BY <1>1, <1>2

LEMMA PeersStayNew ==
  ASSUME PromptTypes, VersionsAreNew, NEW p \in Peers,
         PeerGone(p) \/ \E v \in NewVersions : PeerSeen(p, v)
  PROVE  VersionsAreNew'
PROOF
  <1>1. /\ UNCHANGED <<asked, pending, requestedVersion, dismissedVersion, scheduled,
                       githubRelease, handler>>
        /\ online' \subseteq Peers
        /\ Offer(known', online') \/ UNCHANGED prompt
    BY DEF PeerGone, PeerSeen, PromptTypes
  <1>2. /\ known' \in [Peers -> Numbers]
        /\ \A q \in Peers : known[q] # 0 => known'[q] # 0
    <2>1. CASE PeerGone(p)
      BY <2>1 DEF PeerGone, VersionsAreNew
    <2>2. ASSUME NEW v \in NewVersions, PeerSeen(p, v)
          PROVE  /\ known' \in [Peers -> Numbers]
                 /\ \A q \in Peers : known[q] # 0 => known'[q] # 0
      <3>1. known \in [Peers -> Numbers] /\ known' = [known EXCEPT ![p] = v]
        BY <2>2 DEF PeerSeen, VersionsAreNew
      <3>2. v \in Numbers /\ v # 0
        BY <2>2, UpdateAssumption DEF Numbers
      <3>. QED BY <3>1, <3>2
    <2>. QED BY <2>1, <2>2
  <1>3. /\ prompt' \in Prompts \union {NoUpdate}
        /\ prompt' # NoUpdate /\ prompt'.source \in Peers => known'[prompt'.source] # 0
    BY <1>1, <1>2, OfferIsNew
  <1>. QED BY <1>1, <1>2, <1>3 DEF VersionsAreNew

LEMMA ChecksStayNew ==
  ASSUME PromptTypes, VersionsAreNew, CheckGitHub \/ CheckDone
  PROVE  VersionsAreNew'
PROOF
  <1>1. UNCHANGED <<known, asked, pending, requestedVersion, dismissedVersion, scheduled,
                    handler>>
    BY DEF CheckGitHub, CheckDone
  <1>2. githubRelease' \in Numbers
    BY DEF CheckGitHub, CheckDone, VersionsAreNew, Numbers
  <1>3. CASE PromptStays
    BY <1>1, <1>2, <1>3, VersionsStay DEF VersionsAreNew
  <1>4. CASE ~PromptStays
    <2>1. PICK v \in NewVersions : prompt' = Available(GitHub, v)
      BY <1>4 DEF CheckGitHub, CheckDone, WithoutGitHub, PromptStays
    <2>2. prompt' \in Prompts /\ prompt'.source = GitHub
      BY <2>1 DEF Available, Prompts, Sources
    <2>. QED BY <1>1, <1>2, <2>2, SourcesDiffer DEF VersionsAreNew
  <1>. QED BY <1>3, <1>4

LEMMA BeginStaysNew ==
  ASSUME PromptTypes, VersionsAreNew, NEW r \in Requests, NEW source \in Sources,
         NEW version \in NewVersions, NEW mode \in Modes,
         Begin(r, source, version, mode), UNCHANGED <<known, dismissedVersion, scheduled,
         githubRelease, handler>>
  PROVE  VersionsAreNew'
PROOF
  <1>1. PICK plain \in BOOLEAN :
          asked' = [asked EXCEPT ![r] = [source |-> source, version |-> version,
                                         mode |-> mode, plain |-> plain]]
    <2>1. (PromptOf(source, version) /\ ~HasEarlier(source)) \in BOOLEAN
      OBVIOUS
    <2>. QED BY <2>1 DEF Begin
  <1>. DEFINE question == [source |-> source, version |-> version, mode |-> mode,
                           plain |-> plain]
  <1>2. question \in Questions
    BY DEF Questions
  <1>3. question # NoUpdate
    <2>1. question.source = source
      OBVIOUS
    <2>. QED BY <2>1, PeerNamesAssumption DEF Sources, GitHub, NoUpdate
  <1>4. asked' = [asked EXCEPT ![r] = question]
    BY <1>1
  <1>. HIDE DEF question
  <1>5. asked' \in [Requests -> Questions \union {NoUpdate}]
    BY <1>2, <1>4 DEF VersionsAreNew
  <1>6. \A s \in pending' : asked'[s] # NoUpdate
    <2>1. pending' = pending \union {r} /\ asked \in [Requests -> Questions \union {NoUpdate}]
      BY DEF Begin, VersionsAreNew
    <2>2. asked'[r] = question
      BY <1>4, <2>1
    <2>3. ASSUME NEW s \in pending, s # r PROVE asked'[s] # NoUpdate
      <3>1. asked'[s] = asked[s]
        BY <1>4, <2>3
      <3>. QED BY <3>1 DEF VersionsAreNew
    <2>. QED BY <1>3, <2>1, <2>2, <2>3
  <1>7. requestedVersion' \in [Peers -> Numbers]
    BY DEF Begin, VersionsAreNew, Numbers
  <1>8. PromptStays
    BY DEF Begin, PromptOf, PromptStays
  <1>9. /\ prompt' \in Prompts \union {NoUpdate}
        /\ prompt' # NoUpdate => prompt # NoUpdate /\ prompt'.source = prompt.source
    BY <1>8, StayingPrompt
  <1>. QED BY <1>5, <1>6, <1>7, <1>9 DEF VersionsAreNew

LEMMA StartStaysNew ==
  ASSUME PromptTypes, VersionsAreNew, NEW r \in Requests, NEW mode \in Modes,
         StartUpdate(r, mode)
  PROVE  VersionsAreNew'
PROOF
  <1>1. UNCHANGED <<known, dismissedVersion, scheduled, githubRelease, handler>>
    BY DEF StartUpdate
  <1>2. ASSUME NEW source, NEW version, MarkFailed(source, version, pending),
               UNCHANGED asked
        PROVE  VersionsAreNew'
    BY <1>1, <1>2, MarkFailedStays, VersionsStay DEF VersionsAreNew
  <1>3. CASE Begin(r, GitHub, githubRelease, mode) /\ githubRelease > 0
    <2>1. githubRelease \in NewVersions /\ GitHub \in Sources
      BY <1>3 DEF VersionsAreNew, Numbers, Sources
    <2>. QED BY <1>1, <1>3, <2>1, BeginStaysNew
  <1>4. CASE /\ prompt # NoUpdate /\ prompt.source # GitHub
             /\ Begin(r, prompt.source, known[prompt.source], mode)
    <2>1. prompt.source \in Peers
      BY <1>4 DEF PromptTypes, Sources
    <2>2. prompt.source \in Sources /\ known[prompt.source] \in NewVersions
      BY <1>4, <2>1 DEF VersionsAreNew, Numbers, Sources
    <2>. QED BY <1>1, <1>4, <2>2, BeginStaysNew
  <1>. QED BY <1>2, <1>3, <1>4 DEF StartUpdate

LEMMA DismissStaysNew ==
  ASSUME PromptTypes, VersionsAreNew, DismissUpdate
  PROVE  VersionsAreNew'
PROOF
  <1>1. /\ UNCHANGED <<known, asked, scheduled, handler>>
        /\ pending' \subseteq pending /\ PromptStays
    BY DEF DismissUpdate, PromptStays
  <1>2. githubRelease' \in Numbers
    BY DEF DismissUpdate, VersionsAreNew, Numbers
  <1>3. requestedVersion' \in [Peers -> Numbers]
    BY DEF DismissUpdate, ForgetRequest, VersionsAreNew, Numbers
  <1>4. dismissedVersion' \in [Peers -> Numbers]
    <2>1. prompt.version \in Numbers /\ dismissedVersion \in [Peers -> Numbers]
      BY DEF DismissUpdate, VersionsAreNew, Prompts, Numbers
    <2>2. \/ dismissedVersion' = dismissedVersion
          \/ dismissedVersion' =
               [dismissedVersion EXCEPT ![prompt.source] = prompt.version]
      BY DEF DismissUpdate
    <2>. QED BY <2>1, <2>2
  <1>. QED BY <1>1, <1>2, <1>3, <1>4, VersionsStay DEF VersionsAreNew

LEMMA CompletionStaysNew ==
  ASSUME PromptTypes, VersionsAreNew, NEW r \in Requests, NEW version \in NewVersions,
         NEW rest \in SUBSET pending,
         CompleteDownload(r, version, rest, UNCHANGED requestedVersion)
  PROVE  /\ pending' \subseteq pending /\ PromptStays
         /\ requestedVersion' \in [Peers -> Numbers]
         /\ scheduled' \in Schedules \union {NoUpdate}
         /\ githubState' \in {githubState, "Failed", "Available"}
         /\ exit' \in {exit, "requested"}
PROOF
  <1>1. CASE Schedule(r, version) /\ pending' = rest /\ UNCHANGED requestedVersion
    <2>1. scheduled' \in Schedules
      BY <1>1 DEF Schedule, Schedules
    <2>2. PromptStays /\ githubState' \in {githubState, "Available"} /\ exit' = exit
      BY <1>1 DEF Schedule, PromptStays
    <2>. QED BY <1>1, <2>1, <2>2 DEF VersionsAreNew
  <1>2. CASE Launch(r) /\ pending' = rest /\ UNCHANGED requestedVersion
    BY <1>2 DEF Launch, PromptStays, VersionsAreNew
  <1>3. CASE /\ MarkFailed(asked[r].source, version, rest)
             /\ UNCHANGED <<scheduled, helper, exit>>
    BY <1>3, MarkFailedStays DEF VersionsAreNew
  <1>. QED BY <1>1, <1>2, <1>3 DEF CompleteDownload

LEMMA TaskCompletesStaysNew ==
  ASSUME PromptTypes, VersionsAreNew, NEW r \in Requests, TaskCompletes(r)
  PROVE  /\ VersionsAreNew'
         /\ githubState' \in {githubState, "Failed", "Available"}
         /\ exit' \in {exit, "requested"}
PROOF
  <1>1. UNCHANGED <<known, asked, dismissedVersion, githubRelease, handler>>
    BY DEF TaskCompletes
  <1>2. ASSUME NEW source, NEW version, NEW rest \in SUBSET pending,
               MarkFailed(source, version, rest), UNCHANGED <<scheduled, exit>>
        PROVE  /\ VersionsAreNew'
               /\ githubState' \in {githubState, "Failed", "Available"}
               /\ exit' \in {exit, "requested"}
    BY <1>1, <1>2, MarkFailedStays, VersionsStay DEF VersionsAreNew
  <1>3. CASE /\ r \in pending
             /\ CompleteDownload(r, asked[r].version, Without(r),
                                 UNCHANGED requestedVersion)
    <2>1. asked[r].version \in NewVersions /\ Without(r) \in SUBSET pending
      BY <1>3 DEF VersionsAreNew, Questions, Without
    <2>. QED BY <1>1, <1>3, <2>1, CompletionStaysNew, VersionsStay DEF VersionsAreNew
  <1>4. CASE UNCHANGED <<prompt, pending, payload, requestedVersion, scheduled,
                         githubState, helper, exit>>
    BY <1>1, <1>4, VersionsStay DEF VersionsAreNew, PromptStays
  <1>5. pending \ {r} \in SUBSET pending /\ pending \in SUBSET pending
    OBVIOUS
  <1>. QED BY <1>2, <1>3, <1>4, <1>5 DEF TaskCompletes, RequestFails

\* What the TCP thread does.
LEMMA FramesStayNew ==
  ASSUME PromptTypes, VersionsAreNew, HandlerIsSound,
         \/ \E r \in Requests :
              ReadUpdateChunk(r) \/ \E v \in NewVersions : ReadUpdateComplete(r, v)
         \/ AppendUpdateChunk \/ CountUpdateChunk \/ FinishUpdate
  PROVE  /\ VersionsAreNew'
         /\ githubState' \in {githubState, "Failed", "Available"}
         /\ exit' \in {exit, "requested"}
PROOF
  <1>1. ASSUME NEW r \in Requests, ReadUpdateChunk(r)
        PROVE  /\ VersionsAreNew'
               /\ githubState' \in {githubState, "Failed", "Available"}
               /\ exit' \in {exit, "requested"}
    <2>1. handler' = handler \/ handler'.step = "append"
      BY <1>1 DEF ReadUpdateChunk
    <2>. QED BY <1>1, <2>1, VersionsStay DEF ReadUpdateChunk, VersionsAreNew, PromptStays
  <1>2. ASSUME NEW r \in Requests, NEW v \in NewVersions, ReadUpdateComplete(r, v)
        PROVE  /\ VersionsAreNew'
               /\ githubState' \in {githubState, "Failed", "Available"}
               /\ exit' \in {exit, "requested"}
    <2>1. handler' = handler \/ handler'.version = v
      BY <1>2 DEF ReadUpdateComplete
    <2>2. pending' \subseteq pending /\ requestedVersion' \in [Peers -> Numbers]
      BY <1>2 DEF ReadUpdateComplete, Without, ForgetRequest, VersionsAreNew, Numbers
    <2>3. /\ UNCHANGED <<known, asked, prompt, dismissedVersion, githubRelease, scheduled>>
          /\ githubState' = githubState /\ exit' = exit
      BY <1>2 DEF ReadUpdateComplete
    <2>. QED BY <2>1, <2>2, <2>3, VersionsStay DEF VersionsAreNew, PromptStays
  <1>3. CASE AppendUpdateChunk
    <2>1. /\ UNCHANGED <<known, asked, dismissedVersion, githubRelease, scheduled>>
          /\ exit' = exit
      BY <1>3 DEF AppendUpdateChunk
    <2>2. handler'.step # "finish"
      <3>1. PICK r \in Requests : handler.step = "append" /\ \E n \in 1 .. Size : Taking(r, n)
        BY <1>3 DEF AppendUpdateChunk, HandlerIsSound, Finishing, Waiting
      <3>2. PICK n \in 1 .. Size : handler = [step |-> "append", of |-> r, at |-> n]
        BY <3>1 DEF Taking
      <3>. QED BY <1>3, <3>2 DEF AppendUpdateChunk, Waiting
    <2>3. \/ UNCHANGED <<prompt, pending, requestedVersion, githubState>>
          \/ MarkFailed(asked[handler.of].source, asked[handler.of].version, pending)
      BY <1>3 DEF AppendUpdateChunk
    <2>4. CASE UNCHANGED <<prompt, pending, requestedVersion, githubState>>
      BY <2>1, <2>2, <2>4, VersionsStay DEF VersionsAreNew, PromptStays
    <2>5. CASE MarkFailed(asked[handler.of].source, asked[handler.of].version, pending)
      BY <2>1, <2>2, <2>5, MarkFailedStays, VersionsStay DEF VersionsAreNew
    <2>. QED BY <2>3, <2>4, <2>5
  <1>4. CASE CountUpdateChunk
    <2>1. PromptStays
      BY <1>4 DEF CountUpdateChunk, PromptOf, PromptStays
    <2>2. handler'.step # "finish"
      BY <1>4 DEF CountUpdateChunk, Waiting
    <2>. QED BY <1>4, <2>1, <2>2, VersionsStay DEF CountUpdateChunk, VersionsAreNew
  <1>5. CASE FinishUpdate
    <2>1. handler.of \in Requests /\ handler.version \in NewVersions
      BY <1>5 DEF FinishUpdate, HandlerIsSound, Finishing, Taking, Waiting, VersionsAreNew
    <2>2. /\ UNCHANGED <<known, asked, dismissedVersion, githubRelease>>
          /\ handler'.step # "finish"
          /\ CompleteDownload(handler.of, handler.version, pending,
                              UNCHANGED requestedVersion)
      BY <1>5 DEF FinishUpdate, Waiting
    <2>. QED BY <2>1, <2>2, CompletionStaysNew, VersionsStay DEF VersionsAreNew
  <1>. QED BY <1>1, <1>2, <1>3, <1>4, <1>5

LEMMA EndingsStayNew ==
  ASSUME PromptTypes, VersionsAreNew,
         \/ \E r \in Requests : SendRequest(r) \/ Download(r) \/ CutStream(r)
                                  \/ EnforceExit(r) \/ ReplaceProgram(r)
         \/ ExitProgram \/ UNCHANGED updVars
  PROVE  VersionsAreNew'
PROOF
  <1>1. /\ UNCHANGED <<known, asked, pending, prompt, requestedVersion, dismissedVersion,
                       githubRelease>>
        /\ scheduled' = scheduled \/ scheduled' = NoUpdate
        /\ handler' = handler \/ handler' = Waiting
    BY DEF SendRequest, Download, CutStream, EnforceExit, ReplaceProgram, ExitProgram,
           updVars
  <1>2. handler'.step = "finish" => handler'.version \in NewVersions
    BY <1>1 DEF VersionsAreNew, Waiting
  <1>. QED BY <1>1, <1>2, VersionsStay DEF VersionsAreNew, PromptStays

LEMMA VersionsStep ==
  ASSUME UpdInv, ShownInv, VersionsAreNew, [UpdNext]_updVars
  PROVE  VersionsAreNew'
PROOF
  <1>1. PromptTypes /\ HandlerIsSound
    BY DEF UpdInv, ShownInv
  <1>. QED BY <1>1, PeersStayNew, ChecksStayNew, DismissStaysNew, StartStaysNew,
              TaskCompletesStaysNew, FramesStayNew, EndingsStayNew DEF UpdNext

LEMMA StatesStep ==
  ASSUME UpdInv, ShownInv, VersionsAreNew, StatesAreShown, [UpdNext]_updVars
  PROVE  StatesAreShown'
PROOF
  <1>1. PromptTypes /\ HandlerIsSound /\ MaxChecks \in Nat
    BY UpdateAssumption DEF UpdInv, ShownInv
  <1>2. ASSUME githubState' \in {githubState, "Failed", "Available", "Downloading", "Idle"},
               exit' \in {exit, "requested", "yes"},
               installed' \in Requests \union {installed}, UNCHANGED <<checking, checks>>
        PROVE  StatesAreShown'
    BY <1>2 DEF StatesAreShown
  <1>3. ASSUME NEW p \in Peers, PeerGone(p) \/ \E v \in NewVersions : PeerSeen(p, v)
        PROVE  StatesAreShown'
    BY <1>2, <1>3 DEF PeerGone, PeerSeen
  <1>4. CASE CheckGitHub
    <2>1. checks' \in 0..MaxChecks
      BY <1>1, <1>4 DEF CheckGitHub, StatesAreShown
    <2>. QED BY <1>4, <2>1 DEF CheckGitHub, StatesAreShown
  <1>5. CASE CheckDone
    <2>1. githubState' \in {"Failed", "UpToDate", "Available"}
      BY <1>5 DEF CheckDone
    <2>. QED BY <1>5, <2>1 DEF CheckDone, StatesAreShown
  <1>6. CASE DismissUpdate
    BY <1>2, <1>6 DEF DismissUpdate
  <1>7. ASSUME NEW r \in Requests, NEW mode \in Modes, StartUpdate(r, mode)
        PROVE  StatesAreShown'
    <2>1. githubState' \in {githubState, "Failed", "Downloading"}
      BY <1>7 DEF StartUpdate, Begin, MarkFailed, GitHubFails
    <2>. QED BY <1>2, <1>7, <2>1 DEF StartUpdate
  <1>8. ASSUME NEW r \in Requests, TaskCompletes(r)
        PROVE  StatesAreShown'
    <2>1. UNCHANGED <<installed, checking, checks>>
      BY <1>8 DEF TaskCompletes
    <2>. QED BY <1>1, <1>2, <1>8, <2>1, TaskCompletesStaysNew
  <1>9. CASE \/ \E r \in Requests :
                  ReadUpdateChunk(r) \/ \E v \in NewVersions : ReadUpdateComplete(r, v)
             \/ AppendUpdateChunk \/ CountUpdateChunk \/ FinishUpdate
    <2>1. UNCHANGED <<installed, checking, checks>>
      BY <1>9 DEF ReadUpdateChunk, ReadUpdateComplete, AppendUpdateChunk,
         CountUpdateChunk, FinishUpdate
    <2>. QED BY <1>1, <1>2, <1>9, <2>1, FramesStayNew
  <1>10. CASE \/ \E r \in Requests : SendRequest(r) \/ Download(r) \/ CutStream(r)
                                       \/ EnforceExit(r) \/ ReplaceProgram(r)
              \/ ExitProgram \/ UNCHANGED updVars
    <2>1. /\ UNCHANGED <<githubState, checking, checks>>
          /\ exit' = exit \/ exit' = "yes"
          /\ installed' \in Requests \union {installed}
      BY <1>10 DEF SendRequest, Download, CutStream, EnforceExit, ReplaceProgram,
         CopyPayload, ExitProgram, updVars
    <2>. QED BY <1>2, <2>1
  <1>. QED BY <1>3, <1>4, <1>5, <1>6, <1>7, <1>8, <1>9, <1>10 DEF UpdNext

\* The variables of an update have their types: every version that is prompted, asked
\* for or scheduled is above the program's own, although startAppUpdate asks for the
\* one the peer has by then, and the state "Checking" is only shown while
\* checkGitHubAppUpdate runs.
THEOREM UpdateTypesHold == UpdSpec => []UpdTypeOK
PROOF
  <1>1. UpdInit => UpdInv /\ ShownInv /\ VersionsAreNew /\ StatesAreShown
    <2>1. UpdInit => UpdInv /\ ShownInv
      BY UpdInvInit, ShownInvInit
    <2>2. UpdInit => VersionsAreNew
      BY DEF UpdInit, VersionsAreNew, Numbers, Waiting
    <2>3. UpdInit => StatesAreShown
      <3>1. 0 \in 0..MaxChecks
        BY UpdateAssumption
      <3>. QED BY <3>1 DEF UpdInit, StatesAreShown
    <2>. QED BY <2>1, <2>2, <2>3
  <1>2. /\ UpdInv /\ ShownInv /\ VersionsAreNew /\ StatesAreShown /\ [UpdNext]_updVars
        => (UpdInv /\ ShownInv /\ VersionsAreNew /\ StatesAreShown)'
    BY UpdInvStep, ShownInvStep, VersionsStep, StatesStep
  <1>3. UpdInv /\ ShownInv /\ VersionsAreNew /\ StatesAreShown => UpdTypeOK
    <2>. SUFFICES ASSUME UpdInv, ShownInv, VersionsAreNew, StatesAreShown
                  PROVE  UpdTypeOK
      OBVIOUS
    <2>1. handler.step \in {"wait", "append", "count", "finish"}
      BY DEF UpdInv, HandlerIsSound, Finishing, Taking, Waiting
    <2>2. pending \subseteq {r \in Requests : asked[r] # NoUpdate}
      BY DEF UpdInv, UpdateTypes, VersionsAreNew
    <2>. QED BY <2>1, <2>2
      DEF UpdInv, UpdateTypes, ShownInv, PromptTypes, VersionsAreNew, StatesAreShown,
          UpdTypeOK, Numbers, Prompts, Questions, Schedules
  <1>. QED BY <1>1, <1>2, <1>3, PTL DEF UpdSpec

-----------------------------------------------------------------------------
(* Peer profiles: a listed peer keeps a profile, and a goodbye is not undone by *)
(* what was sent before it, for any devices, stamps, messages and crashes.      *)

\* What the argument needs of the types.
WholeProfiles ==
  [file : {"whole"}, seen : Nat, version : Versions, unread : Nat,
   at : Addresses, known : SUBSET Addresses]
Notes ==
  [of : Devices, type : {"hello", "offline"}, stamp : Nat, version : Versions,
   from : Addresses]
ListItems ==
  [seen : Nat, version : Versions, unread : Nat, at : Addresses, online : BOOLEAN,
   signal : {"fresh", "over"}]
Chats == [of : Devices, counted : BOOLEAN]
Queued == [put : WholeProfiles, note : Notes]

DiscoveryJobs ==
  {Idle} \union [step : {"load"}, of : Devices, note : Notes]
         \union [step : {"purge", "truncate", "write"}, of : Devices, note : Notes,
                 put : WholeProfiles]
TcpJobs ==
  {Idle} \union [step : {"load"}, of : Devices]
         \union [step : {"truncate", "write"}, of : Devices, put : WholeProfiles]
UiJobs ==
  {Idle} \union [step : {"load"}, of : Devices, count : Nat]
         \union [step : {"truncate", "write"}, of : Devices, put : WholeProfiles]

ProfileTypes ==
  /\ profile \in [Devices -> WholeProfiles \union Unreadable]
  /\ list \in [Devices -> ListItems \union {Unlisted}]
  /\ profileQueue \in Seq(Queued)
  /\ chatQueue \in Seq(Chats) /\ draining \in Seq(Chats)
  /\ DOMAIN job = ProfileThreads
  /\ job["discovery"] \in DiscoveryJobs
  /\ job["tcp"] \in TcpJobs
  /\ job["ui"] \in UiJobs
  /\ left \in [Devices -> Nat] /\ heard \subseteq Devices
  /\ spared \in [Devices -> SUBSET Addresses]

\* The discovery thread works on the device of its announcement, and what it
\* stores and passes on is not older than that announcement.
NotesFit ==
  LET j == job["discovery"] IN
  /\ j.step # "idle" => j.note.of = j.of
  /\ j.step \in {"purge", "truncate", "write"} => j.put.seen >= j.note.stamp
  /\ \A i \in 1 .. Len(profileQueue) :
       profileQueue[i].put.seen >= profileQueue[i].note.stamp

\* Where a device may stay listed after profile p of another device was applied.
Spares(p, d) == Addresses \ p.known \subseteq spared[d]

\* The profile of the device that took over is under way to the list, and none of d
\* itself follows.
TakenOver(d) ==
  \E i \in 1 .. Len(profileQueue) :
    /\ profileQueue[i].note.of # d /\ Spares(profileQueue[i].put, d)
    /\ \A k \in 1 .. Len(profileQueue) : k > i => profileQueue[k].note.of # d

\* Nothing of d is on its way, and the list shows it at most where it was spared.
Settled(d) ==
  /\ \A k \in 1 .. Len(profileQueue) : profileQueue[k].note.of # d
  /\ Listed(d) => list[d].at \in spared[d]

\* The discovery thread saves the profile that takes d over.
BeingReplaced(d) ==
  LET j == job["discovery"] IN
  j.step \in {"truncate", "write"} /\ j.of # d /\ Spares(j.put, d)

\* A device whose profile was removed leaves the list or is shown where it was spared,
\* at the latest with the profile that is being saved or is still queued.
MissingIsForgotten ==
  \A d \in Devices : profile[d] = Missing =>
    spared[d] = Addresses \/ BeingReplaced(d) \/ TakenOver(d) \/ Settled(d)

\* An unreadable profile of a device that was heard of will be written again.
TornIsSaved ==
  \A d \in heard : profile[d] = Torn =>
    \/ \E t \in ProfileThreads : job[t].step = "write" /\ job[t].of = d
    \/ job["discovery"].step # "idle" /\ job["discovery"].of = d

\* What is shown offline has no online signal left, and is not older than the
\* goodbye that was applied.
GoodbyesAreKept ==
  \A d \in Devices : Listed(d) => /\ ~list[d].online => list[d].signal = "over"
                                  /\ list[d].seen >= left[d]

ProfInv ==
  /\ ProfileTypes /\ NotesFit /\ MissingIsForgotten /\ TornIsSaved /\ GoodbyesAreKept

\* The jobs that save, whichever thread has them.
LEMMA SavingJobs ==
  ASSUME ProfileTypes, NEW t \in ProfileThreads, job[t].step \in {"truncate", "write"}
  PROVE  /\ job[t].of \in Devices /\ job[t].put \in WholeProfiles
         /\ t = "discovery" => job[t].note \in Notes
BY DEF ProfileTypes, ProfileThreads, DiscoveryJobs, TcpJobs, UiJobs, Idle

\* The kinds of content of a profile file are told apart.
LEMMA FilesDiffer ==
  /\ Missing \notin WholeProfiles /\ Torn \notin WholeProfiles /\ Mixed \notin WholeProfiles
  /\ Missing # Torn /\ Missing # Mixed /\ Torn # Mixed
  /\ Missing \in Unreadable /\ Torn \in Unreadable /\ Mixed \in Unreadable
  /\ \A p \in WholeProfiles \union Unreadable : p.file = "whole" <=> p \in WholeProfiles
BY DEF Missing, Torn, Mixed, Unreadable, WholeProfiles

\* What two saves at once leave.
LEMMA FlushedFiles ==
  ASSUME NEW put, NEW old, NEW file \in Flushed(put, old)
  PROVE  file = put \/ file = Mixed
BY DEF Flushed

\* The profiles found at the start, and the item that shows one.
LEMMA StoredAreWhole ==
  ASSUME NEW p \in StoredProfiles
  PROVE  p \in WholeProfiles /\ p.seen \in 1..MaxStamp /\ p.unread \in 0..StoredUnread
<1>1. MaxStamp \in Nat /\ StoredUnread \in Nat
  BY ProfilesAssumption
<1>2. PICK stamp \in 1..MaxStamp, version \in Versions, unread \in 0..StoredUnread,
           first \in Addresses, older \in SUBSET Addresses :
        p = Profile(stamp, version, unread, first, older \union {first})
  BY DEF StoredProfiles
<1>3. stamp \in Nat /\ unread \in Nat /\ older \union {first} \in SUBSET Addresses
  BY <1>1
<1> QED
  BY <1>2, <1>3 DEF Profile, WholeProfiles

LEMMA ItemsShowProfiles ==
  ASSUME NEW p \in WholeProfiles, NEW on \in BOOLEAN
  PROVE  /\ Item(p, on) \in ListItems
         /\ Item(p, on).seen = p.seen /\ Item(p, on).version = p.version
         /\ Item(p, on).unread = p.unread /\ Item(p, on).at = p.at
         /\ Item(p, on).online = on
         /\ Item(p, on).signal = IF on THEN "fresh" ELSE "over"
BY DEF Item, WholeProfiles, ListItems

\* An item of the list is not the mark of an unlisted device.
LEMMA ItemsDiffer == Unlisted \notin ListItems
<1>1. \A i \in ListItems : i.signal # "unlisted"
  BY DEF ListItems
<1> QED
  BY <1>1 DEF Unlisted

\* The announcements of the model have the types the argument needs.
LEMMA AnnouncementsAreNotes == Announcements \subseteq Notes
<1>1. MaxStamp \in Nat
  BY ProfilesAssumption
<1> QED
  BY <1>1 DEF Announcements, Notes

\* The list of what can be read.
LEMMA LoadedListFits ==
  ASSUME profile \in [Devices -> WholeProfiles \union Unreadable]
  PROVE  /\ Loaded \in [Devices -> ListItems \union {Unlisted}]
         /\ \A d \in Devices : Loaded[d] # Unlisted =>
              /\ Readable(d) /\ profile[d] \in WholeProfiles
              /\ Loaded[d] = Item(profile[d], FALSE)
<1>1. \A d \in Devices : Readable(d) => profile[d] \in WholeProfiles
  BY FilesDiffer DEF Readable
<1>2. \A d \in Devices : Readable(d) => Item(profile[d], FALSE) \in ListItems
  BY <1>1, ItemsShowProfiles
<1> QED
  BY <1>1, <1>2 DEF Loaded

\* A queue that loses its first profile or takes one more.
LEMMA QueueLoses ==
  ASSUME NEW S, NEW q \in Seq(S), q # <<>>
  PROVE  /\ Head(q) \in S /\ Head(q) = q[1] /\ Tail(q) \in Seq(S)
         /\ Len(q) \in Nat /\ 1 \in 1 .. Len(q) /\ Len(q) \in 1 .. Len(q)
         /\ Len(Tail(q)) = Len(q) - 1
         /\ \A i \in 1 .. Len(Tail(q)) : i + 1 \in 1 .. Len(q) /\ Tail(q)[i] = q[i + 1]
         /\ Tail(q) = <<>> => Len(q) = 1
         /\ Tail(q) # <<>> => Tail(q)[Len(Tail(q))] = q[Len(q)]
<1>1. /\ Head(q) \in S /\ Head(q) = q[1] /\ Tail(q) \in Seq(S)
      /\ Len(q) \in Nat /\ Len(q) # 0
      /\ Len(Tail(q)) = Len(q) - 1
      /\ \A i \in 1 .. Len(Tail(q)) : Tail(q)[i] = q[i + 1]
  OBVIOUS
<1>2. PICK t \in Seq(S), n \in Nat : t = Tail(q) /\ n = Len(q)
  BY <1>1
<1>3. (t = <<>> <=> Len(t) = 0) /\ Len(t) \in Nat
  OBVIOUS
<1>4. \A i \in 1 .. n - 1 : i + 1 \in 1 .. n
  OBVIOUS
<1>5. n - 1 # 0 => n - 1 \in 1 .. n - 1 /\ (n - 1) + 1 = n
  BY <1>1, <1>2
<1> QED
  BY <1>1, <1>2, <1>3, <1>4, <1>5

LEMMA QueueTakes ==
  ASSUME NEW S, NEW q \in Seq(S), NEW e \in S
  PROVE  /\ Append(q, e) \in Seq(S) /\ Append(q, e) # <<>>
         /\ Len(q) \in Nat /\ Len(Append(q, e)) = Len(q) + 1
         /\ Append(q, e)[Len(Append(q, e))] = e
         /\ \A i \in 1 .. Len(Append(q, e)) :
              (i \in 1 .. Len(q) /\ Append(q, e)[i] = q[i]) \/ Append(q, e)[i] = e
OBVIOUS

\* The same for the two queues of the program.
LEMMA QueuesGrow ==
  /\ \A q \in Seq(Chats), e \in Chats : Append(q, e) \in Seq(Chats)
  /\ \A q \in Seq(Queued), e \in Queued : Append(q, e) \in Seq(Queued)
OBVIOUS

-----------------------------------------------------------------------------
\* Every step keeps the types.
LEMMA ProfileTypesStep ==
  ASSUME ProfileTypes, [ProfNext]_profVars
  PROVE  ProfileTypes'
<1>0. /\ Idle \in DiscoveryJobs \intersect TcpJobs \intersect UiJobs
      /\ "discovery" \in ProfileThreads /\ "tcp" \in ProfileThreads /\ "ui" \in ProfileThreads
      /\ \A t \in ProfileThreads : t \in {"discovery", "tcp", "ui"}
  BY DEF DiscoveryJobs, TcpJobs, UiJobs, ProfileThreads
<1>1. ASSUME NEW t \in ProfileThreads, Truncate(t) PROVE ProfileTypes'
  <2>1. job[t].of \in Devices
    BY <1>1, SavingJobs DEF Truncate
  <2>2. profile' \in [Devices -> WholeProfiles \union Unreadable]
    BY <1>1, <2>1, FilesDiffer DEF Truncate, ProfileTypes
  <2>3. /\ DOMAIN job' = ProfileThreads
        /\ \A s \in ProfileThreads \ {t} : job'[s] = job[s]
        /\ job'[t] = [job[t] EXCEPT !.step = "write"] /\ job[t].step = "truncate"
    BY <1>1 DEF Truncate, ProfileTypes
  <2>4. /\ job[t] \in DiscoveryJobs => job'[t] \in DiscoveryJobs
        /\ job[t] \in TcpJobs => job'[t] \in TcpJobs
        /\ job[t] \in UiJobs => job'[t] \in UiJobs
    BY <2>3 DEF DiscoveryJobs, TcpJobs, UiJobs, Idle
  <2>5. /\ job'["discovery"] \in DiscoveryJobs /\ job'["tcp"] \in TcpJobs
        /\ job'["ui"] \in UiJobs
    BY <1>0, <2>3, <2>4 DEF ProfileTypes
  <2> QED BY <1>1, <2>2, <2>3, <2>5 DEF Truncate, ProfileTypes
<1>2. ASSUME NEW t \in ProfileThreads, Write(t) PROVE ProfileTypes'
  <2>1. /\ job[t].of \in Devices /\ job[t].put \in WholeProfiles
        /\ t = "discovery" => job[t].note \in Notes
    BY <1>2, SavingJobs DEF Write
  <2>2. profile' \in [Devices -> WholeProfiles \union Unreadable]
    <3>1. PICK file \in Flushed(job[t].put, profile[job[t].of]) :
            profile' = [profile EXCEPT ![job[t].of] = file]
      BY <1>2 DEF Write
    <3>2. file \in WholeProfiles \union Unreadable
      BY <2>1, <3>1, FlushedFiles, FilesDiffer
    <3> QED BY <3>1, <3>2 DEF ProfileTypes
  <2>3. /\ job' = [job EXCEPT ![t] = Idle]
        /\ profileQueue' = IF t = "discovery"
              THEN Append(profileQueue, [put |-> job[t].put, note |-> job[t].note])
              ELSE profileQueue
        /\ chatQueue' = IF t = "tcp"
              THEN Append(chatQueue, [of |-> job[t].of, counted |-> TRUE]) ELSE chatQueue
        /\ UNCHANGED <<list, draining, left, heard, spared>>
    BY <1>2 DEF Write
  <2>4. profileQueue' \in Seq(Queued)
    <3>1. t = "discovery" =>
            [put |-> job[t].put, note |-> job[t].note] \in Queued
      BY <2>1 DEF Queued
    <3> QED BY <2>3, <3>1, QueuesGrow DEF ProfileTypes
  <2>5. chatQueue' \in Seq(Chats)
    <3>1. [of |-> job[t].of, counted |-> TRUE] \in Chats
      BY <2>1 DEF Chats
    <3> QED BY <2>3, <3>1, QueuesGrow DEF ProfileTypes
  <2>6. /\ DOMAIN job' = ProfileThreads /\ job'["discovery"] \in DiscoveryJobs
        /\ job'["tcp"] \in TcpJobs /\ job'["ui"] \in UiJobs
    BY <1>0, <2>3 DEF ProfileTypes
  <2> QED BY <2>2, <2>3, <2>4, <2>5, <2>6 DEF ProfileTypes
<1>3. ASSUME NEW a \in Announcements, Receive(a) PROVE ProfileTypes'
  <2>1. a \in Notes /\ a.of \in Devices
    BY AnnouncementsAreNotes DEF Notes
  <2>2. [step |-> "load", of |-> a.of, note |-> a] \in DiscoveryJobs
    BY <2>1 DEF DiscoveryJobs
  <2>3. /\ DOMAIN job' = ProfileThreads /\ job'["discovery"] \in DiscoveryJobs
        /\ job'["tcp"] \in TcpJobs /\ job'["ui"] \in UiJobs
    BY <1>0, <1>3, <2>2 DEF Receive, ProfileTypes
  <2> QED BY <1>3, <2>1, <2>3 DEF Receive, ProfileTypes
<1>4. CASE Upsert
  <2>1. PICK j : j = job["discovery"]
    OBVIOUS
  <2>2. /\ j \in DiscoveryJobs /\ j.step = "load"
        /\ j.of \in Devices /\ j.note \in Notes
    BY <1>4, <2>1 DEF Upsert, ProfileTypes, DiscoveryJobs, Idle
  <2>3. /\ Readable(j.of) => profile[j.of] \in WholeProfiles
        /\ profile[j.of] \in WholeProfiles => Updated(j.note, profile[j.of]) \in WholeProfiles
        /\ Profile(j.note.stamp, j.note.version, 0, j.note.from, {j.note.from}) \in WholeProfiles
    <3>1. profile[j.of] \in WholeProfiles \union Unreadable
      BY <2>2 DEF ProfileTypes
    <3>2. j.note.stamp \in Nat /\ j.note.version \in Versions /\ j.note.from \in Addresses
      BY <2>2 DEF Notes
    <3> QED
      BY <3>1, <3>2, FilesDiffer DEF Readable, Updated, Profile, WholeProfiles
  <2>4. LoadForUpsert(j) \in DiscoveryJobs
    BY <2>2, <2>3 DEF LoadForUpsert, DiscoveryJobs
  <2>5. \/ job' = [job EXCEPT !["discovery"] = LoadForUpsert(j)] /\ UNCHANGED profileQueue
        \/ /\ Readable(j.of) /\ job' = [job EXCEPT !["discovery"] = Idle]
           /\ \E p \in {profile[j.of], Updated(j.note, profile[j.of])} :
                profileQueue' = Append(profileQueue, [put |-> p, note |-> j.note])
    BY <1>4, <2>1 DEF Upsert
  <2>6. profileQueue' \in Seq(Queued)
    <3>1. profileQueue \in Seq(Queued)
      BY DEF ProfileTypes
    <3>2. \A p \in WholeProfiles :
            [put |-> p, note |-> j.note] \in Queued
      BY <2>2 DEF Queued
    <3>3. \/ profileQueue' = profileQueue
          \/ \E p \in WholeProfiles :
               profileQueue' = Append(profileQueue, [put |-> p, note |-> j.note])
      BY <2>3, <2>5
    <3> QED BY <3>1, <3>2, <3>3, QueuesGrow
  <2>7. /\ DOMAIN job' = ProfileThreads /\ job'["discovery"] \in DiscoveryJobs
        /\ job'["tcp"] \in TcpJobs /\ job'["ui"] \in UiJobs
    BY <1>0, <2>4, <2>5 DEF ProfileTypes
  <2> QED BY <1>4, <2>6, <2>7 DEF Upsert, ProfileTypes
<1>5. CASE Purge
  <2>1. job'["discovery"] \in DiscoveryJobs
    <3>1. PICK j : j = job["discovery"] /\ j.step = "purge" /\ j \in DiscoveryJobs
      BY <1>5 DEF Purge, ProfileTypes
    <3>2. job'["discovery"] = [j EXCEPT !.step = "truncate"]
      BY <1>0, <1>5, <3>1 DEF Purge, ProfileTypes
    <3> QED BY <3>1, <3>2 DEF DiscoveryJobs, Idle
  <2>2. /\ DOMAIN job' = ProfileThreads
        /\ job'["tcp"] \in TcpJobs /\ job'["ui"] \in UiJobs
    BY <1>0, <1>5 DEF Purge, ProfileTypes
  <2>3. profile' \in [Devices -> WholeProfiles \union Unreadable]
    BY <1>5, FilesDiffer DEF Purge, WithoutProfiles, ProfileTypes
  <2>4. spared' \in [Devices -> SUBSET Addresses]
    BY <1>5 DEF Purge, ProfileTypes
  <2> QED BY <1>5, <2>1, <2>2, <2>3, <2>4 DEF Purge, ProfileTypes
<1>18. CASE PurgeFails
  <2>1. PICK gone \in SUBSET (StaleFor(job["discovery"].note) \ OpenFiles) :
          /\ profile' = WithoutProfiles(gone)
          /\ spared' = [d \in Devices |-> IF d \in gone THEN Addresses ELSE spared[d]]
    BY <1>18 DEF PurgeFails
  <2>2. /\ profile' \in [Devices -> WholeProfiles \union Unreadable]
        /\ spared' \in [Devices -> SUBSET Addresses]
    BY <2>1, FilesDiffer DEF WithoutProfiles, ProfileTypes
  <2>3. /\ DOMAIN job' = ProfileThreads /\ job'["discovery"] \in DiscoveryJobs
        /\ job'["tcp"] \in TcpJobs /\ job'["ui"] \in UiJobs
    BY <1>0, <1>18 DEF PurgeFails, ProfileTypes
  <2>4. heard' \subseteq Devices
    BY <1>18 DEF PurgeFails, ProfileTypes
  <2> QED BY <1>18, <2>2, <2>3, <2>4 DEF PurgeFails, ProfileTypes
<1>6. ASSUME NEW d \in Devices, ReceiveMessage(d) PROVE ProfileTypes'
  <2>1. chatQueue' \in Seq(Chats)
    <3>1. [of |-> d, counted |-> FALSE] \in Chats
      BY DEF Chats
    <3> QED BY <1>6, <3>1, QueuesGrow DEF ReceiveMessage, ProfileTypes
  <2>2. /\ DOMAIN job' = ProfileThreads /\ job'["discovery"] \in DiscoveryJobs
        /\ job'["tcp"] \in TcpJobs /\ job'["ui"] \in UiJobs
    <3>1. [step |-> "load", of |-> d] \in TcpJobs
      BY DEF TcpJobs
    <3>2. UNCHANGED job \/ job' = [job EXCEPT !["tcp"] = [step |-> "load", of |-> d]]
      BY <1>6 DEF ReceiveMessage
    <3> QED BY <1>0, <3>1, <3>2 DEF ProfileTypes
  <2> QED BY <1>6, <2>1, <2>2 DEF ReceiveMessage, ProfileTypes
<1>7. CASE CountUnread
  <2>1. PICK d \in Devices : d = job["tcp"].of
    BY <1>7 DEF CountUnread, ProfileTypes, TcpJobs, Idle
  <2>2. Readable(d) => [profile[d] EXCEPT !.unread = @ + 1] \in WholeProfiles
    <3>1. Readable(d) => profile[d] \in WholeProfiles
      BY FilesDiffer DEF Readable, ProfileTypes
    <3> QED BY <3>1 DEF WholeProfiles
  <2>3. \/ /\ Readable(d) /\ UNCHANGED chatQueue
           /\ job' = [job EXCEPT !["tcp"] =
                [step |-> "truncate", of |-> d, put |-> [profile[d] EXCEPT !.unread = @ + 1]]]
        \/ /\ chatQueue' = Append(chatQueue, [of |-> d, counted |-> FALSE])
           /\ job' = [job EXCEPT !["tcp"] = Idle]
    BY <1>7, <2>1 DEF CountUnread
  <2>4. chatQueue' \in Seq(Chats)
    <3>1. [of |-> d, counted |-> FALSE] \in Chats
      BY DEF Chats
    <3> QED BY <2>3, <3>1, QueuesGrow DEF ProfileTypes
  <2>5. /\ DOMAIN job' = ProfileThreads /\ job'["discovery"] \in DiscoveryJobs
        /\ job'["tcp"] \in TcpJobs /\ job'["ui"] \in UiJobs
    <3>1. Readable(d) =>
            [step |-> "truncate", of |-> d, put |-> [profile[d] EXCEPT !.unread = @ + 1]] \in TcpJobs
      BY <2>2 DEF TcpJobs
    <3> QED BY <1>0, <2>3, <3>1 DEF ProfileTypes
  <2> QED BY <1>7, <2>4, <2>5 DEF CountUnread, ProfileTypes
<1>8. CASE DrainProfile
  <2>1. PICK q \in Queued : q = Head(profileQueue)
    BY <1>8, QueueLoses DEF DrainProfile, ProfileTypes
  <2>2. Tail(profileQueue) \in Seq(Queued)
    BY <1>8, QueueLoses DEF DrainProfile, ProfileTypes
  <2>3. /\ q.note.of \in Devices /\ q.note.stamp \in Nat
        /\ q.put.seen \in Nat /\ q.put.version \in Versions /\ q.put.unread \in Nat
    BY DEF Queued, Notes, WholeProfiles
  <2>4. list' = Applied(list, q)
    BY <1>8, <2>1 DEF DrainProfile
  <2>5. list' \in [Devices -> ListItems \union {Unlisted}]
    <3>1. Item(q.put, q.note.type = "hello") \in ListItems
      BY ItemsShowProfiles DEF Queued
    <3> QED BY <2>4, <3>1 DEF Applied, ProfileTypes
  <2>6. left' \in [Devices -> Nat]
    BY <1>8, <2>1, <2>3 DEF DrainProfile, ProfileTypes
  <2> QED BY <1>8, <2>2, <2>5, <2>6 DEF DrainProfile, ProfileTypes
<1>9. CASE BeginChats
  <2>1. <<>> \in Seq(Chats)
    OBVIOUS
  <2> QED BY <1>9, <2>1 DEF BeginChats, ProfileTypes
\* The item and the job of the user interface when a counter is saved.
<1>10. ASSUME NEW d \in Devices, NEW n \in Nat, StartSave(d, n)
       PROVE  /\ list' \in [Devices -> ListItems \union {Unlisted}]
              /\ DOMAIN job' = ProfileThreads /\ job'["discovery"] \in DiscoveryJobs
              /\ job'["tcp"] \in TcpJobs /\ job'["ui"] \in UiJobs
  <2>1. Listed(d) => [list[d] EXCEPT !.unread = n] \in ListItems
    <3>1. Listed(d) => list[d] \in ListItems
      BY DEF Listed, ProfileTypes
    <3> QED BY <3>1 DEF ListItems
  <2>2. list' \in [Devices -> ListItems \union {Unlisted}]
    BY <1>10, <2>1 DEF StartSave, ProfileTypes
  <2>3. [step |-> "load", of |-> d, count |-> n] \in UiJobs
    BY DEF UiJobs
  <2>4. /\ DOMAIN job' = ProfileThreads /\ job'["discovery"] \in DiscoveryJobs
        /\ job'["tcp"] \in TcpJobs /\ job'["ui"] \in UiJobs
    BY <1>0, <1>10, <2>3 DEF StartSave, ProfileTypes
  <2> QED BY <2>2, <2>4
<1>11. CASE DrainChat
  <2>1. PICK m \in Chats : m = Head(draining)
    BY <1>11, QueueLoses DEF DrainChat, ProfileTypes
  <2>2. Tail(draining) \in Seq(Chats)
    BY <1>11, QueueLoses DEF DrainChat, ProfileTypes
  <2>3. m.of \in Devices
    BY DEF Chats
  <2>4. Listed(m.of) => /\ list[m.of].unread \in Nat
                        /\ [list[m.of] EXCEPT !.unread = @ + 1] \in ListItems
    <3>1. Listed(m.of) => list[m.of] \in ListItems
      BY <2>3 DEF Listed, ProfileTypes
    <3> QED BY <3>1 DEF ListItems
  <2>5. \/ UNCHANGED <<list, job>>
        \/ /\ list' = IF Listed(m.of) THEN [list EXCEPT ![m.of].unread = @ + 1] ELSE list
           /\ UNCHANGED job
        \/ StartSave(m.of, IF Listed(m.of) THEN list[m.of].unread + 1 ELSE 1)
    BY <1>11, <2>1 DEF DrainChat
  <2>6. /\ list' \in [Devices -> ListItems \union {Unlisted}]
        /\ DOMAIN job' = ProfileThreads /\ job'["discovery"] \in DiscoveryJobs
        /\ job'["tcp"] \in TcpJobs /\ job'["ui"] \in UiJobs
    <3>1. CASE UNCHANGED <<list, job>>
      BY <3>1 DEF ProfileTypes
    <3>2. CASE /\ list' = IF Listed(m.of) THEN [list EXCEPT ![m.of].unread = @ + 1] ELSE list
               /\ UNCHANGED job
      BY <2>3, <2>4, <3>2 DEF ProfileTypes
    <3>3. CASE StartSave(m.of, IF Listed(m.of) THEN list[m.of].unread + 1 ELSE 1)
      <4>1. PICK n \in Nat : n = IF Listed(m.of) THEN list[m.of].unread + 1 ELSE 1
        BY <2>4
      <4> QED BY <1>10, <2>3, <3>3, <4>1
    <3> QED BY <2>5, <3>1, <3>2, <3>3
  <2> QED BY <1>11, <2>2, <2>6 DEF DrainChat, ProfileTypes
<1>12. ASSUME NEW d \in Devices, Select(d) PROVE ProfileTypes'
  <2>1. \/ UNCHANGED <<list, job>>
        \/ StartSave(d, 0)
    BY <1>12 DEF Select
  <2>2. /\ list' \in [Devices -> ListItems \union {Unlisted}]
        /\ DOMAIN job' = ProfileThreads /\ job'["discovery"] \in DiscoveryJobs
        /\ job'["tcp"] \in TcpJobs /\ job'["ui"] \in UiJobs
    BY <1>10, <2>1 DEF ProfileTypes
  <2> QED BY <1>12, <2>2 DEF Select, ProfileTypes
<1>13. CASE LoadForUnread
  <2>1. PICK j : j = job["ui"] /\ j \in UiJobs /\ j.step = "load"
    BY <1>13 DEF LoadForUnread, ProfileTypes
  <2>2. j.of \in Devices /\ j.count \in Nat
    BY <2>1 DEF UiJobs, Idle
  <2>3. Readable(j.of) => [profile[j.of] EXCEPT !.unread = j.count] \in WholeProfiles
    <3>1. Readable(j.of) => profile[j.of] \in WholeProfiles
      BY <2>2, FilesDiffer DEF Readable, ProfileTypes
    <3> QED BY <2>2, <3>1 DEF WholeProfiles
  <2>4. \/ job' = [job EXCEPT !["ui"] = Idle]
        \/ /\ Readable(j.of)
           /\ job' = [job EXCEPT !["ui"] =
                [step |-> "truncate", of |-> j.of,
                 put |-> [profile[j.of] EXCEPT !.unread = j.count]]]
    BY <1>13, <2>1 DEF LoadForUnread
  <2>5. /\ DOMAIN job' = ProfileThreads /\ job'["discovery"] \in DiscoveryJobs
        /\ job'["tcp"] \in TcpJobs /\ job'["ui"] \in UiJobs
    <3>1. Readable(j.of) => [step |-> "truncate", of |-> j.of,
                             put |-> [profile[j.of] EXCEPT !.unread = j.count]] \in UiJobs
      BY <2>2, <2>3 DEF UiJobs
    <3> QED BY <1>0, <2>4, <3>1 DEF ProfileTypes
  <2> QED BY <1>13, <2>5 DEF LoadForUnread, ProfileTypes
<1>14. ASSUME NEW d \in Devices, Expire(d) PROVE ProfileTypes'
  <2>1. [list[d] EXCEPT !.signal = "over"] \in ListItems
    <3>1. list[d] \in ListItems
      BY <1>14 DEF Expire, Listed, ProfileTypes
    <3> QED BY <3>1 DEF ListItems
  <2>2. list' \in [Devices -> ListItems \union {Unlisted}]
    BY <1>14, <2>1 DEF Expire, ProfileTypes
  <2> QED BY <1>14, <2>2 DEF Expire, ProfileTypes
<1>15. CASE RefreshOnline
  <2>1. \A d \in Devices : Listed(d) =>
          [list[d] EXCEPT !.online = OnlineNow(list[d])] \in ListItems
    <3> SUFFICES ASSUME NEW d \in Devices, Listed(d)
                 PROVE  [list[d] EXCEPT !.online = OnlineNow(list[d])] \in ListItems
      OBVIOUS
    <3>1. list[d] \in ListItems /\ OnlineNow(list[d]) \in BOOLEAN
      BY DEF Listed, ProfileTypes, OnlineNow
    <3> QED BY <3>1 DEF ListItems
  <2>2. list' \in [Devices -> ListItems \union {Unlisted}]
    BY <1>15, <2>1 DEF RefreshOnline, ProfileTypes
  <2> QED BY <1>15, <2>2 DEF RefreshOnline, ProfileTypes
<1>16. CASE Crash
  <2>2. list' \in [Devices -> ListItems \union {Unlisted}]
    BY <1>16, LoadedListFits DEF Crash, ProfileTypes
  <2>3. <<>> \in Seq(Chats) /\ <<>> \in Seq(Queued)
    OBVIOUS
  <2>4. /\ DOMAIN job' = ProfileThreads /\ job'["discovery"] \in DiscoveryJobs
        /\ job'["tcp"] \in TcpJobs /\ job'["ui"] \in UiJobs
    BY <1>0, <1>16 DEF Crash
  <2>5. /\ left' \in [Devices -> Nat] /\ heard' \subseteq Devices
        /\ spared' \in [Devices -> SUBSET Addresses]
    BY <1>16 DEF Crash
  <2> QED BY <1>16, <2>2, <2>3, <2>4, <2>5 DEF Crash, ProfileTypes
<1>17. CASE UNCHANGED profVars
  BY <1>17 DEF profVars, ProfileTypes
<1> QED
  BY <1>1, <1>2, <1>3, <1>4, <1>5, <1>6, <1>7, <1>8, <1>9, <1>11, <1>12, <1>13, <1>14,
     <1>15, <1>16, <1>17, <1>18
  DEF ProfNext, RefreshPeersStep

-----------------------------------------------------------------------------
\* A step that leaves files, queue and discovery alone, and lists nothing anew.
LEMMA QuietStep ==
  ASSUME NotesFit, MissingIsForgotten, TornIsSaved,
         UNCHANGED <<profile, profileQueue, heard, spared>>,
         job'["discovery"] = job["discovery"],
         \A t \in ProfileThreads : job[t].step = "write" => job'[t] = job[t],
         \A d \in Devices : Listed(d)' => Listed(d) /\ list'[d].at = list[d].at
  PROVE  NotesFit' /\ MissingIsForgotten' /\ TornIsSaved'
<1>1. NotesFit'
  BY DEF NotesFit
<1>2. MissingIsForgotten'
  <2> SUFFICES ASSUME NEW d \in Devices, profile'[d] = Missing
               PROVE  (spared[d] = Addresses \/ BeingReplaced(d) \/ TakenOver(d) \/ Settled(d))'
    BY DEF MissingIsForgotten
  <2>1. CASE spared[d] = Addresses
    BY <2>1
  <2>2. CASE BeingReplaced(d)
    BY <2>2 DEF BeingReplaced, Spares
  <2>3. CASE TakenOver(d)
    BY <2>3 DEF TakenOver, Spares
  <2>4. CASE Settled(d)
    BY <2>4 DEF Settled
  <2> QED BY <2>1, <2>2, <2>3, <2>4 DEF MissingIsForgotten
<1>3. TornIsSaved'
  BY DEF TornIsSaved
<1> QED
  BY <1>1, <1>2, <1>3

\* What a saved counter changes of the list and of the jobs.
LEMMA SavedCounter ==
  ASSUME ProfileTypes, NEW d \in Devices, NEW n, StartSave(d, n)
  PROVE  /\ \A s \in ProfileThreads \ {"ui"} : job'[s] = job[s]
         /\ \A e \in Devices : Listed(e)' =>
              /\ Listed(e) /\ list'[e].online = list[e].online
              /\ list'[e].signal = list[e].signal /\ list'[e].seen = list[e].seen
              /\ list'[e].at = list[e].at
<1>1. \A e \in Devices : list'[e] = IF e = d /\ Listed(d) THEN [list[e] EXCEPT !.unread = n]
                                    ELSE list[e]
  BY DEF StartSave, ProfileTypes
<1>2. \A e \in Devices : Listed(e) => list[e] \in ListItems
  BY DEF Listed, ProfileTypes
<1>3. \A i \in ListItems : LET k == [i EXCEPT !.unread = n] IN
         k.online = i.online /\ k.signal = i.signal /\ k.seen = i.seen
         /\ k.at = i.at
  BY DEF ListItems
<1>4. \A s \in ProfileThreads \ {"ui"} : job'[s] = job[s]
  BY DEF StartSave, ProfileTypes
<1> QED
  BY <1>1, <1>2, <1>3, <1>4 DEF Listed

\* What takes a device over stays queued when something else follows.
LEMMA QueueKeeps ==
  ASSUME ProfileTypes, NEW d \in Devices, TakenOver(d) \/ Settled(d),
         UNCHANGED <<list, spared>>,
         \/ UNCHANGED profileQueue
         \/ \E e \in Queued : e.note.of # d /\ profileQueue' = Append(profileQueue, e)
  PROVE  (TakenOver(d) \/ Settled(d))'
<1>1. CASE UNCHANGED profileQueue
  BY <1>1 DEF TakenOver, Settled, Spares, Listed
<1>2. ASSUME NEW e \in Queued, e.note.of # d, profileQueue' = Append(profileQueue, e)
      PROVE  (TakenOver(d) \/ Settled(d))'
  <2>1. PICK n \in Nat : n = Len(profileQueue)
    BY DEF ProfileTypes
  <2>2. /\ Len(profileQueue') = n + 1 /\ profileQueue'[n + 1] = e
        /\ \A i \in 1 .. n : profileQueue'[i] = profileQueue[i]
    BY <1>2, <2>1 DEF ProfileTypes
  <2>3. \A k \in 1 .. n + 1 : k \in 1 .. n \/ k = n + 1
    OBVIOUS
  <2>4. CASE TakenOver(d)
    <3>1. PICK i \in 1 .. n : /\ profileQueue[i].note.of # d /\ Spares(profileQueue[i].put, d)
                              /\ \A k \in 1 .. n : k > i => profileQueue[k].note.of # d
      BY <2>1, <2>4 DEF TakenOver
    <3>2. i \in 1 .. n + 1 /\ profileQueue'[i] = profileQueue[i]
      BY <2>2, <3>1
    <3>3. \A k \in 1 .. n + 1 : k > i => profileQueue'[k].note.of # d
      BY <1>2, <2>2, <2>3, <3>1
    <3>4. Addresses \ profileQueue'[i].put.known \subseteq spared'[d]
      BY <3>1, <3>2 DEF Spares
    <3> QED BY <2>2, <3>1, <3>2, <3>3, <3>4 DEF TakenOver, Spares
  <2>5. CASE Settled(d)
    <3>1. \A k \in 1 .. n + 1 : profileQueue'[k].note.of # d
      BY <1>2, <2>1, <2>2, <2>3, <2>5 DEF Settled
    <3> QED BY <2>2, <2>5, <3>1 DEF Settled, Listed
  <2> QED BY <2>4, <2>5
<1> QED
  BY <1>1, <1>2

\* Every step keeps what relates the files, the queue and the list.
LEMMA StoredStep ==
  ASSUME ProfileTypes, NotesFit, MissingIsForgotten, TornIsSaved, [ProfNext]_profVars
  PROVE  NotesFit' /\ MissingIsForgotten' /\ TornIsSaved'
<1>0. /\ "discovery" \in ProfileThreads /\ "tcp" \in ProfileThreads /\ "ui" \in ProfileThreads
      /\ DOMAIN job = ProfileThreads /\ Idle.step = "idle"
      /\ \A d \in Devices : Readable(d) => profile[d] \notin Unreadable
  BY DEF ProfileThreads, ProfileTypes, Readable, Idle, Unreadable, Missing, Torn, Mixed
<1>1. ASSUME NEW t \in ProfileThreads, Truncate(t)
      PROVE  NotesFit' /\ MissingIsForgotten' /\ TornIsSaved'
  <2>1. /\ job[t].of \in Devices /\ job[t].step = "truncate"
        /\ profile' = [profile EXCEPT ![job[t].of] = Torn]
        /\ job' = [job EXCEPT ![t].step = "write"]
        /\ UNCHANGED <<list, profileQueue, heard, spared>>
    BY <1>1, SavingJobs DEF Truncate
  <2>2. /\ \A s \in ProfileThreads \ {t} : job'[s] = job[s]
        /\ job'[t] = [job[t] EXCEPT !.step = "write"]
    BY <1>0, <2>1
  <2>3. /\ job'[t].step = "write" /\ job'[t].of = job[t].of
        /\ t = "discovery" => job'[t].note = job[t].note /\ job'[t].put = job[t].put
    <3>1. job[t] \in DiscoveryJobs \union TcpJobs \union UiJobs
      BY DEF ProfileTypes, ProfileThreads
    <3>2. t = "discovery" => job[t] \in DiscoveryJobs
      BY DEF ProfileTypes
    <3>3. job'[t].step = "write" /\ job'[t].of = job[t].of
      BY <2>1, <2>2, <3>1 DEF DiscoveryJobs, TcpJobs, UiJobs, Idle
    <3>4. t = "discovery" => job'[t].note = job[t].note /\ job'[t].put = job[t].put
      BY <2>1, <2>2, <3>2 DEF DiscoveryJobs, Idle
    <3> QED BY <3>3, <3>4
  <2>4. NotesFit'
    BY <1>0, <2>1, <2>2, <2>3 DEF NotesFit
  <2>5. \A d \in Devices : d # job[t].of => profile'[d] = profile[d]
    BY <2>1 DEF ProfileTypes
  <2>6. profile'[job[t].of] = Torn
    BY <2>1 DEF ProfileTypes
  <2>7. MissingIsForgotten'
    <3> SUFFICES ASSUME NEW d \in Devices, profile'[d] = Missing
                 PROVE  (spared[d] = Addresses \/ BeingReplaced(d) \/ TakenOver(d) \/ Settled(d))'
      BY DEF MissingIsForgotten
    <3>1. profile[d] = Missing
      BY <2>5, <2>6, FilesDiffer
    <3>2. BeingReplaced(d) => BeingReplaced(d)'
      BY <1>0, <2>1, <2>2, <2>3 DEF BeingReplaced, Spares
    <3>3. (TakenOver(d) \/ Settled(d)) => (TakenOver(d) \/ Settled(d))'
      BY <2>1, QueueKeeps
    <3> QED BY <2>1, <3>1, <3>2, <3>3 DEF MissingIsForgotten
  <2>8. TornIsSaved'
    BY <1>0, <2>1, <2>2, <2>3, <2>5 DEF TornIsSaved, ProfileTypes
  <2> QED BY <2>4, <2>7, <2>8
<1>2. ASSUME NEW t \in ProfileThreads, Write(t)
      PROVE  NotesFit' /\ MissingIsForgotten' /\ TornIsSaved'
  <2>1. PICK j : j = job[t]
    OBVIOUS
  <2>2. /\ j.of \in Devices /\ j.put \in WholeProfiles /\ j.step = "write"
        /\ t = "discovery" => j.note \in Notes
        /\ job' = [job EXCEPT ![t] = Idle]
        /\ profileQueue' = IF t = "discovery"
              THEN Append(profileQueue, [put |-> j.put, note |-> j.note]) ELSE profileQueue
        /\ UNCHANGED <<list, heard, spared>>
    BY <1>2, <2>1, SavingJobs DEF Write
  <2>9. PICK file : /\ profile' = [profile EXCEPT ![j.of] = file]
                    /\ file # Missing /\ file # Torn
    <3>1. PICK f \in Flushed(j.put, profile[j.of]) : profile' = [profile EXCEPT ![j.of] = f]
      BY <1>2, <2>1 DEF Write
    <3> QED BY <2>2, <3>1, FlushedFiles, FilesDiffer
  <2>3. /\ \A s \in ProfileThreads \ {t} : job'[s] = job[s]
        /\ job'[t].step = "idle"
        /\ profile'[j.of] # Missing /\ profile'[j.of] # Torn
        /\ \A d \in Devices \ {j.of} : profile'[d] = profile[d]
    BY <1>0, <2>2, <2>9 DEF ProfileTypes
  <2>4. t = "discovery" =>
          /\ j.put.seen >= j.note.stamp /\ j.note.of = j.of
          /\ [put |-> j.put, note |-> j.note] \in Queued
    BY <2>1, <2>2 DEF NotesFit, Queued
  <2>5. t = "discovery" =>
          /\ profileQueue' # <<>> /\ profileQueue'[Len(profileQueue')].note.of = j.of
          /\ \A i \in 1 .. Len(profileQueue') :
               \/ i \in 1 .. Len(profileQueue) /\ profileQueue'[i] = profileQueue[i]
               \/ profileQueue'[i] = [put |-> j.put, note |-> j.note]
    <3> SUFFICES ASSUME t = "discovery"
                 PROVE  /\ profileQueue' # <<>>
                        /\ profileQueue'[Len(profileQueue')].note.of = j.of
                        /\ \A i \in 1 .. Len(profileQueue') :
                             \/ i \in 1 .. Len(profileQueue) /\ profileQueue'[i] = profileQueue[i]
                             \/ profileQueue'[i] = [put |-> j.put, note |-> j.note]
      OBVIOUS
    <3>1. PICK e \in Queued : e = [put |-> j.put, note |-> j.note]
      BY <2>4
    <3>2. profileQueue \in Seq(Queued) /\ profileQueue' = Append(profileQueue, e)
      BY <2>2, <3>1 DEF ProfileTypes
    <3>3. e.note.of = j.of
      BY <2>4, <3>1
    <3> QED BY <3>1, <3>2, <3>3, QueueTakes
  <2>6. NotesFit'
    <3>1. job'["discovery"] = job["discovery"] \/ job'["discovery"].step = "idle"
      BY <1>0, <2>3
    <3>2. \A i \in 1 .. Len(profileQueue') :
            profileQueue'[i].put.seen >= profileQueue'[i].note.stamp
      <4>1. CASE t = "discovery"
        BY <2>4, <2>5, <4>1 DEF NotesFit
      <4>2. CASE t # "discovery"
        BY <2>2, <4>2 DEF NotesFit
      <4> QED BY <4>1, <4>2
    <3> QED BY <3>1, <3>2 DEF NotesFit
  <2>7. MissingIsForgotten'
    <3> SUFFICES ASSUME NEW d \in Devices, profile'[d] = Missing
                 PROVE  (spared[d] = Addresses \/ BeingReplaced(d) \/ TakenOver(d) \/ Settled(d))'
      BY DEF MissingIsForgotten
    <3>1. d # j.of /\ profile[d] = Missing
      BY <2>3
    <3>2. CASE BeingReplaced(d) /\ t # "discovery"
      BY <1>0, <2>2, <2>3, <3>2 DEF BeingReplaced, Spares
    <3>3. CASE BeingReplaced(d) /\ t = "discovery"
      <4>1. PICK n \in Nat, e \in Queued :
              /\ n = Len(profileQueue) /\ e = [put |-> j.put, note |-> j.note]
              /\ profileQueue' = Append(profileQueue, e)
        BY <2>2, <2>4, <3>3 DEF ProfileTypes
      <4>2. /\ Len(profileQueue') = n + 1 /\ profileQueue'[n + 1] = e /\ n + 1 \in 1 .. n + 1
            /\ \A k \in 1 .. n + 1 : ~ (k > n + 1)
        BY <4>1 DEF ProfileTypes
      <4>3. e.note.of # d /\ e.put = j.put
        BY <2>4, <3>1, <3>3, <4>1
      <4>4. Addresses \ e.put.known \subseteq spared'[d]
        BY <2>1, <2>2, <3>3, <4>3 DEF BeingReplaced, Spares
      <4> QED BY <4>2, <4>3, <4>4 DEF TakenOver, Spares
    <3>4. CASE TakenOver(d) \/ Settled(d)
      <4>1. \/ UNCHANGED profileQueue
            \/ \E e \in Queued : e.note.of # d /\ profileQueue' = Append(profileQueue, e)
        <5>1. CASE t = "discovery"
          BY <2>2, <2>4, <3>1, <5>1
        <5>2. CASE t # "discovery"
          BY <2>2, <5>2
        <5> QED BY <5>1, <5>2
      <4> QED BY <2>2, <3>4, <4>1, QueueKeeps
    <3> QED BY <2>2, <3>1, <3>2, <3>3, <3>4 DEF MissingIsForgotten
  <2>8. TornIsSaved'
    <3> SUFFICES ASSUME NEW d \in heard, profile'[d] = Torn
                 PROVE  \/ \E s \in ProfileThreads : job'[s].step = "write" /\ job'[s].of = d
                        \/ job'["discovery"].step # "idle" /\ job'["discovery"].of = d
      BY <2>2 DEF TornIsSaved
    <3>1. d \in Devices /\ d # j.of /\ profile[d] = Torn
      BY <2>3 DEF ProfileTypes
    <3> QED BY <1>0, <2>1, <2>3, <3>1 DEF TornIsSaved
  <2> QED BY <2>6, <2>7, <2>8
<1>3. ASSUME NEW a \in Announcements, Receive(a)
      PROVE  NotesFit' /\ MissingIsForgotten' /\ TornIsSaved'
  <2>1. /\ job["discovery"].step = "idle"
        /\ job'["discovery"] = [step |-> "load", of |-> a.of, note |-> a]
        /\ \A s \in ProfileThreads \ {"discovery"} : job'[s] = job[s]
        /\ heard' = heard \union {a.of}
        /\ UNCHANGED <<profile, list, profileQueue, spared>>
    BY <1>0, <1>3 DEF Receive
  <2>2. NotesFit'
    BY <2>1 DEF NotesFit
  <2>3. MissingIsForgotten'
    <3>1. \A d \in Devices : ~BeingReplaced(d)
      BY <2>1 DEF BeingReplaced
    <3> QED BY <2>1, <3>1, QueueKeeps DEF MissingIsForgotten
  <2>4. TornIsSaved'
    BY <2>1 DEF TornIsSaved
  <2> QED BY <2>2, <2>3, <2>4
<1>4. CASE Upsert
  <2>1. PICK j : j = job["discovery"]
    OBVIOUS
  <2>2. /\ j \in DiscoveryJobs /\ j.step = "load" /\ j.of \in Devices /\ j.note \in Notes
        /\ j.note.of = j.of /\ j.note.stamp \in Nat
        /\ UNCHANGED <<profile, list, heard, spared>>
    BY <1>4, <2>1 DEF Upsert, ProfileTypes, DiscoveryJobs, Idle, NotesFit, Notes
  <2>3. PICK p : p = profile[j.of]
    OBVIOUS
  <2>4. Readable(j.of) => p \in WholeProfiles /\ p.seen \in Nat
    BY <2>2, <2>3, FilesDiffer DEF Readable, ProfileTypes, WholeProfiles
  <2>5. /\ Updated(j.note, p).seen = IF j.note.stamp < p.seen THEN p.seen ELSE j.note.stamp
        /\ Profile(j.note.stamp, j.note.version, 0, j.note.from, {j.note.from}).seen
             = j.note.stamp
    BY DEF Updated, Profile
  <2>6. CASE job' = [job EXCEPT !["discovery"] = LoadForUpsert(j)] /\ UNCHANGED profileQueue
    <3>1. /\ \A s \in ProfileThreads \ {"discovery"} : job'[s] = job[s]
          /\ job'["discovery"] = LoadForUpsert(j)
      BY <1>0, <2>6
    <3>2. /\ LoadForUpsert(j).step = "purge" /\ LoadForUpsert(j).of = j.of
          /\ LoadForUpsert(j).note = j.note
          /\ LoadForUpsert(j).put = IF Readable(j.of) THEN Updated(j.note, p)
                      ELSE Profile(j.note.stamp, j.note.version, 0, j.note.from, {j.note.from})
      BY <2>3 DEF LoadForUpsert
    <3>3. LoadForUpsert(j).put.seen >= j.note.stamp
      BY <2>2, <2>4, <2>5, <3>2
    <3>4. NotesFit'
      BY <2>2, <2>6, <3>1, <3>2, <3>3 DEF NotesFit
    <3>5. MissingIsForgotten'
      <4>1. \A d \in Devices : ~BeingReplaced(d)
        BY <2>1, <2>2 DEF BeingReplaced
      <4> QED BY <2>2, <2>6, <4>1, QueueKeeps DEF MissingIsForgotten
    <3>6. TornIsSaved'
      BY <2>1, <2>2, <3>1, <3>2 DEF TornIsSaved
    <3> QED BY <3>4, <3>5, <3>6
  <2>7. CASE /\ Readable(j.of) /\ job' = [job EXCEPT !["discovery"] = Idle]
             /\ profileQueue' = Append(profileQueue,
                  [put |-> IF IgnoresAnnouncement(j.note, p) THEN p ELSE Updated(j.note, p),
                   note |-> j.note])
    <3>1. /\ \A s \in ProfileThreads \ {"discovery"} : job'[s] = job[s]
          /\ job'["discovery"] = Idle
      BY <1>0, <2>7
    <3>2. PICK put : put = IF IgnoresAnnouncement(j.note, p) THEN p ELSE Updated(j.note, p)
      OBVIOUS
    <3>3. put \in WholeProfiles
      <4>1. Updated(j.note, p) \in WholeProfiles
        BY <2>2, <2>4, <2>7 DEF Updated, Profile, WholeProfiles, Notes
      <4> QED BY <2>4, <2>7, <3>2, <4>1
    <3>4. put.seen >= j.note.stamp
      BY <2>2, <2>4, <2>5, <2>7, <3>2 DEF IgnoresAnnouncement
    <3>5. PICK e \in Queued : e = [put |-> put, note |-> j.note]
      BY <2>2, <3>3 DEF Queued
    <3>6. profileQueue \in Seq(Queued) /\ profileQueue' = Append(profileQueue, e)
      BY <2>7, <3>2, <3>5 DEF ProfileTypes
    <3>7. e.put.seen >= e.note.stamp /\ e.note.of = j.of
      BY <2>2, <3>4, <3>5
    <3>8. /\ profileQueue' # <<>> /\ profileQueue'[Len(profileQueue')] = e
          /\ \A i \in 1 .. Len(profileQueue') :
               \/ i \in 1 .. Len(profileQueue) /\ profileQueue'[i] = profileQueue[i]
               \/ profileQueue'[i] = e
      BY <3>6, QueueTakes
    <3>9. NotesFit'
      BY <1>0, <3>1, <3>7, <3>8 DEF NotesFit
    <3>10. MissingIsForgotten'
      <4> SUFFICES ASSUME NEW d \in Devices, profile'[d] = Missing
                   PROVE  (spared[d] = Addresses \/ TakenOver(d) \/ Settled(d))'
        BY DEF MissingIsForgotten
      <4>1. profile[d] = Missing /\ d # j.of
        BY <1>0, <2>2, <2>7, FilesDiffer
      <4>2. ~BeingReplaced(d)
        BY <2>1, <2>2 DEF BeingReplaced
      <4>3. e.note.of # d
        BY <3>7, <4>1
      <4>4. spared[d] = Addresses \/ TakenOver(d) \/ Settled(d)
        BY <4>1, <4>2 DEF MissingIsForgotten
      <4>5. UNCHANGED <<list, spared>> /\ spared'[d] = spared[d]
        BY <2>2
      <4>6. CASE TakenOver(d) \/ Settled(d)
        <5>1. \E f \in Queued : f.note.of # d /\ profileQueue' = Append(profileQueue, f)
          BY <3>5, <3>6, <4>3
        <5> QED BY <4>5, <4>6, <5>1, QueueKeeps
      <4>7. CASE spared[d] = Addresses
        BY <4>5, <4>7
      <4> QED BY <4>4, <4>6, <4>7
    <3>11. TornIsSaved'
      BY <1>0, FilesDiffer, <2>1, <2>2, <2>7, <3>1 DEF TornIsSaved
    <3> QED BY <3>9, <3>10, <3>11
  <2> QED BY <1>4, <2>1, <2>3, <2>6, <2>7 DEF Upsert
<1>5. CASE Purge
  <2>1. PICK j : j = job["discovery"]
    OBVIOUS
  <2>2. /\ j.step = "purge" /\ j \in DiscoveryJobs
        /\ UNCHANGED <<list, profileQueue, heard>>
        /\ \A s \in ProfileThreads \ {"discovery"} : job'[s] = job[s]
        /\ job'["discovery"] = [j EXCEPT !.step = "truncate"]
    BY <1>0, <1>5, <2>1 DEF Purge, ProfileTypes
  <2>3. /\ job'["discovery"].step = "truncate" /\ job'["discovery"].of = j.of
        /\ job'["discovery"].note = j.note /\ job'["discovery"].put = j.put
    BY <2>2 DEF DiscoveryJobs, Idle
  <2>4. \A d \in Devices :
          \/ profile'[d] = profile[d] /\ spared'[d] = spared[d]
          \/ /\ profile'[d] = Missing /\ d # j.note.of
             /\ spared'[d] = Addresses \ j.put.known
    BY <1>5, <2>1 DEF Purge, StaleFor, WithoutProfiles
  <2>5. NotesFit'
    BY <2>1, <2>2, <2>3 DEF NotesFit
  <2>6. MissingIsForgotten'
    <3> SUFFICES ASSUME NEW d \in Devices, profile'[d] = Missing
                 PROVE  (spared[d] = Addresses \/ BeingReplaced(d) \/ TakenOver(d) \/ Settled(d))'
      BY DEF MissingIsForgotten
    <3>1. CASE /\ d # j.note.of /\ spared'[d] = Addresses \ j.put.known
      <4>1. j.note.of = j.of
        BY <2>1, <2>2 DEF NotesFit
      <4> QED BY <2>3, <3>1, <4>1 DEF BeingReplaced, Spares
    <3>2. CASE profile[d] = Missing /\ spared'[d] = spared[d]
      <4>1. spared[d] = Addresses \/ TakenOver(d) \/ Settled(d)
        BY <2>1, <2>2, <3>2 DEF MissingIsForgotten, BeingReplaced
      <4>2. TakenOver(d) => TakenOver(d)'
        BY <2>2, <3>2 DEF TakenOver, Spares
      <4>3. Settled(d) => Settled(d)'
        BY <2>2, <3>2 DEF Settled, Listed
      <4> QED BY <3>2, <4>1, <4>2, <4>3
    <3> QED BY <2>4, <3>1, <3>2
  <2>7. TornIsSaved'
    <3> SUFFICES ASSUME NEW d \in heard, profile'[d] = Torn
                 PROVE  \/ \E s \in ProfileThreads : job'[s].step = "write" /\ job'[s].of = d
                        \/ job'["discovery"].step # "idle" /\ job'["discovery"].of = d
      BY <2>2 DEF TornIsSaved
    <3>1. profile[d] = Torn
      BY <2>4, FilesDiffer DEF ProfileTypes
    <3> QED BY <1>0, <2>1, <2>2, <2>3, <3>1 DEF TornIsSaved
  <2> QED BY <2>5, <2>6, <2>7
<1>15. CASE PurgeFails
  <2>1. PICK j : j = job["discovery"]
    OBVIOUS
  <2>2. /\ j.step = "purge" /\ heard' = heard \ {j.of} /\ UNCHANGED <<list, profileQueue>>
        /\ \A s \in ProfileThreads \ {"discovery"} : job'[s] = job[s]
        /\ job'["discovery"].step = "idle"
    BY <1>0, <1>15, <2>1 DEF PurgeFails, ProfileTypes
  <2>3. \A d \in Devices :
          \/ profile'[d] = profile[d] /\ spared'[d] = spared[d]
          \/ profile'[d] = Missing /\ spared'[d] = Addresses
    BY <1>15 DEF PurgeFails, WithoutProfiles
  <2>4. NotesFit'
    BY <2>2 DEF NotesFit
  <2>5. MissingIsForgotten'
    <3> SUFFICES ASSUME NEW d \in Devices, profile'[d] = Missing, spared'[d] = spared[d],
                        profile[d] = Missing
                 PROVE  (spared[d] = Addresses \/ BeingReplaced(d) \/ TakenOver(d) \/ Settled(d))'
      BY <2>3 DEF MissingIsForgotten
    <3>1. spared[d] = Addresses \/ TakenOver(d) \/ Settled(d)
      BY <2>1, <2>2 DEF MissingIsForgotten, BeingReplaced
    <3>2. TakenOver(d) => TakenOver(d)'
      BY <2>2 DEF TakenOver, Spares
    <3>3. Settled(d) => Settled(d)'
      BY <2>2 DEF Settled, Listed
    <3> QED BY <3>1, <3>2, <3>3
  <2>6. TornIsSaved'
    <3> SUFFICES ASSUME NEW d \in heard, d # j.of, profile'[d] = Torn
                 PROVE  \E s \in ProfileThreads : job'[s].step = "write" /\ job'[s].of = d
      BY <2>2 DEF TornIsSaved
    <3>1. profile[d] = Torn
      BY <2>3, FilesDiffer DEF ProfileTypes
    <3>2. PICK s \in ProfileThreads : job[s].step = "write" /\ job[s].of = d
      BY <2>1, <3>1 DEF TornIsSaved
    <3>3. s # "discovery"
      BY <2>1, <2>2, <3>2
    <3> QED BY <2>2, <3>2, <3>3
  <2> QED BY <2>4, <2>5, <2>6
<1>6. CASE DrainProfile
  <2>1. /\ profileQueue # <<>> /\ profileQueue' = Tail(profileQueue)
        /\ list' = Applied(list, Head(profileQueue))
        /\ UNCHANGED <<profile, job, heard, spared>>
    BY <1>6 DEF DrainProfile
  <2>2. /\ Head(profileQueue) \in Queued /\ Head(profileQueue) = profileQueue[1]
        /\ \A i \in 1 .. Len(profileQueue') :
             i + 1 \in 1 .. Len(profileQueue) /\ profileQueue'[i] = profileQueue[i + 1]
        /\ profileQueue' = <<>> => Len(profileQueue) = 1
        /\ profileQueue' # <<>> =>
             profileQueue'[Len(profileQueue')] = profileQueue[Len(profileQueue)]
    BY <2>1, QueueLoses DEF ProfileTypes
  <2>3. NotesFit'
    BY <2>1, <2>2 DEF NotesFit
  <2>4. \A d \in Devices : d # Head(profileQueue).note.of =>
          \/ list'[d] = Unlisted
          \/ list'[d] = list[d] /\ list[d].at \notin Head(profileQueue).put.known
    BY <2>1 DEF Applied, ReplacesPeer
  <2>5. MissingIsForgotten'
    <3> SUFFICES ASSUME NEW d \in Devices, profile[d] = Missing
                 PROVE  (spared[d] = Addresses \/ BeingReplaced(d) \/ TakenOver(d) \/ Settled(d))'
      BY <2>1 DEF MissingIsForgotten
    <3>1. BeingReplaced(d) => BeingReplaced(d)'
      BY <2>1 DEF BeingReplaced, Spares
    <3>2. PICK n \in Nat : n = Len(profileQueue) /\ n # 0 /\ Len(profileQueue') = n - 1
      BY <2>1, QueueLoses DEF ProfileTypes
    <3>3. \A k \in 1 .. n - 1 : k + 1 \in 1 .. n /\ profileQueue'[k] = profileQueue[k + 1]
      BY <2>2, <3>2
    <3>4. ASSUME TakenOver(d) PROVE TakenOver(d)' \/ Settled(d)'
      <4>1. PICK i \in 1 .. n : /\ profileQueue[i].note.of # d /\ Spares(profileQueue[i].put, d)
                                /\ \A k \in 1 .. n : k > i => profileQueue[k].note.of # d
        BY <3>2, <3>4 DEF TakenOver
      <4>2. CASE i = 1
        <5>1. \A k \in 1 .. n - 1 : profileQueue'[k].note.of # d
          <6>1. \A k \in 1 .. n - 1 : k + 1 > i
            BY <4>2
          <6> QED BY <3>3, <4>1, <6>1
        <5>2. Listed(d)' => list'[d].at \in spared'[d]
          <6> SUFFICES ASSUME Listed(d)' PROVE list'[d].at \in spared'[d]
            OBVIOUS
          <6>1. list'[d] = list[d] /\ list[d].at \notin profileQueue[1].put.known
            BY <2>2, <2>4, <4>1, <4>2 DEF Listed
          <6>2. list[d].at \in Addresses
            <7>1. list[d] \in ListItems
              BY <6>1 DEF Listed, ProfileTypes
            <7> QED BY <7>1 DEF ListItems
          <6> QED BY <2>1, <4>1, <4>2, <6>1, <6>2 DEF Spares
        <5> QED BY <3>2, <5>1, <5>2 DEF Settled
      <4>3. CASE i # 1
        <5>1. PICK h \in 1 .. n - 1 : h + 1 = i
          <6>1. i - 1 \in 1 .. n - 1 /\ (i - 1) + 1 = i
            BY <3>2, <4>1, <4>3
          <6> QED BY <6>1
        <5>2. profileQueue'[h].note.of # d /\ profileQueue'[h].put = profileQueue[i].put
          BY <3>3, <4>1, <5>1
        <5>3. \A k \in 1 .. n - 1 : k > h => profileQueue'[k].note.of # d
          <6>1. \A k \in 1 .. n - 1 : k > h => k + 1 > i
            BY <5>1
          <6> QED BY <3>3, <4>1, <6>1
        <5>4. Addresses \ profileQueue'[h].put.known \subseteq spared'[d]
          BY <2>1, <4>1, <5>2 DEF Spares
        <5> QED BY <3>2, <5>1, <5>2, <5>3, <5>4 DEF TakenOver, Spares
      <4> QED BY <4>2, <4>3
    <3>5. ASSUME Settled(d) PROVE Settled(d)'
      <4>1. \A k \in 1 .. n - 1 : profileQueue'[k].note.of # d
        BY <3>2, <3>3, <3>5 DEF Settled
      <4>2. d # Head(profileQueue).note.of
        BY <2>1, <2>2, <3>5, QueueLoses DEF Settled, ProfileTypes
      <4>3. Listed(d)' => list'[d].at \in spared'[d]
        BY <2>1, <2>4, <3>5, <4>2 DEF Settled, Listed
      <4> QED BY <3>2, <4>1, <4>3 DEF Settled
    <3> QED BY <2>1, <3>1, <3>4, <3>5 DEF MissingIsForgotten
  <2>6. TornIsSaved'
    BY <2>1 DEF TornIsSaved
  <2> QED BY <2>3, <2>5, <2>6
<1>7. ASSUME NEW d \in Devices, ReceiveMessage(d)
      PROVE  NotesFit' /\ MissingIsForgotten' /\ TornIsSaved'
  <2>1. /\ job["tcp"].step # "write" /\ UNCHANGED <<profile, list, profileQueue, heard, spared>>
        /\ \A s \in ProfileThreads \ {"tcp"} : job'[s] = job[s]
    BY <1>0, <1>7 DEF ReceiveMessage
  <2> QED BY <1>0, <2>1, QuietStep DEF Listed
<1>8. CASE CountUnread
  <2>1. /\ job["tcp"].step # "write" /\ UNCHANGED <<profile, list, profileQueue, heard, spared>>
        /\ \A s \in ProfileThreads \ {"tcp"} : job'[s] = job[s]
    BY <1>0, <1>8 DEF CountUnread
  <2> QED BY <1>0, <2>1, QuietStep DEF Listed
<1>9. CASE BeginChats \/ RefreshOnline \/ \E d \in Devices : Expire(d)
  <2>1. UNCHANGED <<profile, job, profileQueue, heard, spared>>
    BY <1>9 DEF BeginChats, RefreshOnline, Expire
  <2>2. \A d \in Devices : Listed(d)' => Listed(d) /\ list'[d].at = list[d].at
    <3>1. CASE BeginChats
      BY <3>1 DEF BeginChats, Listed
    <3>2. CASE RefreshOnline
      <4>1. \A d \in Devices : Listed(d) => list[d] \in ListItems
        BY DEF Listed, ProfileTypes
      <4>2. \A i \in ListItems, b \in BOOLEAN : [i EXCEPT !.online = b].at = i.at
        BY DEF ListItems
      <4>3. \A d \in Devices : OnlineNow(list[d]) \in BOOLEAN
        BY DEF OnlineNow
      <4>4. \A d \in Devices :
              list'[d] = IF Listed(d) THEN [list[d] EXCEPT !.online = OnlineNow(list[d])]
                         ELSE Unlisted
        BY <3>2 DEF RefreshOnline
      <4> QED BY <4>1, <4>2, <4>3, <4>4 DEF Listed
    <3>3. ASSUME NEW e \in Devices, Expire(e) PROVE \A d \in Devices : Listed(d)' => Listed(d) /\ list'[d].at = list[d].at
      <4>1. list[e] \in ListItems /\ list' = [list EXCEPT ![e].signal = "over"]
        BY <3>3 DEF Expire, Listed, ProfileTypes
      <4>2. [list[e] EXCEPT !.signal = "over"].at = list[e].at /\ list[e] # Unlisted
        BY <4>1, ItemsDiffer DEF ListItems
      <4> QED BY <4>1, <4>2 DEF Listed, ProfileTypes
    <3> QED BY <1>9, <3>1, <3>2, <3>3
  <2> QED BY <2>1, <2>2, QuietStep
<1>10. CASE DrainChat
  <2>1. PICK m \in Chats : m = Head(draining)
    BY <1>10, QueueLoses DEF DrainChat, ProfileTypes
  <2>2. m.of \in Devices /\ job["ui"].step = "idle" /\ UNCHANGED <<profile, profileQueue, heard, spared>>
    BY <1>0, <1>10 DEF Chats, DrainChat
  <2>3. \/ UNCHANGED <<list, job>>
        \/ /\ list' = IF Listed(m.of) THEN [list EXCEPT ![m.of].unread = @ + 1] ELSE list
           /\ UNCHANGED job
        \/ StartSave(m.of, IF Listed(m.of) THEN list[m.of].unread + 1 ELSE 1)
    BY <1>10, <2>1 DEF DrainChat
  <2>4. /\ \A s \in ProfileThreads \ {"ui"} : job'[s] = job[s]
        /\ \A d \in Devices : Listed(d)' => Listed(d) /\ list'[d].at = list[d].at
    <3>1. CASE UNCHANGED <<list, job>>
      BY <3>1 DEF Listed
    <3>2. CASE /\ list' = IF Listed(m.of) THEN [list EXCEPT ![m.of].unread = @ + 1] ELSE list
               /\ UNCHANGED job
      <4>1. Listed(m.of) => [list[m.of] EXCEPT !.unread = list[m.of].unread + 1].at = list[m.of].at
        <5>1. Listed(m.of) => list[m.of] \in ListItems
          BY <2>2 DEF Listed, ProfileTypes
        <5> QED BY <5>1 DEF ListItems
      <4> QED BY <2>2, <3>2, <4>1 DEF Listed, ProfileTypes
    <3>3. CASE StartSave(m.of, IF Listed(m.of) THEN list[m.of].unread + 1 ELSE 1)
      BY <2>2, <3>3, SavedCounter
    <3> QED BY <2>3, <3>1, <3>2, <3>3
  <2> QED BY <1>0, <2>2, <2>4, QuietStep
<1>11. ASSUME NEW d \in Devices, Select(d)
       PROVE  NotesFit' /\ MissingIsForgotten' /\ TornIsSaved'
  <2>1. /\ job["ui"].step = "idle" /\ UNCHANGED <<profile, profileQueue, heard, spared>>
        /\ UNCHANGED <<list, job>> \/ StartSave(d, 0)
    BY <1>0, <1>11 DEF Select, UiIdle
  <2>2. /\ \A s \in ProfileThreads \ {"ui"} : job'[s] = job[s]
        /\ \A e \in Devices : Listed(e)' => Listed(e) /\ list'[e].at = list[e].at
    BY <2>1, SavedCounter DEF Listed
  <2> QED BY <1>0, <2>1, <2>2, QuietStep
<1>12. CASE LoadForUnread
  <2>1. /\ job["ui"].step # "write" /\ UNCHANGED <<profile, list, profileQueue, heard, spared>>
        /\ \A s \in ProfileThreads \ {"ui"} : job'[s] = job[s]
    BY <1>0, <1>12 DEF LoadForUnread
  <2> QED BY <1>0, <2>1, QuietStep DEF Listed
<1>13. CASE Crash
  <2>1. /\ profileQueue' = <<>> /\ heard' = {} /\ UNCHANGED profile
        /\ \A t \in ProfileThreads : job'[t] = Idle
        /\ \A d \in Devices : ~Readable(d) => list'[d] = Unlisted
    BY <1>13 DEF Crash, Loaded
  <2>2. NotesFit'
    BY <1>0, <2>1 DEF NotesFit
  <2>3. MissingIsForgotten'
    <3>1. \A d \in Devices : profile'[d] = Missing => ~Listed(d)'
      BY <1>0, <2>1, FilesDiffer DEF Listed
    <3>2. \A d \in Devices : profile'[d] = Missing => Settled(d)'
      BY <2>1, <3>1 DEF Settled
    <3> QED BY <3>2 DEF MissingIsForgotten
  <2>4. TornIsSaved'
    BY <2>1 DEF TornIsSaved
  <2> QED BY <2>2, <2>3, <2>4
<1>14. CASE UNCHANGED profVars
  BY <1>14, QuietStep DEF profVars, Listed
<1> QED
  BY <1>1, <1>2, <1>3, <1>4, <1>5, <1>6, <1>7, <1>8, <1>9, <1>10, <1>11, <1>12, <1>13, <1>14,
     <1>15
  DEF ProfNext, RefreshPeersStep

\* What was loaded has no signal and no goodbye yet.
LEMMA LoadedGoodbyes ==
  ASSUME profile \in [Devices -> WholeProfiles \union Unreadable]
  PROVE  \A d \in Devices : Loaded[d] # Unlisted =>
           /\ ~Loaded[d].online => Loaded[d].signal = "over"
           /\ Loaded[d].seen >= 0
<1> SUFFICES ASSUME NEW d \in Devices, Loaded[d] # Unlisted
             PROVE  Loaded[d].signal = "over" /\ Loaded[d].seen >= 0
  OBVIOUS
<1>1. profile[d] \in WholeProfiles /\ Loaded[d] = Item(profile[d], FALSE)
  BY LoadedListFits
<1>2. profile[d].seen \in Nat
  BY <1>1 DEF WholeProfiles
<1>3. Loaded[d].seen = profile[d].seen /\ Loaded[d].signal = "over"
  BY <1>1 DEF Item
<1> QED
  BY <1>2, <1>3

\* A goodbye stays a goodbye: an announcement that was queued before is not newer.
LEMMA GoodbyeStep ==
  ASSUME ProfileTypes, NotesFit, GoodbyesAreKept, [ProfNext]_profVars
  PROVE  GoodbyesAreKept'
<1>0. \A d \in Devices : Listed(d) => list[d] \in ListItems
  BY DEF Listed, ProfileTypes
<1>1. ASSUME UNCHANGED left,
             \A d \in Devices : Listed(d)' =>
               /\ Listed(d) /\ list'[d].online = list[d].online
               /\ list'[d].signal = list[d].signal /\ list'[d].seen = list[d].seen
      PROVE  GoodbyesAreKept'
  BY <1>1 DEF GoodbyesAreKept
<1>2. ASSUME UNCHANGED <<left, list>> PROVE GoodbyesAreKept'
  BY <1>2 DEF GoodbyesAreKept, Listed
<1>3. CASE DrainProfile
  <2>1. PICK q \in Queued : q = Head(profileQueue) /\ q = profileQueue[1] /\ 1 \in 1 .. Len(profileQueue)
    BY <1>3, QueueLoses DEF DrainProfile, ProfileTypes
  <2>2. PICK n \in Devices : n = q.note.of
    BY DEF Queued, Notes
  <2>3. /\ q.note.stamp \in Nat /\ q.put.seen \in Nat /\ q.put.seen >= q.note.stamp
        /\ q.note.type \in {"hello", "offline"}
    BY <2>1 DEF Queued, Notes, WholeProfiles, NotesFit
  <2>4. /\ \A d \in Devices \ {n} : list'[d] = Unlisted \/ list'[d] = list[d]
        /\ list'[n] = IF StaleOnline(q, list[n]) THEN list[n]
                      ELSE Item(q.put, q.note.type = "hello")
    BY <1>3, <2>1, <2>2 DEF DrainProfile, Applied, ReplacesPeer
  <2>5. /\ left'[n] = IF q.note.type = "offline" THEN q.note.stamp
                      ELSE IF list'[n] # list[n] THEN 0 ELSE left[n]
        /\ \A d \in Devices \ {n} : left'[d] = left[d]
    BY <1>3, <2>1, <2>2 DEF DrainProfile, ProfileTypes
  <2>6. Listed(n)' => /\ ~list'[n].online => list'[n].signal = "over"
                      /\ list'[n].seen >= left'[n]
    <3>1. CASE StaleOnline(q, list[n])
      BY <2>2, <2>4, <2>5, <3>1 DEF StaleOnline, GoodbyesAreKept, Listed
    <3>2. CASE ~StaleOnline(q, list[n])
      <4>1. /\ list'[n].seen = q.put.seen
            /\ list'[n].online = (q.note.type = "hello")
            /\ list'[n].signal = IF q.note.type = "hello" THEN "fresh" ELSE "over"
        BY <2>4, <3>2 DEF Item
      <4>2. list'[n].seen >= left'[n]
        <5>1. CASE q.note.type = "offline"
          BY <2>3, <2>5, <4>1, <5>1
        <5>2. CASE q.note.type = "hello" /\ list'[n] # list[n]
          BY <2>3, <2>5, <4>1, <5>2
        <5>3. CASE q.note.type = "hello" /\ list'[n] = list[n]
          <6>1. Listed(n)
            <7>1. list'[n] \in ListItems
              BY <2>4, <3>2, ItemsShowProfiles DEF Queued
            <7> QED BY <5>3, <7>1, ItemsDiffer DEF Listed
          <6> QED BY <2>2, <2>5, <5>3, <6>1 DEF GoodbyesAreKept
        <5> QED BY <2>3, <5>1, <5>2, <5>3
      <4> QED BY <4>1, <4>2
    <3> QED BY <3>1, <3>2
  <2> QED BY <2>4, <2>5, <2>6 DEF GoodbyesAreKept, Listed
<1>4. ASSUME NEW e \in Devices, Expire(e) PROVE GoodbyesAreKept'
  <2>1. /\ UNCHANGED left
        /\ \A d \in Devices : list'[d] = IF d = e THEN [list[d] EXCEPT !.signal = "over"] ELSE list[d]
    BY <1>4 DEF Expire, ProfileTypes
  <2>2. \A i \in ListItems : /\ [i EXCEPT !.signal = "over"].online = i.online
                             /\ [i EXCEPT !.signal = "over"].seen = i.seen
                             /\ [i EXCEPT !.signal = "over"].signal = "over"
    BY DEF ListItems
  <2>3. Listed(e) /\ list[e] \in ListItems
    BY <1>0, <1>4 DEF Expire
  <2>4. /\ list'[e].online = list[e].online /\ list'[e].seen = list[e].seen
        /\ list'[e].signal = "over"
    BY <2>1, <2>2, <2>3
  <2>5. \A d \in Devices \ {e} : list'[d] = list[d]
    BY <2>1
  <2>6. ASSUME NEW d \in Devices, Listed(d)'
        PROVE  (~list'[d].online => list'[d].signal = "over") /\ list'[d].seen >= left'[d]
    <3>1. CASE d = e
      BY <2>1, <2>3, <2>4, <3>1 DEF GoodbyesAreKept
    <3>2. CASE d # e
      BY <2>1, <2>5, <2>6, <3>2 DEF GoodbyesAreKept, Listed
    <3> QED BY <3>1, <3>2
  <2> QED BY <2>6 DEF GoodbyesAreKept
<1>5. CASE RefreshOnline
  <2>1. /\ UNCHANGED left
        /\ \A d \in Devices : list'[d] = IF Listed(d)
             THEN [list[d] EXCEPT !.online = OnlineNow(list[d])] ELSE Unlisted
    BY <1>5 DEF RefreshOnline
  <2>2. \A i \in ListItems :
          /\ [i EXCEPT !.online = OnlineNow(i)].online = (i.signal = "fresh")
          /\ [i EXCEPT !.online = OnlineNow(i)].seen = i.seen
          /\ [i EXCEPT !.online = OnlineNow(i)].signal = i.signal
          /\ i.signal \in {"fresh", "over"}
    BY DEF ListItems, OnlineNow
  <2>3. ASSUME NEW d \in Devices, Listed(d)'
        PROVE  (~list'[d].online => list'[d].signal = "over") /\ list'[d].seen >= left'[d]
    <3>1. Listed(d) /\ list[d] \in ListItems
      BY <1>0, <2>1, <2>3 DEF Listed
    <3>2. list'[d] = [list[d] EXCEPT !.online = OnlineNow(list[d])]
      BY <2>1, <3>1
    <3>3. /\ list'[d].online = (list[d].signal = "fresh") /\ list'[d].seen = list[d].seen
          /\ list'[d].signal = list[d].signal /\ list[d].signal \in {"fresh", "over"}
      BY <2>2, <3>1, <3>2
    <3> QED BY <2>1, <3>1, <3>3 DEF GoodbyesAreKept
  <2> QED BY <2>3 DEF GoodbyesAreKept
<1>6. CASE DrainChat
  <2>1. PICK m \in Chats : m = Head(draining)
    BY <1>6, QueueLoses DEF DrainChat, ProfileTypes
  <2>2. m.of \in Devices /\ UNCHANGED left
    BY <1>6 DEF Chats, DrainChat
  <2>3. \/ UNCHANGED <<list, job>>
        \/ /\ list' = IF Listed(m.of) THEN [list EXCEPT ![m.of].unread = @ + 1] ELSE list
           /\ UNCHANGED job
        \/ StartSave(m.of, IF Listed(m.of) THEN list[m.of].unread + 1 ELSE 1)
    BY <1>6, <2>1 DEF DrainChat
  <2>4. CASE UNCHANGED <<list, job>>
    BY <1>2, <2>2, <2>4
  <2>5. CASE /\ list' = IF Listed(m.of) THEN [list EXCEPT ![m.of].unread = @ + 1] ELSE list
             /\ UNCHANGED job
    <3>1. \A d \in Devices : list'[d] = IF d = m.of /\ Listed(d)
             THEN [list[d] EXCEPT !.unread = list[d].unread + 1] ELSE list[d]
      BY <2>2, <2>5 DEF ProfileTypes
    <3>2. \A i \in ListItems : /\ [i EXCEPT !.unread = i.unread + 1].online = i.online
                               /\ [i EXCEPT !.unread = i.unread + 1].seen = i.seen
                               /\ [i EXCEPT !.unread = i.unread + 1].signal = i.signal
      BY DEF ListItems
    <3> QED BY <1>0, <1>1, <2>2, <3>1, <3>2 DEF Listed
  <2>6. CASE StartSave(m.of, IF Listed(m.of) THEN list[m.of].unread + 1 ELSE 1)
    BY <1>1, <2>2, <2>6, SavedCounter
  <2> QED BY <2>3, <2>4, <2>5, <2>6
<1>7. ASSUME NEW d \in Devices, Select(d) PROVE GoodbyesAreKept'
  <2>1. UNCHANGED left /\ (UNCHANGED <<list, job>> \/ StartSave(d, 0))
    BY <1>7 DEF Select
  <2> QED BY <1>1, <1>2, <2>1, SavedCounter
<1>8. CASE Crash
  <2>1. list' = Loaded /\ left' = [d \in Devices |-> 0]
    BY <1>8 DEF Crash
  <2> QED BY <2>1, LoadedGoodbyes DEF GoodbyesAreKept, Listed, ProfileTypes
<1>9. CASE \/ \E t \in ProfileThreads : Truncate(t) \/ Write(t)
           \/ \E a \in Announcements : Receive(a)
           \/ Upsert \/ Purge \/ PurgeFails \/ CountUnread \/ BeginChats \/ LoadForUnread
           \/ \E d \in Devices : ReceiveMessage(d)
           \/ UNCHANGED profVars
  <2>1. UNCHANGED <<left, list>>
    BY <1>9
    DEF Truncate, Write, Receive, Upsert, Purge, PurgeFails, CountUnread, BeginChats, LoadForUnread,
        ReceiveMessage, profVars
  <2> QED BY <1>2, <2>1
<1> QED
  BY <1>3, <1>4, <1>5, <1>6, <1>7, <1>8, <1>9 DEF ProfNext, RefreshPeersStep

-----------------------------------------------------------------------------
\* At the start there is no job and no announcement, and what was stored is listed.
LEMMA ProfInvInit ==
  ASSUME ProfInit
  PROVE  ProfInv
<1>1. Idle.step = "idle" /\ "discovery" \in ProfileThreads /\ Len(<<>>) = 0
  BY DEF Idle, ProfileThreads
<1>2. profile \in [Devices -> WholeProfiles \union Unreadable]
  BY StoredAreWhole, FilesDiffer DEF ProfInit
<1>3. ProfileTypes
  <2>1. <<>> \in Seq(Queued) /\ <<>> \in Seq(Chats)
    OBVIOUS
  <2>2. list \in [Devices -> ListItems \union {Unlisted}]
    BY <1>2, LoadedListFits DEF ProfInit
  <2>3. /\ DOMAIN job = ProfileThreads /\ job["discovery"] \in DiscoveryJobs
        /\ job["tcp"] \in TcpJobs /\ job["ui"] \in UiJobs
    BY DEF ProfInit, ProfileThreads, DiscoveryJobs, TcpJobs, UiJobs
  <2>4. /\ left \in [Devices -> Nat] /\ heard \subseteq Devices
        /\ spared \in [Devices -> SUBSET Addresses]
    BY DEF ProfInit
  <2> QED
    BY <1>2, <2>1, <2>2, <2>3, <2>4 DEF ProfInit, ProfileTypes
<1>4. NotesFit
  BY <1>1 DEF ProfInit, NotesFit
<1>5. MissingIsForgotten
  <2>1. \A d \in Devices : profile[d] = Missing => list[d] = Unlisted
    BY <1>2, LoadedListFits, FilesDiffer DEF ProfInit
  <2>2. \A d \in Devices : profile[d] = Missing => Settled(d)
    BY <1>1, <2>1 DEF ProfInit, Settled, Listed
  <2> QED BY <2>2 DEF MissingIsForgotten
<1>6. TornIsSaved
  BY DEF ProfInit, TornIsSaved
<1>7. GoodbyesAreKept
  BY <1>2, LoadedGoodbyes DEF ProfInit, GoodbyesAreKept, Listed
<1> QED
  BY <1>3, <1>4, <1>5, <1>6, <1>7 DEF ProfInv

\* The invariant of the profiles.
LEMMA ProfilesAreKept ==
  ProfSpec => []ProfInv
<1>1. ProfInv /\ [ProfNext]_profVars => ProfInv'
  BY ProfileTypesStep, StoredStep, GoodbyeStep DEF ProfInv
<1> QED
  BY ProfInvInit, <1>1, PTL DEF ProfSpec

\* When nothing is under way, a peer of the list has a profile on disk, or lost it to
\* an installation that was never seen at the address the list shows: wherever the
\* removal from disk (discovery thread) and the one from the list (UI thread) look at
\* the same address they end alike, however they interleave with the saves of three
\* threads.  And what a crash left unreadable is rewritten once the device is heard of.
THEOREM ListedProfilesAreStored ==
  ProfSpec => []ListedIsStored
<1>1. ProfInv => ListedIsStored
  <2> SUFFICES ASSUME ProfInv PROVE ListedIsStored
    OBVIOUS
  <2>1. "discovery" \in ProfileThreads /\ Idle.step = "idle"
    BY DEF ProfileThreads, Idle
  <2>2. ASSUME profileQueue = <<>>, \A t \in ProfileThreads : job[t] = Idle
        PROVE  \A d \in Devices : Listed(d) /\ profile[d] = Missing => list[d].at \in spared[d]
    <3> SUFFICES ASSUME NEW d \in Devices, Listed(d), profile[d] = Missing
                 PROVE  list[d].at \in spared[d]
      OBVIOUS
    <3>1. spared[d] = Addresses \/ BeingReplaced(d) \/ TakenOver(d) \/ Settled(d)
      BY DEF ProfInv, MissingIsForgotten
    <3>2. ~BeingReplaced(d) /\ ~TakenOver(d)
      BY <2>1, <2>2 DEF BeingReplaced, TakenOver
    <3>3. list[d].at \in Addresses
      <4>1. list[d] \in ListItems
        BY DEF ProfInv, ProfileTypes, Listed
      <4> QED BY <4>1 DEF ListItems
    <3> QED BY <3>1, <3>2, <3>3 DEF Settled
  <2>3. ASSUME NEW d \in heard, profile[d] = Torn
        PROVE  \E t \in ProfileThreads : job[t] # Idle /\ job[t].of = d
    BY <2>1, <2>3 DEF ProfInv, TornIsSaved
  <2> QED
    BY <2>2, <2>3 DEF ListedIsStored
<1> QED
  BY <1>1, ProfilesAreKept, PTL

\* A peer shown offline after its goodbye comes back only with what is newer than the
\* goodbye, or with a newer version of its program, however the hellos were delayed,
\* doubled and mixed with the saves of the other threads.
THEOREM GoodbyesHold ==
  ProfSpec => ResurrectedByNewer
<1> DEFINE Resurrected(d) ==
             (~Online(d) /\ Listed(d) /\ Online(d)' /\ profileQueue # <<>>) =>
               LET q == Head(profileQueue) IN
               q.put.seen > left[d] \/ q.put.version > list[d].version
<1>1. ASSUME ProfInv, [ProfNext]_profVars, NEW d \in Devices
      PROVE  Resurrected(d)
  <2> SUFFICES ASSUME ~Online(d), Listed(d), Online(d)', profileQueue # <<>>
               PROVE  \/ Head(profileQueue).put.seen > left[d]
                      \/ Head(profileQueue).put.version > list[d].version
    OBVIOUS
  <2>1. /\ list[d] \in ListItems /\ ~list[d].online
        /\ list[d].signal = "over" /\ list[d].seen >= left[d]
        /\ left[d] \in Nat /\ list \in [Devices -> ListItems \union {Unlisted}]
    BY <1>1 DEF ProfInv, ProfileTypes, GoodbyesAreKept, Online, Listed
  <2>2. list'[d] # Unlisted /\ list'[d].online
    BY DEF Online, Listed
  <2>3. CASE DrainProfile
    <3>1. PICK q \in Queued : q = Head(profileQueue)
      BY <1>1, <2>3, QueueLoses DEF DrainProfile, ProfInv, ProfileTypes
    <3>2. q.put.seen \in Nat /\ q.put.version \in Nat
      BY DEF Queued, WholeProfiles, Versions
    <3>3. list'[d] = IF ReplacesPeer(q, d, list) THEN Unlisted
                     ELSE IF d # q.note.of \/ StaleOnline(q, list[d]) THEN list[d]
                     ELSE Item(q.put, q.note.type = "hello")
      BY <2>3, <3>1 DEF DrainProfile, Applied
    <3>4. ~StaleOnline(q, list[d]) /\ q.note.type = "hello"
      <4>1. ~ReplacesPeer(q, d, list) /\ list'[d] # list[d]
        BY <2>1, <2>2, <3>3
      <4>2. list'[d] = Item(q.put, q.note.type = "hello")
        BY <3>3, <4>1
      <4>3. list'[d].online = (q.note.type = "hello")
        BY <4>2, ItemsShowProfiles DEF Queued
      <4> QED BY <2>2, <3>3, <4>1, <4>3
    <3>5. ~(q.put.version <= list[d].version) \/ ~(q.put.seen <= list[d].seen)
      BY <3>4 DEF StaleOnline, Listed
    <3>6. list[d].seen \in Nat /\ list[d].version \in Nat
      BY <2>1 DEF ListItems, Versions
    <3> QED BY <2>1, <3>1, <3>2, <3>5, <3>6
  <2>4. CASE RefreshOnline
    BY <2>1, <2>2, <2>4 DEF RefreshOnline, OnlineNow, ListItems
  <2>5. CASE Crash
    <3>1. list'[d] = Item(profile[d], FALSE) /\ profile[d] \in WholeProfiles
      BY <1>1, <2>2, <2>5, LoadedListFits DEF Crash, ProfInv, ProfileTypes
    <3> QED BY <2>2, <3>1, ItemsShowProfiles
  <2>6. ASSUME NEW e \in Devices, Expire(e) PROVE FALSE
    BY <2>1, <2>2, <2>6 DEF Expire, ListItems
  <2>7. CASE DrainChat
    <3>1. PICK m \in Chats : m = Head(draining)
      BY <1>1, <2>7, QueueLoses DEF DrainChat, ProfInv, ProfileTypes
    <3>2. m.of \in Devices
      BY DEF Chats
    <3>3. \/ UNCHANGED list
          \/ list' = [list EXCEPT ![m.of].unread = @ + 1]
          \/ StartSave(m.of, IF Listed(m.of) THEN list[m.of].unread + 1 ELSE 1)
      BY <2>7, <3>1 DEF DrainChat
    <3>4. CASE list' = [list EXCEPT ![m.of].unread = @ + 1]
      BY <2>1, <2>2, <3>4 DEF ListItems
    <3>5. CASE StartSave(m.of, IF Listed(m.of) THEN list[m.of].unread + 1 ELSE 1)
      BY <1>1, <2>1, <2>2, <3>2, <3>5, SavedCounter DEF ProfInv, Listed
    <3> QED BY <2>1, <2>2, <3>3, <3>4, <3>5
  <2>8. ASSUME NEW e \in Devices, Select(e) PROVE FALSE
    <3>1. UNCHANGED list \/ StartSave(e, 0)
      BY <2>8 DEF Select
    <3> QED BY <1>1, <2>1, <2>2, <3>1, SavedCounter DEF ProfInv, Listed
  <2>9. CASE \/ \E t \in ProfileThreads : Truncate(t) \/ Write(t)
             \/ \E a \in Announcements : Receive(a)
             \/ Upsert \/ Purge \/ PurgeFails \/ CountUnread \/ BeginChats \/ LoadForUnread
             \/ \E e \in Devices : ReceiveMessage(e)
             \/ UNCHANGED profVars
    <3>1. UNCHANGED list
      BY <2>9
      DEF Truncate, Write, Receive, Upsert, Purge, PurgeFails, CountUnread, BeginChats, LoadForUnread,
          ReceiveMessage, profVars
    <3> QED BY <2>1, <2>2, <3>1
  <2> QED
    BY <1>1, <2>3, <2>4, <2>5, <2>6, <2>7, <2>8, <2>9 DEF ProfNext, RefreshPeersStep
<1>2. ProfInv /\ [ProfNext]_profVars => [\A d \in Devices : Resurrected(d)]_profVars
  BY <1>1
<1> QED
  BY <1>2, ProfilesAreKept, PTL DEF ProfSpec, ResurrectedByNewer

-----------------------------------------------------------------------------
(* The types of the profiles: a message is counted twice at most, by the TCP      *)
(* thread in the file and by the UI thread in the list, and no thread carries a    *)
(* counter on that the other has counted up meanwhile by more than that.  A count    *)
(* starts at what an earlier run stored.                                          *)

\* How often the messages under way may still be counted.
TcpOwes ==
  IF job["tcp"].step = "load" THEN 2
  ELSE IF job["tcp"].step \in {"truncate", "write"} THEN 1 ELSE 0
Owed == Len(chatQueue) + Len(draining) + TcpOwes
Room == StoredUnread + 2 * messages - Owed

Saving == {"purge", "truncate", "write"}
Fits(v, n) == v.seen \in 1 .. MaxStamp /\ v.unread <= n

\* No counter in a file, in the list or under way is above n.
ProfilesFit(n) == \A d \in Devices : Readable(d) => Fits(profile[d], n)
ListFits(n) == \A d \in Devices : Listed(d) => Fits(list[d], n)
QueueFits(n) ==
  \A i \in 1 .. Len(profileQueue) :
    Fits(profileQueue[i].put, n) /\ profileQueue[i].note \in Announcements
JobsFit(n) ==
  /\ \A t \in ProfileThreads : job[t].step \in Saving => Fits(job[t].put, n)
  /\ job["ui"].step = "load" => job["ui"].count <= n
  /\ job["discovery"].step # "idle" => job["discovery"].note \in Announcements
ValuesFit(n) == ProfilesFit(n) /\ ListFits(n) /\ QueueFits(n) /\ JobsFit(n)

SelectedIsListed ==
  /\ selected \in Devices \union {NoDevice}
  /\ selected # NoDevice => Listed(selected)
  /\ left \in [Devices -> 0..MaxStamp]

MessagesAreBounded ==
  /\ deliveries \in 0..MaxDeliveries /\ messages \in 0..MaxMessages
  /\ crashes \in 0..MaxCrashes
  /\ Room \in Nat

CountInv == MessagesAreBounded /\ SelectedIsListed /\ ValuesFit(Room)

\* What thread of a profile is doing, for the threads one by one.
LEMMA ThreadJobs ==
  ASSUME ProfileTypes
  PROVE  /\ job["discovery"] \in DiscoveryJobs /\ job["tcp"] \in TcpJobs
         /\ job["ui"] \in UiJobs /\ DOMAIN job = ProfileThreads
         /\ ProfileThreads = {"discovery", "tcp", "ui"}
BY DEF ProfileTypes, ProfileThreads

LEMMA LengthsAreNumbers ==
  ASSUME ProfileTypes
  PROVE  Len(chatQueue) \in Nat /\ Len(draining) \in Nat /\ TcpOwes \in 0 .. 2
<1>1. chatQueue \in Seq(Chats) /\ draining \in Seq(Chats)
  BY DEF ProfileTypes
<1> QED
  BY <1>1 DEF TcpOwes

LEMMA ChatsGrow ==
  /\ \A q \in Seq(Chats) : Len(q) \in Nat
  /\ \A q \in Seq(Chats), e \in Chats : Len(Append(q, e)) = Len(q) + 1
  /\ \A q \in Seq(Chats) : q # <<>> => Len(Tail(q)) = Len(q) - 1
  /\ Len(<<>>) = 0
OBVIOUS

\* The terms that Room is made of.
LEMMA RoomFacts ==
  ASSUME ProfileTypes, MessagesAreBounded
  PROVE  /\ messages \in Nat /\ Room \in Nat /\ StoredUnread \in Nat
         /\ Len(chatQueue) \in Nat /\ Len(draining) \in Nat /\ TcpOwes \in 0 .. 2
         /\ chatQueue \in Seq(Chats) /\ draining \in Seq(Chats)
         /\ DOMAIN job = ProfileThreads /\ "tcp" \in ProfileThreads
         /\ "ui" \in ProfileThreads /\ "discovery" \in ProfileThreads
BY LengthsAreNumbers, ThreadJobs, ProfilesAssumption
DEF MessagesAreBounded, ProfileTypes

\* A count by the TCP thread takes the room that its message has made.
LEMMA CountTakesRoom ==
  ASSUME ProfileTypes, MessagesAreBounded, CountUnread
  PROVE  Room' = Room + 1
<1>1. UNCHANGED <<draining, messages>> /\ job["tcp"].step = "load"
  BY DEF CountUnread
<1>2. TcpOwes = 2
  BY <1>1 DEF TcpOwes
<1>3. \/ Len(chatQueue') = Len(chatQueue) /\ TcpOwes' = 1
      \/ Len(chatQueue') = Len(chatQueue) + 1 /\ TcpOwes' = 0
  <2>1. PICK d \in Devices : d = job["tcp"].of
    BY <1>1, ThreadJobs DEF TcpJobs, Idle
  <2>2. \/ /\ UNCHANGED chatQueue
           /\ job'["tcp"].step = "truncate"
        \/ /\ chatQueue' = Append(chatQueue, [of |-> d, counted |-> FALSE])
           /\ job'["tcp"].step = "idle"
    BY <2>1, RoomFacts DEF CountUnread, Idle
  <2>3. [of |-> d, counted |-> FALSE] \in Chats
    BY DEF Chats
  <2> QED BY <2>2, <2>3, RoomFacts, ChatsGrow DEF TcpOwes
<1> QED
  BY <1>1, <1>2, <1>3, RoomFacts DEF Room, Owed

\* So does one by the UI thread.
LEMMA DrainTakesRoom ==
  ASSUME ProfileTypes, MessagesAreBounded, DrainChat
  PROVE  Room' = Room + 1
<1>1. UNCHANGED <<chatQueue, messages>> /\ draining # <<>> /\ draining' = Tail(draining)
  BY DEF DrainChat
<1>2. job'["tcp"] = job["tcp"]
  BY RoomFacts DEF DrainChat, StartSave
<1>3. TcpOwes' = TcpOwes
  BY <1>2 DEF TcpOwes
<1>4. Len(draining') = Len(draining) - 1
  BY <1>1, RoomFacts, ChatsGrow
<1> QED
  BY <1>1, <1>3, <1>4, RoomFacts DEF Room, Owed

\* No other step takes room.
LEMMA RoomStays ==
  ASSUME ProfileTypes, MessagesAreBounded, [ProfNext]_profVars
  PROVE  MessagesAreBounded' /\ Room' >= Room
<1>0. /\ Room = StoredUnread + 2 * messages - (Len(chatQueue) + Len(draining) + TcpOwes)
      /\ Room' = StoredUnread + 2 * messages' - (Len(chatQueue') + Len(draining') + TcpOwes')
  BY DEF Room, Owed
<1>1. /\ deliveries' \in 0..MaxDeliveries /\ messages' \in 0..MaxMessages
      /\ crashes' \in 0..MaxCrashes
  <2>1. /\ deliveries \in 0..MaxDeliveries /\ messages \in 0..MaxMessages
        /\ crashes \in 0..MaxCrashes
    BY DEF MessagesAreBounded
  <2>2. /\ deliveries' = deliveries \/ (deliveries < MaxDeliveries /\ deliveries' = deliveries + 1)
        /\ messages' = messages \/ (messages < MaxMessages /\ messages' = messages + 1)
        /\ crashes' = crashes \/ (crashes < MaxCrashes /\ crashes' = crashes + 1)
    <3> DEFINE Bounds == /\ deliveries' = deliveries
                         /\ messages' = messages /\ crashes' = crashes
    <3>1. \/ Bounds
          \/ UNCHANGED <<messages, crashes>> /\ \E a \in Announcements : Receive(a)
          \/ UNCHANGED <<deliveries, crashes>> /\ \E d \in Devices : ReceiveMessage(d)
          \/ UNCHANGED <<deliveries, messages>> /\ Crash
      <4>1. (\E t \in ProfileThreads : Truncate(t) \/ Write(t)) => Bounds
        BY DEF Truncate, Write
      <4>2. Upsert \/ Purge \/ PurgeFails \/ CountUnread \/ RefreshOnline => Bounds
        BY DEF Upsert, Purge, PurgeFails, CountUnread, RefreshOnline
      <4>3. RefreshPeersStep => Bounds
        BY DEF RefreshPeersStep, DrainProfile, BeginChats, DrainChat, LoadForUnread
      <4>4. (\E d \in Devices : Select(d) \/ Expire(d)) => Bounds
        BY DEF Select, Expire
      <4>5. UNCHANGED profVars => Bounds
        BY DEF profVars
      <4>6. /\ \A a \in Announcements : Receive(a) => UNCHANGED <<messages, crashes>>
            /\ \A d \in Devices : ReceiveMessage(d) => UNCHANGED <<deliveries, crashes>>
            /\ Crash => UNCHANGED <<deliveries, messages>>
        BY DEF Receive, ReceiveMessage, Crash
      <4> HIDE DEF Bounds
      <4> QED BY <4>1, <4>2, <4>3, <4>4, <4>5, <4>6 DEF ProfNext
    <3>2. /\ \A a \in Announcements : Receive(a) =>
               deliveries < MaxDeliveries /\ deliveries' = deliveries + 1
          /\ \A d \in Devices : ReceiveMessage(d) =>
               messages < MaxMessages /\ messages' = messages + 1
          /\ Crash => crashes < MaxCrashes /\ crashes' = crashes + 1
      BY DEF Receive, ReceiveMessage, Crash
    <3>3. CASE Bounds
      BY <3>3
    <3>4. CASE UNCHANGED <<messages, crashes>> /\ \E a \in Announcements : Receive(a)
      BY <3>2, <3>4
    <3>5. CASE UNCHANGED <<deliveries, crashes>> /\ \E d \in Devices : ReceiveMessage(d)
      BY <3>2, <3>5
    <3>6. CASE UNCHANGED <<deliveries, messages>> /\ Crash
      BY <3>2, <3>6
    <3> QED BY <3>1, <3>3, <3>4, <3>5, <3>6
  <2> QED BY <2>1, <2>2, ProfilesAssumption
<1>2. SUFFICES Room' >= Room
  <2>1. ASSUME Room' >= Room PROVE Room' \in Nat
    <3>1. messages' \in Nat
      BY <1>1, ProfilesAssumption
    <3>2. Len(chatQueue') \in Nat /\ Len(draining') \in Nat /\ TcpOwes' \in 0 .. 2
      <4>1. chatQueue' \in Seq(Chats) /\ draining' \in Seq(Chats)
        BY ProfileTypesStep DEF ProfileTypes
      <4> QED BY <4>1, ChatsGrow DEF TcpOwes
    <3>3. Room' \in Int
      BY <1>0, <3>1, <3>2, RoomFacts
    <3>4. Room \in Nat
      BY RoomFacts
    <3> QED BY <2>1, <3>3, <3>4
  <2> QED BY <1>1, <2>1 DEF MessagesAreBounded
<1>3. CASE UNCHANGED <<chatQueue, draining, messages>> /\ job'["tcp"] = job["tcp"]
  <2>1. TcpOwes' = TcpOwes
    BY <1>3 DEF TcpOwes
  <2> QED BY <1>0, <1>3, <2>1, RoomFacts
<1>4. ASSUME NEW t \in ProfileThreads, Truncate(t) PROVE Room' >= Room
  <2>1. UNCHANGED <<chatQueue, draining, messages>> /\ job[t].step = "truncate"
        /\ job' = [job EXCEPT ![t].step = "write"]
    BY <1>4 DEF Truncate
  <2>2. CASE t # "tcp"
    BY <1>3, <2>1, <2>2, RoomFacts
  <2>3. CASE t = "tcp"
    <3>1. job'["tcp"].step = "write"
      BY <2>1, <2>3, ThreadJobs DEF TcpJobs, Idle
    <3>2. TcpOwes' = TcpOwes
      BY <2>1, <2>3, <3>1 DEF TcpOwes
    <3> QED BY <1>0, <2>1, <3>2, RoomFacts
  <2> QED BY <2>2, <2>3
<1>5. ASSUME NEW t \in ProfileThreads, Write(t) PROVE Room' >= Room
  <2>1. /\ UNCHANGED <<draining, messages>> /\ job[t].step = "write"
        /\ job' = [job EXCEPT ![t] = Idle]
        /\ chatQueue' = IF t = "tcp"
              THEN Append(chatQueue, [of |-> job[t].of, counted |-> TRUE]) ELSE chatQueue
    BY <1>5 DEF Write
  <2>2. CASE t # "tcp"
    BY <1>3, <2>1, <2>2, RoomFacts
  <2>3. CASE t = "tcp"
    <3>1. job'["tcp"].step = "idle"
      BY <2>1, <2>3, RoomFacts DEF Idle
    <3>2. TcpOwes' = 0 /\ TcpOwes = 1
      BY <2>1, <2>3, <3>1 DEF TcpOwes
    <3>3. [of |-> job[t].of, counted |-> TRUE] \in Chats
      BY <2>1, SavingJobs DEF Chats
    <3>4. Len(chatQueue') = Len(chatQueue) + 1
      BY <2>1, <2>3, <3>3, RoomFacts, ChatsGrow
    <3> QED BY <1>0, <2>1, <3>2, <3>4, RoomFacts
  <2> QED BY <2>2, <2>3
<1>6. ASSUME NEW d \in Devices, ReceiveMessage(d) PROVE Room' >= Room
  <2>1. draining' = draining /\ messages' = messages + 1 /\ job["tcp"].step = "idle"
    BY <1>6 DEF ReceiveMessage, Idle
  <2>2. [of |-> d, counted |-> FALSE] \in Chats
    BY DEF Chats
  <2>3. \/ Len(chatQueue') = Len(chatQueue) + 1 /\ job'["tcp"] = job["tcp"]
        \/ Len(chatQueue') = Len(chatQueue) /\ job'["tcp"].step = "load"
    BY <1>6, <2>2, RoomFacts, ChatsGrow DEF ReceiveMessage
  <2>4. /\ TcpOwes = 0
        /\ \/ Len(chatQueue') = Len(chatQueue) + 1 /\ TcpOwes' = 0
           \/ Len(chatQueue') = Len(chatQueue) /\ TcpOwes' = 2
    BY <2>1, <2>3 DEF TcpOwes
  <2>5. CASE Len(chatQueue') = Len(chatQueue) + 1 /\ TcpOwes' = 0
    <3>1. PICK q \in Nat, r \in Nat : q = Len(chatQueue) /\ r = Len(draining)
      BY RoomFacts
    <3>2. /\ Room = StoredUnread + 2 * messages - (q + r)
          /\ Room' = StoredUnread + 2 * (messages + 1) - ((q + 1) + r)
      BY <1>0, <2>1, <2>4, <2>5, <3>1, RoomFacts
    <3> QED BY <3>1, <3>2, RoomFacts
  <2>6. CASE Len(chatQueue') = Len(chatQueue) /\ TcpOwes' = 2
    BY <1>0, <2>1, <2>4, <2>6, RoomFacts
  <2> QED BY <2>4, <2>5, <2>6
<1>7. CASE CountUnread \/ DrainChat
  BY <1>7, CountTakesRoom, DrainTakesRoom, RoomFacts
<1>8. CASE BeginChats
  <2>1. UNCHANGED <<job, messages>> /\ draining = <<>> /\ draining' = chatQueue
        /\ chatQueue' = <<>>
    BY <1>8 DEF BeginChats, UiIdle
  <2>2. TcpOwes' = TcpOwes
    BY <2>1 DEF TcpOwes
  <2> QED BY <1>0, <2>1, <2>2, RoomFacts, ChatsGrow
<1>9. CASE Crash
  <2>1. messages' = messages /\ chatQueue' = <<>> /\ draining' = <<>>
        /\ job'["tcp"].step = "idle"
    BY <1>9, RoomFacts DEF Crash, Idle
  <2>2. TcpOwes' = 0
    BY <2>1 DEF TcpOwes
  <2> QED BY <1>0, <2>1, <2>2, RoomFacts, ChatsGrow
<1>10. CASE \/ \E a \in Announcements : Receive(a)
            \/ Upsert \/ Purge \/ PurgeFails \/ DrainProfile \/ LoadForUnread \/ RefreshOnline
            \/ \E d \in Devices : Select(d) \/ Expire(d)
            \/ UNCHANGED profVars
  BY <1>3, <1>10, RoomFacts
  DEF Receive, Upsert, Purge, PurgeFails, DrainProfile, LoadForUnread, RefreshOnline, Select, StartSave,
      Expire, profVars
<1> QED
  BY <1>4, <1>5, <1>6, <1>7, <1>8, <1>9, <1>10 DEF ProfNext, RefreshPeersStep

\* With more room everything that fitted still fits.
LEMMA MoreRoom ==
  ASSUME NEW n \in Nat, NEW m \in Nat, n <= m,
         NEW v, v \in WholeProfiles \/ v \in ListItems, Fits(v, n)
  PROVE  Fits(v, m)
BY DEF Fits, WholeProfiles, ListItems

\* The files.
LEMMA ProfilesStillFit ==
  ASSUME ProfileTypes, ProfileTypes', [ProfNext]_profVars, NEW n \in Nat, NEW m \in Nat,
         n <= m, ProfilesFit(n), JobsFit(n)
  PROVE  ProfilesFit(m)'
<1> SUFFICES ASSUME NEW d \in Devices, Readable(d)' PROVE Fits(profile'[d], m)
  BY DEF ProfilesFit
<1>0. /\ profile'[d] \in WholeProfiles
      /\ profile \in [Devices -> WholeProfiles \union Unreadable]
  <2>1. profile' \in [Devices -> WholeProfiles \union Unreadable]
    BY DEF ProfileTypes
  <2>2. profile'[d].file = "whole"
    BY DEF Readable
  <2> QED BY <2>1, <2>2, FilesDiffer DEF ProfileTypes
<1>1. CASE profile'[d] = profile[d]
  <2>1. Readable(d)
    BY <1>1 DEF Readable
  <2> QED BY <1>0, <1>1, <2>1, MoreRoom DEF ProfilesFit
<1>2. ASSUME NEW t \in ProfileThreads, Truncate(t) PROVE Fits(profile'[d], m)
  <2>1. profile' = [profile EXCEPT ![job[t].of] = Torn]
    BY <1>2 DEF Truncate
  <2>2. profile'[d] # Torn
    BY <1>0, FilesDiffer
  <2> QED BY <1>0, <1>1, <2>1, <2>2
<1>3. ASSUME NEW t \in ProfileThreads, Write(t) PROVE Fits(profile'[d], m)
  <2>1. job[t].step = "write"
    BY <1>3 DEF Write
  <2>2. Fits(job[t].put, n) /\ job[t].put \in WholeProfiles
    BY <2>1, SavingJobs DEF JobsFit, Saving
  <2>3. PICK file : /\ profile' = [profile EXCEPT ![job[t].of] = file]
                    /\ file = job[t].put \/ file = Mixed
    BY <1>3, FlushedFiles DEF Write
  <2>4. profile'[d] # Mixed
    BY <1>0, FilesDiffer
  <2> QED BY <1>0, <1>1, <2>2, <2>3, <2>4, MoreRoom
<1>4. CASE Purge \/ PurgeFails
  <2>1. profile'[d] = Missing \/ profile'[d] = profile[d]
    BY <1>4 DEF Purge, PurgeFails, WithoutProfiles
  <2> QED BY <1>0, <1>1, <2>1, FilesDiffer
<1>5. CASE UNCHANGED profile
  BY <1>1, <1>5
<1>6. CASE \/ \E a \in Announcements : Receive(a)
           \/ Upsert \/ CountUnread \/ RefreshOnline \/ Crash \/ RefreshPeersStep
           \/ \E e \in Devices : ReceiveMessage(e) \/ Select(e) \/ Expire(e)
           \/ UNCHANGED profVars
  BY <1>5, <1>6
  DEF Receive, Upsert, CountUnread, RefreshOnline, Crash, RefreshPeersStep, DrainProfile,
      BeginChats, DrainChat, LoadForUnread, ReceiveMessage, Select, Expire, profVars
<1> QED
  BY <1>2, <1>3, <1>4, <1>6 DEF ProfNext

\* The list.  What the UI thread writes into it is a counter of the queue, of a file
\* or one more than it was.
LEMMA SavedItemFits ==
  ASSUME ProfileTypes, NEW n \in Nat, NEW m \in Nat, n <= m, ListFits(n),
         NEW e \in Devices, NEW count \in Nat, count <= m, StartSave(e, count),
         NEW d \in Devices, Listed(d)'
  PROVE  Fits(list'[d], m)
<1>1. /\ list \in [Devices -> ListItems \union {Unlisted}]
      /\ list' = IF Listed(e) THEN [list EXCEPT ![e].unread = count] ELSE list
  BY DEF ProfileTypes, StartSave
<1>2. CASE list'[d] = list[d]
  <2>1. Listed(d) /\ list[d] \in ListItems
    BY <1>1, <1>2 DEF Listed
  <2> QED BY <1>2, <2>1, MoreRoom DEF ListFits
<1>3. CASE Listed(e) /\ d = e
  <2>1. list[d] \in ListItems /\ Fits(list[d], n)
    BY <1>1, <1>3 DEF Listed, ListFits
  <2>2. list'[d] = [list[d] EXCEPT !.unread = count]
    BY <1>1, <1>3
  <2> QED BY <2>1, <2>2 DEF Fits, ListItems
<1> QED
  BY <1>1, <1>2, <1>3

LEMMA ListStillFits ==
  ASSUME ProfileTypes, ProfileTypes', [ProfNext]_profVars, NEW n \in Nat, NEW m \in Nat,
         n <= m, DrainChat => m = n + 1, ValuesFit(n)
  PROVE  ListFits(m)'
<1> SUFFICES ASSUME NEW d \in Devices, Listed(d)' PROVE Fits(list'[d], m)
  BY DEF ListFits
<1>0. /\ list \in [Devices -> ListItems \union {Unlisted}]
      /\ list'[d] \in ListItems /\ ListFits(n)
  BY DEF ProfileTypes, Listed, ValuesFit
<1>1. CASE list'[d] = list[d]
  <2>1. Listed(d)
    BY <1>1 DEF Listed
  <2> QED BY <1>0, <1>1, <2>1, MoreRoom DEF ListFits
<1>2. CASE DrainProfile
  <2>1. PICK q \in Queued : q = Head(profileQueue)
    BY <1>2, QueueLoses DEF DrainProfile, ProfileTypes
  <2>2. Fits(q.put, n) /\ q.put \in WholeProfiles
    BY <1>2, <2>1, QueueLoses
    DEF DrainProfile, ProfileTypes, ValuesFit, QueueFits, Queued
  <2>3. \/ list'[d] = Unlisted \/ list'[d] = list[d]
        \/ list'[d].seen = q.put.seen /\ list'[d].unread = q.put.unread
    BY <1>2, <2>1 DEF DrainProfile, Applied, Item
  <2>4. list'[d] # Unlisted
    BY DEF Listed
  <2>5. CASE list'[d].seen = q.put.seen /\ list'[d].unread = q.put.unread
    BY <2>2, <2>5, MoreRoom DEF Fits
  <2> QED BY <1>1, <2>3, <2>4, <2>5
<1>3. CASE DrainChat
  <2>1. PICK c \in Chats : c = Head(draining)
    BY <1>3, QueueLoses DEF DrainChat, ProfileTypes
  <2>2. c.of \in Devices /\ m = n + 1
    BY <1>3 DEF Chats
  <2>3. Listed(c.of) => /\ list[c.of] \in ListItems /\ list[c.of].unread \in Nat
                        /\ list[c.of].unread + 1 <= m /\ list[c.of].seen \in 1 .. MaxStamp
    <3>1. Listed(c.of) => list[c.of] \in ListItems /\ Fits(list[c.of], n)
      BY <1>0, <2>2 DEF Listed, ListFits
    <3> QED BY <2>2, <3>1 DEF ListItems, Fits
  <2>4. \/ UNCHANGED list
        \/ list' = IF Listed(c.of) THEN [list EXCEPT ![c.of].unread = @ + 1] ELSE list
        \/ StartSave(c.of, IF Listed(c.of) THEN list[c.of].unread + 1 ELSE 1)
    BY <1>3, <2>1 DEF DrainChat
  <2>5. CASE list' = IF Listed(c.of) THEN [list EXCEPT ![c.of].unread = @ + 1] ELSE list
    <3>1. CASE Listed(c.of) /\ d = c.of
      <4>1. list'[d].seen = list[d].seen /\ list'[d].unread = list[d].unread + 1
        BY <1>0, <2>3, <2>5, <3>1 DEF ListItems
      <4> QED BY <2>3, <3>1, <4>1 DEF Fits
    <3> QED BY <1>0, <1>1, <2>5, <3>1
  <2>6. CASE StartSave(c.of, IF Listed(c.of) THEN list[c.of].unread + 1 ELSE 1)
    <3>1. PICK count \in Nat : /\ count = IF Listed(c.of) THEN list[c.of].unread + 1 ELSE 1
                               /\ count <= m
      BY <2>2, <2>3
    <3> QED BY <1>0, <2>2, <2>6, <3>1, SavedItemFits
  <2> QED BY <1>1, <2>4, <2>5, <2>6
<1>4. ASSUME NEW e \in Devices, Select(e) PROVE Fits(list'[d], m)
  <2>1. UNCHANGED list \/ StartSave(e, 0)
    BY <1>4 DEF Select
  <2> QED BY <1>0, <1>1, <2>1, SavedItemFits
<1>5. ASSUME NEW e \in Devices, Expire(e) PROVE Fits(list'[d], m)
  <2>1. list' = [list EXCEPT ![e].signal = "over"] /\ Listed(e)
    BY <1>5 DEF Expire
  <2>2. CASE d = e
    <3>1. list[d] \in ListItems /\ Fits(list[d], n)
      BY <1>0, <2>1, <2>2 DEF Listed, ListFits
    <3>2. list'[d].seen = list[d].seen /\ list'[d].unread = list[d].unread
      BY <1>0, <2>1, <2>2, <3>1 DEF ListItems
    <3> QED BY <3>1, <3>2, MoreRoom DEF Fits
  <2> QED BY <1>0, <1>1, <2>1, <2>2
<1>6. CASE RefreshOnline
  <2>1. list'[d] = IF Listed(d) THEN [list[d] EXCEPT !.online = OnlineNow(list[d])]
                   ELSE Unlisted
    BY <1>6 DEF RefreshOnline
  <2>2. Listed(d)
    BY <2>1 DEF Listed
  <2>3. list[d] \in ListItems /\ Fits(list[d], n)
    BY <1>0, <2>2 DEF Listed, ListFits
  <2>4. list'[d].seen = list[d].seen /\ list'[d].unread = list[d].unread
    BY <2>1, <2>2, <2>3 DEF ListItems
  <2> QED BY <2>3, <2>4, MoreRoom DEF Fits
<1>7. CASE Crash
  <2>1. /\ Readable(d) /\ list'[d].seen = profile[d].seen
        /\ list'[d].unread = profile[d].unread
    BY <1>7 DEF Crash, Listed, Loaded, Item
  <2>2. profile[d] \in WholeProfiles /\ Fits(profile[d], n)
    BY <2>1, FilesDiffer DEF Readable, ProfileTypes, ValuesFit, ProfilesFit
  <2> QED BY <2>1, <2>2, MoreRoom DEF Fits
<1>8. CASE UNCHANGED list
  BY <1>1, <1>8
<1>9. CASE \/ \E t \in ProfileThreads : Truncate(t) \/ Write(t)
           \/ \E a \in Announcements : Receive(a)
           \/ Upsert \/ Purge \/ PurgeFails \/ CountUnread \/ BeginChats \/ LoadForUnread
           \/ \E e \in Devices : ReceiveMessage(e)
           \/ UNCHANGED profVars
  BY <1>8, <1>9
  DEF Truncate, Write, Receive, Upsert, Purge, PurgeFails, CountUnread, BeginChats, LoadForUnread,
      ReceiveMessage, profVars
<1> QED
  BY <1>2, <1>3, <1>4, <1>5, <1>6, <1>7, <1>9 DEF ProfNext, RefreshPeersStep

\* The upsert makes a profile of an announcement and, if there is one, of the file.
LEMMA UpsertedFits ==
  ASSUME ProfileTypes, NEW n \in Nat, ProfilesFit(n), JobsFit(n),
         job["discovery"].step = "load"
  PROVE  /\ job["discovery"].of \in Devices
         /\ job["discovery"].note \in Announcements
         /\ Readable(job["discovery"].of) =>
              /\ Fits(profile[job["discovery"].of], n)
              /\ Fits(Updated(job["discovery"].note, profile[job["discovery"].of]), n)
         /\ \A first, older : Fits(Profile(job["discovery"].note.stamp,
                                         job["discovery"].note.version, 0, first, older), n)
<1>1. PICK j : j = job["discovery"] /\ j \in DiscoveryJobs /\ j.step = "load"
  BY ThreadJobs
<1>2. j.of \in Devices /\ j.note \in Announcements
  BY <1>1 DEF DiscoveryJobs, Idle, JobsFit
<1>3. j.note.stamp \in 1 .. MaxStamp
  BY <1>2 DEF Announcements
<1>4. Readable(j.of) => profile[j.of] \in WholeProfiles /\ Fits(profile[j.of], n)
  BY <1>2, FilesDiffer DEF Readable, ProfileTypes, ProfilesFit
<1>5. Readable(j.of) => Fits(Updated(j.note, profile[j.of]), n)
  BY <1>3, <1>4 DEF Updated, Profile, Fits
<1>6. \A first, older : Fits(Profile(j.note.stamp, j.note.version, 0, first, older), n)
  BY <1>3 DEF Profile, Fits
<1> QED
  BY <1>1, <1>2, <1>4, <1>5, <1>6

\* The profiles on their way to the list.
LEMMA AppendedFits ==
  ASSUME ProfileTypes, NEW n \in Nat, NEW m \in Nat, n <= m, QueueFits(n),
         NEW put \in WholeProfiles, NEW note \in Announcements, Fits(put, n),
         profileQueue' = Append(profileQueue, [put |-> put, note |-> note])
  PROVE  QueueFits(m)'
<1>1. [put |-> put, note |-> note] \in Queued /\ profileQueue \in Seq(Queued)
  BY AnnouncementsAreNotes DEF Queued, ProfileTypes
<1> SUFFICES ASSUME NEW i \in 1 .. Len(profileQueue')
             PROVE  Fits(profileQueue'[i].put, m) /\ profileQueue'[i].note \in Announcements
  BY DEF QueueFits
<1>2. CASE i \in 1 .. Len(profileQueue) /\ profileQueue'[i] = profileQueue[i]
  <2>1. profileQueue[i] \in Queued
    BY <1>1, <1>2
  <2>2. profileQueue[i].put \in WholeProfiles
    BY <2>1 DEF Queued
  <2> QED BY <1>2, <2>2, MoreRoom DEF QueueFits
<1>3. CASE profileQueue'[i] = [put |-> put, note |-> note]
  BY <1>3, MoreRoom
<1> QED
  BY <1>1, <1>2, <1>3, QueueTakes

LEMMA QueueStillFits ==
  ASSUME ProfileTypes, ProfileTypes', [ProfNext]_profVars, NEW n \in Nat, NEW m \in Nat,
         n <= m, ValuesFit(n)
  PROVE  QueueFits(m)'
<1>0. ProfilesFit(n) /\ JobsFit(n) /\ QueueFits(n) /\ profileQueue \in Seq(Queued)
  BY DEF ValuesFit, ProfileTypes
<1>1. CASE UNCHANGED profileQueue
  <2> SUFFICES ASSUME NEW i \in 1 .. Len(profileQueue)
               PROVE  Fits(profileQueue[i].put, m) /\ profileQueue[i].note \in Announcements
    BY <1>1 DEF QueueFits
  <2>1. profileQueue[i] \in Queued
    BY <1>0
  <2>2. profileQueue[i].put \in WholeProfiles
    BY <2>1 DEF Queued
  <2> QED BY <1>0, <2>2, MoreRoom DEF QueueFits
<1>2. ASSUME NEW t \in ProfileThreads, Write(t) PROVE QueueFits(m)'
  <2>1. CASE t # "discovery"
    BY <1>1, <1>2, <2>1 DEF Write
  <2>2. CASE t = "discovery"
    <3>1. /\ job[t].step = "write"
          /\ profileQueue' = Append(profileQueue, [put |-> job[t].put, note |-> job[t].note])
      BY <1>2, <2>2 DEF Write
    <3>2. /\ job[t].put \in WholeProfiles /\ Fits(job[t].put, n)
          /\ job[t].note \in Announcements
      BY <1>0, <2>2, <3>1, SavingJobs DEF JobsFit, Saving
    <3> QED BY <1>0, <3>1, <3>2, AppendedFits
  <2> QED BY <2>1, <2>2
<1>3. CASE Upsert
  <2>1. PICK j : j = job["discovery"] /\ j.step = "load"
    BY <1>3 DEF Upsert
  <2>2. \/ UNCHANGED profileQueue
        \/ /\ Readable(j.of)
           /\ \/ profileQueue' = Append(profileQueue, [put |-> profile[j.of], note |-> j.note])
              \/ profileQueue' = Append(profileQueue,
                                   [put |-> Updated(j.note, profile[j.of]), note |-> j.note])
    BY <1>3, <2>1 DEF Upsert
  <2>3. /\ j.of \in Devices /\ j.note \in Announcements
        /\ Readable(j.of) => /\ Fits(profile[j.of], n)
                             /\ Fits(Updated(j.note, profile[j.of]), n)
    BY <1>0, <2>1, UpsertedFits
  <2>4. Readable(j.of) => /\ profile[j.of] \in WholeProfiles
                          /\ Updated(j.note, profile[j.of]) \in WholeProfiles
    <3>1. Readable(j.of) => profile[j.of] \in WholeProfiles
      BY <2>3, FilesDiffer DEF Readable, ProfileTypes
    <3>2. j.note.stamp \in Nat /\ j.note.version \in Versions /\ j.note.from \in Addresses
      BY <2>3, AnnouncementsAreNotes DEF Notes
    <3> QED BY <3>1, <3>2 DEF Updated, Profile, WholeProfiles
  <2> QED BY <1>0, <1>1, <2>2, <2>3, <2>4, AppendedFits
<1>4. CASE DrainProfile
  <2>1. profileQueue # <<>> /\ profileQueue' = Tail(profileQueue)
    BY <1>4 DEF DrainProfile
  <2> SUFFICES ASSUME NEW i \in 1 .. Len(profileQueue')
               PROVE  Fits(profileQueue'[i].put, m) /\ profileQueue'[i].note \in Announcements
    BY DEF QueueFits
  <2>2. i + 1 \in 1 .. Len(profileQueue) /\ profileQueue'[i] = profileQueue[i + 1]
    BY <1>0, <2>1, QueueLoses
  <2>3. profileQueue[i + 1] \in Queued
    BY <1>0, <2>2
  <2>4. profileQueue[i + 1].put \in WholeProfiles
    BY <2>3 DEF Queued
  <2> QED BY <1>0, <2>2, <2>4, MoreRoom DEF QueueFits
<1>5. CASE Crash
  BY <1>5 DEF Crash, QueueFits
<1>6. CASE \/ \E t \in ProfileThreads : Truncate(t)
           \/ \E a \in Announcements : Receive(a)
           \/ Purge \/ PurgeFails \/ CountUnread \/ BeginChats \/ DrainChat \/ LoadForUnread \/ RefreshOnline
           \/ \E e \in Devices : ReceiveMessage(e) \/ Select(e) \/ Expire(e)
           \/ UNCHANGED profVars
  BY <1>1, <1>6
  DEF Truncate, Receive, Purge, PurgeFails, CountUnread, BeginChats, DrainChat, LoadForUnread,
      RefreshOnline, ReceiveMessage, Select, Expire, profVars
<1> QED
  BY <1>2, <1>3, <1>4, <1>5, <1>6 DEF ProfNext, RefreshPeersStep

\* What the threads carry.
LEMMA JobsStillFit ==
  ASSUME ProfileTypes, ProfileTypes', [ProfNext]_profVars, NEW n \in Nat, NEW m \in Nat,
         n <= m, CountUnread \/ DrainChat => m = n + 1, ValuesFit(n)
  PROVE  JobsFit(m)'
<1>0. /\ ProfilesFit(n) /\ JobsFit(n) /\ ListFits(n)
      /\ DOMAIN job = ProfileThreads /\ DOMAIN job' = ProfileThreads
      /\ job["discovery"] \in DiscoveryJobs /\ job["tcp"] \in TcpJobs /\ job["ui"] \in UiJobs
      /\ ProfileThreads = {"discovery", "tcp", "ui"}
  BY ThreadJobs DEF ValuesFit, ProfileTypes
<1>1. ASSUME NEW t \in ProfileThreads, \A s \in ProfileThreads \ {t} : job'[s] = job[s],
             job'[t].step \in Saving => Fits(job'[t].put, m),
             t = "ui" /\ job'[t].step = "load" => job'[t].count <= m,
             t = "discovery" /\ job'[t].step # "idle" => job'[t].note \in Announcements
      PROVE  JobsFit(m)'
  <2>1. ASSUME NEW s \in ProfileThreads, job'[s].step \in Saving
        PROVE  Fits(job'[s].put, m)
    <3>1. CASE s # t
      <4>1. job[s].step \in Saving /\ job'[s].put = job[s].put
        BY <1>1, <2>1, <3>1
      <4>2. job[s].put \in WholeProfiles
        BY <1>0, <4>1 DEF DiscoveryJobs, TcpJobs, UiJobs, Idle, Saving
      <4> QED BY <1>0, <4>1, <4>2, MoreRoom DEF JobsFit
    <3> QED BY <1>1, <2>1, <3>1
  <2>2. job'["ui"].step = "load" => job'["ui"].count <= m
    <3>1. CASE t # "ui"
      <4>1. job'["ui"] = job["ui"]
        BY <1>0, <1>1, <3>1
      <4>2. job["ui"].step = "load" => job["ui"].count \in Nat /\ job["ui"].count <= n
        BY <1>0 DEF UiJobs, Idle, JobsFit
      <4> QED BY <4>1, <4>2
    <3> QED BY <1>1, <3>1
  <2>3. job'["discovery"].step # "idle" => job'["discovery"].note \in Announcements
    <3>1. CASE t # "discovery"
      <4>1. job'["discovery"] = job["discovery"]
        BY <1>0, <1>1, <3>1
      <4> QED BY <1>0, <4>1 DEF JobsFit
    <3> QED BY <1>1, <3>1
  <2> QED BY <2>1, <2>2, <2>3 DEF JobsFit
<1>2. CASE UNCHANGED job
  <2>1. "tcp" \in ProfileThreads /\ job'["tcp"] = job["tcp"]
    BY <1>0, <1>2
  <2>2. job["tcp"].step \in Saving => Fits(job["tcp"].put, m)
    <3>1. job["tcp"].step \in Saving => job["tcp"].put \in WholeProfiles
      BY <1>0 DEF TcpJobs, Idle, Saving
    <3> QED BY <1>0, <2>1, <3>1, MoreRoom DEF JobsFit
  <2> QED BY <1>1, <1>2, <2>1, <2>2
<1>3. ASSUME NEW t \in ProfileThreads, job' = [job EXCEPT ![t] = Idle]
      PROVE  JobsFit(m)'
  <2>1. job'[t].step = "idle" /\ \A s \in ProfileThreads \ {t} : job'[s] = job[s]
    BY <1>0, <1>3 DEF Idle
  <2> QED BY <1>1, <2>1 DEF Saving
<1>4. ASSUME NEW t \in ProfileThreads, Truncate(t) PROVE JobsFit(m)'
  <2>1. job[t].step = "truncate" /\ job' = [job EXCEPT ![t].step = "write"]
    BY <1>4 DEF Truncate
  <2>2. job[t].put \in WholeProfiles /\ Fits(job[t].put, n)
    BY <1>0, <2>1, SavingJobs DEF JobsFit, Saving
  <2>3. /\ job'[t].step = "write" /\ job'[t].put = job[t].put
        /\ t = "discovery" => job'[t].note = job[t].note
        /\ \A s \in ProfileThreads \ {t} : job'[s] = job[s]
    <3>1. job'[t] = [job[t] EXCEPT !.step = "write"]
      BY <1>0, <2>1
    <3> QED BY <1>0, <2>1, <3>1 DEF DiscoveryJobs, TcpJobs, UiJobs, Idle
  <2>4. t = "discovery" => job[t].note \in Announcements
    BY <1>0, <2>1 DEF JobsFit
  <2> QED BY <1>1, <2>2, <2>3, <2>4, MoreRoom
<1>5. ASSUME NEW t \in ProfileThreads, Write(t) PROVE JobsFit(m)'
  BY <1>3, <1>5 DEF Write
<1>6. ASSUME NEW a \in Announcements, Receive(a) PROVE JobsFit(m)'
  <2>1. /\ job'["discovery"].step = "load" /\ job'["discovery"].note = a
        /\ \A s \in ProfileThreads \ {"discovery"} : job'[s] = job[s]
    BY <1>0, <1>6 DEF Receive
  <2> QED BY <1>0, <1>1, <2>1 DEF Saving
<1>7. CASE Upsert
  <2>1. PICK j : j = job["discovery"] /\ j.step = "load"
    BY <1>7 DEF Upsert
  <2>2. \/ job' = [job EXCEPT !["discovery"] = Idle]
        \/ job' = [job EXCEPT !["discovery"] = LoadForUpsert(j)]
    BY <1>7, <2>1 DEF Upsert
  <2>3. /\ j.of \in Devices /\ j.note \in Announcements
        /\ Readable(j.of) => /\ profile[j.of] \in WholeProfiles
                             /\ Fits(Updated(j.note, profile[j.of]), n)
        /\ Fits(Profile(j.note.stamp, j.note.version, 0, j.note.from, {j.note.from}), n)
    <3>1. j.of \in Devices
      BY <1>0, <2>1, UpsertedFits
    <3> QED BY <1>0, <2>1, <3>1, UpsertedFits, FilesDiffer DEF Readable, ProfileTypes
  <2>4. CASE job' = [job EXCEPT !["discovery"] = LoadForUpsert(j)]
    <3>1. /\ job'["discovery"] = LoadForUpsert(j) /\ "discovery" \in ProfileThreads
          /\ \A s \in ProfileThreads \ {"discovery"} : job'[s] = job[s]
      BY <1>0, <2>4
    <3>2. /\ LoadForUpsert(j).step = "purge" /\ LoadForUpsert(j).note = j.note
          /\ LoadForUpsert(j).put \in WholeProfiles /\ Fits(LoadForUpsert(j).put, n)
      <4>1. j.note.stamp \in Nat /\ j.note.version \in Versions /\ j.note.from \in Addresses
        BY <2>3, AnnouncementsAreNotes DEF Notes
      <4>2. /\ Readable(j.of) => Updated(j.note, profile[j.of]) \in WholeProfiles
            /\ Profile(j.note.stamp, j.note.version, 0, j.note.from, {j.note.from})
                 \in WholeProfiles
        BY <2>3, <4>1 DEF Updated, Profile, WholeProfiles
      <4> QED BY <2>3, <4>2 DEF LoadForUpsert
    <3>3. Fits(job'["discovery"].put, m)
      BY <3>1, <3>2, MoreRoom
    <3> QED BY <1>1, <2>3, <3>1, <3>2, <3>3
  <2> QED BY <1>0, <1>3, <2>2, <2>4
<1>8. CASE Purge
  <2>1. job["discovery"].step = "purge" /\ job' = [job EXCEPT !["discovery"].step = "truncate"]
    BY <1>8 DEF Purge
  <2>2. /\ job["discovery"].put \in WholeProfiles /\ Fits(job["discovery"].put, n)
        /\ job["discovery"].note \in Announcements
    BY <1>0, <2>1 DEF JobsFit, Saving, DiscoveryJobs, Idle
  <2>3. /\ job'["discovery"].step = "truncate"
        /\ job'["discovery"].put = job["discovery"].put
        /\ job'["discovery"].note = job["discovery"].note
        /\ \A s \in ProfileThreads \ {"discovery"} : job'[s] = job[s]
    <3>1. job'["discovery"] = [job["discovery"] EXCEPT !.step = "truncate"]
      BY <1>0, <2>1
    <3> QED BY <1>0, <2>1, <3>1 DEF DiscoveryJobs, Idle
  <2> QED BY <1>0, <1>1, <2>2, <2>3, MoreRoom
<1>17. CASE PurgeFails
  BY <1>0, <1>3, <1>17 DEF PurgeFails
<1>9. ASSUME NEW d \in Devices, ReceiveMessage(d) PROVE JobsFit(m)'
  <2>1. \/ UNCHANGED job
        \/ /\ job'["tcp"].step = "load"
           /\ \A s \in ProfileThreads \ {"tcp"} : job'[s] = job[s]
    BY <1>0, <1>9 DEF ReceiveMessage
  <2> QED BY <1>0, <1>1, <1>2, <2>1 DEF Saving
<1>10. CASE CountUnread
  <2>1. PICK d : d = job["tcp"].of /\ job["tcp"].step = "load"
    BY <1>10 DEF CountUnread
  <2>2. \/ job' = [job EXCEPT !["tcp"] = Idle]
        \/ /\ Readable(d)
           /\ job' = [job EXCEPT !["tcp"] =
                [step |-> "truncate", of |-> d,
                 put |-> [profile[d] EXCEPT !.unread = @ + 1]]]
    BY <1>10, <2>1 DEF CountUnread
  <2>3. CASE /\ Readable(d)
             /\ job' = [job EXCEPT !["tcp"] =
                  [step |-> "truncate", of |-> d,
                   put |-> [profile[d] EXCEPT !.unread = @ + 1]]]
    <3>1. d \in Devices /\ m = n + 1
      BY <1>0, <1>10, <2>1 DEF TcpJobs, Idle
    <3>2. profile[d] \in WholeProfiles /\ Fits(profile[d], n)
      BY <1>0, <2>3, <3>1, FilesDiffer DEF Readable, ProfileTypes, ProfilesFit
    <3>3. Fits([profile[d] EXCEPT !.unread = @ + 1], m)
      BY <3>1, <3>2 DEF WholeProfiles, Fits
    <3>4. /\ job'["tcp"].put = [profile[d] EXCEPT !.unread = @ + 1]
          /\ \A s \in ProfileThreads \ {"tcp"} : job'[s] = job[s]
      BY <1>0, <2>3
    <3> QED BY <1>0, <1>1, <3>3, <3>4
  <2> QED BY <1>0, <1>3, <2>2, <2>3
\* The job of the user interface when a counter is saved.
<1>11. ASSUME NEW e, NEW count \in Nat, count <= m, StartSave(e, count)
       PROVE  JobsFit(m)'
  <2>1. /\ job'["ui"].step = "load" /\ job'["ui"].count = count
        /\ \A s \in ProfileThreads \ {"ui"} : job'[s] = job[s]
    BY <1>0, <1>11 DEF StartSave
  <2> QED BY <1>0, <1>1, <1>11, <2>1 DEF Saving
<1>12. CASE DrainChat
  <2>1. PICK c \in Chats : c = Head(draining)
    BY <1>12, QueueLoses DEF DrainChat, ProfileTypes
  <2>2. c.of \in Devices /\ m = n + 1
    BY <1>12 DEF Chats
  <2>3. Listed(c.of) => list[c.of].unread \in Nat /\ list[c.of].unread + 1 <= m
    <3>1. Listed(c.of) => list[c.of] \in ListItems /\ Fits(list[c.of], n)
      BY <1>0, <2>2 DEF Listed, ListFits, ProfileTypes
    <3> QED BY <2>2, <3>1 DEF ListItems, Fits
  <2>4. \/ UNCHANGED job
        \/ StartSave(c.of, IF Listed(c.of) THEN list[c.of].unread + 1 ELSE 1)
    BY <1>12, <2>1 DEF DrainChat
  <2>5. CASE StartSave(c.of, IF Listed(c.of) THEN list[c.of].unread + 1 ELSE 1)
    <3>1. PICK count \in Nat : /\ count = IF Listed(c.of) THEN list[c.of].unread + 1 ELSE 1
                               /\ count <= m
      BY <2>2, <2>3
    <3> QED BY <1>11, <2>5, <3>1
  <2> QED BY <1>2, <2>4, <2>5
<1>13. ASSUME NEW d \in Devices, Select(d) PROVE JobsFit(m)'
  <2>1. UNCHANGED job \/ StartSave(d, 0)
    BY <1>13 DEF Select
  <2> QED BY <1>2, <1>11, <2>1
<1>14. CASE LoadForUnread
  <2>1. PICK j : j = job["ui"] /\ j.step = "load"
    BY <1>14 DEF LoadForUnread
  <2>2. j.of \in Devices /\ j.count \in Nat /\ j.count <= m
    BY <1>0, <2>1 DEF UiJobs, Idle, JobsFit
  <2>3. \/ job' = [job EXCEPT !["ui"] = Idle]
        \/ /\ Readable(j.of)
           /\ job' = [job EXCEPT !["ui"] =
                [step |-> "truncate", of |-> j.of,
                 put |-> [profile[j.of] EXCEPT !.unread = j.count]]]
    BY <1>14, <2>1 DEF LoadForUnread
  <2>4. CASE /\ Readable(j.of)
             /\ job' = [job EXCEPT !["ui"] =
                  [step |-> "truncate", of |-> j.of,
                   put |-> [profile[j.of] EXCEPT !.unread = j.count]]]
    <3>1. profile[j.of] \in WholeProfiles /\ Fits(profile[j.of], n)
      BY <1>0, <2>2, <2>4, FilesDiffer DEF Readable, ProfileTypes, ProfilesFit
    <3>2. Fits([profile[j.of] EXCEPT !.unread = j.count], m)
      BY <2>2, <3>1 DEF WholeProfiles, Fits
    <3>3. /\ job'["ui"].put = [profile[j.of] EXCEPT !.unread = j.count]
          /\ job'["ui"].step = "truncate"
          /\ \A s \in ProfileThreads \ {"ui"} : job'[s] = job[s]
      BY <1>0, <2>4
    <3> QED BY <1>0, <1>1, <3>2, <3>3
  <2> QED BY <1>0, <1>3, <2>3, <2>4
<1>15. CASE Crash
  <2>1. \A t \in ProfileThreads : job'[t].step = "idle"
    BY <1>15 DEF Crash, Idle
  <2> QED BY <1>0, <2>1 DEF JobsFit, Saving
<1>16. CASE \/ DrainProfile \/ BeginChats \/ RefreshOnline
            \/ \E d \in Devices : Expire(d)
            \/ UNCHANGED profVars
  BY <1>2, <1>16 DEF DrainProfile, BeginChats, RefreshOnline, Expire, profVars
<1> QED
  BY <1>4, <1>5, <1>6, <1>7, <1>8, <1>9, <1>10, <1>12, <1>13, <1>14, <1>15, <1>16,
     <1>17
  DEF ProfNext, RefreshPeersStep

\* The selection follows the list.
LEMMA SelectionStep ==
  ASSUME ProfileTypes, SelectedIsListed, NEW n \in Nat, QueueFits(n), [ProfNext]_profVars
  PROVE  SelectedIsListed'
<1>0. /\ selected \in Devices \union {NoDevice} /\ (selected # NoDevice => Listed(selected))
      /\ left \in [Devices -> 0..MaxStamp]
      /\ list \in [Devices -> ListItems \union {Unlisted}]
      /\ 0 \in 0..MaxStamp
  BY ProfilesAssumption DEF SelectedIsListed, ProfileTypes
<1>1. ASSUME UNCHANGED <<left, selected>>, \A d \in Devices : Listed(d) => Listed(d)'
      PROVE  SelectedIsListed'
  BY <1>0, <1>1 DEF SelectedIsListed
<1>2. CASE UNCHANGED <<left, selected, list>>
  BY <1>1, <1>2 DEF Listed
<1>3. CASE DrainProfile
  <2>1. PICK q \in Queued : q = Head(profileQueue)
    BY <1>3, QueueLoses DEF DrainProfile, ProfileTypes
  <2>2. q.note.of \in Devices /\ q.note.stamp \in 0..MaxStamp
    <3>1. q.note \in Announcements
      BY <1>3, <2>1, QueueLoses DEF DrainProfile, ProfileTypes, QueueFits
    <3> QED BY <3>1, ProfilesAssumption DEF Announcements
  <2>3. left' \in [Devices -> 0..MaxStamp]
    <3>1. PICK x \in 0..MaxStamp : left' = [left EXCEPT ![q.note.of] = x]
      BY <1>0, <1>3, <2>1, <2>2 DEF DrainProfile
    <3> QED BY <1>0, <3>1
  <2>4. selected' = Synced(list')
    BY <1>3 DEF DrainProfile
  <2>5. /\ selected' \in Devices \union {NoDevice}
        /\ selected' # NoDevice => list'[selected'] # Unlisted
    BY <1>0, <2>4 DEF Synced
  <2> QED BY <2>3, <2>5 DEF SelectedIsListed, Listed
<1>4. ASSUME NEW d \in Devices, NEW count \in Nat, StartSave(d, count)
      PROVE  \A e \in Devices : Listed(e) => Listed(e)'
  <2> SUFFICES ASSUME NEW e \in Devices, Listed(e) PROVE Listed(e)'
    OBVIOUS
  <2>1. list[e] \in ListItems
    BY <1>0 DEF Listed
  <2>2. list'[e] = list[e] \/ list'[e] = [list[e] EXCEPT !.unread = count]
    BY <1>0, <1>4 DEF StartSave
  <2>3. list'[e] \in ListItems
    BY <2>1, <2>2 DEF ListItems
  <2> QED BY <2>3, ItemsDiffer DEF Listed
<1>5. CASE DrainChat
  <2>1. PICK c \in Chats : c = Head(draining)
    BY <1>5, QueueLoses DEF DrainChat, ProfileTypes
  <2>2. c.of \in Devices /\ UNCHANGED <<left, selected>>
    BY <1>5 DEF Chats, DrainChat
  <2>3. Listed(c.of) => list[c.of] \in ListItems /\ list[c.of].unread \in Nat
    BY <1>0, <2>2 DEF Listed, ListItems
  <2>4. \/ UNCHANGED list
        \/ list' = IF Listed(c.of) THEN [list EXCEPT ![c.of].unread = @ + 1] ELSE list
        \/ StartSave(c.of, IF Listed(c.of) THEN list[c.of].unread + 1 ELSE 1)
    BY <1>5, <2>1 DEF DrainChat
  <2>5. CASE list' = IF Listed(c.of) THEN [list EXCEPT ![c.of].unread = @ + 1] ELSE list
    <3>1. [list[c.of] EXCEPT !.unread = @ + 1] \in ListItems \/ ~Listed(c.of)
      BY <2>3 DEF ListItems
    <3>2. \A e \in Devices : Listed(e) => Listed(e)'
      BY <1>0, <2>2, <2>5, <3>1, ItemsDiffer DEF Listed
    <3> QED BY <1>1, <2>2, <3>2
  <2>6. CASE StartSave(c.of, IF Listed(c.of) THEN list[c.of].unread + 1 ELSE 1)
    <3>1. PICK count \in Nat : count = IF Listed(c.of) THEN list[c.of].unread + 1 ELSE 1
      BY <2>3
    <3> QED BY <1>1, <1>4, <2>2, <2>6, <3>1
  <2> QED BY <1>2, <2>2, <2>4, <2>5, <2>6
<1>6. ASSUME NEW d \in Devices, Select(d) PROVE SelectedIsListed'
  <2>1. /\ selected' = d /\ left' = left /\ Listed(d)
        /\ UNCHANGED list \/ StartSave(d, 0)
    BY <1>6 DEF Select
  <2>2. Listed(d)'
    <3>1. CASE UNCHANGED list
      BY <2>1, <3>1 DEF Listed
    <3>2. CASE StartSave(d, 0)
      BY <1>4, <2>1, <3>2
    <3> QED BY <2>1, <3>1, <3>2
  <2> QED BY <1>0, <2>1, <2>2 DEF SelectedIsListed
<1>7. ASSUME NEW d \in Devices, Expire(d) PROVE SelectedIsListed'
  <2>1. /\ UNCHANGED <<left, selected>> /\ Listed(d)
        /\ list' = [list EXCEPT ![d].signal = "over"]
    BY <1>7 DEF Expire
  <2>2. [list[d] EXCEPT !.signal = "over"] \in ListItems
    <3>1. list[d] \in ListItems
      BY <1>0, <2>1 DEF Listed
    <3> QED BY <3>1 DEF ListItems
  <2>3. \A e \in Devices : Listed(e) => Listed(e)'
    BY <1>0, <2>1, <2>2, ItemsDiffer DEF Listed
  <2> QED BY <1>1, <2>1, <2>3
<1>8. CASE RefreshOnline
  <2>1. /\ UNCHANGED <<left, selected>>
        /\ \A d \in Devices : Listed(d) =>
             list'[d] = [list[d] EXCEPT !.online = OnlineNow(list[d])]
    BY <1>8 DEF RefreshOnline
  <2>2. \A d \in Devices : Listed(d) => Listed(d)'
    <3> SUFFICES ASSUME NEW d \in Devices, Listed(d) PROVE Listed(d)'
      OBVIOUS
    <3>1. list[d] \in ListItems /\ OnlineNow(list[d]) \in BOOLEAN
      BY <1>0 DEF Listed, OnlineNow
    <3>2. list'[d] \in ListItems
      BY <2>1, <3>1 DEF ListItems
    <3> QED BY <3>2, ItemsDiffer DEF Listed
  <2> QED BY <1>1, <2>1, <2>2
<1>9. CASE Crash
  BY <1>0, <1>9 DEF Crash, SelectedIsListed
<1>10. CASE \/ \E t \in ProfileThreads : Truncate(t) \/ Write(t)
            \/ \E a \in Announcements : Receive(a)
            \/ Upsert \/ Purge \/ PurgeFails \/ CountUnread \/ BeginChats \/ LoadForUnread
            \/ \E d \in Devices : ReceiveMessage(d)
            \/ UNCHANGED profVars
  BY <1>2, <1>10
  DEF Truncate, Write, Receive, Upsert, Purge, PurgeFails, CountUnread, BeginChats, LoadForUnread,
      ReceiveMessage, profVars
<1> QED
  BY <1>3, <1>5, <1>6, <1>7, <1>8, <1>9, <1>10 DEF ProfNext, RefreshPeersStep

LEMMA CountInvInit == ProfInit => CountInv
<1> SUFFICES ASSUME ProfInit PROVE CountInv
  OBVIOUS
<1>1. Idle.step = "idle" /\ Len(<<>>) = 0 /\ "tcp" \in ProfileThreads
      /\ "ui" \in ProfileThreads /\ "discovery" \in ProfileThreads
  BY DEF Idle, ProfileThreads
<1>2. \A t \in ProfileThreads : job[t].step = "idle"
  BY <1>1 DEF ProfInit
<1>3. Room = StoredUnread /\ StoredUnread \in Nat
  <2>1. TcpOwes = 0
    BY <1>1, <1>2 DEF TcpOwes
  <2>2. Owed = 0 /\ messages = 0
    BY <1>1, <2>1 DEF ProfInit, Owed
  <2> QED BY <2>2, ProfilesAssumption DEF Room
<1>4. MessagesAreBounded
  BY <1>3, ProfilesAssumption DEF ProfInit, MessagesAreBounded
<1>5. SelectedIsListed
  BY ProfilesAssumption DEF ProfInit, SelectedIsListed
<1>6. ProfilesFit(Room)
  <2> SUFFICES ASSUME NEW d \in Devices, Readable(d) PROVE Fits(profile[d], Room)
    BY DEF ProfilesFit
  <2>1. profile[d] \in StoredProfiles
    BY DEF ProfInit, Readable, Missing
  <2>2. profile[d].seen \in 1..MaxStamp /\ profile[d].unread \in 0..StoredUnread
    BY <2>1, StoredAreWhole
  <2> QED BY <1>3, <2>2 DEF Fits
<1>7. ListFits(Room)
  BY <1>6 DEF ProfInit, Loaded, Item, ProfilesFit, ListFits, Listed, Fits
<1>8. QueueFits(Room)
  BY <1>1 DEF ProfInit, QueueFits
<1>9. JobsFit(Room)
  BY <1>1, <1>2 DEF JobsFit, Saving
<1> QED
  BY <1>4, <1>5, <1>6, <1>7, <1>8, <1>9 DEF CountInv, ValuesFit

LEMMA CountInvStep ==
  ASSUME ProfileTypes, CountInv, [ProfNext]_profVars
  PROVE  CountInv'
<1>1. ProfileTypes'
  BY ProfileTypesStep
<1>2. PICK n \in Nat : n = Room
  BY DEF CountInv, MessagesAreBounded
<1>3. MessagesAreBounded' /\ Room' >= Room
  BY RoomStays DEF CountInv
<1>4. PICK m \in Nat : m = Room'
  BY <1>3 DEF MessagesAreBounded
<1>5. n <= m /\ ValuesFit(n) /\ (CountUnread \/ DrainChat => m = n + 1)
  BY <1>2, <1>3, <1>4, CountTakesRoom, DrainTakesRoom DEF CountInv
<1>6. ProfilesFit(m)' /\ ListFits(m)' /\ QueueFits(m)' /\ JobsFit(m)'
  BY <1>1, <1>5, ProfilesStillFit, ListStillFits, QueueStillFits, JobsStillFit DEF ValuesFit
<1>7. SelectedIsListed'
  BY <1>5, SelectionStep DEF CountInv, ValuesFit
<1>8. ValuesFit(Room)'
  BY <1>4, <1>6 DEF ValuesFit, ProfilesFit, ListFits, QueueFits, JobsFit
<1> QED
  BY <1>3, <1>7, <1>8 DEF CountInv

\* The variables of the profiles have their types.  A counter never exceeds what
\* was stored at the start and twice the number of messages received, although three threads load, change and save it: a
\* message is counted once by incrementPersistedPeerUnreadMessageCount and once by
\* drainPendingChatMessages, and every other step carries on a count that is there.
\* The selected peer is always one of the list (syncSelectedPeer).
THEOREM ProfileTypesHold == ProfSpec => []ProfileTypeOK
<1>1. ProfInv /\ CountInv /\ [ProfNext]_profVars => (ProfInv /\ CountInv)'
  BY ProfileTypesStep, StoredStep, GoodbyeStep, CountInvStep DEF ProfInv
<1>2. ProfInv /\ CountInv => ProfileTypeOK
  <2> SUFFICES ASSUME ProfInv, CountInv PROVE ProfileTypeOK
    OBVIOUS
  <2> DEFINE Counts == 0..(StoredUnread + 2 * MaxMessages)
             Profiles == [file : {"whole"}, seen : 1..MaxStamp, version : Versions,
                          unread : Counts, at : Addresses, known : SUBSET Addresses]
             Items == [seen : 1..MaxStamp, version : Versions, unread : Counts,
                       at : Addresses, online : BOOLEAN, signal : {"fresh", "over"}]
  <2>1. ProfileTypes /\ MessagesAreBounded /\ SelectedIsListed /\ ValuesFit(Room)
    BY DEF ProfInv, CountInv
  <2>2. /\ Room \in Nat /\ Room <= StoredUnread + 2 * MaxMessages
        /\ MaxMessages \in Nat /\ StoredUnread \in Nat
    <3>1. messages \in Nat /\ messages <= MaxMessages /\ MaxMessages \in Nat
      BY <2>1, ProfilesAssumption DEF MessagesAreBounded
    <3> QED BY <2>1, <3>1, RoomFacts DEF Room, Owed
  <2>3. \A v \in WholeProfiles : Fits(v, Room) => v \in Profiles
    BY <2>2 DEF WholeProfiles, Fits
  <2>4. \A v \in ListItems : Fits(v, Room) => v \in Items
    BY <2>2 DEF ListItems, Fits
  <2>5. profile \in [Devices -> Profiles \union Unreadable]
    BY <2>1, <2>3, FilesDiffer DEF ProfileTypes, ValuesFit, ProfilesFit, Readable
  <2>6. list \in [Devices -> Items \union {Unlisted}]
    BY <2>1, <2>4 DEF ProfileTypes, ValuesFit, ListFits, Listed
  <2>7. \A i \in DOMAIN profileQueue :
          profileQueue[i].put \in Profiles /\ profileQueue[i].note \in Announcements
    <3> SUFFICES ASSUME NEW i \in DOMAIN profileQueue
                 PROVE  /\ profileQueue[i].put \in Profiles
                        /\ profileQueue[i].note \in Announcements
      OBVIOUS
    <3>1. i \in 1 .. Len(profileQueue) /\ profileQueue[i] \in Queued
      BY <2>1 DEF ProfileTypes
    <3>2. profileQueue[i].put \in WholeProfiles
      BY <3>1 DEF Queued
    <3> QED BY <2>1, <2>3, <3>1, <3>2 DEF ValuesFit, QueueFits
  <2>8. \A t \in ProfileThreads :
          job[t].step \in {"idle", "load", "purge", "truncate", "write"}
    BY <2>1, ThreadJobs DEF DiscoveryJobs, TcpJobs, UiJobs, Idle
  <2>9. heard \subseteq Devices /\ spared \in [Devices -> SUBSET Addresses]
        /\ chatQueue \in Seq(Chats) /\ draining \in Seq(Chats)
    BY <2>1 DEF ProfileTypes
  <2> HIDE DEF Counts, Profiles, Items
  <2>10. /\ selected \in Devices \union {NoDevice} /\ (selected # NoDevice => Listed(selected))
         /\ left \in [Devices -> 0..MaxStamp]
         /\ deliveries \in 0..MaxDeliveries /\ messages \in 0..MaxMessages
         /\ crashes \in 0..MaxCrashes
    BY <2>1 DEF SelectedIsListed, MessagesAreBounded
  <2> QED
    BY <2>5, <2>6, <2>7, <2>8, <2>9, <2>10 DEF ProfileTypeOK, Counts, Profiles, Items, Chats
<1> QED
  BY ProfInvInit, CountInvInit, <1>1, <1>2, PTL DEF ProfSpec
=============================================================================
