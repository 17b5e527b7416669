-------------------------------- MODULE AppUpdate --------------------------------
(***************************************************************************)
(* How a program gets a newer version of itself (app_runtime.cpp): it offers    *)
(* the version of a peer or of the latest GitHub release, downloads the file     *)
(* from there, and has a helper process install it at once or on exit.           *)
(*                                                                         *)
(* The UI thread offers, starts, dismisses and runs the completions of tasks;     *)
(* a worker downloads from GitHub; the TCP thread takes the chunks a peer sends,   *)
(* each in a locked check, an append without the lock and a locked count.          *)
(***************************************************************************)
EXTENDS Naturals, FiniteSets

CONSTANTS
  Peers,          \* peers that may run a newer version
  NewVersions,    \* the versions there are above the program's own, kAppVersion
  Requests,       \* request identifiers, as many as downloads are started
  Size,           \* chunks of the program file
  MaxChecks       \* bound on GitHub checks

ASSUME UpdateAssumption ==
  /\ NewVersions \subseteq Nat \ {0}
  /\ Size \in Nat \ {0} /\ MaxChecks \in Nat
  /\ IsFiniteSet(Requests)

VARIABLES
  known,          \* version of each peer in peers_, 0 when it is not above ours
  online,         \* the peers that are online
  prompt,         \* appUpdatePrompt_
  asked,          \* source, version and mode of each request that was begun,
                  \* and (history) whether DownloadIsShown is about it
  pending,        \* the requests in pendingIncomingAppUpdates_
  received,       \* GetReceivedSize of a pending request
  payload,        \* the file of each request: its chunks, or Removed
  requestedVersion, dismissedVersion,
  scheduled,      \* scheduledAppUpdate_
  githubState, githubRelease,
  checking,       \* the check task runs, or its completion waits
  task,           \* request or download task of each request
  stream,         \* the next chunk a peer sends for a request, or Over
  handler,        \* what the TCP thread is doing
  helper,         \* the helper process of each request
  installed,      \* the request whose file a helper has put in place, or None
  exit,           \* "no", "requested" (appUpdateExitRequested_) or "yes"
  checks

updVars == <<known, online, prompt, asked, pending, received, payload,
             requestedVersion, dismissedVersion, scheduled, githubState,
             githubRelease, checking, task, stream, handler, helper, installed,
             exit, checks>>

GitHub == "GitHub"
Sources == Peers \union {GitHub}
Modes == {"restart now", "install on exit"}
NoUpdate == [source |-> "nobody"]
Removed == Size + 1     \* no number of chunks
Over == 0               \* no chunk
None == "none"
Waiting == [step |-> "wait"]

ASSUME RequestsAssumption == None \notin Requests
ASSUME PeerNamesAssumption == {GitHub, NoUpdate.source} \intersect Peers = {}

UpdTypeOK ==
  /\ known \in [Peers -> NewVersions \union {0}] /\ online \subseteq Peers
  /\ prompt \in [source : Sources, version : NewVersions,
                 state : {"Available", "Downloading", "Failed"}]
       \union {NoUpdate}
  /\ asked \in [Requests -> [source : Sources, version : NewVersions,
                             mode : Modes, plain : BOOLEAN]
                              \union {NoUpdate}]
  /\ pending \subseteq {r \in Requests : asked[r] # NoUpdate}
  /\ received \in [Requests -> 0..Size]
  /\ payload \in [Requests -> 0..Removed]
  /\ requestedVersion \in [Peers -> NewVersions \union {0}]
  /\ dismissedVersion \in [Peers -> NewVersions \union {0}]
  /\ scheduled \in [request : Requests, version : NewVersions]
       \union {NoUpdate}
  /\ githubState \in {"Idle", "Checking", "UpToDate", "Available",
                      "Downloading", "Failed"}
  /\ githubRelease \in NewVersions \union {0}
  /\ checking \in BOOLEAN
  /\ task \in [Requests -> {"none", "running", "done", "failed", "over"}]
  /\ stream \in [Requests -> 0..Size + 1]
  /\ handler.step \in {"wait", "append", "count", "finish"}
  /\ helper \in [Requests -> {"none", "running", "over"}]
  /\ installed \in Requests \union {None}
  /\ exit \in {"no", "requested", "yes"}
  /\ checks \in 0..MaxChecks
  /\ githubState = "Checking" => checking

UpdInit ==
  /\ known = [p \in Peers |-> 0] /\ online = {}
  /\ prompt = NoUpdate /\ scheduled = NoUpdate
  /\ asked = [r \in Requests |-> NoUpdate]
  /\ pending = {} /\ received = [r \in Requests |-> 0]
  /\ payload = [r \in Requests |-> Removed]
  /\ requestedVersion = [p \in Peers |-> 0]
  /\ dismissedVersion = [p \in Peers |-> 0]
  /\ githubState = "Idle" /\ githubRelease = 0 /\ checking = FALSE
  /\ task = [r \in Requests |-> "none"]
  /\ stream = [r \in Requests |-> Over]
  /\ handler = Waiting /\ exit = "no" /\ checks = 0
  /\ helper = [r \in Requests |-> "none"] /\ installed = None

Running == exit # "yes"
PromptOf(source, version) ==
  prompt # NoUpdate /\ prompt.source = source /\ prompt.version = version
Downloading == prompt # NoUpdate /\ prompt.state = "Downloading"
Available(source, version) ==
  [source |-> source, version |-> version, state |-> "Available"]
IsGitHub(r) == asked[r].source = GitHub

-----------------------------------------------------------------------------
(* markAppUpdateFailed, for the steps that end in it.                      *)

GitHubFails(source) ==
  githubState' = IF source = GitHub THEN "Failed" ELSE githubState

ForgetRequest(source) ==
  requestedVersion' = [p \in Peers |->
    IF p = source THEN 0 ELSE requestedVersion[p]]

\* The downloads of this source and version that are still in "rest" go with
\* their directories; the prompt that shows them fails.
MarkFailed(source, version, rest) ==
  LET gone == {r \in rest : asked[r].source = source /\ asked[r].version = version}
  IN /\ pending' = rest \ gone
     /\ payload' = [r \in Requests |-> IF r \in gone THEN Removed ELSE payload[r]]
     /\ prompt' = IF PromptOf(source, version)
          THEN [prompt EXCEPT !.state = "Failed"] ELSE prompt
     /\ ForgetRequest(source)
     /\ GitHubFails(source)

-----------------------------------------------------------------------------
(* Offers.                                                                 *)

Candidates(version, present) ==
  {p \in present : /\ version[p] > dismissedVersion[p]
                   /\ version[p] > requestedVersion[p]
                   /\ scheduled = NoUpdate \/ version[p] > scheduled.version}

\* The first best of peers_, whose order is the user interface's.
Best(version, candidates) ==
  {p \in candidates : \A q \in candidates : version[q] <= version[p]}

KeepsPrompt(p, version) ==
  /\ prompt # NoUpdate
  /\ \/ prompt.source = GitHub /\ prompt.state # "Failed"
        /\ version <= prompt.version
     \/ PromptOf(p, version)
     \/ prompt.state # "Failed" /\ prompt.version = version

\* maybeOfferAppUpdateFromPeer
Offer(version, present) ==
  LET candidates == Candidates(version, present) IN
  IF Downloading \/ candidates = {}
    THEN UNCHANGED prompt
    ELSE \E p \in Best(version, candidates) :
           prompt' = IF KeepsPrompt(p, version[p])
                       THEN prompt ELSE Available(p, version[p])

\* applyPeerProfile: a peer is seen (again), with the version it has now.
PeerSeen(p, version) ==
  /\ Running
  /\ version >= known[p]
  /\ known' = [known EXCEPT ![p] = version]
  /\ online' = online \union {p}
  /\ Offer(known', online')
  /\ UNCHANGED <<asked, pending, received, payload, requestedVersion,
                 dismissedVersion, scheduled, githubState, githubRelease,
                 checking, task, stream, handler, helper, installed, exit, checks>>

\* A peer says goodbye, which is a profile too, or refreshPeerOnlineStates finds
\* it silent for too long.
PeerGone(p) ==
  /\ Running /\ p \in online
  /\ online' = online \ {p}
  /\ Offer(known, online') \/ UNCHANGED prompt
  /\ UNCHANGED <<known, asked, pending, received, payload, requestedVersion,
                 dismissedVersion, scheduled, githubState, githubRelease,
                 checking, task, stream, handler, helper, installed, exit, checks>>

WithoutGitHub ==
  IF prompt # NoUpdate /\ prompt.source = GitHub THEN NoUpdate ELSE prompt

\* Mutant of MayCheck: a check may start during a download.
MayCheckAlways == githubState # "Checking"
MayCheck == githubState \notin {"Checking", "Downloading"}

\* checkGitHubAppUpdate
CheckGitHub ==
  /\ Running /\ MayCheck /\ checks < MaxChecks
  /\ checks' = checks + 1
  /\ githubState' = "Checking" /\ githubRelease' = 0 /\ checking' = TRUE
  /\ prompt' = WithoutGitHub
  /\ UNCHANGED <<known, online, asked, pending, received, payload, requestedVersion,
                 dismissedVersion, scheduled, task, stream, handler, helper, installed,
                 exit>>

\* Its completion: no answer, no newer release, or a newer one, which is offered
\* unless a prompt for a peer is there.  The UI thread runs completions in the
\* order in which tasks ended: a download that was dismissed after it had failed
\* comes first.
CheckDone ==
  /\ Running /\ checking
  /\ \A r \in Requests \ pending : task[r] \in {"done", "failed"} => ~IsGitHub(r)
  /\ checking' = FALSE
  /\ \/ githubState' = "Failed" /\ UNCHANGED <<githubRelease, prompt>>
     \/ /\ githubState' = "UpToDate" /\ githubRelease' = 0
        /\ prompt' = WithoutGitHub
     \/ \E v \in NewVersions :
          /\ githubState' = "Available" /\ githubRelease' = v
          /\ prompt' = IF prompt = NoUpdate \/ prompt.source = GitHub
                         THEN Available(GitHub, v) ELSE prompt
  /\ UNCHANGED <<known, online, asked, pending, received, payload, requestedVersion,
                 dismissedVersion, scheduled, task, stream, handler, helper, installed,
                 exit, checks>>

-----------------------------------------------------------------------------
(* Starting and dismissing.                                                *)

\* A download from this source is under way or about to end (for the history).
HasEarlier(source) ==
  \E r \in Requests :
    /\ asked[r].source = source
    /\ r \in pending \/ (handler.step = "finish" /\ handler.of = r)

\* requestAppUpdateFromPeer and requestAppUpdateFromGitHub up to the start of
\* their task.
Begin(r, source, version, mode) ==
  /\ asked' = [asked EXCEPT ![r] =
       [source |-> source, version |-> version, mode |-> mode,
        plain |-> PromptOf(source, version) /\ ~HasEarlier(source)]]
  /\ pending' = pending \union {r}
  /\ payload' = [payload EXCEPT ![r] = 0]
  /\ task' = [task EXCEPT ![r] = "running"]
  /\ requestedVersion' = [p \in Peers |->
       IF p = source THEN version ELSE requestedVersion[p]]
  /\ githubState' = IF source = GitHub THEN "Downloading" ELSE githubState
  /\ prompt' = IF PromptOf(source, version)
       THEN [prompt EXCEPT !.state = "Downloading"] ELSE prompt

\* startAppUpdate, which asks for the version the source has now, if it can be
\* reached.
StartUpdate(r, mode) ==
  /\ Running /\ task[r] = "none" /\ prompt # NoUpdate /\ ~Downloading
  /\ IF prompt.source = GitHub
       THEN IF githubRelease > 0
              THEN Begin(r, GitHub, githubRelease, mode)
              ELSE /\ MarkFailed(GitHub, prompt.version, pending)
                   /\ UNCHANGED <<asked, task>>
       ELSE IF prompt.source \in online
              THEN Begin(r, prompt.source, known[prompt.source], mode)
              ELSE /\ MarkFailed(prompt.source, known[prompt.source], pending)
                   /\ UNCHANGED <<asked, task>>
  /\ UNCHANGED <<known, online, received, dismissedVersion, scheduled,
                 githubRelease, checking, stream, handler, helper, installed, exit,
                 checks>>

\* dismissAppUpdatePrompt.  A task that is cancelled before it ends runs no
\* completion.
DismissUpdate ==
  LET gone == {r \in pending : asked[r].source = prompt.source} IN
  /\ Running /\ prompt # NoUpdate
  /\ prompt' = NoUpdate
  /\ IF prompt.source = GitHub
       THEN /\ githubState' = "Idle" /\ githubRelease' = 0
            /\ UNCHANGED <<dismissedVersion, requestedVersion>>
       ELSE /\ dismissedVersion' =
                 [dismissedVersion EXCEPT ![prompt.source] = prompt.version]
            /\ ForgetRequest(prompt.source)
            /\ UNCHANGED <<githubState, githubRelease>>
  /\ pending' = pending \ gone
  /\ payload' = [r \in Requests |-> IF r \in gone THEN Removed ELSE payload[r]]
  /\ task' = [r \in Requests |->
       IF r \in gone /\ IsGitHub(r) /\ task[r] = "running" THEN "over" ELSE task[r]]
  /\ UNCHANGED <<known, online, asked, received, scheduled, checking, stream, handler,
                 helper, installed, exit, checks>>

-----------------------------------------------------------------------------
(* The tasks.  One is "running" on a worker, then "done" or "failed" until the   *)
(* UI thread has run its completion.                                           *)

\* sendAppUpdatePackageToPeer, on the peer that reads the request: it starts to
\* send, unless it cannot or its version does not fit.
PeerAnswers(r) == stream' = [stream EXCEPT ![r] = 1] \/ UNCHANGED stream

\* The request frame is sent or is not.
SendRequest(r) ==
  /\ Running /\ task[r] = "running" /\ ~IsGitHub(r)
  /\ \/ task' = [task EXCEPT ![r] = "failed"] /\ UNCHANGED stream
     \/ /\ task' = [task EXCEPT ![r] = "done"]
        /\ PeerAnswers(r)
  /\ UNCHANGED <<known, online, prompt, asked, pending, received, payload,
                 requestedVersion, dismissedVersion, scheduled, githubState,
                 githubRelease, checking, handler, helper, installed, exit, checks>>

\* downloadGitHubAppUpdate writes a chunk and reports it.
DownloadChunk(r) ==
  /\ payload[r] < Size
  /\ payload' = [payload EXCEPT ![r] = @ + 1]
  /\ received' = [received EXCEPT ![r] = payload[r] + 1]
  /\ UNCHANGED task

\* It ends with the whole file, or fails and removes what it has.
DownloadEnds(r) ==
  /\ \/ /\ payload[r] = Size
        /\ task' = [task EXCEPT ![r] = "done"] /\ UNCHANGED payload
     \/ /\ task' = [task EXCEPT ![r] = "failed"]
        /\ payload' = [payload EXCEPT ![r] = Removed]
  /\ UNCHANGED received

Download(r) ==
  /\ Running /\ task[r] = "running" /\ IsGitHub(r)
  /\ DownloadChunk(r) \/ DownloadEnds(r)
  /\ UNCHANGED <<known, online, prompt, asked, pending, requestedVersion,
                 dismissedVersion, scheduled, githubState, githubRelease,
                 checking, stream, handler, helper, installed, exit, checks>>

-----------------------------------------------------------------------------
(* completeDownloadedAppUpdate, with prepareDownloadedAppUpdate and the launch   *)
(* of the helper.                                                           *)

Schedule(r, version) ==
  /\ scheduled' = [request |-> r, version |-> version]
  /\ githubState' = IF IsGitHub(r) THEN "Available" ELSE githubState
  /\ prompt' = IF PromptOf(asked[r].source, version) THEN NoUpdate ELSE prompt
  /\ UNCHANGED <<payload, helper, exit>>

Whole(r) == payload[r] = Size

\* launchWindowsProcess, when it succeeds.
HelperStarts(r) == helper' = [helper EXCEPT ![r] = "running"]

Launch(r) ==
  /\ Whole(r)
  /\ HelperStarts(r)
  /\ exit' = IF exit = "no" THEN "requested" ELSE exit
  /\ UNCHANGED <<payload, scheduled, githubState, prompt>>

\* "rest" is what is pending without the download that completes, "forgets" says
\* how the caller has changed requestedVersion.
CompleteDownload(r, version, rest, forgets) ==
  \/ /\ asked[r].mode = "install on exit"
     /\ Schedule(r, version)
     /\ pending' = rest /\ forgets
  \/ /\ asked[r].mode = "restart now"
     /\ Launch(r)
     /\ pending' = rest /\ forgets
  \/ /\ asked[r].mode = "restart now"
     /\ MarkFailed(asked[r].source, version, rest)
     /\ UNCHANGED <<scheduled, helper, exit>>

\* Mutant of Without: a completed download stays pending.
WithoutNone(r) == pending
Without(r) == pending \ {r}

\* The end of a request that was not sent.
RequestFails(r) == MarkFailed(asked[r].source, asked[r].version, pending \ {r})

\* The completion of a task on the UI thread.  A failure is marked also when its
\* download was dismissed.
TaskCompletes(r) ==
  /\ Running
  /\ task' = [task EXCEPT ![r] = "over"]
  /\ \/ /\ task[r] = "failed"
        /\ IF IsGitHub(r) THEN MarkFailed(GitHub, asked[r].version, pending)
                          ELSE RequestFails(r)
        /\ UNCHANGED <<scheduled, helper, exit>>
     \/ /\ task[r] = "done" /\ IsGitHub(r) /\ r \in pending
        /\ CompleteDownload(r, asked[r].version, Without(r),
                            UNCHANGED requestedVersion)
     \/ /\ task[r] = "done" /\ (IsGitHub(r) => r \notin pending)
        /\ UNCHANGED <<prompt, pending, payload, requestedVersion, scheduled,
                       githubState, helper, exit>>
  /\ UNCHANGED <<known, online, asked, received, dismissedVersion, githubRelease,
                 checking, stream, handler, installed, checks>>

-----------------------------------------------------------------------------
(* The TCP thread: the AppUpdateChunk and AppUpdateComplete frames.        *)

\* The first locked section of a chunk.  A chunk without a request, or out of
\* place, ends the connection; it is not marked as a failed update.
ReadUpdateChunk(r) ==
  /\ Running /\ handler = Waiting /\ stream[r] \in 1..Size
  /\ IF r \in pending /\ received[r] = stream[r] - 1
       THEN /\ handler' = [step |-> "append", of |-> r, at |-> stream[r]]
            /\ stream' = [stream EXCEPT ![r] = @ + 1]
       ELSE /\ stream' = [stream EXCEPT ![r] = Over]
            /\ UNCHANGED handler
  /\ UNCHANGED <<known, online, prompt, asked, pending, received, payload,
                 requestedVersion, dismissedVersion, scheduled, githubState,
                 githubRelease, checking, task, helper, installed, exit, checks>>

\* The chunk is appended, or the file cannot be opened or written.
AppendUpdateChunk ==
  LET r == handler.of IN
  /\ handler.step = "append"
  /\ \/ /\ payload[r] # Removed
        /\ payload' = [payload EXCEPT ![r] = @ + 1]
        /\ handler' = [handler EXCEPT !.step = "count"]
        /\ UNCHANGED <<prompt, pending, requestedVersion, githubState, stream>>
     \/ /\ MarkFailed(asked[r].source, asked[r].version, pending)
        /\ handler' = Waiting /\ stream' = [stream EXCEPT ![r] = Over]
  /\ UNCHANGED <<known, online, asked, received, dismissedVersion, scheduled,
                 githubRelease, checking, task, helper, installed, exit, checks>>

\* The second locked section, for a request that is still pending.
CountUpdateChunk ==
  LET r == handler.of IN
  /\ handler.step = "count"
  /\ handler' = Waiting
  /\ IF r \in pending
       THEN /\ received' = [received EXCEPT ![r] = handler.at]
            /\ prompt' = IF PromptOf(asked[r].source, asked[r].version)
                 THEN [prompt EXCEPT !.state = "Downloading"] ELSE prompt
       ELSE UNCHANGED <<received, prompt>>
  /\ UNCHANGED <<known, online, asked, pending, payload, requestedVersion,
                 dismissedVersion, scheduled, githubState, githubRelease,
                 checking, task, stream, helper, installed, exit, checks>>

\* AppUpdateComplete, which names the version the sender runs by now.
ReadUpdateComplete(r, version) ==
  /\ Running /\ handler = Waiting /\ stream[r] = Size + 1
  /\ stream' = [stream EXCEPT ![r] = Over]
  /\ IF r \in pending /\ received[r] = Size
       THEN /\ handler' = [step |-> "finish", of |-> r, version |-> version]
            /\ pending' = Without(r)
            /\ ForgetRequest(asked[r].source)
       ELSE UNCHANGED <<handler, pending, requestedVersion>>
  /\ version >= asked[r].version
  /\ UNCHANGED <<known, online, prompt, asked, received, payload, dismissedVersion,
                 scheduled, githubState, githubRelease, checking, task,
                 helper, installed, exit, checks>>

FinishUpdate ==
  /\ handler.step = "finish"
  /\ handler' = Waiting
  /\ CompleteDownload(handler.of, handler.version, pending,
                      UNCHANGED requestedVersion)
  /\ UNCHANGED <<known, online, asked, received, dismissedVersion, githubRelease,
                 checking, task, stream, installed, checks>>

\* The peer stops, its program changes, or the connection breaks.  Nobody notices.
CutStream(r) ==
  /\ Running /\ stream[r] # Over
  /\ stream' = [stream EXCEPT ![r] = Over]
  /\ UNCHANGED <<known, online, prompt, asked, pending, received, payload,
                 requestedVersion, dismissedVersion, scheduled, githubState,
                 githubRelease, checking, task, handler, helper, installed, exit, checks>>

\* The program ends; ~RelayDeskRuntime launches the helper of the scheduled
\* update, if its file is whole and the process can be made.
ExitProgram ==
  /\ Running
  /\ exit' = "yes"
  /\ scheduled' = NoUpdate
  /\ \/ scheduled # NoUpdate /\ Whole(scheduled.request) /\ HelperStarts(scheduled.request)
     \/ UNCHANGED helper
  /\ UNCHANGED <<known, online, prompt, asked, pending, received, payload,
                 requestedVersion, dismissedVersion, githubState,
                 githubRelease, checking, task, stream, handler, installed,
                 checks>>

-----------------------------------------------------------------------------
(* The helper process, runAppUpdateApplyMode: it waits for the end of the      *)
(* program, which one that is to restart it enforces, and puts the file in      *)
(* its place.  It gives up when that fails.                                   *)

EnforceExit(r) ==
  /\ helper[r] = "running" /\ asked[r].mode = "restart now" /\ Running
  /\ exit' = "yes" /\ handler' = Waiting
  /\ UNCHANGED <<known, online, prompt, asked, pending, received, payload,
                 requestedVersion, dismissedVersion, scheduled, githubState,
                 githubRelease, checking, task, stream, helper, installed,
                 checks>>

\* copyFileWithRetry
CopyPayload(r) == (payload[r] # Removed /\ installed' = r) \/ UNCHANGED installed

ReplaceProgram(r) ==
  /\ helper[r] = "running" /\ ~Running
  /\ helper' = [helper EXCEPT ![r] = "over"]
  /\ CopyPayload(r)
  /\ UNCHANGED <<known, online, prompt, asked, pending, received, payload,
                 requestedVersion, dismissedVersion, scheduled, githubState,
                 githubRelease, checking, task, stream, handler, exit, checks>>

UpdNext ==
  \/ \E p \in Peers :
       PeerGone(p) \/ \E v \in NewVersions : PeerSeen(p, v)
  \/ CheckGitHub \/ CheckDone \/ DismissUpdate
  \/ \E r \in Requests :
       \/ \E mode \in Modes : StartUpdate(r, mode)
       \/ SendRequest(r) \/ Download(r) \/ TaskCompletes(r)
       \/ ReadUpdateChunk(r) \/ CutStream(r)
       \/ \E v \in NewVersions : ReadUpdateComplete(r, v)
       \/ EnforceExit(r) \/ ReplaceProgram(r)
  \/ AppendUpdateChunk \/ CountUpdateChunk \/ FinishUpdate
  \/ ExitProgram

UpdSpec == UpdInit /\ [][UpdNext]_updVars
-----------------------------------------------------------------------------
(* Properties.                                                             *)

\* What is scheduled for the exit, was given to a helper or replaced the program is
\* a whole program file: no dismissal, failure or later download removes or
\* extends it.
InstalledIsWhole ==
  /\ scheduled # NoUpdate => payload[scheduled.request] = Size
  /\ \A r \in Requests :
       helper[r] # "none" \/ installed = r => payload[r] = Size

\* The user sees every download and can stop it: it is the one the prompt shows,
\* so there are no two, and a GitHub download that is reported as running is pending
\* or the program is about to exit for it.  Two exceptions, which the code has: a
\* retry asks for the version its peer has by now, also when the failed prompt is
\* about an older one; and such a download, which is not shown, may end as a newer
\* version than was asked for and take the prompt of one that was begun meanwhile.
DownloadIsShown ==
  /\ Running => \A r \in pending :
       asked[r].plain => PromptOf(asked[r].source, asked[r].version) /\ Downloading
  /\ githubState = "Downloading" =>
       (\E r \in pending : IsGitHub(r)) \/ exit # "no"
=============================================================================
