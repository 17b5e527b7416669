----------------------------- MODULE PeerTransport -----------------------------
(* The receiving side of the TCP transport between peers (net/                 *)
(* boost_asio_tcp_peer_transport.cpp): senders connect, write frames and close *)
(* or die; one thread accepts one connection at a time and reads it to its     *)
(* end; stop() closes the listener and joins the thread.                       *)
(*                                                                             *)
(* A frame is what the transport itself makes of it: it "opens" a transfer     *)
(* stream (an offer that is no resume request, a chunk), "closes" it (complete,*)
(* cancel), is "malformed" (the frame or its offer cannot be decoded) or       *)
(* "other".  Connections are queued by the operating system before they are    *)
(* accepted and lose nothing that was written, unless the sender's end is      *)
(* reset.                                                                      *)
EXTENDS Naturals, Sequences, FiniteSets, SequencesExt

CONSTANTS
  Links,      \* connections that may be made
  MaxFrames   \* bound on the frames written on all of them

VARIABLES
  link,       \* connection -> "new", "waiting", "accepted" or "over"
  unread,     \* connection -> frames written and not yet read
  ending,     \* connection -> how the sender has ended it, if so
  backlog,    \* connections to accept, in the order they were made
  reader,     \* what the thread does: "accepting", "checking", "reading", "ended"
  current,    \* the connection it reads
  streamOpen, \* transferStreamOpen
  service,    \* "running", "stopping" (stop was called) or "stopped"
  frames,     \* frames written so far
  handled,    \* frames given to the callback, with their connection
  noticed,    \* connections whose end the error callback was told of as a cut stream
  earlier     \* connection -> connections that had been closed when it was made

linkVars == <<link, unread, ending, backlog, reader, current, streamOpen,
              service, frames, handled, noticed, earlier>>

NoLink == "no link"
ASSUME LinksAssumption == NoLink \notin Links /\ MaxFrames \in Nat

FrameClasses == {"opens", "closes", "other", "malformed"}

LinkTypeOK ==
  /\ link \in [Links -> {"new", "waiting", "accepted", "over"}]
  /\ \A c \in Links : \A i \in DOMAIN unread[c] : unread[c][i] \in FrameClasses
  /\ ending \in [Links -> {"open", "closed", "reset"}]
  /\ \A i \in DOMAIN backlog : link[backlog[i]] = "waiting"
  /\ reader \in {"accepting", "checking", "reading", "ended"}
  /\ current \in Links \union {NoLink}
  /\ reader \in {"checking", "reading"} <=> current # NoLink
  /\ streamOpen \in BOOLEAN
  /\ service \in {"running", "stopping", "stopped"}
  /\ frames \in 0 .. MaxFrames
  /\ noticed \subseteq Links
  /\ earlier \in [Links -> SUBSET Links]

LinkInit ==
  /\ link = [c \in Links |-> "new"]
  /\ unread = [c \in Links |-> <<>>]
  /\ ending = [c \in Links |-> "open"]
  /\ backlog = <<>>
  /\ reader = "accepting"
  /\ current = NoLink
  /\ streamOpen = FALSE
  /\ service = "running"
  /\ frames = 0
  /\ handled = <<>>
  /\ noticed = {}
  /\ earlier = [c \in Links |-> {}]

-----------------------------------------------------------------------------
(* The senders: sendFramesTo on any thread of any peer.                        *)

Connect(c) ==
  /\ link[c] = "new"
  /\ service = "running"
  /\ link' = [link EXCEPT ![c] = "waiting"]
  /\ backlog' = Append(backlog, c)
  /\ earlier' = [earlier EXCEPT ![c] = {d \in Links : ending[d] = "closed"}]
  /\ UNCHANGED <<unread, ending, reader, current, streamOpen, service, frames,
                 handled, noticed>>

Connected(c) == link[c] \in {"waiting", "accepted"} /\ ending[c] = "open"

WriteFrame(c) ==
  /\ Connected(c)
  /\ frames < MaxFrames
  /\ \E f \in FrameClasses : unread' = [unread EXCEPT ![c] = Append(@, f)]
  /\ frames' = frames + 1
  /\ UNCHANGED <<link, ending, backlog, reader, current, streamOpen, service,
                 handled, noticed, earlier>>

\* The producer has no more frames, or its task was cancelled.
CloseLink(c) ==
  /\ Connected(c)
  /\ ending' = [ending EXCEPT ![c] = "closed"]
  /\ UNCHANGED <<link, unread, backlog, reader, current, streamOpen, service,
                 frames, handled, noticed, earlier>>

\* The sender's process dies or the network fails; what was not yet read may be
\* lost.
ResetLink(c) ==
  /\ Connected(c)
  /\ ending' = [ending EXCEPT ![c] = "reset"]
  /\ \E n \in 0 .. Len(unread[c]) :
       unread' = [unread EXCEPT ![c] = SubSeq(@, 1, n)]
  /\ UNCHANGED <<link, backlog, reader, current, streamOpen, service, frames,
                 handled, noticed, earlier>>

-----------------------------------------------------------------------------
(* The transport's thread.                                                     *)

\* Mutant of NextPlaces: every connection that waits is served.
NextPlacesAny == DOMAIN backlog

\* The listener gives out the connection that waits for longest.
NextPlaces == {1} \intersect DOMAIN backlog

AcceptLink(c) ==
  /\ reader = "accepting"
  /\ service = "running"
  /\ \E i \in NextPlaces : c = backlog[i] /\ backlog' = RemoveAt(backlog, i)
  /\ link' = [link EXCEPT ![c] = "accepted"]
  /\ reader' = "checking"
  /\ current' = c
  /\ streamOpen' = FALSE
  /\ UNCHANGED <<unread, ending, service, frames, handled, noticed, earlier>>

\* The loop of receiveFrames looks at stopping_ before each frame only.
CheckStop ==
  /\ reader = "checking"
  /\ service = "running"
  /\ reader' = "reading"
  /\ UNCHANGED <<link, unread, ending, backlog, current, streamOpen, service,
                 frames, handled, noticed, earlier>>

\* The socket is closed; run() goes on, or ends when it sees stopping_.
Leave ==
  /\ link' = [link EXCEPT ![current] = "over"]
  /\ unread' = [unread EXCEPT ![current] = <<>>]
  /\ current' = NoLink
  /\ streamOpen' = FALSE
  /\ UNCHANGED <<ending, backlog, service, frames, earlier>>

LeaveStopped ==
  /\ reader = "checking"
  /\ service = "stopping"
  /\ reader' = "accepting"
  /\ Leave
  /\ UNCHANGED <<handled, noticed>>

ReadFrame ==
  /\ reader = "reading"
  /\ unread[current] # <<>>
  /\ LET f == Head(unread[current]) IN
       /\ f # "malformed"
       /\ streamOpen' = CASE f = "opens" -> TRUE
                          [] f = "closes" -> FALSE
                          [] OTHER -> streamOpen
       /\ handled' = Append(handled, [of |-> current, frame |-> f])
  /\ unread' = [unread EXCEPT ![current] = Tail(@)]
  /\ reader' = "checking"
  /\ UNCHANGED <<link, ending, backlog, current, service, frames, noticed,
                 earlier>>

\* The error callback is told of a stream that was open, unless stop() was called.
NoticeCut ==
  noticed' = IF streamOpen /\ service = "running"
             THEN noticed \union {current} ELSE noticed

\* Mutant of AfterError: the exception leaves run() and with it the thread.
AfterErrorEnds == "ended"
\* run() catches the exception of a connection and accepts the next one.
AfterError == "accepting"

\* Mutant of ReadMalformed: a stream that is open is not thought of.
ReadMalformedSilently ==
  /\ reader = "reading"
  /\ unread[current] # <<>> /\ Head(unread[current]) = "malformed"
  /\ reader' = AfterError
  /\ Leave
  /\ UNCHANGED <<noticed, handled>>

\* A frame that cannot be decoded ends the connection: an open stream is
\* reported as cut, otherwise run() reports the exception.
ReadMalformed ==
  /\ reader = "reading"
  /\ unread[current] # <<>> /\ Head(unread[current]) = "malformed"
  /\ NoticeCut
  /\ reader' = AfterError
  /\ Leave
  /\ UNCHANGED handled

ReadEnd ==
  /\ reader = "reading"
  /\ unread[current] = <<>>
  /\ ending[current] # "open"
  /\ NoticeCut
  /\ reader' = "accepting"
  /\ Leave
  /\ UNCHANGED handled

EndThread ==
  /\ reader = "accepting"
  /\ service = "stopping"
  /\ reader' = "ended"
  /\ UNCHANGED <<link, unread, ending, backlog, current, streamOpen, service,
                 frames, handled, noticed, earlier>>

-----------------------------------------------------------------------------

\* stop() closes the listener, with the connections that wait, and joins.
CallStop ==
  /\ service = "running"
  /\ service' = "stopping"
  /\ link' = [c \in Links |-> IF link[c] = "waiting" THEN "over" ELSE link[c]]
  /\ unread' = [c \in Links |-> IF link[c] = "waiting" THEN <<>> ELSE unread[c]]
  /\ backlog' = <<>>
  /\ UNCHANGED <<ending, reader, current, streamOpen, frames, handled, noticed,
                 earlier>>

Joined ==
  /\ service = "stopping"
  /\ reader = "ended"
  /\ service' = "stopped"
  /\ UNCHANGED <<link, unread, ending, backlog, reader, current, streamOpen,
                 frames, handled, noticed, earlier>>

ReaderStep ==
  \/ \E c \in Links : AcceptLink(c)
  \/ CheckStop \/ LeaveStopped \/ ReadFrame \/ ReadMalformed \/ ReadEnd
  \/ EndThread

LinkNext ==
  \/ \E c \in Links : Connect(c) \/ WriteFrame(c) \/ CloseLink(c) \/ ResetLink(c)
  \/ ReaderStep
  \/ CallStop \/ Joined

\* The thread runs.  Nothing is asked of the senders: one may keep its connection
\* open for ever and send nothing.
LinkFairness == WF_linkVars(ReaderStep) /\ WF_linkVars(Joined)

LinkSpec == LinkInit /\ [][LinkNext]_linkVars /\ LinkFairness

-----------------------------------------------------------------------------

\* What a peer finished sending on one connection before it made another is
\* handled before anything of the other: no frame of an earlier connection comes
\* after one of a later, as the handlers of a transfer and of its cancellation
\* rely on.
HandledInOrder ==
  \A i, j \in DOMAIN handled :
    i < j => handled[j].of \notin earlier[handled[i].of]

\* The frames of c that were handled leave a transfer stream open.
LeftOpen(c) ==
  LET marks == {i \in DOMAIN handled :
                  handled[i].of = c /\ handled[i].frame \in {"opens", "closes"}}
  IN \E i \in marks : handled[i].frame = "opens" /\ \A j \in marks : j <= i

\* A transfer stream that breaks off, by whatever end of its connection, is
\* reported, so that the pending transfers are interrupted, and no other end is.
CutStreamIsNoticed ==
  \A c \in Links :
    link[c] = "over" =>
      IF c \in noticed THEN LeftOpen(c) ELSE LeftOpen(c) => service # "running"

\* The reader, which knows no timeout, is with a peer that has not ended its
\* connection.
Held(d) == current = d /\ ending[d] = "open"

\* Only a peer that keeps its connection open for ever can stop the one reader of
\* all peers: otherwise every peer that connects is heard to the end or refused by
\* stop(), whatever the others send and however they end, and stop() returns.
EveryLinkEnds == \A c \in Links : link[c] = "waiting" ~> link[c] = "over"
StopIsJoined == service = "stopping" ~> service = "stopped"
TransportGoesOn ==
  (\E d \in Links : <>[]Held(d)) \/ (EveryLinkEnds /\ StopIsJoined)
=============================================================================
