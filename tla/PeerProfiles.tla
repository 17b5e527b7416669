------------------------------- MODULE PeerProfiles -------------------------------
(***************************************************************************)
(* What a program remembers of its peers: the profile file of each device     *)
(* (storage/peer_profile.cpp), the discovery upsert that keeps it up to date   *)
(* (net/discovery_peer_profile.cpp), the list of the user interface and the     *)
(* unread counter (app_runtime.cpp).  Three threads load, change and save the    *)
(* same files: discovery, TCP and UI.  No lock is common to them, and a save      *)
(* truncates the file before it writes it.                                         *)
(*                                                                         *)
(* All devices announce one host name, but each from any of a few addresses: they   *)
(* are installations of one machine, whose address may change, and a newer one       *)
(* replaces an older one it shares an address with.                                  *)
(***************************************************************************)
EXTENDS Naturals, Sequences, FiniteSets

CONSTANTS
  Devices,         \* the other devices
  Addresses,       \* the host addresses announcements are observed from
  MaxStamp,        \* timestamps of announcements are 1..MaxStamp
  Upgraded,        \* the devices that are seen with two versions of the program
  MaxDeliveries,   \* bound on announcements received, those of earlier runs included
  MaxMessages,     \* bound on chat messages received
  StoredUnread,    \* bound on the unread counts stored by earlier runs
  MaxCrashes       \* bound on crashes of the program

ASSUME ProfilesAssumption ==
  /\ Upgraded \subseteq Devices
  /\ {MaxStamp, MaxDeliveries, MaxMessages, StoredUnread, MaxCrashes} \subseteq Nat

VARIABLES
  profile,      \* the profile file of each device
  list,         \* peers_
  selected,     \* selectedPeerDeviceId_
  profileQueue, \* pendingPeerProfiles_
  chatQueue,    \* pendingChatMessages_: [of, counted]
  draining,     \* the messages a running drainPendingChatMessages still has
  job,          \* what each thread does to a profile file
  left,         \* history: stamp of the offline announcement last applied
  heard,        \* history: devices whose announcement this run of the program took
  spared,       \* history: where a device whose profile was removed may stay listed
  deliveries, messages, crashes

profVars == <<profile, list, selected, profileQueue, chatQueue, draining, job,
              left, heard, spared, deliveries, messages, crashes>>

ProfileThreads == {"discovery", "tcp", "ui"}
Missing == [file |-> "missing"]
Torn == [file |-> "torn"]
Mixed == [file |-> "mixed"]
Unreadable == {Missing, Torn, Mixed}
Idle == [step |-> "idle"]
Unlisted == [signal |-> "unlisted"]
NoDevice == "no device"

Versions == 1..2
Announcements ==
  {a \in [of : Devices, type : {"hello", "offline"}, stamp : 1..MaxStamp,
          version : Versions, from : Addresses] : a.version > 1 => a.of \in Upgraded}

\* A profile.  Of last_addresses the first one, which the list shows, is told apart
\* from the others, whose order nothing reads.
Profile(stamp, version, unread, first, known) ==
  [file |-> "whole", seen |-> stamp, version |-> version, unread |-> unread,
   at |-> first, known |-> known]
Readable(d) == profile[d].file = "whole"
Listed(d) == list[d] # Unlisted

ProfileTypeOK ==
  LET Counts == 0..(StoredUnread + 2 * MaxMessages)
      Profiles == [file : {"whole"}, seen : 1..MaxStamp, version : Versions,
                   unread : Counts, at : Addresses, known : SUBSET Addresses]
      Items == [seen : 1..MaxStamp, version : Versions, unread : Counts,
                at : Addresses, online : BOOLEAN, signal : {"fresh", "over"}]
  IN /\ profile \in [Devices -> Profiles \union Unreadable]
     /\ list \in [Devices -> Items \union {Unlisted}]
     /\ selected \in Devices \union {NoDevice}
     /\ selected # NoDevice => Listed(selected)
     /\ \A i \in DOMAIN profileQueue :
          profileQueue[i].put \in Profiles /\ profileQueue[i].note \in Announcements
     /\ chatQueue \in Seq([of : Devices, counted : BOOLEAN])
     /\ draining \in Seq([of : Devices, counted : BOOLEAN])
     /\ \A t \in ProfileThreads :
          job[t].step \in {"idle", "load", "purge", "truncate", "write"}
     /\ left \in [Devices -> 0..MaxStamp] /\ heard \subseteq Devices
     /\ spared \in [Devices -> SUBSET Addresses]
     /\ deliveries \in 0..MaxDeliveries /\ messages \in 0..MaxMessages
     /\ crashes \in 0..MaxCrashes

\* makePeerListItem, with choosePeerAddress.  An item shown offline has no online
\* signal.
Item(p, online) ==
  [seen |-> p.seen, version |-> p.version, unread |-> p.unread, at |-> p.at,
   online |-> online, signal |-> IF online THEN "fresh" ELSE "over"]

\* refreshPeers: the list of what loadPeerProfiles can read.
Loaded == [d \in Devices |-> IF Readable(d) THEN Item(profile[d], FALSE) ELSE Unlisted]

\* The profiles an earlier run of the program may have left.
StoredProfiles ==
  UNION {{Profile(stamp, version, unread, first, known \union {first}) :
            known \in SUBSET Addresses} :
          stamp \in 1..MaxStamp, version \in Versions, unread \in 0..StoredUnread,
          first \in Addresses}

ProfInit ==
  /\ profile \in [Devices -> StoredProfiles \union {Missing}]
  /\ list = Loaded
  /\ selected = NoDevice
  /\ profileQueue = <<>> /\ chatQueue = <<>> /\ draining = <<>>
  /\ job = [t \in ProfileThreads |-> Idle]
  /\ left = [d \in Devices |-> 0] /\ heard = {}
  /\ spared = [d \in Devices |-> {}]
  /\ deliveries \in 0..MaxDeliveries /\ messages = 0 /\ crashes = 0

-----------------------------------------------------------------------------
(* Saving a profile, for every thread.                                     *)

\* savePeerProfile, first half: the file is opened and emptied.
Truncate(t) ==
  /\ job[t].step = "truncate"
  /\ profile' = [profile EXCEPT ![job[t].of] = Torn]
  /\ job' = [job EXCEPT ![t].step = "write"]
  /\ UNCHANGED <<list, selected, profileQueue, chatQueue, draining, left, heard,
                 spared, deliveries, messages, crashes>>

\* What a stream that is flushed over old leaves.  A profile is shorter than the
\* stream's buffer, so it is written at once; if another thread wrote the file since
\* this one emptied it and wrote more, the rest of that stays behind and the file
\* cannot be read.
Flushed(put, old) == IF old = Torn THEN {put} ELSE {put, Mixed}

\* savePeerProfile, second half, and what its caller does with the result.
Write(t) ==
  LET j == job[t] IN
  /\ j.step = "write"
  /\ \E file \in Flushed(j.put, profile[j.of]) :
       profile' = [profile EXCEPT ![j.of] = file]
  /\ job' = [job EXCEPT ![t] = Idle]
  /\ profileQueue' = IF t = "discovery"
       THEN Append(profileQueue, [put |-> j.put, note |-> j.note])
       ELSE profileQueue
  /\ chatQueue' = IF t = "tcp"
       THEN Append(chatQueue, [of |-> j.of, counted |-> TRUE]) ELSE chatQueue
  /\ UNCHANGED <<list, selected, draining, left, heard, spared, deliveries,
                 messages, crashes>>

-----------------------------------------------------------------------------
(* The discovery thread.                                                   *)

\* pollOnce returns an announcement: any that was ever sent, as datagrams are
\* delayed, doubled and lost.
Receive(a) ==
  /\ job["discovery"] = Idle
  /\ deliveries < MaxDeliveries
  /\ deliveries' = deliveries + 1
  /\ job' = [job EXCEPT !["discovery"] =
       [step |-> "load", of |-> a.of, note |-> a]]
  /\ heard' = heard \union {a.of}
  /\ UNCHANGED <<profile, list, selected, profileQueue, chatQueue, draining,
                 left, spared, messages, crashes>>

\* shouldIgnoreProfileUpdate, for announcements without a new avatar.
IgnoresAnnouncement(a, p) == a.version <= p.version /\ a.stamp <= p.seen

\* upsertPeerProfileFromDiscovery: the profile the announcement makes of p.
Updated(a, p) ==
  Profile(IF a.stamp < p.seen THEN p.seen ELSE a.stamp, a.version, p.unread,
          a.from, p.known \union {a.from})

\* hasPersistentDiscoveryChange: a heartbeat that changes nothing else is not worth a
\* write.
NeedsSave(a, p) == a.type = "offline" \/ a.version # p.version \/ a.from # p.at

\* What follows the load of upsertPeerProfileFromDiscovery when there is
\* something to save.  An unreadable profile is made anew.
LoadForUpsert(j) ==
  [step |-> "purge", of |-> j.of, note |-> j.note,
   put |-> IF Readable(j.of) THEN Updated(j.note, profile[j.of])
           ELSE Profile(j.note.stamp, j.note.version, 0, j.note.from, {j.note.from})]

Upsert ==
  LET j == job["discovery"]
      p == profile[j.of]
      saves == \/ ~Readable(j.of)
               \/ ~IgnoresAnnouncement(j.note, p) /\ NeedsSave(j.note, p)
  IN
  /\ j.step = "load"
  /\ IF saves
       THEN /\ job' = [job EXCEPT !["discovery"] = LoadForUpsert(j)]
            /\ UNCHANGED profileQueue
       ELSE /\ profileQueue' = Append(profileQueue,
                 [put |-> IF IgnoresAnnouncement(j.note, p) THEN p
                          ELSE Updated(j.note, p),
                  note |-> j.note])
            /\ job' = [job EXCEPT !["discovery"] = Idle]
  /\ UNCHANGED <<profile, list, selected, chatQueue, draining, left, heard,
                 spared, deliveries, messages, crashes>>

\* removeStaleProfilesForAnnouncement: the installations an announcement makes stale,
\* with any address of their profile.  One that cannot be read is not looked at.
StaleFor(a) ==
  {d \in Devices \ {a.of} :
     Readable(d) /\ a.from \in profile[d].known /\ a.stamp >= profile[d].seen}

\* The files that a thread has open to write.
OpenFiles == {d \in Devices : \E t \in ProfileThreads : job[t].step = "write" /\ job[t].of = d}

WithoutProfiles(gone) == [d \in Devices |-> IF d \in gone THEN Missing ELSE profile[d]]

\* The directories of older installations go before the profile is saved.
Purge ==
  LET j == job["discovery"]
      stale == StaleFor(j.note)
  IN
  /\ j.step = "purge"
  /\ stale \intersect OpenFiles = {}
  /\ profile' = WithoutProfiles(stale)
  /\ spared' = [d \in Devices |-> IF d \in stale THEN Addresses \ j.put.known
                                                ELSE spared[d]]
  /\ job' = [job EXCEPT !["discovery"].step = "truncate"]
  /\ UNCHANGED <<list, selected, profileQueue, chatQueue, draining, left,
                 heard, deliveries, messages, crashes>>

\* A file that another thread has open is not removed: the announcement ends there,
\* maybe after some directories went, and DiscoveryWorker goes on.
PurgeFails ==
  LET j == job["discovery"]
      stale == StaleFor(j.note)
  IN
  /\ j.step = "purge"
  /\ stale \intersect OpenFiles # {}
  /\ \E gone \in SUBSET (stale \ OpenFiles) :
       /\ profile' = WithoutProfiles(gone)
       /\ spared' = [d \in Devices |-> IF d \in gone THEN Addresses ELSE spared[d]]
  /\ job' = [job EXCEPT !["discovery"] = Idle]
  /\ heard' = heard \ {j.of}
  /\ UNCHANGED <<list, selected, profileQueue, chatQueue, draining, left,
                 deliveries, messages, crashes>>

-----------------------------------------------------------------------------
(* The TCP thread: a chat message and its unread count.                    *)

\* enqueueIncomingChatMessage: the message of the selected peer is not unread.
ReceiveMessage(d) ==
  /\ job["tcp"] = Idle
  /\ messages < MaxMessages
  /\ messages' = messages + 1
  /\ IF d = selected
       THEN /\ chatQueue' = Append(chatQueue, [of |-> d, counted |-> FALSE])
            /\ UNCHANGED job
       ELSE /\ job' = [job EXCEPT !["tcp"] = [step |-> "load", of |-> d]]
            /\ UNCHANGED chatQueue
  /\ UNCHANGED <<profile, list, selected, profileQueue, draining, left, heard,
                 spared, deliveries, crashes>>

\* incrementPersistedPeerUnreadMessageCount; it fails on an unreadable profile.
CountUnread ==
  LET d == job["tcp"].of IN
  /\ job["tcp"].step = "load"
  /\ IF Readable(d)
       THEN /\ job' = [job EXCEPT !["tcp"] =
                 [step |-> "truncate", of |-> d,
                  put |-> [profile[d] EXCEPT !.unread = @ + 1]]]
            /\ UNCHANGED chatQueue
       ELSE /\ chatQueue' = Append(chatQueue, [of |-> d, counted |-> FALSE])
            /\ job' = [job EXCEPT !["tcp"] = Idle]
  /\ UNCHANGED <<profile, list, selected, profileQueue, draining, left, heard,
                 spared, deliveries, messages, crashes>>

-----------------------------------------------------------------------------
(* The UI thread.                                                          *)

UiIdle == job["ui"] = Idle /\ draining = <<>>

\* Mutant of ReplacesPeer: two installations of a machine are shown side by side.
ReplacesNoPeer(q, d, items) == FALSE

\* isStalePeerForProfile: the address the item shows is one of another device's.
ReplacesPeer(q, d, items) ==
  d # q.note.of /\ items[d] # Unlisted /\ items[d].at \in q.put.known

\* Mutant of StaleOnline: an announcement of the same second counts again.
StaleOnlineStrict(q, item) ==
  /\ item # Unlisted /\ q.put.version <= item.version
  /\ q.note.type = "hello" /\ q.put.seen < item.seen

\* isStaleOnlineProfile
StaleOnline(q, item) ==
  /\ item # Unlisted /\ q.put.version <= item.version
  /\ q.note.type = "hello" /\ q.put.seen <= item.seen

\* applyPeerProfile
Applied(items, q) ==
  [d \in Devices |->
     IF ReplacesPeer(q, d, items) THEN Unlisted
     ELSE IF d # q.note.of \/ StaleOnline(q, items[d]) THEN items[d]
     ELSE Item(q.put, q.note.type = "hello")]

\* Mutant of Synced: the selection outlives the item.
SyncedNever(items) == selected

\* syncSelectedPeer
Synced(items) ==
  IF selected # NoDevice /\ items[selected] = Unlisted THEN NoDevice
  ELSE selected

\* drainPendingPeerProfiles, one profile at a time; the selection is settled
\* after the last one.
DrainProfile ==
  /\ UiIdle /\ profileQueue # <<>>
  /\ LET q == Head(profileQueue) IN
     /\ list' = Applied(list, q)
     /\ left' = [left EXCEPT ![q.note.of] =
          IF q.note.type = "offline" THEN q.note.stamp
          ELSE IF list'[q.note.of] # list[q.note.of] THEN 0 ELSE @]
     /\ selected' = Synced(list')
  /\ profileQueue' = Tail(profileQueue)
  /\ UNCHANGED <<profile, chatQueue, draining, job, heard, spared, deliveries,
                 messages, crashes>>

\* savePeerUnreadMessageCount: the item first, then the file.
StartSave(d, count) ==
  /\ list' = IF Listed(d) THEN [list EXCEPT ![d].unread = count] ELSE list
  /\ job' = [job EXCEPT !["ui"] = [step |-> "load", of |-> d, count |-> count]]

\* drainPendingChatMessages
BeginChats ==
  /\ UiIdle /\ chatQueue # <<>>
  /\ draining' = chatQueue /\ chatQueue' = <<>>
  /\ UNCHANGED <<profile, list, selected, profileQueue, job, left, heard,
                 spared, deliveries, messages, crashes>>

DrainChat ==
  /\ draining # <<>> /\ job["ui"] = Idle
  /\ draining' = Tail(draining)
  /\ LET m == Head(draining) IN
     IF m.of = selected THEN UNCHANGED <<list, job>>
     ELSE IF m.counted
       THEN /\ list' = IF Listed(m.of) THEN [list EXCEPT ![m.of].unread = @ + 1]
                                       ELSE list
            /\ UNCHANGED job
       ELSE StartSave(m.of, IF Listed(m.of) THEN list[m.of].unread + 1 ELSE 1)
  /\ UNCHANGED <<profile, selected, profileQueue, chatQueue, left, heard,
                 spared, deliveries, messages, crashes>>

\* selectPeer and clearPeerUnreadMessageCount
Select(d) ==
  /\ UiIdle /\ Listed(d) /\ d # selected
  /\ selected' = d
  /\ IF list[d].unread = 0 THEN UNCHANGED <<list, job>> ELSE StartSave(d, 0)
  /\ UNCHANGED <<profile, profileQueue, chatQueue, draining, left, heard,
                 spared, deliveries, messages, crashes>>

LoadForUnread ==
  LET j == job["ui"] IN
  /\ j.step = "load"
  /\ job' = [job EXCEPT !["ui"] =
       IF Readable(j.of) /\ profile[j.of].unread # j.count
         THEN [step |-> "truncate", of |-> j.of,
               put |-> [profile[j.of] EXCEPT !.unread = j.count]]
         ELSE Idle]
  /\ UNCHANGED <<profile, list, selected, profileQueue, chatQueue, draining,
                 left, heard, spared, deliveries, messages, crashes>>

\* kPeerOnlineTimeout passes without a signal.
Expire(d) ==
  /\ Listed(d) /\ list[d].signal = "fresh"
  /\ list' = [list EXCEPT ![d].signal = "over"]
  /\ UNCHANGED <<profile, selected, profileQueue, chatQueue, draining, job,
                 left, heard, spared, deliveries, messages, crashes>>

\* isPeerOnline
OnlineNow(item) == item.signal = "fresh"

RefreshOnline ==
  /\ UiIdle
  /\ list' = [d \in Devices |->
       IF Listed(d) THEN [list[d] EXCEPT !.online = OnlineNow(list[d])]
       ELSE Unlisted]
  /\ UNCHANGED <<profile, selected, profileQueue, chatQueue, draining, job,
                 left, heard, spared, deliveries, messages, crashes>>

-----------------------------------------------------------------------------
\* The program dies at any point and is started again.
Crash ==
  /\ crashes < MaxCrashes
  /\ crashes' = crashes + 1
  /\ list' = Loaded
  /\ selected' = NoDevice
  /\ profileQueue' = <<>> /\ chatQueue' = <<>> /\ draining' = <<>>
  /\ job' = [t \in ProfileThreads |-> Idle]
  /\ left' = [d \in Devices |-> 0] /\ heard' = {}
  /\ spared' = [d \in Devices |-> {}]
  /\ UNCHANGED <<profile, deliveries, messages>>

RefreshPeersStep == DrainProfile \/ BeginChats \/ DrainChat \/ LoadForUnread
ProfNext ==
  \/ \E t \in ProfileThreads : Truncate(t) \/ Write(t)
  \/ \E a \in Announcements : Receive(a)
  \/ Upsert \/ Purge \/ PurgeFails \/ CountUnread \/ RefreshPeersStep \/ RefreshOnline \/ Crash
  \/ \E d \in Devices : ReceiveMessage(d) \/ Select(d) \/ Expire(d)

ProfSpec == ProfInit /\ [][ProfNext]_profVars
-----------------------------------------------------------------------------
(* Properties.                                                             *)

Online(d) == Listed(d) /\ list[d].online

\* A peer that said goodbye is shown online again only when something it sent
\* later was received, or a newer version of the program was: hellos that the
\* network delayed or doubled do not bring it back (shouldIgnoreProfileUpdate
\* and isStaleOnlineProfile together, whatever the saves of the other threads do
\* to the file in between).
ResurrectedByNewer ==
  [][\A d \in Devices :
       (~Online(d) /\ Listed(d) /\ Online(d)' /\ profileQueue # <<>>) =>
         LET q == Head(profileQueue) IN
         q.put.seen > left[d] \/ q.put.version > list[d].version]_profVars

\* When nothing is on its way, a listed peer has a profile to store its counter in,
\* unless its profile was removed for an installation that was never seen at the address
\* the list shows: the disk is searched for any address of the older profile
\* (removeStaleProfilesForAnnouncement), the list only for the one shown
\* (isStalePeerForProfile), and wherever both look the two removals, of two threads, end
\* alike.  And a profile that a crash has left unreadable is rewritten once an
\* announcement of its device was taken, unless a thread is in the middle of saving it.
ListedIsStored ==
  /\ (profileQueue = <<>> /\ \A t \in ProfileThreads : job[t] = Idle) =>
       \A d \in Devices :
         Listed(d) /\ profile[d] = Missing => list[d].at \in spared[d]
  /\ \A d \in heard :
       profile[d] = Torn => \E t \in ProfileThreads : job[t] # Idle /\ job[t].of = d
=============================================================================
