-------------------------------- MODULE Avatars --------------------------------
(* The avatar of one device, its owner, as another device, the viewer, keeps and *)
(* shows it (app_runtime.cpp, storage/avatar_store.h).  Images are named by their  *)
(* hash.  The owner announces the hash; the viewer's discovery thread stores it in  *)
(* the owner's profile, its UI thread shows it and asks for the image, its TCP     *)
(* thread stores the image and removes the others.                              *)
(*                                                                            *)
(* avatarFetchAttempts_ is left out: it keeps a request from being repeated        *)
(* within 15 seconds, and the key of the task refuses every repetition anyway.    *)
EXTENDS Naturals, Sequences, FiniteSets

CONSTANTS
  Hashes,       \* the images the owner may choose
  MaxChoices,   \* bound on changes of the avatar
  MaxStarts,    \* bound on restarts of the two programs
  MaxHeard      \* bound on announcements the viewer's UI thread has not applied

ASSUME AvatarAssumption ==
  /\ {"none", "silent"} \intersect Hashes = {}
  /\ {MaxChoices, MaxStarts, MaxHeard} \subseteq Nat

NoAvatar == [hash |-> "none"]   \* an empty hash, or no path
Image(h) == [hash |-> h]
AvatarsOf == {NoAvatar} \union {Image(h) : h \in Hashes}

VARIABLES
  identity,    \* avatar_sha256 of the owner's identity file
  ownImages,   \* the images in the owner's data/avatars
  choosing,    \* how far updateLocalAvatar is, and for which image
  answering,   \* the owner's reply task: "idle", or "used" in this run of its program
  announced,   \* the last announcement, when the viewer has not heard it yet
  profile,     \* avatar_sha256 of the viewer's profile of the owner
  upserting,   \* how far upsertPeerProfileFromDiscovery is, and for which image
  heardHashes, \* the hashes of pendingPeerProfiles_
  item,        \* the PeerListItem: hash, and path of the image shown
  images,      \* the images in the profile's avatars directory
  asking,      \* the viewer's fetch task: "idle" or "used"
  requests,    \* AvatarRequest frames on their way
  replies,     \* Avatar frames on their way
  storing,     \* how far handleIncomingAvatarUpdate is, and for which image
  ready,       \* pendingAvatarDownloads_
  overtaken,   \* (history) the profile changed while an image was on its way to the item
  choices, starts

avatarVars == <<identity, ownImages, choosing, answering, announced, profile,
                upserting, heardHashes,
                item, images, asking, requests, replies, storing, ready, overtaken,
                choices, starts>>
ownerVars == <<identity, ownImages, choosing, answering, choices>>
viewerVars == <<profile, upserting, heardHashes, item, images, asking, storing, ready, overtaken>>
netVars == <<announced, requests, replies>>

Idle == [step |-> "idle", of |-> NoAvatar]
Silent == [hash |-> "silent"]   \* no announcement

AvatarTypeOK ==
  /\ {identity, profile} \subseteq AvatarsOf
  /\ ownImages \subseteq Hashes /\ images \subseteq Hashes
  /\ choosing \in [step : {"idle", "identity", "remove"}, of : AvatarsOf]
  /\ announced \in AvatarsOf \union {Silent}
  /\ upserting \in [step : {"idle", "clean", "queue"}, of : AvatarsOf]
  /\ heardHashes \in Seq(AvatarsOf)
  /\ item \in [hash : AvatarsOf, path : AvatarsOf]
  /\ {answering, asking} \subseteq {"idle", "used"}
  /\ requests \subseteq Hashes /\ replies \subseteq Hashes
  /\ storing \in [step : {"idle", "store", "remove", "queue"}, of : AvatarsOf]
  /\ ready \in Seq(Hashes)
  /\ overtaken \in BOOLEAN
  /\ choices \in 0 .. MaxChoices /\ starts \in 0 .. MaxStarts

AvatarInit ==
  /\ identity = NoAvatar /\ ownImages = {} /\ choosing = Idle /\ answering = "idle"
  /\ announced = Silent
  /\ profile = NoAvatar /\ upserting = Idle /\ heardHashes = <<>>
  /\ item = [hash |-> NoAvatar, path |-> NoAvatar]
  /\ images = {} /\ asking = "idle"
  /\ requests = {} /\ replies = {}
  /\ storing = Idle /\ ready = <<>>
  /\ overtaken = FALSE
  /\ choices = 0 /\ starts = 0

-----------------------------------------------------------------------------
(* The owner.                                                              *)

\* updateLocalAvatar: the image is prepared and gets its name ...
ChooseAvatar(h) ==
  /\ choosing = Idle /\ choices < MaxChoices
  /\ ownImages' = ownImages \union {h}
  /\ choosing' = [step |-> "identity", of |-> Image(h)]
  /\ choices' = choices + 1
  /\ UNCHANGED <<identity, answering, starts>> /\ UNCHANGED <<viewerVars, netVars>>

\* ... or clearLocalAvatar, which has no image ...
ClearAvatar ==
  /\ choosing = Idle /\ choices < MaxChoices /\ identity # NoAvatar
  /\ choosing' = [step |-> "identity", of |-> NoAvatar]
  /\ choices' = choices + 1
  /\ UNCHANGED <<identity, ownImages, answering, starts>> /\ UNCHANGED <<viewerVars, netVars>>

\* ... the identity is saved, or cannot be, which leaves the new image behind ...
SaveIdentity ==
  /\ choosing.step = "identity"
  /\ \/ identity' = choosing.of /\ choosing' = [choosing EXCEPT !.step = "remove"]
     \/ choosing' = Idle /\ UNCHANGED identity
  /\ UNCHANGED <<ownImages, answering, choices, starts>> /\ UNCHANGED <<viewerVars, netVars>>

\* The images of a directory that removeUnmatchedAvatarFiles leaves.
Matched(set, avatar) == {h \in set : Image(h) = avatar}

\* ... the other images are removed, and applyLocalIdentity announces it.
RemoveOwnImages ==
  /\ choosing.step = "remove"
  /\ ownImages' = Matched(ownImages, choosing.of)
  /\ announced' = identity
  /\ choosing' = Idle
  /\ UNCHANGED <<identity, answering, choices, starts, requests, replies>>
  /\ UNCHANGED viewerVars

\* The worker broadcasts the identity again.
Announce ==
  /\ announced' = identity
  /\ UNCHANGED <<requests, replies, starts>> /\ UNCHANGED <<ownerVars, viewerVars>>

\* handleIncomingAvatarRequest: the image that was asked for, when it is the
\* current one and there, and the asking device is known; the key of the reply
\* task can be used once.
AnswerRequest(h) ==
  /\ h \in requests /\ requests' = requests \ {h}
  /\ IF identity = Image(h) /\ h \in ownImages /\ answering = "idle"
       THEN \/ answering' = "used" /\ replies' = replies \union {h}
            \/ answering' = "used" /\ UNCHANGED replies
            \/ UNCHANGED <<answering, replies>>
       ELSE UNCHANGED <<answering, replies>>
  /\ UNCHANGED <<identity, ownImages, choosing, choices, announced, starts>>
  /\ UNCHANGED viewerVars

\* The owner's program ends, also between two steps of a choice, and starts again.
RestartOwner ==
  /\ starts < MaxStarts /\ starts' = starts + 1
  /\ choosing' = Idle /\ answering' = "idle" /\ announced' = identity
  /\ requests' = {}
  /\ UNCHANGED <<identity, ownImages, choices, replies>> /\ UNCHANGED viewerVars

-----------------------------------------------------------------------------
(* The viewer.                                                             *)

\* No image is on its way to the item.
NoneComing == storing = Idle /\ ready = <<>>

\* upsertPeerProfileFromDiscovery, on the discovery thread: the announcement is
\* stored; an unchanged profile is written again when something else has changed ...
Upsert ==
  /\ upserting = Idle
  /\ announced # Silent /\ announced' = Silent
  /\ profile' = announced
  /\ \/ upserting' = [step |-> "clean", of |-> announced]
     \/ announced = profile /\ upserting' = [step |-> "queue", of |-> announced]
  /\ overtaken' = (overtaken \/ (announced # profile /\ ~NoneComing))
  /\ UNCHANGED <<heardHashes, item, images, asking, storing, ready, requests, replies, starts>>
  /\ UNCHANGED ownerVars

\* The images removeStaleAvatarFiles removes: none as long as the new one is not there.
Stale(avatar) ==
  IF avatar = NoAvatar \/ avatar.hash \in images THEN images \ Matched(images, avatar) ELSE {}

\* ... the images it does not name are removed ...
CleanImages ==
  /\ upserting.step = "clean"
  /\ images' = images \ Stale(upserting.of)
  /\ upserting' = [upserting EXCEPT !.step = "queue"]
  /\ UNCHANGED <<profile, heardHashes, item, asking, storing, ready, overtaken, starts>>
  /\ UNCHANGED <<ownerVars, netVars>>

\* ... and it is queued for the UI thread (enqueuePeerProfile).
QueueProfile ==
  /\ upserting.step = "queue" /\ Len(heardHashes) < MaxHeard
  /\ heardHashes' = Append(heardHashes, upserting.of)
  /\ upserting' = Idle
  /\ UNCHANGED <<profile, item, images, asking, storing, ready, overtaken, starts>>
  /\ UNCHANGED <<ownerVars, netVars>>

\* applyStoredPeerAvatar: the paths it may set.  The image of the hash, or any
\* other one that is there.
PathsFor(avatar) ==
  IF avatar = NoAvatar THEN {NoAvatar}
  ELSE IF \E h \in images : Image(h) = avatar THEN {avatar}
  ELSE IF images = {} THEN {NoAvatar} ELSE {Image(h) : h \in images}

\* maybeRequestPeerAvatar, for a peer that is online.  A task that fails uses up
\* its key as well.
MayRequest(new) ==
  IF new.hash # NoAvatar /\ new.path # new.hash /\ asking = "idle"
    THEN /\ asking' = "used"
         /\ \/ requests' = requests \union {new.hash.hash}
            \/ UNCHANGED requests
    ELSE UNCHANGED <<asking, requests>>

\* applyPeerProfile, in drainPendingPeerProfiles.
ApplyProfile ==
  /\ heardHashes # <<>>
  /\ heardHashes' = Tail(heardHashes)
  /\ \E path \in PathsFor(Head(heardHashes)) :
       /\ item' = [hash |-> Head(heardHashes), path |-> path]
       /\ MayRequest(item')
  /\ overtaken' = (overtaken /\ ~NoneComing)
  /\ UNCHANGED <<profile, upserting, images, storing, ready, announced, replies, starts>>
  /\ UNCHANGED ownerVars

\* handleIncomingAvatarUpdate: is the image the one the profile asks for?
Wanted(h) == profile = Image(h)

ReceiveImage(h) ==
  /\ storing = Idle
  /\ h \in replies /\ replies' = replies \ {h}
  /\ storing' = IF Wanted(h) THEN [step |-> "store", of |-> Image(h)] ELSE Idle
  /\ UNCHANGED <<profile, upserting, heardHashes, item, images, asking, ready, overtaken>>
  /\ UNCHANGED <<announced, requests, starts>> /\ UNCHANGED ownerVars

\* It is written under another name, compared with its hash and renamed; or it
\* cannot be written, and nothing changes.
StoreImage ==
  /\ storing.step = "store"
  /\ \/ /\ images' = images \union {storing.of.hash}
        /\ storing' = [storing EXCEPT !.step = "remove"]
     \/ storing' = Idle /\ UNCHANGED images
  /\ UNCHANGED <<profile, upserting, heardHashes, item, asking, ready, overtaken, starts>>
  /\ UNCHANGED <<ownerVars, netVars>>

\* removeUnmatchedAvatarFiles.
RemoveImages ==
  /\ storing.step = "remove"
  /\ images' = Matched(images, storing.of)
  /\ storing' = [storing EXCEPT !.step = "queue"]
  /\ UNCHANGED <<profile, upserting, heardHashes, item, asking, ready, overtaken, starts>>
  /\ UNCHANGED <<ownerVars, netVars>>

QueueImage ==
  /\ storing.step = "queue"
  /\ ready' = Append(ready, storing.of.hash)
  /\ storing' = Idle
  /\ UNCHANGED <<profile, upserting, heardHashes, item, images, asking, overtaken, starts>>
  /\ UNCHANGED <<ownerVars, netVars>>

\* Mutant of Fits: the image is shown whatever hash the item has by now.
FitsAlways(h) == TRUE

\* An image that is ready fits the item.
Fits(h) == item.hash = Image(h)

\* drainPendingAvatarDownloads.
DrainImages ==
  /\ ready # <<>> /\ ready' = <<>>
  /\ LET fit == {i \in 1 .. Len(ready) : Fits(ready[i])} IN
     \/ fit = {} /\ UNCHANGED item
     \/ \E last \in fit :
          /\ \A i \in fit : i <= last
          /\ item' = [item EXCEPT !.path = Image(ready[last])]
  /\ UNCHANGED <<profile, upserting, heardHashes, images, asking, storing, overtaken, starts>>
  /\ UNCHANGED <<ownerVars, netVars>>

\* The viewer's program ends and starts again, and lists the stored profile.
RestartViewer ==
  /\ starts < MaxStarts /\ starts' = starts + 1
  /\ heardHashes' = <<>> /\ ready' = <<>> /\ upserting' = Idle /\ storing' = Idle
  /\ asking' = "idle" /\ replies' = {} /\ overtaken' = FALSE
  /\ \E path \in PathsFor(profile) : item' = [hash |-> profile, path |-> path]
  /\ UNCHANGED <<profile, images, announced, requests>> /\ UNCHANGED ownerVars

AvatarNext ==
  \/ \E h \in Hashes : ChooseAvatar(h) \/ AnswerRequest(h) \/ ReceiveImage(h)
  \/ ClearAvatar \/ SaveIdentity \/ RemoveOwnImages \/ Announce \/ RestartOwner
  \/ Upsert \/ CleanImages \/ QueueProfile \/ ApplyProfile \/ StoreImage \/ RemoveImages \/ QueueImage
  \/ DrainImages \/ RestartViewer

AvatarSpec == AvatarInit /\ [][AvatarNext]_avatarVars
-----------------------------------------------------------------------------
(* Properties.                                                             *)

\* What the owner's identity names can be handed out: its image is there, also when
\* the program ended between two steps of a choice.  The viewer shows no image of a
\* cleared avatar, and once the announcements are applied and the images drained,
\* it shows one that exists, the announced one if it has it: the removals by the
\* discovery and the TCP thread and the paths the UI thread sets agree.  Excepted,
\* until the next announcement is applied, is an image that was on its way to the
\* item while the profile changed.
ShownAvatarExists ==
  /\ identity # NoAvatar => identity.hash \in ownImages
  /\ item.hash = NoAvatar => item.path = NoAvatar
  /\ upserting = Idle /\ heardHashes = <<>> => item.hash = profile
  /\ upserting = Idle /\ heardHashes = <<>> /\ NoneComing /\ ~overtaken =>
       /\ item.path # NoAvatar => item.path.hash \in images
       /\ item.hash # NoAvatar /\ item.hash.hash \in images => item.path = item.hash
=============================================================================
