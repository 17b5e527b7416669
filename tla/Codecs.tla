-------------------------------- MODULE Codecs --------------------------------
(* Messages, records and profiles as they are written and read back: the JSON *)
(* headers of frames (net/peer_message.cpp) and the frames around them         *)
(* (net/peer_frame.cpp), the records of a chat history (storage/               *)
(* history_store.cpp), announcements, peer profiles and the local identity.    *)
(* A behaviour fills one message, writes it, may change the written form as an *)
(* older or another program would have written it, and reads it.               *)
(*                                                                             *)
(* A value is a class of values that the code treats alike: "text" any         *)
(* ordinary text, "some" any positive number of the field's type, "wide" a     *)
(* number that only fits after cutting it to 32 bits, "other" a JSON value of  *)
(* another type or outside the field's range.                                  *)
EXTENDS Naturals

CONSTANT MaxOdd   \* bound on the fields that are not as usual, plus changes

VARIABLES
  kind,      \* which pair of functions is used
  memory,    \* the message in memory, field by field
  written,   \* its written form, or Refused
  recovered, \* what was read, or Refused
  stage,     \* "filling", "written" or "read"
  odd,       \* fields set or changed so far
  changed    \* the written form is not the one this program wrote

codecVars == <<kind, memory, written, recovered, stage, odd, changed>>

CodecAssumption == MaxOdd \in Nat
ASSUME CodecAssumption

Refused == [refused |-> "yes"]

-----------------------------------------------------------------------------
\* A field type: its usual value, the values it may hold in memory, what the
\* writer makes of those it takes and what the reader makes of those it takes.
Field(usual, holds, write, read) ==
  [usual |-> usual, holds |-> holds, write |-> write, read |-> read]

AsIs(values) == [v \in values |-> v]

\* One more value, which stands for another.
AsIsAnd(values, more, other) ==
  [v \in values \cup {more} |-> IF v = more THEN other ELSE v]

Plain(usual, holds, taken) == Field(usual, holds, AsIs(taken), AsIs(taken))

Envelope == Plain("right", {"right"}, {"right"})
RequiredText == Plain("text", {"", "text"}, {"text"})
MessageText == Plain("text", {"", "text", "over 1 MiB"}, {"text", "over 1 MiB"})
OptionalText ==
  LET held == {"missing", "", "text"}
  IN Field("missing", held, AsIs(held), AsIsAnd(held, "other", "missing"))
\* a part's field that its type does not have: written if set, never read
IgnoredText ==
  Field("missing", {"missing", "text"}, AsIs({"missing", "text"}),
        [v \in {"missing", "", "text", "other"} |-> "missing"])
IgnoredNumber ==
  Field("missing", {"missing", "zero", "some"}, AsIs({"missing", "zero", "some"}),
        [v \in {"missing", "zero", "some", "other"} |-> "missing"])
Flag ==
  Field("no", {"no", "yes"}, AsIs({"no", "yes"}),
        AsIsAnd({"no", "yes"}, "missing", "no"))
Unsigned == Plain("some", {"zero", "some"}, {"zero", "some"})
UnsignedOrZero ==
  Field("zero", {"zero", "some"}, AsIs({"zero", "some"}),
        AsIsAnd({"zero", "some"}, "missing", "zero"))
OptionalUnsigned ==
  Plain("missing", {"missing", "zero", "some"}, {"missing", "zero", "some"})
RequiredPartSize == Plain("some", {"missing", "zero", "some"}, {"zero", "some"})
\* the writer refuses an empty package, the reader does not
PackageSize ==
  Field("some", {"zero", "some"}, AsIs({"some"}), AsIs({"zero", "some"}))
Version ==
  Field("some", {"negative", "zero", "some"}, AsIs({"zero", "some"}),
        AsIsAnd({"zero", "some"}, "wide", "some"))
OptionalVersion ==
  Field("some", {"negative", "zero", "some"}, AsIs({"zero", "some"}),
        [v \in {"missing", "zero", "some", "wide"} |->
           IF v = "missing" THEN "zero" ELSE IF v = "wide" THEN "some" ELSE v])
Port ==
  Field("some", {"zero", "some"}, AsIs({"some"}), AsIsAnd({"some"}, "wide", "some"))
TextList == Plain("list", {"empty", "list", "with an empty text"}, {"empty", "list"})
PartList == Plain("list", {"empty", "list"}, {"list"})
DirectoryName == Plain("text", {"", "text", "a path"}, {"text"})
Hash == Plain("hash", {"", "text", "hash"}, {"hash"})
HashOrCleared == Plain("hash", {"", "text", "hash"}, {"", "hash"})
\* left out by a program that knows no avatars, empty when there is none now
HashOrUnknown == Plain("hash", {"missing", "", "text", "hash"}, {"missing", "", "hash"})
\* Mutant of HashIfAny: the reader insists on the field that the writer leaves
\* out when it is empty.
HashAlways ==
  Field("hash", {"", "text", "hash"}, AsIsAnd({"hash"}, "", "missing"),
        AsIs({"", "hash"}))

\* An empty hash is left out of a file.
HashIfAny ==
  Field("hash", {"", "text", "hash"}, AsIsAnd({"hash"}, "", "missing"),
        AsIsAnd({"", "hash"}, "missing", ""))

DirectionNames == Plain("in", {"in", "out"}, {"in", "out"})
DeliveryNames ==
  LET states == {"pending", "sent", "delivered", "received", "completed",
                 "failed", "cancelled"}
  IN Plain("sent", states, states)
TransferNames ==
  LET states == {"pending", "offered", "transferring", "interrupted",
                 "completed", "failed", "cancelled", "rejected"}
  IN Plain("offered", states, states)
StrategyNames ==
  Field("unique", {"unique", "overwrite"}, AsIs({"unique", "overwrite"}),
        AsIsAnd({"unique", "overwrite"}, "missing", "unique"))
Quote == Plain("missing", {"missing", "quote", "with an empty text"},
               {"missing", "quote"})
\* path, offset and directory flag of a folder's chunk. Without a path the other
\* two are not written; an empty path is written unchecked and not read.
FolderEntryFields ==
  LET read == {"missing", "file", "directory"}
  IN Field("missing", read \cup {"no path", "empty path"},
           AsIsAnd(read \cup {"empty path"}, "no path", "missing"), AsIs(read))

-----------------------------------------------------------------------------
\* The fields of every kind of frame.

\* The fields of two groups.
Together(a, b) ==
  [f \in DOMAIN a \cup DOMAIN b |-> IF f \in DOMAIN a THEN a[f] ELSE b[f]]

TransferIds ==
  [message_id |-> RequiredText, part_id |-> RequiredText,
   transfer_id |-> RequiredText]

TransferOffer ==
  Together(TransferIds,
  [sender_device_id |-> RequiredText, file_name |-> RequiredText,
   file_size |-> Unsigned, image_transfer |-> Flag, folder_transfer |-> Flag,
   resume_request |-> Flag, sha256 |-> OptionalText])

TransferAccept ==
  Together(TransferIds,
  [receiver_device_id |-> RequiredText, save_strategy |-> StrategyNames,
   resume_offset |-> UnsignedOrZero])

TransferReject ==
  Together(TransferIds, [receiver_device_id |-> RequiredText, reason |-> RequiredText])

TransferCancel ==
  Together(TransferIds, [canceller_device_id |-> RequiredText, reason |-> RequiredText])

TransferChunk ==
  Together(TransferIds, [offset |-> Unsigned, folder |-> FolderEntryFields])

TransferComplete ==
  Together(TransferIds, [file_size |-> Unsigned, sha256 |-> OptionalText])

UpdateRequest ==
  [request_id |-> RequiredText, requester_device_id |-> RequiredText,
   current_app_version |-> Version, requested_app_version |-> Version]

UpdateChunk ==
  [request_id |-> RequiredText, offset |-> Unsigned, file_size |-> PackageSize]

UpdateComplete ==
  [request_id |-> RequiredText, app_version |-> Version,
   file_name |-> RequiredText, file_size |-> Unsigned]

AvatarRequest ==
  [requester_device_id |-> RequiredText, device_id |-> RequiredText,
   avatar_sha256 |-> Hash]

Avatar == [device_id |-> RequiredText, avatar_sha256 |-> HashOrCleared]

NoBody == Plain("none", {"none"}, {"none"})
Content == Plain("bytes", {"none", "bytes", "over 1 GiB"}, {"none", "bytes"})
AvatarContent == Plain("bytes", {"none", "bytes", "over 64 KiB"}, {"none", "bytes"})

\* A header names its protocol, version and type; most kinds have no body.
Framed(fields, body) ==
  Together(fields, [envelope |-> Envelope, body |-> body])

FrameFields ==
  [transfer_offer |-> Framed(TransferOffer, NoBody),
   transfer_accept |-> Framed(TransferAccept, NoBody),
   transfer_reject |-> Framed(TransferReject, NoBody),
   transfer_cancel |-> Framed(TransferCancel, NoBody),
   transfer_chunk |-> Framed(TransferChunk, Content),
   transfer_complete |-> Framed(TransferComplete, NoBody),
   app_update_request |-> Framed(UpdateRequest, NoBody),
   app_update_chunk |-> Framed(UpdateChunk, Content),
   app_update_complete |-> Framed(UpdateComplete, NoBody),
   avatar_request |-> Framed(AvatarRequest, NoBody),
   avatar |-> Framed(Avatar, AvatarContent)]

-----------------------------------------------------------------------------
\* A chat message with one part, by the type of the part.

RecordFields ==
  [message_id |-> RequiredText, conversation_id |-> RequiredText,
   direction |-> DirectionNames, sender_device_id |-> RequiredText,
   receiver_device_id |-> RequiredText,
   sender_display_name_snapshot |-> RequiredText,
   receiver_display_name_snapshot |-> RequiredText,
   created_at |-> RequiredText, delivery_state |-> DeliveryNames,
   quote |-> Quote, parts |-> PartList, part_id |-> RequiredText]

Textual ==
  [text |-> IgnoredText, emoji |-> IgnoredText, transfer_id |-> IgnoredText,
   file_name |-> IgnoredText, file_size |-> IgnoredNumber,
   transferred_size |-> IgnoredNumber, sha256 |-> IgnoredText,
   local_path |-> IgnoredText, manifest_path |-> IgnoredText]

FileLike ==
  Together([Textual EXCEPT !.transfer_id = RequiredText, !.file_name = RequiredText,
                           !.local_path = RequiredText],
           [transfer_state |-> TransferNames])

FilePart ==
  [FileLike EXCEPT !.file_size = RequiredPartSize,
                   !.transferred_size = OptionalUnsigned, !.sha256 = OptionalText]

PartFields ==
  [text |-> [Textual EXCEPT !.text = MessageText],
   emoji |-> [Textual EXCEPT !.emoji = RequiredText],
   image |-> FilePart,
   file |-> FilePart,
   folder |-> [FileLike EXCEPT !.file_size = OptionalUnsigned,
                               !.manifest_path = OptionalText]]

\* A record of the first version has one part, in the record itself and without
\* an id, a state or a transferred size of its own.
LegacyFields(type) ==
  LET current == Together(RecordFields, PartFields[type])
      unread == {"parts", "part_id", "transfer_state", "transferred_size"}
  IN [f \in DOMAIN current |->
        IF f \in unread
        THEN Field(current[f].usual, current[f].holds, current[f].write,
                   [v \in current[f].holds \cup {"missing", "other"} |->
                      current[f].usual])
        ELSE current[f]]

LegacyTransferState(delivery) ==
  IF delivery \in {"sent", "delivered", "received"} THEN "offered" ELSE delivery

-----------------------------------------------------------------------------
\* What is announced and what is kept in files of its own.

AnnouncementFields ==
  [envelope |-> Envelope, type |-> RequiredText,
   device_id |-> RequiredText, host_name |-> RequiredText,
   display_name |-> RequiredText, tcp_port |-> Port,
   app_version |-> OptionalVersion, capabilities |-> TextList,
   timestamp |-> RequiredText, avatar_sha256 |-> HashOrUnknown]

ProfileFields ==
  [schema_version |-> Envelope,
   device_id |-> DirectoryName, host_name |-> RequiredText,
   display_name |-> RequiredText, last_addresses |-> TextList,
   tcp_port |-> Port, app_version |-> OptionalVersion,
   unread_count |-> OptionalVersion, capabilities |-> TextList,
   first_seen_at |-> RequiredText, last_seen_at |-> RequiredText,
   avatar_sha256 |-> HashIfAny]

IdentityFields ==
  [schema_version |-> Envelope,
   device_id |-> RequiredText, install_id |-> RequiredText,
   created_at |-> RequiredText, host_name |-> RequiredText,
   display_name |-> RequiredText, avatar_sha256 |-> HashIfAny]

FileFields ==
  [announcement |-> AnnouncementFields, peer_profile |-> ProfileFields,
   local_identity |-> IdentityFields]

CodecKinds ==
  ({"frame"} \X DOMAIN FrameFields) \cup ({"file"} \X DOMAIN FileFields)
  \cup ({"sent", "kept", "legacy"} \X DOMAIN PartFields)

FieldsOf(k) ==
  CASE k[1] = "frame" -> FrameFields[k[2]]
    [] k[1] = "file" -> FileFields[k[2]]
    [] k[1] = "sent" -> Framed(Together(RecordFields, PartFields[k[2]]), NoBody)
    [] k[1] = "kept" -> Together(RecordFields, PartFields[k[2]])
    [] k[1] = "legacy" -> LegacyFields(k[2])

-----------------------------------------------------------------------------

\* A cleared avatar has no picture and any other has one.
BodyFits(k, m) ==
  k = <<"frame", "avatar">> => (m.body = "bytes" <=> m.avatar_sha256 # "")

\* A frame's header has at most 1 MiB.
HeaderFits(k, m) ==
  k[1] = "sent" => \A f \in DOMAIN m : m[f] # "over 1 MiB"

Encode(k, m) ==
  LET fields == FieldsOf(k)
  IN IF /\ \A f \in DOMAIN fields : m[f] \in DOMAIN fields[f].write
        /\ BodyFits(k, m)
        /\ HeaderFits(k, m)
     THEN [f \in DOMAIN fields |-> fields[f].write[m[f]]]
     ELSE Refused

Decode(k, w) ==
  LET fields == FieldsOf(k)
      read == [f \in DOMAIN fields |-> fields[f].read[w[f]]]
  IN IF /\ \A f \in DOMAIN fields : w[f] \in DOMAIN fields[f].read
        /\ BodyFits(k, w)
     THEN IF k[1] = "legacy" /\ "transfer_state" \in DOMAIN fields
          THEN [read EXCEPT !.transfer_state = LegacyTransferState(read.delivery_state)]
          ELSE read
     ELSE Refused

-----------------------------------------------------------------------------

CodecInit ==
  /\ kind \in CodecKinds
  /\ memory = [f \in DOMAIN FieldsOf(kind) |-> FieldsOf(kind)[f].usual]
  /\ written = Refused
  /\ recovered = Refused
  /\ stage = "filling"
  /\ odd = 0
  /\ changed = FALSE

SetField(f) ==
  /\ stage = "filling"
  /\ odd < MaxOdd
  /\ \E v \in FieldsOf(kind)[f].holds :
       /\ v # memory[f]
       /\ memory' = [memory EXCEPT ![f] = v]
  /\ odd' = odd + 1
  /\ UNCHANGED <<kind, written, recovered, stage, changed>>

WriteMessage ==
  /\ stage = "filling"
  /\ written' = Encode(kind, memory)
  /\ stage' = "written"
  /\ UNCHANGED <<kind, memory, recovered, odd, changed>>

\* The form was not written by this program: one field is different.
Change(f) ==
  /\ stage = "written"
  /\ written # Refused
  /\ odd < MaxOdd
  /\ \E v \in FieldsOf(kind)[f].holds \cup DOMAIN FieldsOf(kind)[f].read
             \cup {"missing", "other"} :
       written' = [written EXCEPT ![f] = v]
  /\ odd' = odd + 1
  /\ changed' = TRUE
  /\ UNCHANGED <<kind, memory, recovered, stage>>

ReadMessage ==
  /\ stage = "written"
  /\ written # Refused
  /\ recovered' = Decode(kind, written)
  /\ stage' = "read"
  /\ UNCHANGED <<kind, memory, written, odd, changed>>

CodecNext ==
  \/ \E f \in DOMAIN memory : SetField(f) \/ Change(f)
  \/ WriteMessage
  \/ ReadMessage

CodecSpec == CodecInit /\ [][CodecNext]_codecVars

-----------------------------------------------------------------------------

CodecTypeOK ==
  /\ kind \in CodecKinds
  /\ DOMAIN memory = DOMAIN FieldsOf(kind)
  /\ \A f \in DOMAIN memory : memory[f] \in FieldsOf(kind)[f].holds
  /\ stage \in {"filling", "written", "read"}
  /\ odd \in 0 .. MaxOdd
  /\ changed \in BOOLEAN
  /\ written = Refused \/ DOMAIN written = DOMAIN memory
  /\ recovered # Refused =>
       \A f \in DOMAIN memory : recovered[f] \in FieldsOf(kind)[f].holds

\* What a record loses when it is read: the fields its part has no use for, and
\* how much of a folder was transferred.
Forgotten(k) ==
  IF k[1] \notin {"sent", "kept"} THEN {}
  ELSE CASE k[2] = "text" -> DOMAIN Textual \ {"text"}
         [] k[2] = "emoji" -> DOMAIN Textual \ {"emoji"}
         [] k[2] \in {"image", "file"} -> {"text", "emoji", "manifest_path"}
         [] k[2] = "folder" -> {"text", "emoji", "transferred_size", "sha256"}

IsChunk(k) == k = <<"frame", "transfer_chunk">>

\* A chunk of a folder's entry whose path is empty.
EmptyPath(k, m) == IsChunk(k) /\ m.folder = "empty path"

\* What comes back of a message: not the forgotten fields, nor the offset and
\* the directory flag of a chunk without a path.
GivenBack(k, m) ==
  [f \in DOMAIN FieldsOf(k) |->
     IF f \in Forgotten(k) \/ (IsChunk(k) /\ f = "folder" /\ m[f] = "no path")
     THEN "missing" ELSE m[f]]

\* Whatever a writer of this program takes, its reader takes and gives back, with
\* one exception: a chunk with an empty path, which is written unchecked, is
\* always refused.
WrittenIsRead ==
  (stage = "read" /\ ~changed /\ kind[1] # "legacy") =>
     recovered = IF EmptyPath(kind, memory) THEN Refused ELSE GivenBack(kind, memory)

\* What a reader takes from a file, also one that another version wrote, can be
\* written again, as records and profiles are when they change, and is then
\* read as the same.
ReadCanBeKept ==
  (stage = "read" /\ recovered # Refused /\ kind[1] \in {"file", "kept", "legacy"}) =>
     LET now == IF kind[1] = "legacy" THEN <<"kept", kind[2]>> ELSE kind
     IN /\ Encode(now, recovered) # Refused
        /\ Decode(now, Encode(now, recovered)) = recovered

\* Writers and readers agree.
CodecsAgree == WrittenIsRead /\ ReadCanBeKept
=============================================================================
