---------------------------- MODULE FolderTransfers ----------------------------
(***************************************************************************)
(* One folder on its way from its sender to its receiver (app_runtime.cpp):  *)
(* what the sender streams from an offset of the folder's bytes, and what the *)
(* receiver makes of it on its disk.  Frames of a stream arrive in order; the   *)
(* stream ends after any of them.  Offsets count the bytes of all files, in the *)
(* order of their paths; a directory and an empty file take none.              *)
(***************************************************************************)
EXTENDS Naturals, Sequences, FiniteSets, FiniteSetsExt, TransferRules

CONSTANTS
  MaxEntries,    \* bound on the entries of the folder
  MaxFileSize,   \* bound on the size of a file, in chunks
  MaxEnds,       \* bound on cuts of connections
  MaxAnswers     \* bound on answers of the receiver on their way

ASSUME FolderAssumption ==
  {MaxEntries, MaxFileSize, MaxEnds, MaxAnswers} \subseteq Nat

VARIABLES
  folder,      \* the sender's entries: [dir, size]; a directory has no file in it
  target,      \* the receiver's entries: Absent, or their content
  foreign,     \* size of the files in the target that the folder does not have
  receivedSize, \* the pending transfer's received size, or NotPending
  state,       \* state of the receiver's message part
  answers,     \* what the receiver has asked for: [offset, onLoss], on its way
  sending,     \* NoStream, or what the sender is about to send
  overwritten, \* (history) the user chose a folder that was already there
  begunAnew,   \* (history) a late answer began a stream over received bytes
  streamed,    \* the sender has streamed before: it may ask to resume
  ends

foldVars == <<folder, target, foreign, receivedSize, state, answers, sending,
              overwritten, begunAnew, streamed, ends>>

Absent == <<"absent">>
NotPending == MaxEntries * MaxFileSize + 1
NoStream == [entry |-> 0, offset |-> 0, fileOffset |-> 0, offered |-> FALSE]
Entries == DOMAIN folder
Folders ==
  UNION {[1..n -> [dir : {FALSE}, size : 0..MaxFileSize]
                   \union [dir : {TRUE}, size : {0}]] : n \in 1..MaxEntries}

\* folderPackageEntriesTotalFileSize
SumSizes(sizes) ==
  LET upTo[n \in 0..Len(sizes)] == IF n = 0 THEN 0 ELSE upTo[n - 1] + sizes[n]
  IN upTo[Len(sizes)]
Total == SumSizes([i \in Entries |-> folder[i].size])
StartOf(i) == SumSizes([j \in 1..(i - 1) |-> folder[j].size])
SizeAt(i) == IF target[i] = Absent THEN 0 ELSE Len(target[i])

\* existingIncomingFolderPayloadSize: every file under the root counts.
Measured ==
  LET sum == foreign + SumSizes([i \in Entries |-> SizeAt(i)])
  IN IF sum < Total THEN sum ELSE Total

\* An answer of a user's accept has a run of its own, whose failure makes the
\* message Failed or Interrupted; that of an answer to a request is only logged.
AnswersUpTo(size) ==
  [offset : 0..size, onLoss : {"Failed", "Interrupted", "none"}]

\* A run that another accept or the end of the program has superseded does not
\* report; its answer may have been sent already.
Superseded == {[a EXCEPT !.onLoss = "none"] : a \in answers}

FoldTypeOK ==
  /\ folder \in Folders /\ foreign \in 0..1
  /\ target \in [Entries -> Seq({"new", "old"}) \union {Absent}]
  /\ receivedSize \in 0..NotPending /\ state \in States
  /\ answers \subseteq AnswersUpTo(MaxEntries * MaxFileSize)
  /\ sending.entry \in 0..(Len(folder) + 1)
  /\ {overwritten, begunAnew, streamed} \subseteq BOOLEAN
  /\ ends \in 0..MaxEnds

FoldInit ==
  /\ folder \in Folders
  /\ target = [i \in Entries |-> Absent] /\ foreign = 0
  /\ receivedSize = NotPending /\ state = "Offered"
  /\ answers = {} /\ sending = NoStream
  /\ overwritten = FALSE /\ begunAnew = FALSE /\ streamed = FALSE
  /\ ends = 0

-----------------------------------------------------------------------------
(* The receiver.                                                           *)

Update(new) == state' = IF IgnoresUpdate(state, new) THEN state ELSE new

\* What the receiver begins with, and the offset it answers.
Answer(earlier, offset, onLoss) ==
  /\ receivedSize' = offset
  /\ answers' = earlier \union {[offset |-> offset, onLoss |-> onLoss]}
  /\ Cardinality(answers') <= MaxAnswers

\* Contents of a folder of the same name: some of the entries, of any size.
OldContent(i) == {Absent, <<>>} \union
  (IF folder[i].dir THEN {} ELSE {[k \in 1..MaxFileSize |-> "old"]})

\* acceptIncomingTransfer of an offered folder, into a free path or over a folder
\* of its name, whose content is kept.
AcceptOffered ==
  /\ state = "Offered"
  /\ state' = "Transferring"
  /\ \/ UNCHANGED <<target, foreign, overwritten>>
     \/ /\ overwritten' = TRUE /\ foreign' \in {0, 1}
        /\ target' \in {t \in [Entries -> UNION {OldContent(i) : i \in Entries}] :
                          \A i \in Entries : t[i] \in OldContent(i)}
  /\ Answer(Superseded, 0, "Failed")
  /\ UNCHANGED <<folder, sending, begunAnew, streamed, ends>>

\* acceptIncomingTransfer of an interrupted one: what is there is measured.
AcceptInterrupted ==
  /\ state = "Interrupted"
  /\ state' = "Transferring"
  /\ Answer(Superseded, Measured, "Interrupted")
  /\ UNCHANGED <<folder, target, foreign, sending, overwritten, begunAnew, streamed, ends>>

\* The request to resume of a sender whose stream was cut.  An interrupted
\* transfer goes on where it is; one that failed begins again in a path of its own.
ResumeRequest ==
  /\ streamed /\ sending = NoStream /\ state \in {"Interrupted", "Failed"}
  /\ IF receivedSize # NotPending \/ state = "Interrupted"
       THEN Answer(answers, Measured, "none") /\ UNCHANGED <<target, foreign, overwritten>>
       ELSE /\ Answer(answers, 0, "none")
            /\ target' = [i \in Entries |-> Absent]
            /\ foreign' = 0 /\ overwritten' = FALSE
  /\ Update("Transferring")
  /\ UNCHANGED <<folder, sending, begunAnew, streamed, ends>>

\* The answer does not reach the sender, and the user's part hears of it: an
\* accept fails, one of an interrupted transfer is interrupted again.  The pending
\* transfer stays.  (Until then a lost answer is one still on its way.)
LoseAnswer(a) ==
  /\ a \in answers /\ ends < MaxEnds
  /\ ends' = ends + 1
  /\ answers' = answers \ {a}
  /\ IF a.onLoss = "none" THEN UNCHANGED state ELSE Update(a.onLoss)
  /\ UNCHANGED <<folder, target, foreign, receivedSize, sending, overwritten, begunAnew, streamed>>

Interrupt ==
  IF receivedSize = NotPending THEN UNCHANGED <<receivedSize, state>>
  ELSE receivedSize' = NotPending /\ Update("Interrupted")

\* A frame the receiver refuses fails a pending transfer; the connection and its
\* stream go on.
Refuse ==
  /\ receivedSize' = NotPending
  /\ IF receivedSize = NotPending THEN UNCHANGED state ELSE Update("Failed")
  /\ UNCHANGED target

-----------------------------------------------------------------------------
(* The sender's stream, each frame together with its handling.             *)

\* Mutant of FirstEntry: the entry in which the offset lies is skipped as well.
SkipTooMuch(offset) ==
  IF offset = 0 THEN 1
  ELSE Min({i \in Entries : StartOf(i) >= offset} \union {Len(folder) + 1})

\* The resume loop of sendTransferPartFrames skips every entry that ends at or
\* before the offset.
FirstEntry(offset) ==
  IF offset = 0 THEN 1
  ELSE Min({i \in Entries : StartOf(i) + folder[i].size > offset}
             \union {Len(folder) + 1})

\* The sender starts the stream an answer asks for; one that runs is superseded,
\* and with it its connection ends.
StartStream(a) ==
  /\ a \in answers
  /\ answers' = answers \ {a}
  /\ LET k == a.offset
         first == FirstEntry(k) IN
     sending' = [entry |-> first, offset |-> k, offered |-> FALSE,
                fileOffset |-> IF first \in Entries THEN k - StartOf(first) ELSE 0]
  /\ IF sending = NoStream THEN UNCHANGED <<receivedSize, state>> ELSE Interrupt
  /\ streamed' = TRUE
  /\ UNCHANGED <<folder, target, foreign, overwritten, begunAnew, ends>>

\* The offer that opens the stream: a pending transfer is measured again, any
\* other begins at nothing in the folder that is there or in a path of its own.
\* (One that follows a completion is left out: it does not touch that folder.)
SendOffer ==
  /\ sending # NoStream /\ ~sending.offered /\ state # "Completed"
  /\ sending' = [sending EXCEPT !.offered = TRUE]
  /\ IF receivedSize # NotPending \/ state = "Interrupted"
       THEN /\ receivedSize' = IF receivedSize # NotPending THEN Measured ELSE 0
            /\ begunAnew' = (begunAnew \/ (receivedSize = NotPending /\ Measured > 0))
            /\ UNCHANGED <<target, foreign, overwritten>>
       ELSE /\ receivedSize' = 0
            /\ target' = [i \in Entries |-> Absent]
            /\ foreign' = 0 /\ overwritten' = FALSE /\ UNCHANGED begunAnew
  /\ Update("Transferring")
  /\ UNCHANGED <<folder, answers, streamed, ends>>

\* writeIncomingFolderTransferChunk
Written(content, at) ==
  IF at = 0 THEN <<"new">> ELSE Append(content, "new")

\* The chunk of a directory or of an empty file.
SendEmptyEntry ==
  /\ sending.offered /\ sending.entry \in Entries
  /\ folder[sending.entry].size = 0
  /\ sending' = [sending EXCEPT !.entry = @ + 1]
  /\ IF receivedSize # sending.offset THEN Refuse
     ELSE /\ target' = [target EXCEPT ![sending.entry] = <<>>]
          /\ UNCHANGED <<receivedSize, state>>
  /\ UNCHANGED <<folder, foreign, answers, overwritten, begunAnew, streamed, ends>>

\* A chunk of a file, written behind the content that must be there already.
SendFileChunk ==
  /\ sending.offered /\ sending.entry \in Entries
  /\ LET i == sending.entry
         at == sending.fileOffset
         last == at + 1 = folder[i].size
     IN
     /\ folder[i].size > 0
     /\ sending' = [sending EXCEPT !.offset = @ + 1,
                      !.entry = IF last THEN @ + 1 ELSE @,
                      !.fileOffset = IF last THEN 0 ELSE @ + 1]
     /\ IF \/ receivedSize # sending.offset
           \/ at > 0 /\ (target[i] = Absent \/ SizeAt(i) # at)
          THEN Refuse
          ELSE /\ target' = [target EXCEPT ![i] = Written(@, at)]
               /\ receivedSize' = receivedSize + 1
               /\ UNCHANGED state
  /\ UNCHANGED <<folder, foreign, answers, overwritten, begunAnew, streamed, ends>>

\* The frame behind the last chunk; the receiver compares sizes, not entries.
SendComplete ==
  /\ sending.offered /\ sending.entry = Len(folder) + 1
  /\ sending' = NoStream
  /\ IF receivedSize # Total THEN Refuse
     ELSE receivedSize' = NotPending /\ Update("Completed") /\ UNCHANGED target
  /\ UNCHANGED <<folder, foreign, answers, overwritten, begunAnew, streamed, ends>>

\* A connection to the receiver ends, that of the stream or another one, or the
\* receiving program is started again.
Cut ==
  /\ ends < MaxEnds
  /\ ends' = ends + 1
  /\ Interrupt
  /\ sending' \in {sending, NoStream}
  /\ answers' \in {answers, Superseded}
  /\ UNCHANGED <<folder, target, foreign, overwritten, begunAnew, streamed>>

FoldNext ==
  \/ AcceptOffered \/ AcceptInterrupted \/ ResumeRequest
  \/ \E a \in answers : LoseAnswer(a) \/ StartStream(a)
  \/ SendOffer \/ SendEmptyEntry \/ SendFileChunk \/ SendComplete
  \/ Cut

FoldSpec == FoldInit /\ [][FoldNext]_foldVars

-----------------------------------------------------------------------------

\* A folder received into a path of its own and shown as completed has every
\* file that has bytes, whole, however often it was cut and resumed: the count
\* that a resumed stream goes on from stands for a beginning of the folder.  It
\* does not after a late answer, which begins at nothing and shortens a file that
\* others follow, nor in a folder that was there before.
CompletedFilesAreWhole ==
  state = "Completed" /\ ~overwritten /\ ~begunAnew =>
    \A i \in Entries : folder[i].size > 0 =>
      target[i] # Absent /\ SizeAt(i) = folder[i].size

\* A completed folder has every file and every directory of the sender
\* (docs/file-folder-transfer-design.md:30, RelayDesk_Project_Plan.md:832).
CompletedFolderIsWhole ==
  state = "Completed" =>
    \A i \in Entries :
      target[i] # Absent /\ target[i] = [k \in 1..folder[i].size |-> "new"]
=============================================================================
