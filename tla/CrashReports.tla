------------------------------ MODULE CrashReports ------------------------------
(* Crash reports (platform/crash_*_win.cpp).  A crashing process writes a       *)
(* folder data/crashes/crash-<local time>, removes the oldest ones and starts    *)
(* the same executable as a reporter, which asks the user and starts it once     *)
(* more as an uploader.  The processes share the folders and nothing else, and    *)
(* each of them may end at any point.                                           *)
(*                                                                            *)
(* A report id is the local time in seconds: two crashes may have the same one, *)
(* and a later crash an earlier one when the clock is set back.                 *)
EXTENDS Naturals, FiniteSets, FiniteSetsExt

CONSTANTS
  Programs,     \* processes that installed the handlers: the program, its helper
  CrashThreads, \* threads of each that may run into an error
  MaxId,        \* bound on the report ids in use
  MaxRetained   \* g_maximumRetainedCrashes

ASSUME CrashAssumption == MaxId \in Nat

VARIABLES
  alive,     \* programs that run
  capturing, \* g_captureInProgress of each, which is never reset
  writer,    \* thread -> how far its writeCrashReport is, and its report id
  reports,   \* ids of the folders that exist
  content,   \* id -> what is whole in its folder
  reporter,  \* thread -> the reporter process started for it
  uploader,  \* thread -> the uploader that reporter started
  stored,    \* ids of the reports the server has
  agreed,    \* (history) ids the user wanted to be sent
  declined,  \* (history) ids the user did not want to be sent
  byHand     \* (history) whether a reporter was started by hand

crashVars == <<alive, capturing, writer, reports, content, reporter, uploader,
               stored, agreed, declined, byHand>>

Writers == Programs \X CrashThreads
ReportIds == 1 .. MaxId
NoId == 0
Parts == {"crash.dmp", "report.txt"}   \* the latter with the logs and the other texts
PartDump == "part of crash.dmp"
Marker == "uploaded.txt"
Archive == "uploading.tar.gz"

WriterStates ==
  [step : {"none", "dump", "texts", "prune", "launch", "over"},
   id : ReportIds \union {NoId}, failed : BOOLEAN]

ReporterStates ==
  [step : {"none", "select", "ask", "over"},
   filter : ReportIds \union {NoId}, id : ReportIds \union {NoId}]

UploaderStates ==
  [step : {"none", "list", "begin", "pack", "send", "finish", "over"},
   filter : ReportIds \union {NoId}, todo : SUBSET ReportIds,
   packed : SUBSET (Parts \union {PartDump}), sent : BOOLEAN]

CrashTypeOK ==
  /\ alive \subseteq Programs
  /\ capturing \in [Programs -> BOOLEAN]
  /\ writer \in [Writers -> WriterStates]
  /\ reports \subseteq ReportIds
  /\ content \in [ReportIds -> SUBSET (Parts \union {PartDump, Marker, Archive})]
  /\ \A i \in ReportIds \ reports : content[i] = {}
  /\ reporter \in [Writers -> ReporterStates]
  /\ uploader \in [Writers -> UploaderStates]
  /\ stored \subseteq ReportIds /\ agreed \subseteq ReportIds /\ declined \subseteq ReportIds
  /\ byHand \in BOOLEAN

CrashInit ==
  /\ alive = Programs
  /\ capturing = [p \in Programs |-> FALSE]
  /\ writer = [w \in Writers |-> [step |-> "none", id |-> NoId, failed |-> FALSE]]
  /\ reports = {} /\ content = [i \in ReportIds |-> {}]
  /\ reporter = [w \in Writers |-> [step |-> "none", filter |-> NoId, id |-> NoId]]
  /\ uploader = [w \in Writers |-> [step |-> "none", filter |-> NoId, todo |-> {},
                                    packed |-> {}, sent |-> FALSE]]
  /\ stored = {} /\ agreed = {} /\ declined = {}
  /\ byHand = FALSE

-----------------------------------------------------------------------------
(* The crashing process.                                                   *)

\* The end of program p: its threads write no more.
Dies(p) ==
  /\ alive' = alive \ {p}
  /\ writer' = [w \in Writers |->
       IF w[1] = p /\ writer[w].step # "none"
         THEN [writer[w] EXCEPT !.step = "over", !.failed = @ \/ writer[w].step # "over"]
         ELSE writer[w]]

\* writeCrashReport begins on thread w: its folder is named after the time.
Begins(w) ==
  \E i \in ReportIds :
    writer' = [writer EXCEPT ![w] = [step |-> "dump", id |-> i, failed |-> FALSE]]

\* tryBeginCapture.
MayCapture(p) == ~capturing[p]

\* A fatal exception, an unhandled one, a signal, a pure virtual call or
\* terminate on thread w.  While or after another capture it ends the process,
\* a capture of another thread included.
Crashes(w) ==
  LET p == w[1] IN
  /\ p \in alive /\ writer[w].step = "none"
  /\ IF MayCapture(p)
       THEN /\ capturing' = [capturing EXCEPT ![p] = TRUE]
            /\ Begins(w) /\ UNCHANGED alive
       ELSE Dies(p) /\ UNCHANGED capturing
  /\ UNCHANGED <<reports, content, reporter, uploader, stored, agreed, declined, byHand>>

\* crashInvalidParameterHandler: an error of a CRT call counts as a crash once a
\* capture has begun, and is captured without asking tryBeginCapture.
InvalidParameter(w) ==
  /\ w[1] \in alive /\ writer[w].step = "none" /\ capturing[w[1]]
  /\ Begins(w)
  /\ UNCHANGED <<alive, capturing, reports, content, reporter, uploader, stored,
                 agreed, declined, byHand>>

\* The program goes on after an exception that was handled after all, or ends.
Ends(p) ==
  /\ p \in alive /\ capturing[p]
  /\ Dies(p)
  /\ UNCHANGED <<capturing, reports, content, reporter, uploader, stored, agreed,
                 declined, byHand>>

\* Mutant of NextStep: the reporter is started when the dump is there.
NextStepEarly ==
  [dump |-> "launch", launch |-> "texts", texts |-> "prune", prune |-> "over"]

\* The order of the steps of writeCrashReport.
NextStep ==
  [dump |-> "texts", texts |-> "prune", prune |-> "launch", launch |-> "over"]

\* Thread w goes on; an error of a file is only noted here, not there.
GoesOn(w, ok) ==
  writer' = [writer EXCEPT ![w].step = NextStep[@], ![w].failed = @ \/ ~ok]

\* The capture of thread w ends early.
GivesUp(w) ==
  writer' = [writer EXCEPT ![w].step = "over", ![w].failed = TRUE]

\* The folder is made and the dump written.  A dump that fails leaves a part of one
\* or, where no file could be made, what was there; without a folder the capture ends.
WriteDump(w) ==
  LET i == writer[w].id IN
  /\ writer[w].step = "dump"
  /\ \/ /\ reports' = reports \union {i}
        /\ \E ok \in BOOLEAN :
             /\ IF ok THEN content' = [content EXCEPT ![i] = (@ \ {PartDump}) \union {"crash.dmp"}]
                ELSE \/ content' = [content EXCEPT ![i] = (@ \ {"crash.dmp"}) \union {PartDump}]
                     \/ UNCHANGED content
             /\ GoesOn(w, ok)
     \/ GivesUp(w) /\ UNCHANGED <<reports, content>>
  /\ UNCHANGED <<alive, capturing, reporter, uploader, stored, agreed, declined, byHand>>

\* The copies of the logs, report.txt, metadata.txt and symbolize.txt; in a folder
\* that was removed meanwhile nothing can be written.
WriteTexts(w) ==
  LET i == writer[w].id IN
  /\ writer[w].step = "texts"
  /\ \E ok \in BOOLEAN :
       /\ content' = [content EXCEPT ![i] = IF ok /\ i \in reports THEN @ \union {"report.txt"}
                                                                   ELSE @ \ {"report.txt"}]
       /\ GoesOn(w, ok /\ i \in reports)
  /\ UNCHANGED <<alive, capturing, reports, reporter, uploader, stored, agreed,
                 declined, byHand>>

\* ReportIds of the folders that are removed: all but the newest by name.
Superfluous ==
  {i \in reports : Cardinality({j \in reports : j > i}) >= MaxRetained}

\* pruneOldCrashReports.  A folder with an archive that is being written or sent
\* stays, emptied of the rest.
PruneReports(w) ==
  LET open == {i \in ReportIds : \E u \in Writers :
                 uploader[u].step \in {"pack", "send"} /\ i = Min(uploader[u].todo)} IN
  /\ writer[w].step = "prune"
  /\ reports' = reports \ (Superfluous \ open)
  /\ content' = [i \in ReportIds |-> IF i \notin Superfluous THEN content[i]
                               ELSE content[i] \intersect (IF i \in open THEN {Archive} ELSE {})]
  /\ GoesOn(w, TRUE)
  /\ UNCHANGED <<alive, capturing, reporter, uploader, stored, agreed, declined, byHand>>

\* launchCrashReporterProcess, which may fail unnoticed.
LaunchReporter(w) ==
  /\ writer[w].step = "launch"
  /\ GoesOn(w, TRUE)
  /\ \/ reporter[w].step = "none"
        /\ reporter' = [reporter EXCEPT ![w] = [step |-> "select", filter |-> writer[w].id,
                                                id |-> NoId]]
     \/ UNCHANGED reporter
  /\ UNCHANGED <<alive, capturing, reports, content, uploader, stored, agreed,
                 declined, byHand>>

\* The capture runs into an error of its own, which runProtected ends.
CaptureFaults(w) ==
  /\ writer[w].step \notin {"none", "over"}
  /\ GivesUp(w)
  /\ UNCHANGED <<alive, capturing, reports, content, reporter, uploader, stored,
                 agreed, declined, byHand>>

-----------------------------------------------------------------------------
(* The reporter process.                                                   *)

\* findPendingCrashReports and the filter of its callers.
Pending(filter) ==
  {i \in reports : Marker \notin content[i] /\ filter \in {NoId, i}}

\* A user starts the reporter, for any report there is.
StartByHand(w) ==
  /\ ~byHand /\ byHand' = TRUE
  /\ reporter[w].step = "none" /\ writer[w].step \in {"none", "over"}
  /\ reporter' = [reporter EXCEPT ![w] = [step |-> "select", filter |-> NoId, id |-> NoId]]
  /\ UNCHANGED <<alive, capturing, writer, reports, content, uploader, stored,
                 agreed, declined>>

\* selectPendingCrashes; the first report is the one that is shown.
SelectPending(w) ==
  LET pending == Pending(reporter[w].filter) IN
  /\ reporter[w].step = "select"
  /\ reporter' = [reporter EXCEPT ![w] =
       IF pending = {} THEN [@ EXCEPT !.step = "over"]
                       ELSE [@ EXCEPT !.step = "ask", !.id = Min(pending)]]
  /\ UNCHANGED <<alive, capturing, writer, reports, content, uploader, stored,
                 agreed, declined, byHand>>

\* markCrashReportUploaded; nothing is written where the folder is gone.
Marked(i) ==
  IF i \in reports THEN [content EXCEPT ![i] = @ \union {Marker}] ELSE content

\* Mutant of UploadFilter: the uploader is started for all reports.
UploadFilterNone(i) == NoId

\* The report id that the uploader is started with.
UploadFilter(i) == i

\* The answer to promptUi, or to promptConsole where no window can be shown; a
\* reporter that is ended instead leaves as much as "cancel".  uploadReports then
\* waits for the uploader, and what that returns only decides on a message.
AnswerPrompt(w, answer) ==
  LET i == reporter[w].id IN
  /\ reporter[w].step = "ask"
  /\ reporter' = [reporter EXCEPT ![w].step = "over"]
  /\ agreed' = IF answer = "yes" THEN agreed \union {i} ELSE agreed
  /\ declined' = IF answer = "no" THEN declined \union {i} ELSE declined
  /\ content' = IF answer = "no" THEN Marked(i) ELSE content
  /\ uploader' = IF answer = "yes"
       THEN [uploader EXCEPT ![w].step = "list", ![w].filter = UploadFilter(i)]
       ELSE uploader
  /\ UNCHANGED <<alive, capturing, writer, reports, stored, byHand>>

-----------------------------------------------------------------------------
(* The uploader process, runCrashUploadMode.                               *)

Report(w) == Min(uploader[w].todo)

\* The uploader turns to the next report, or ends.
NextReport(w) ==
  LET rest == uploader[w].todo \ {Report(w)} IN
  uploader' = [uploader EXCEPT ![w].todo = rest, ![w].packed = {}, ![w].sent = FALSE,
                               ![w].step = IF rest = {} THEN "over" ELSE "begin"]

ListReports(w) ==
  LET todo == Pending(uploader[w].filter) IN
  /\ uploader[w].step = "list"
  /\ uploader' = [uploader EXCEPT ![w].todo = todo,
                                  ![w].step = IF todo = {} THEN "over" ELSE "begin"]
  /\ UNCHANGED <<alive, capturing, writer, reports, content, reporter, stored,
                 agreed, declined, byHand>>

\* createCrashReportArchive: the files are listed, there must be a crash.dmp, whole
\* or not, and the archive of an earlier attempt is replaced.
BeginArchive(w) ==
  LET i == Report(w) IN
  /\ uploader[w].step = "begin"
  /\ IF {"crash.dmp", PartDump} \intersect content[i] # {}
       THEN /\ uploader' = [uploader EXCEPT ![w].step = "pack",
                              ![w].packed = content[i] \intersect (Parts \union {PartDump})]
            /\ content' = [content EXCEPT ![i] = @ \union {Archive}]
       ELSE NextReport(w) /\ UNCHANGED content
  /\ UNCHANGED <<alive, capturing, writer, reports, reporter, stored, agreed,
                 declined, byHand>>

\* Every listed file must be read, or the archive is removed.
PackArchive(w) ==
  LET i == Report(w) IN
  /\ uploader[w].step = "pack"
  /\ \/ /\ uploader[w].packed \subseteq content[i] /\ Archive \in content[i]
        /\ uploader' = [uploader EXCEPT ![w].step = "send", ![w].packed = {}]
        /\ UNCHANGED content
     \/ /\ NextReport(w)
        /\ content' = [content EXCEPT ![i] = @ \ {Archive}]
  /\ UNCHANGED <<alive, capturing, writer, reports, reporter, stored, agreed,
                 declined, byHand>>

\* uploadFile: the server keeps the archive or not, and its answer arrives or not.
SendArchive(w) ==
  LET i == Report(w) IN
  /\ uploader[w].step = "send"
  /\ \/ /\ Archive \in content[i]
        /\ stored' = stored \union {i}
        /\ \E answered \in BOOLEAN :
             uploader' = [uploader EXCEPT ![w].step = "finish", ![w].sent = answered]
     \/ /\ uploader' = [uploader EXCEPT ![w].step = "finish", ![w].sent = FALSE]
        /\ UNCHANGED stored
  /\ UNCHANGED <<alive, capturing, writer, reports, content, reporter, agreed,
                 declined, byHand>>

\* Whether the report is marked: only after an answer with this submission_id.
ToMark(w) == uploader[w].sent

\* The archive is removed and a report that was sent is marked.
FinishReport(w) ==
  LET i == Report(w) IN
  /\ uploader[w].step = "finish"
  /\ content' = [content EXCEPT ![i] =
       (@ \ {Archive}) \union (IF ToMark(w) /\ i \in reports THEN {Marker} ELSE {})]
  /\ NextReport(w)
  /\ UNCHANGED <<alive, capturing, writer, reports, reporter, stored, agreed,
                 declined, byHand>>

\* The uploader is ended from outside.
Killed(w) ==
  /\ uploader[w].step \notin {"none", "over"}
  /\ uploader' = [uploader EXCEPT ![w].step = "over", ![w].todo = {},
                                  ![w].packed = {}, ![w].sent = FALSE]
  /\ UNCHANGED <<alive, capturing, writer, reports, content, reporter, stored, agreed,
                 declined, byHand>>

CrashNext ==
  \/ \E p \in Programs : Ends(p)
  \/ \E w \in Writers :
       \/ Crashes(w) \/ InvalidParameter(w)
       \/ WriteDump(w) \/ WriteTexts(w) \/ PruneReports(w) \/ LaunchReporter(w)
       \/ CaptureFaults(w)
       \/ StartByHand(w) \/ SelectPending(w)
       \/ \E answer \in {"yes", "no", "cancel"} : AnswerPrompt(w, answer)
       \/ ListReports(w) \/ BeginArchive(w) \/ PackArchive(w) \/ SendArchive(w)
       \/ FinishReport(w) \/ Killed(w)

CrashSpec == CrashInit /\ [][CrashNext]_crashVars
-----------------------------------------------------------------------------
(* Properties.                                                             *)

\* The user's answers decide: a report was sent only if the user agreed to send
\* that one, and a report that will not be asked about again was refused or is on
\* the server, however uploads fail, answers get lost and processes end.
AnswersAreKept ==
  /\ stored \subseteq agreed
  /\ \A i \in reports :
       Marker \in content[i] => i \in declined \union stored

\* What the reporter of a crash shows and what is sent of it is whole: the dump and
\* the texts of this crash are written before anybody is asked.  Excepted are
\* reports of which a file could not be written, whose name another capture took as
\* well, which were pruned, or which somebody else has started to upload.
AskedIsWhole ==
  \A w \in Writers :
    /\ writer[w].step # "none" /\ ~writer[w].failed
    /\ reporter[w].step = "ask" /\ reporter[w].filter = writer[w].id
    /\ writer[w].id \in reports
    /\ \A u \in Writers : uploader[u].filter # writer[w].id
    /\ \A v \in Writers \ {w} : writer[v].id # writer[w].id
    => Parts \subseteq content[writer[w].id]
=============================================================================
