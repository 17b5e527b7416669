----------------------------- MODULE StartupLaunch -----------------------------
(* Whether Windows starts the program with the session (platform/startup_launch, *)
(* storage/ui_preferences, and their callers in skiaui_background.cpp and           *)
(* skiaui_app.cpp).  Three places hold a part of the answer: the Run value, the      *)
(* approval that Windows' own settings write, and config.json beside the program.   *)
(* The program changes them one at a time, each change may fail, and the process    *)
(* may end between any two.                                                        *)
CONSTANT Folders   \* directories that hold a copy of the program and its data

VARIABLES
  registered,  \* the Run value: the copy it names, or Nobody
  approval,    \* the StartupApproved value
  configs,     \* folder -> config.json
  running,     \* the copy that runs: SingleInstanceGuard lets one run
  duty,        \* what the user interface thread is doing
  toggleShown, \* binding.launchAtStartupEnabled
  switchedOff  \* (history) who switched the entry off last: the user in Windows,
               \* or the settings page of a copy; Nobody when it may be on

startVars == <<registered, approval, configs, running, duty, toggleShown, switchedOff>>

Nobody == "nobody"
Windows == "windows"

ASSUME FoldersAssumption == Folders \intersect {Nobody, Windows} = {}

\* A config.json, with one setting that stands for the others; a missing file and
\* a missing field read as the defaults.
Defaults == [launch |-> TRUE, dark |-> FALSE]
Unreadable == [cut |-> TRUE]

\* by: the start of the program, or the settings the user toggles.
Free == [step |-> "free"]
Step(step, by, on) == [step |-> step, by |-> by, on |-> on]
Callers == {"start", "launch", "dark"}

StartTypeOK ==
  /\ registered \in Folders \union {Nobody}
  /\ approval \in {"absent", "enabled", "disabled"}
  /\ configs \in [Folders -> [launch : BOOLEAN, dark : BOOLEAN] \union {Unreadable}]
  /\ running \in Folders \union {Nobody}
  /\ \/ duty = Free
     \/ duty \in [step : {"look", "write", "clear", "verify", "save", "show"},
                  by : Callers, on : BOOLEAN]
     \/ duty \in [step : {"flush"}, by : Callers, on : BOOLEAN,
                  old : [launch : BOOLEAN, dark : BOOLEAN]]
  /\ toggleShown \in BOOLEAN
  /\ switchedOff \in Folders \union {Nobody, Windows}

StartInit ==
  /\ registered = Nobody /\ approval = "absent"
  /\ configs = [f \in Folders |-> Defaults]
  /\ running = Nobody /\ duty = Free /\ toggleShown = FALSE
  /\ switchedOff = Nobody
-----------------------------------------------------------------------------
(* What the code reads.                                                     *)

\* readStartupCommand and commandsCurrentExecutable
Registered == registered # Nobody
OwnEntry == registered = running

\* readStartupApproval and isDisabledApproval: a missing approval disables nothing,
\* whatever is not the enabled one does.
Disabled == approval = "disabled"

\* Mutant of StartupState: an entry of another copy is seen before its approval.
StartupStateByPath ==
  CASE ~Registered -> "NotRegistered"
    [] Registered /\ ~OwnEntry -> "DifferentExecutable"
    [] OwnEntry /\ Disabled -> "DisabledBySystem"
    [] OTHER -> "Enabled"

\* getStartupLaunchState
StartupState ==
  CASE ~Registered -> "NotRegistered"
    [] Registered /\ Disabled -> "DisabledBySystem"
    [] Registered /\ ~Disabled /\ ~OwnEntry -> "DifferentExecutable"
    [] OTHER -> "Enabled"

\* readConfigJson with the readers of its fields: whoever reads an unreadable file
\* throws, and the callers in the user interface take the default instead.
Readable == configs[running] # Unreadable
Loaded(field) == IF Readable THEN configs[running][field] ELSE Defaults[field]
FieldOf(by) == IF by = "dark" THEN "dark" ELSE "launch"
-----------------------------------------------------------------------------
(* The start of the program and the settings page.                           *)

StartProgram(f) ==
  /\ running = Nobody
  /\ running' = f /\ duty' = Step("look", "start", FALSE)
  /\ switchedOff' = IF switchedOff \in {f, Windows} THEN switchedOff ELSE Nobody
  /\ UNCHANGED <<registered, approval, configs, toggleShown>>

\* synchronizeLaunchAtStartup: the system's answer decides, and the setting only
\* where no entry of this copy is there.  Reading either may fail.
Synchronize ==
  /\ duty.step = "look"
  /\ \/ duty' = Step("show", "start", FALSE)
     \/ /\ Readable
        /\ LET configured == Loaded("launch") IN
           duty' = CASE StartupState = "Enabled" ->
                          Step(IF configured THEN "show" ELSE "save", "start", TRUE)
                     [] StartupState = "DisabledBySystem" ->
                          Step(IF configured THEN "save" ELSE "show", "start", FALSE)
                     [] OTHER -> Step("write", "start", configured)
  /\ UNCHANGED <<registered, approval, configs, running, toggleShown, switchedOff>>

\* The binding of the main window is filled after the synchronisation.
ShowMain ==
  /\ duty.step = "show"
  /\ \/ toggleShown' = (StartupState = "Enabled")
     \/ toggleShown' = Loaded("launch")
  /\ duty' = Free
  /\ UNCHANGED <<registered, approval, configs, running, switchedOff>>

\* "open-settings" reads the system's state again; a failure leaves what is shown.
OpenSettings ==
  /\ running # Nobody /\ duty = Free
  /\ toggleShown' = (StartupState = "Enabled")
  /\ UNCHANGED <<registered, approval, configs, running, duty, switchedOff>>

\* "settings-startup-toggle"
ToggleLaunch ==
  /\ running # Nobody /\ duty = Free
  /\ duty' = Step("write", "launch", ~toggleShown)
  /\ switchedOff' = Nobody
  /\ UNCHANGED <<registered, approval, configs, running, toggleShown>>

\* The toggles of the other settings.
SaveSetting(on) ==
  /\ running # Nobody /\ duty = Free
  /\ duty' = Step("save", "dark", on)
  /\ UNCHANGED <<registered, approval, configs, running, toggleShown, switchedOff>>
-----------------------------------------------------------------------------
(* setStartupLaunchEnabled: enabling writes the Run value and then removes the *)
(* approval, disabling removes the approval and then the Run value.           *)

\* A step throws: the start only reports it, the settings page shows what the
\* system says, when it can be read.
Fails ==
  /\ duty.step \in {"write", "clear", "verify"}
  /\ \/ toggleShown' = toggleShown
     \/ duty.by = "launch" /\ toggleShown' = (StartupState = "Enabled")
  /\ duty' = IF duty.by = "start" THEN Step("show", "start", FALSE) ELSE Free
  /\ UNCHANGED <<registered, approval, configs, running, switchedOff>>

WriteEntry ==
  /\ duty.step = "write"
  /\ IF duty.on THEN registered' = running /\ UNCHANGED approval
                ELSE approval' = "absent" /\ UNCHANGED registered
  /\ duty' = [duty EXCEPT !.step = "clear"]
  /\ UNCHANGED <<configs, running, toggleShown, switchedOff>>

ClearEntry ==
  /\ duty.step = "clear"
  /\ IF duty.on THEN approval' = "absent" /\ UNCHANGED registered
                ELSE registered' = Nobody /\ UNCHANGED approval
  /\ duty' = [duty EXCEPT !.step = "verify"]
  /\ UNCHANGED <<configs, running, toggleShown, switchedOff>>

\* What is read back must be what was asked for; the start has nothing to save
\* then, because the setting was followed.
VerifyEntry ==
  /\ duty.step = "verify"
  /\ StartupState = (IF duty.on THEN "Enabled" ELSE "NotRegistered")
  /\ IF duty.by = "start"
       THEN duty' = [duty EXCEPT !.step = "show"] /\ UNCHANGED toggleShown
       ELSE duty' = [duty EXCEPT !.step = "save"] /\ toggleShown' = duty.on
  /\ UNCHANGED <<registered, approval, configs, running, switchedOff>>
-----------------------------------------------------------------------------
(* save...(paths, value): the whole file is read, changed and written in place. *)

With(config, field, value) == [config EXCEPT ![field] = value]

AfterSave == IF duty.by = "start" THEN Step("show", "start", FALSE) ELSE Free

\* The file cannot be read or opened: nothing is saved, now or (when it is
\* unreadable) ever.  The settings page says so.
SaveFails ==
  /\ duty.step = "save"
  /\ duty' = AfterSave
  /\ UNCHANGED <<registered, approval, configs, running, toggleShown, switchedOff>>

\* Opening the file empties it.
SaveBegins ==
  /\ duty.step = "save" /\ Readable
  /\ duty' = [step |-> "flush", by |-> duty.by, on |-> duty.on,
              old |-> configs[running]]
  /\ configs' = [configs EXCEPT ![running] = Unreadable]
  /\ UNCHANGED <<registered, approval, running, toggleShown, switchedOff>>

\* The text is written when the stream is closed, where a failure goes unnoticed.
SaveEnds ==
  /\ duty.step = "flush"
  /\ \/ configs' = [configs EXCEPT
                      ![running] = With(duty.old, FieldOf(duty.by), duty.on)]
     \/ UNCHANGED configs
  /\ duty' = AfterSave
  /\ switchedOff' = IF duty.by = "launch" /\ ~duty.on THEN running ELSE switchedOff
  /\ UNCHANGED <<registered, approval, running, toggleShown>>
-----------------------------------------------------------------------------
(* The process, the user in Windows' settings, and the file system.           *)

\* The program ends, by itself or not, at any point.
EndProgram ==
  /\ running # Nobody
  /\ running' = Nobody /\ duty' = Free /\ toggleShown' = FALSE
  /\ UNCHANGED <<registered, approval, configs, switchedOff>>

\* Windows lists the entries that have a Run value.  A program that is between
\* reading and writing them does not see the change and may undo it.
DisableInWindows ==
  /\ Registered
  /\ approval' = "disabled"
  /\ switchedOff' = IF duty = Free THEN Windows ELSE Nobody
  /\ UNCHANGED <<registered, configs, running, duty, toggleShown>>

EnableInWindows ==
  /\ Registered
  /\ approval' = "enabled" /\ switchedOff' = Nobody
  /\ UNCHANGED <<registered, configs, running, duty, toggleShown>>

\* A copy is moved to another folder with its data, in place of what was there.
MoveProgram(f, g) ==
  /\ running = Nobody /\ f # g
  /\ configs' = [configs EXCEPT ![g] = configs[f], ![f] = Defaults]
  /\ switchedOff' = CASE switchedOff = f -> g
                      [] switchedOff = g -> Nobody
                      [] OTHER -> switchedOff
  /\ UNCHANGED <<registered, approval, running, duty, toggleShown>>

StartNext ==
  \/ \E f \in Folders : StartProgram(f)
  \/ Synchronize \/ ShowMain \/ OpenSettings \/ ToggleLaunch
  \/ \E on \in BOOLEAN : SaveSetting(on)
  \/ Fails \/ WriteEntry \/ ClearEntry \/ VerifyEntry
  \/ SaveFails \/ SaveBegins \/ SaveEnds
  \/ EndProgram \/ DisableInWindows \/ EnableInWindows
  \/ \E f, g \in Folders : MoveProgram(f, g)

StartSpec == StartInit /\ [][StartNext]_startVars
-----------------------------------------------------------------------------
(* Properties.                                                             *)

\* An entry that the user switched off does not start the program again until the
\* user switches it on: neither a start of any copy after Windows disabled it, nor
\* a start of the same copy, wherever it is, after its settings page reported the
\* change as done; whatever failed or was cut short in between.
OffStaysOff ==
  switchedOff # Nobody => ~Registered \/ Disabled
=============================================================================
