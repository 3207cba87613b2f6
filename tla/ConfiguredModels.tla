--------------------------- MODULE ConfiguredModels ---------------------------
(***************************************************************************)
(* Models, settings and the start of a dictation from both (src-tauri:     *)
(* models.rs, settings.rs, the commands of ipc.rs and the recognizers that *)
(* dictation.rs keeps).  Commands run on worker threads, so that two of    *)
(* them may be anywhere in the middle; the process may end at any point,   *)
(* and is started again from its files.                                    *)
(***************************************************************************)
EXTENDS Naturals

CONSTANTS
  Workers,          \* threads that run commands
  Models, Devices,
  Languages,        \* hints the user may give, "auto" among them
  None,             \* no model, no device, no file
  Partial,          \* the content of a file that was not written to its end
  Platforms,        \* "posix" and "windows"
  MaxCommands,      \* bound: commands given, those that end a dictation aside
  MaxCrashes        \* bound: times the process ends unexpectedly

ASSUME ModelsAssumption ==
  /\ {None, Partial} \cap (Workers \cup Models \cup Devices \cup Languages \cup {"auto"}) = {}
  /\ Platforms \subseteq {"posix", "windows"}
  /\ MaxCommands \in Nat /\ MaxCrashes \in Nat

VARIABLES
  platform,
  settings,         \* the settings in memory
  file, tmp,        \* the settings file and the one it is replaced through
  told,             \* history: per field, what the last command that saved it was told
  writer,           \* who holds the lock of the settings
  installed,        \* per model, the stamp of its file, and whether it passed validation
  part,             \* per model, what is in its temporary file
  installer,        \* who holds the lock for model operations
  stamp,            \* the last stamp given to a file
  worker,           \* per worker: step and data of its command
  slot,             \* the dictation under way: its state, who inserts its text, and
                    \* its recognizer while it is recorded
  cache,            \* the recognizer that is kept for the next one
  commands, crashes

settingsVars == <<settings, file, tmp, told, writer>>
modelVars == <<installed, part, installer, stamp>>
dictationVars == <<slot, cache>>
vars == <<platform, settingsVars, modelVars, worker, dictationVars, commands, crashes>>

Fields == {"device", "model", "language"}

Default == [f \in Fields |-> None]

Absent == [stamp |-> 0, valid |-> FALSE]

NoRecognizer == [model |-> None, key |-> 0, stamp |-> 0, asked |-> 0]

IdleWorker == [pc |-> "idle", model |-> None, snapshot |-> Default, field |-> "model",
               value |-> None, next |-> Default, after |-> "idle", key |-> 0,
               recognizer |-> NoRecognizer]

Idle == [state |-> "idle", owner |-> None, recognizer |-> NoRecognizer]

Init ==
  /\ platform \in Platforms
  /\ settings = Default /\ file = None /\ tmp = None /\ told = Default /\ writer = None
  /\ installed \in [Models -> {Absent, [stamp |-> 1, valid |-> TRUE]}]
  /\ part = [m \in Models |-> None]
  /\ installer = None
  /\ stamp = 1
  /\ worker = [w \in Workers |-> IdleWorker]
  /\ slot = Idle
  /\ cache = NoRecognizer
  /\ commands = 0 /\ crashes = 0

At(w, step) == worker[w].pc = step

Goes(w, step) == worker' = [worker EXCEPT ![w].pc = step]

Ends(w) == worker' = [worker EXCEPT ![w] = IdleWorker]

IsInstalled(m) == m \in Models /\ installed[m] # Absent

---------------------------------------------------------------------------
(* SettingsService.                                                        *)

(* "auto" is the same as no hint.                                          *)
Normalize(value) == IF value = "auto" THEN None ELSE value

(* The worker is to change one field and to go on elsewhere afterwards.    *)
ToUpdate(w, field, value, after) ==
  worker' = [worker EXCEPT ![w].pc = "update", ![w].field = field, ![w].value = value,
                           ![w].after = after]

(* update: the lock is held from the copy to the assignment.               *)
(* Fault: a start changes the settings it took at its beginning.           *)
LockStale(w) ==
  /\ At(w, "update")
  /\ writer = None
  /\ writer' = w
  /\ LET base == IF worker[w].after = "idle" THEN settings ELSE worker[w].snapshot
     IN worker' = [worker EXCEPT ![w].pc = "write",
          ![w].next = [base EXCEPT ![worker[w].field] = Normalize(worker[w].value)]]
  /\ UNCHANGED <<settings, file, tmp, told, modelVars, dictationVars>>
Lock(w) ==
  /\ At(w, "update")
  /\ writer = None
  /\ writer' = w
  /\ worker' = [worker EXCEPT ![w].pc = "write",
       ![w].next = [settings EXCEPT ![worker[w].field] = Normalize(worker[w].value)]]
  /\ UNCHANGED <<settings, file, tmp, told, modelVars, dictationVars>>

(* write_settings: a failure ends the command with the settings as they    *)
(* were, and leaves the temporary file behind.                             *)
(* Fault: the lock is kept when the write fails.                           *)
UpdateFailsLocked(w) ==
  /\ worker[w].pc \in {"write", "replace", "removed"}
  /\ tmp' \in IF At(w, "write") THEN {tmp, Partial} ELSE {tmp, None}
  /\ Ends(w)
  /\ UNCHANGED <<settings, file, told, writer, modelVars, dictationVars>>
UpdateFails(w) ==
  /\ worker[w].pc \in {"write", "replace", "removed"}
  /\ tmp' \in IF At(w, "write") THEN {tmp, Partial} ELSE {tmp, None}
  /\ writer' = None
  /\ Ends(w)
  /\ UNCHANGED <<settings, file, told, modelVars, dictationVars>>

(* Fault: the file is written where it is.                                 *)
WriteInPlace(w) ==
  /\ At(w, "write")
  /\ file' = Partial
  /\ tmp' = worker[w].next
  /\ Goes(w, "replace")
  /\ UNCHANGED <<settings, told, writer, modelVars, dictationVars>>
Write(w) ==
  /\ At(w, "write")
  /\ tmp' = worker[w].next
  /\ Goes(w, "replace")
  /\ UNCHANGED <<settings, file, told, writer, modelVars, dictationVars>>

(* On Windows the old file is removed before the new one takes its place.  *)
RemoveOld(w) ==
  /\ At(w, "replace")
  /\ platform = "windows"
  /\ file # None
  /\ file' = None
  /\ Goes(w, "removed")
  /\ UNCHANGED <<settings, tmp, told, writer, modelVars, dictationVars>>

Rename(w) ==
  /\ At(w, "removed") \/ (At(w, "replace") /\ (platform = "posix" \/ file = None))
  /\ file' = tmp
  /\ tmp' = None
  /\ Goes(w, "renamed")
  /\ UNCHANGED <<settings, told, writer, modelVars, dictationVars>>

Assign(w) ==
  /\ At(w, "renamed")
  /\ settings' = worker[w].next
  /\ told' = [told EXCEPT ![worker[w].field] = Normalize(worker[w].value)]
  /\ writer' = None
  /\ worker' = [worker EXCEPT ![w] = [IdleWorker EXCEPT !.pc = worker[w].after,
       !.model = IF worker[w].after = "idle" THEN None ELSE worker[w].model,
       !.snapshot = IF worker[w].after = "choose" THEN worker[w].next ELSE Default]]
  /\ UNCHANGED <<file, tmp, modelVars, dictationVars>>

Update(w) ==
  Lock(w) \/ UpdateFails(w) \/ Write(w) \/ RemoveOld(w) \/ Rename(w) \/ Assign(w)

(* settings_set_input_device, settings_set_language_hint and               *)
(* settings_set_model; a model is looked for before the lock is taken.     *)
Set(w) ==
  /\ \/ \E d \in Devices : ToUpdate(w, "device", d, "idle")
     \/ \E l \in Languages : ToUpdate(w, "language", l, "idle")
     \/ \E m \in {n \in Models : IsInstalled(n)} \cup {None} : ToUpdate(w, "model", m, "idle")
  /\ UNCHANGED modelVars

---------------------------------------------------------------------------
(* ModelManager.  Its lock is tried, never waited for.                     *)

(* install: what an earlier attempt left is removed, and a model that is   *)
(* there is kept.                                                          *)
Install(w) ==
  \E m \in Models :
    /\ installer = None
    /\ IF IsInstalled(m)
       THEN /\ worker' = [worker EXCEPT ![w].pc = "installed", ![w].model = m]
            /\ UNCHANGED <<installer, part>>
       ELSE /\ worker' = [worker EXCEPT ![w].pc = "download", ![w].model = m]
            /\ installer' = w
            /\ part' = [part EXCEPT ![m] = None]
    /\ UNCHANGED <<installed, stamp>>

PartGets(w, content) == part' = [part EXCEPT ![worker[w].model] = content]

(* Any error on the way removes the temporary file.                        *)
InstallFails(w) ==
  /\ worker[w].pc \in {"download", "receive", "check", "commit"}
  /\ PartGets(w, None)
  /\ installer' = None
  /\ Ends(w)
  /\ UNCHANGED <<installed, stamp, settingsVars, dictationVars>>

Download(w) ==
  /\ At(w, "download")
  /\ PartGets(w, Partial)
  /\ Goes(w, "receive")
  /\ UNCHANGED <<installed, installer, stamp, settingsVars, dictationVars>>

(* The response ends: with the model, with another file of that size, or   *)
(* early.                                                                  *)
Receive(w) ==
  /\ At(w, "receive")
  /\ \E content \in {"model", "other", Partial} : PartGets(w, content)
  /\ Goes(w, "check")
  /\ UNCHANGED <<installed, installer, stamp, settingsVars, dictationVars>>

(* TranscribeRecognizer::load: the engine takes nothing but a model, whose *)
(* sample rate it reports as a positive number.                            *)
Loadable(content) == content = "model"

(* The lengths, and whether a recognizer can be loaded.                    *)
(* Fault: the lengths alone decide.                                        *)
CheckLength(w) ==
  /\ At(w, "check")
  /\ part[worker[w].model] # Partial
  /\ Goes(w, "commit")
  /\ UNCHANGED <<modelVars, settingsVars, dictationVars>>
Check(w) ==
  /\ At(w, "check")
  /\ part[worker[w].model] # Partial /\ Loadable(part[worker[w].model])
  /\ Goes(w, "commit")
  /\ UNCHANGED <<modelVars, settingsVars, dictationVars>>

Commit(w) ==
  /\ At(w, "commit")
  /\ stamp' = stamp + 1
  /\ installed' = [installed EXCEPT ![worker[w].model] =
       [stamp |-> stamp + 1, valid |-> Loadable(part[worker[w].model])]]
  /\ PartGets(w, None)
  /\ installer' = None
  /\ Goes(w, "installed")
  /\ UNCHANGED <<settingsVars, dictationVars>>

(* model_install and model_remove then look at the settings: the lock of   *)
(* the models is free again, that of the settings must be.                 *)
AfterInstall(w) ==
  /\ At(w, "installed")
  /\ writer = None
  /\ IF settings["model"] = None THEN ToUpdate(w, "model", worker[w].model, "idle") ELSE Ends(w)
  /\ UNCHANGED <<settingsVars, modelVars, dictationVars>>

Remove(w) ==
  /\ installer = None
  /\ \E m \in Models :
       /\ worker' = [worker EXCEPT ![w].pc = "gone", ![w].model = m]
       /\ installed' = [installed EXCEPT ![m] = Absent]
  /\ UNCHANGED <<part, installer, stamp>>

AfterRemove(w) ==
  /\ At(w, "gone")
  /\ writer = None
  /\ IF settings["model"] = worker[w].model THEN ToUpdate(w, "model", None, "idle") ELSE Ends(w)
  /\ UNCHANGED <<settingsVars, modelVars, dictationVars>>

ModelStep(w) ==
  \/ InstallFails(w) \/ Download(w) \/ Receive(w) \/ Check(w) \/ Commit(w)
  \/ AfterInstall(w) \/ AfterRemove(w)

---------------------------------------------------------------------------
(* start_configured_dictation and DesktopDictationService::start.          *)

Start(w) ==
  /\ writer = None
  /\ worker' = [worker EXCEPT ![w].pc = "discover", ![w].snapshot = settings]
  /\ UNCHANGED modelVars

(* Of the microphones found the selected one is used, or any; that choice  *)
(* is saved over the user's.                                               *)
Discover(w) ==
  /\ At(w, "discover")
  /\ \E found \in SUBSET Devices :
       LET selected == worker[w].snapshot["device"]
       IN \/ selected \in found /\ Goes(w, "choose")
          \/ found = {} /\ Ends(w)
          \/ selected \notin found /\ \E d \in found : ToUpdate(w, "device", d, "choose")
  /\ UNCHANGED <<settingsVars, modelVars, dictationVars>>

(* So it is with the models that are installed.                            *)
Choose(w) ==
  /\ At(w, "choose")
  /\ LET selected == worker[w].snapshot["model"]
         there == {m \in Models : IsInstalled(m)}
     IN \/ /\ selected \in there
           /\ worker' = [worker EXCEPT ![w] = [IdleWorker EXCEPT !.pc = "prepare", !.model = selected]]
        \/ there = {} /\ Ends(w)
        \/ /\ selected \notin there
           /\ \E m \in there :
                worker' = [worker EXCEPT ![w].pc = "update", ![w].field = "model",
                             ![w].value = m, ![w].after = "prepare", ![w].model = m]
  /\ UNCHANGED <<settingsVars, modelVars, dictationVars>>

(* RecognizerCacheKey: path, length and time of the file, if it is there.  *)
(* Fault: the path is the key.                                             *)
KeyByPath(m) == 0
KeyFor(m) == installed[m].stamp

Prepare(w) ==
  /\ At(w, "prepare")
  /\ IF slot.state = "idle"
     THEN slot' = [Idle EXCEPT !.state = "preparing"] /\ Goes(w, "lookup")
     ELSE Ends(w) /\ UNCHANGED slot
  /\ UNCHANGED <<settingsVars, modelVars, cache>>

LookUp(w) ==
  /\ At(w, "lookup")
  /\ worker' = [worker EXCEPT ![w].pc = "acquire", ![w].key = KeyFor(worker[w].model),
       ![w].recognizer = [NoRecognizer EXCEPT !.asked = installed[worker[w].model].stamp]]
  /\ UNCHANGED <<settingsVars, modelVars, dictationVars>>

Gets(w, loaded) ==
  worker' = [worker EXCEPT ![w].pc = "capture",
               ![w].recognizer = [@ EXCEPT !.model = worker[w].model, !.key = worker[w].key,
                                           !.stamp = loaded]]

(* acquire_recognizer: whatever was kept is taken, and dropped when it is  *)
(* not the one.                                                            *)
Acquire(w) ==
  /\ At(w, "acquire")
  /\ cache' = NoRecognizer
  /\ IF cache.model = worker[w].model /\ cache.key = worker[w].key
     THEN Gets(w, cache.stamp)
     ELSE Goes(w, "load")
  /\ UNCHANGED <<settingsVars, modelVars, slot>>

Load(w) ==
  /\ At(w, "load")
  /\ \/ IsInstalled(worker[w].model) /\ Gets(w, installed[worker[w].model].stamp)
     \/ worker' = [worker EXCEPT ![w] = [IdleWorker EXCEPT !.pc = "reset"]]
  /\ UNCHANGED <<settingsVars, modelVars, dictationVars>>

(* The recognizer will be kept for the next dictation, then comes after.   *)
Keeps(w, recognizer, after) ==
  worker' = [worker EXCEPT ![w].pc = "keep", ![w].recognizer = recognizer, ![w].after = after]

StartCapture(w) ==
  /\ At(w, "capture")
  /\ Goes(w, "occupy") \/ Keeps(w, worker[w].recognizer, "reset")
  /\ UNCHANGED <<settingsVars, modelVars, dictationVars>>

(* The slot need not be Preparing any more, and not for this start.        *)
Occupy(w) ==
  /\ At(w, "occupy")
  /\ IF slot.state = "preparing"
     THEN /\ slot' = [Idle EXCEPT !.state = "recording", !.recognizer = worker[w].recognizer]
          /\ Ends(w)
     ELSE Keeps(w, worker[w].recognizer, "reset") /\ UNCHANGED slot
  /\ UNCHANGED <<settingsVars, modelVars, cache>>

StartStep(w) ==
  \/ Discover(w) \/ Choose(w) \/ Prepare(w) \/ LookUp(w) \/ Acquire(w) \/ Load(w)
  \/ StartCapture(w) \/ Occupy(w)

---------------------------------------------------------------------------
(* finish, with the insertion of its text, and cancel: the slot and the    *)
(* recognizers are locked one after the other, never together.             *)

Finish(w) ==
  /\ slot.state = "recording"
  /\ slot' = [Idle EXCEPT !.state = "finalizing"]
  /\ Keeps(w, slot.recognizer, "await")

(* The slot is free from here on, and reset once more at the end.          *)
Cancel(w) ==
  /\ slot' = Idle
  /\ \/ slot.state = "recording" /\ Keeps(w, slot.recognizer, "reset")
     \/ slot.state = "awaiting" /\ Goes(w, "reset")

(* recycle_recognizer; a finish without a text has nothing to insert.      *)
Keep(w) ==
  /\ At(w, "keep")
  /\ cache' = [worker[w].recognizer EXCEPT !.asked = 0]
  /\ \E next \in {"reset", worker[w].after} :
       worker' = [worker EXCEPT ![w] = [IdleWorker EXCEPT !.pc = next]]
  /\ UNCHANGED <<settingsVars, modelVars, slot>>

(* The text is there: the slot is taken whatever it holds.                 *)
Await(w) ==
  /\ At(w, "await")
  /\ slot' = [Idle EXCEPT !.state = "awaiting", !.owner = w]
  /\ Goes(w, "begin")
  /\ UNCHANGED <<settingsVars, modelVars, cache>>

BeginInsertion(w) ==
  /\ At(w, "begin")
  /\ IF slot.state = "awaiting" /\ slot.owner = w
     THEN slot' = [slot EXCEPT !.state = "inserting"] /\ Goes(w, "insert")
     ELSE Ends(w) /\ UNCHANGED slot
  /\ UNCHANGED <<settingsVars, modelVars, cache>>

(* complete_insertion and fail_insertion.                                  *)
EndInsertion(w) ==
  /\ At(w, "insert")
  /\ IF slot.state = "inserting" /\ slot.owner = w THEN Goes(w, "reset") ELSE Ends(w)
  /\ UNCHANGED <<settingsVars, modelVars, dictationVars>>

(* reset_to_idle, whatever the slot holds.                                 *)
Reset(w) ==
  /\ At(w, "reset")
  /\ slot' = Idle
  /\ Ends(w)
  /\ UNCHANGED <<settingsVars, modelVars, cache>>

EndStep(w) == Keep(w) \/ Await(w) \/ BeginInsertion(w) \/ EndInsertion(w) \/ Reset(w)

---------------------------------------------------------------------------
Command(w) ==
  /\ At(w, "idle")
  /\ \/ /\ commands < MaxCommands
        /\ commands' = commands + 1
        /\ Set(w) \/ Install(w) \/ Remove(w) \/ Start(w)
        /\ UNCHANGED dictationVars
     \/ /\ Finish(w) \/ Cancel(w)
        /\ UNCHANGED <<modelVars, cache, commands>>
  /\ UNCHANGED <<settingsVars, platform, crashes>>

Step(w) ==
  /\ Update(w) \/ ModelStep(w) \/ StartStep(w) \/ EndStep(w)
  /\ UNCHANGED <<platform, commands, crashes>>

(* The process ends and is started again: what is in the files is left,    *)
(* and no settings file means the default settings.                        *)
Crash ==
  /\ crashes < MaxCrashes
  /\ crashes' = crashes + 1
  /\ settings' = IF file = None THEN Default ELSE file
  /\ told' = settings'
  /\ writer' = None
  /\ installer' = None
  /\ worker' = [w \in Workers |-> IdleWorker]
  /\ slot' = Idle
  /\ cache' = NoRecognizer
  /\ UNCHANGED <<platform, file, tmp, installed, part, stamp, commands>>

Next ==
  \/ \E w \in Workers : Command(w) \/ Step(w)
  \/ Crash

Spec == Init /\ [][Next]_vars

---------------------------------------------------------------------------
Values ==
  {v \in [Fields -> Devices \cup Models \cup Languages \cup {None}] :
     /\ v["device"] \in Devices \cup {None}
     /\ v["model"] \in Models \cup {None}
     /\ v["language"] \in (Languages \ {"auto"}) \cup {None}}

(* The types; and a lock is held only by a worker in the middle of what it *)
(* protects, whatever failed, so that nobody waits for it for ever.        *)
ModelsTypeOK ==
  /\ settings \in Values /\ told \in Values
  /\ file \in Values \cup {None}
  /\ tmp \in Values \cup {None, Partial}
  /\ writer # None => worker[writer].pc \in {"write", "replace", "removed", "renamed"}
  /\ installer # None => worker[installer].pc \in {"download", "receive", "check", "commit"}
  /\ \A m \in Models : part[m] \in {None, Partial, "model", "other"}
  /\ slot.state \in {"idle", "preparing", "recording", "finalizing", "awaiting", "inserting"}

(* A model that counts as installed is one a recognizer was loaded from,   *)
(* whatever download failed, was cut short or was interrupted before.      *)
InstalledIsValidated == \A m \in Models : IsInstalled(m) => installed[m].valid

(* What was told, with the change its field is being given.                *)
Saving(w) == [told EXCEPT ![worker[w].field] = Normalize(worker[w].value)]

(* The settings file holds, at every moment, the settings as they were     *)
(* last told, or those with the one field that is being saved: a process   *)
(* that ends anywhere finds one of the two.  On Windows it may find none:  *)
(* the old file is removed first, and a rename that then fails takes the   *)
(* new one with it.                                                        *)
SettingsDurable ==
  \/ file = told
  \/ \E w \in Workers : writer = w /\ file = Saving(w)
  \/ file = None /\ told = Default
  \/ platform = "windows" /\ file = None

(* Field by field, the settings are what the last command that saved the   *)
(* field was told: of commands on different fields none undoes another,    *)
(* although one works from an older snapshot, saves fail and the process   *)
(* ends.  On one field the later save wins: the selection a start, an      *)
(* install or a removal decided on is saved over one that was made since.  *)
SettingsAsTold == settings = told

(* No dictation, and no worker on its way to or from one, has a recognizer *)
(* of an older file than the one that was installed when it was looked up, *)
(* although recognizers are kept, models are removed and installed again   *)
(* meanwhile, and a slot that was reset lets a second start in.            *)
RecognizerFresh ==
  \A r \in {slot.recognizer} \cup {worker[w].recognizer : w \in Workers} :
    r.model # None => r.stamp >= r.asked
=============================================================================
