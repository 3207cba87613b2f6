------------------------ MODULE ConfiguredModelsProofs ------------------------
(***************************************************************************)
(* Theorems about ConfiguredModels for any set of workers, models, devices *)
(* and languages and any number of commands and crashes.                   *)
(***************************************************************************)
EXTENDS ConfiguredModels, TLAPS

---------------------------------------------------------------------------
(* The inductive invariant.                                                *)

SavingSteps == {"write", "replace", "removed", "renamed"}
InstallSteps == {"download", "receive", "check", "commit"}
LoadingSteps == {"lookup", "acquire", "load", "capture", "occupy"}
EndingSteps == {"keep", "await", "begin", "insert", "reset"}

Steps == {"idle", "update", "installed", "gone", "discover", "choose", "prepare"}
           \cup SavingSteps \cup InstallSteps \cup LoadingSteps \cup EndingSteps

Anything == Devices \cup Models \cup Languages \cup {None}

RecognizerType == [model : Models \cup {None}, key : Nat, stamp : Nat, asked : Nat]

CommandType ==
  [pc : Steps, model : Models \cup {None}, snapshot : Values, field : Fields,
   value : Anything, next : Values, after : {"idle", "choose", "prepare", "reset", "await"},
   key : Nat, recognizer : RecognizerType]

SlotType ==
  [state : {"idle", "preparing", "recording", "finalizing", "awaiting", "inserting"},
   owner : Workers \cup {None}, recognizer : RecognizerType]

Types ==
  /\ settings \in Values /\ told \in Values
  /\ file \in Values \cup {None} /\ tmp \in Values \cup {None, Partial}
  /\ writer \in Workers \cup {None} /\ installer \in Workers \cup {None}
  /\ installed \in [Models -> [stamp : Nat, valid : BOOLEAN]]
  /\ part \in [Models -> {None, Partial, "model", "other"}]
  /\ stamp \in Nat
  /\ slot \in SlotType
  /\ cache \in RecognizerType
  /\ crashes \in Nat

(* The data a command carries fit its step.                                *)
ModelSteps == InstallSteps \cup LoadingSteps \cup {"installed", "gone", "prepare"}

Fits(c) ==
  /\ c.pc = "update" =>
       /\ c.field = "device" => c.value \in Devices \cup {None}
       /\ c.field = "model" => c.value \in Models \cup {None}
       /\ c.field = "language" => c.value \in Languages \cup {None}
  /\ c.pc \in ModelSteps => c.model \in Models
  /\ c.pc \in SavingSteps \cup {"update"} =>
       c.after \in {"idle", "choose"} \/ (c.after = "prepare" /\ c.model \in Models)
  /\ c.pc = "keep" => c.after \in {"reset", "await"}

CommandsFit ==
  /\ worker \in [Workers -> CommandType]
  /\ \A w \in Workers : Fits(worker[w])

(* A lock is held exactly while a worker is between its steps.             *)
LocksHeld ==
  \A w \in Workers :
    /\ worker[w].pc \in SavingSteps <=> writer = w
    /\ worker[w].pc \in InstallSteps <=> installer = w

(* What is validated is what is committed.                                 *)
CommitsModel == \A w \in Workers : At(w, "commit") => part[worker[w].model] = "model"

(* The file holds what was last told, unless nothing was or Windows has    *)
(* removed it.                                                             *)
Kept ==
  \/ file = told
  \/ file = None /\ told = Default
  \/ platform = "windows" /\ file = None

(* The file and the temporary file at each step of a save.                 *)
FilesAtStep ==
  /\ writer = None => Kept
  /\ \A w \in Workers : writer = w =>
       /\ At(w, "renamed") \/ Kept
       /\ worker[w].pc \in {"replace", "removed"} => tmp = worker[w].next
       /\ At(w, "renamed") => file = worker[w].next

(* What is being saved is what was told before, but for its one field.     *)
SavesOneField == \A w \in Workers : writer = w => worker[w].next = Saving(w)

(* A recognizer is as new as its key, and one that a dictation has is as   *)
(* new as the file that was looked up.                                     *)
NewEnough(r) == r.stamp >= r.key /\ (r.model # None => r.stamp >= r.asked)

(* A key is that of the file that was looked up, and what is installed     *)
(* since is newer.                                                         *)
LookedUp(w) ==
  worker[w].pc \in {"acquire", "load"} =>
    /\ worker[w].key = worker[w].recognizer.asked
    /\ worker[w].key <= stamp
    /\ IsInstalled(worker[w].model) => installed[worker[w].model].stamp >= worker[w].key

RecognizersInv ==
  /\ \A m \in Models : installed[m].stamp <= stamp
  /\ NewEnough(cache) /\ NewEnough(slot.recognizer)
  /\ \A w \in Workers : NewEnough(worker[w].recognizer) /\ LookedUp(w)

ModelsInv ==
  /\ Types
  /\ CommandsFit
  /\ LocksHeld
  /\ CommitsModel
  /\ InstalledIsValidated
  /\ FilesAtStep
  /\ SettingsAsTold
  /\ SavesOneField
  /\ RecognizersInv
---------------------------------------------------------------------------
(* Types.                                                                  *)

(* The initial records have their types.                                   *)
LEMMA DefaultTypes ==
  /\ Default \in Values /\ IdleWorker \in CommandType /\ NoRecognizer \in RecognizerType
  /\ Idle \in SlotType
  /\ Fits(IdleWorker)
<1>0. NoRecognizer \in RecognizerType
  BY DEF NoRecognizer, RecognizerType
<1>1. Default \in Values
  BY DEF Default, Values, Fields
<1>2. IdleWorker \in CommandType
  BY <1>0, <1>1 DEF IdleWorker, CommandType, Steps, Fields, Anything
<1>3. Fits(IdleWorker)
  BY DEF IdleWorker, Fits, ModelSteps, SavingSteps, InstallSteps, LoadingSteps
<1>4. Idle \in SlotType
  BY <1>0 DEF Idle, SlotType
<1> QED
  BY <1>0, <1>1, <1>2, <1>3, <1>4

(* A command replaced by one that fits leaves all commands fitting.        *)
LEMMA ReplacedFits ==
  ASSUME CommandsFit, NEW w \in Workers, NEW c \in CommandType, Fits(c),
         worker' = [worker EXCEPT ![w] = c]
  PROVE  CommandsFit'
BY DEF CommandsFit

(* So does a command that moves on with a model, where it needs one, and   *)
(* with where to go after a save.                                          *)
LEMMA GoesFits ==
  ASSUME CommandsFit, NEW w \in Workers, NEW step \in Steps \ {"update", "keep"},
         step \in ModelSteps => worker[w].model \in Models,
         step \in SavingSteps => worker[w].pc \in SavingSteps \cup {"update"},
         Goes(w, step)
  PROVE  CommandsFit'
<1> DEFINE c == [worker[w] EXCEPT !.pc = step]
<1>1. worker[w] \in CommandType /\ Fits(worker[w])
  BY DEF CommandsFit
<1>2. /\ c \in CommandType
      /\ c.pc = step /\ c.after = worker[w].after /\ c.model = worker[w].model
  BY <1>1 DEF CommandType
<1>3. Fits(c)
  BY <1>1, <1>2 DEF Fits
<1>4. worker' = [worker EXCEPT ![w] = c]
  BY DEF Goes, CommandsFit
<1> QED
  BY <1>2, <1>3, <1>4, ReplacedFits

(* And one that ends.                                                      *)
LEMMA EndsFits ==
  ASSUME CommandsFit, NEW w \in Workers, Ends(w)
  PROVE  CommandsFit'
BY DefaultTypes, ReplacedFits DEF Ends

(* And one that is to change a field to a value of it.                     *)
LEMMA ToUpdateFits ==
  ASSUME CommandsFit, NEW w \in Workers, NEW f \in Fields, NEW v,
         NEW next \in {"idle", "choose"},
         f = "device" => v \in Devices \cup {None},
         f = "model" => v \in Models \cup {None},
         f = "language" => v \in Languages \cup {None},
         ToUpdate(w, f, v, next)
  PROVE  CommandsFit'
<1> DEFINE c == [worker[w] EXCEPT !.pc = "update", !.field = f, !.value = v, !.after = next]
<1>1. worker[w] \in CommandType
  BY DEF CommandsFit
<1>2. v \in Anything
  BY DEF Fields, Anything
<1>3. /\ c \in CommandType
      /\ c.pc = "update" /\ c.field = f /\ c.value = v /\ c.after = next
  BY <1>1, <1>2 DEF CommandType, Steps
<1>4. Fits(c)
  BY <1>3 DEF Fits, ModelSteps, InstallSteps, LoadingSteps
<1>5. worker' = [worker EXCEPT ![w] = c]
  BY DEF ToUpdate, CommandsFit
<1> QED
  BY <1>3, <1>4, <1>5, ReplacedFits

(* And one that goes on with a recognizer.                                 *)
LEMMA RecognizerFits ==
  ASSUME CommandsFit, NEW w \in Workers, NEW r \in RecognizerType,
         worker[w].model \in Models,
         worker' = [worker EXCEPT ![w].pc = "capture", ![w].recognizer = r]
  PROVE  CommandsFit'
<1> DEFINE c == [worker[w] EXCEPT !.pc = "capture", !.recognizer = r]
<1>1. worker[w] \in CommandType
  BY DEF CommandsFit
<1>2. c \in CommandType /\ c.pc = "capture" /\ c.model = worker[w].model
  BY <1>1 DEF CommandType, Steps, LoadingSteps
<1>3. Fits(c)
  BY <1>2 DEF Fits, SavingSteps
<1>4. worker' = [worker EXCEPT ![w] = c]
  BY DEF CommandsFit
<1> QED
  BY <1>2, <1>3, <1>4, ReplacedFits

(* And one that is to keep one.                                            *)
LEMMA KeepsFits ==
  ASSUME CommandsFit, NEW w \in Workers, NEW r \in RecognizerType,
         NEW next \in {"reset", "await"}, Keeps(w, r, next)
  PROVE  CommandsFit'
<1> DEFINE c == [worker[w] EXCEPT !.pc = "keep", !.recognizer = r, !.after = next]
<1>1. worker[w] \in CommandType
  BY DEF CommandsFit
<1>2. c \in CommandType /\ c.pc = "keep" /\ c.after = next
  BY <1>1 DEF CommandType, Steps, EndingSteps
<1>3. Fits(c)
  BY <1>2 DEF Fits, ModelSteps, InstallSteps, LoadingSteps, SavingSteps
<1>4. worker' = [worker EXCEPT ![w] = c]
  BY DEF Keeps, CommandsFit
<1> QED
  BY <1>2, <1>3, <1>4, ReplacedFits

(* And one that drops its data and goes on with the end of a dictation.    *)
LEMMA GoesOnFits ==
  ASSUME CommandsFit, NEW w \in Workers, NEW step \in {"reset", "await"},
         worker' = [worker EXCEPT ![w] = [IdleWorker EXCEPT !.pc = step]]
  PROVE  CommandsFit'
<1> DEFINE c == [IdleWorker EXCEPT !.pc = step]
<1>1. c \in CommandType /\ c.pc = step
  BY DefaultTypes DEF CommandType, Steps, EndingSteps
<1>2. Fits(c)
  BY <1>1 DEF Fits, ModelSteps, InstallSteps, LoadingSteps, SavingSteps
<1> QED
  BY <1>1, <1>2, ReplacedFits

(* Each step of a command keeps the types.                                 *)
LEMMA UpdateTypes ==
  ASSUME Types, CommandsFit, LocksHeld, FilesAtStep, SavesOneField, NEW w \in Workers,
         Update(w), crashes' = crashes
  PROVE  Types' /\ CommandsFit'
<1>0. /\ worker[w] \in CommandType /\ Fits(worker[w])
      /\ worker[w].next \in Values
  BY DEF CommandsFit, CommandType
<1> USE DEF settingsVars, modelVars, dictationVars, At
<1>1. CASE Lock(w)
  <2> DEFINE v == [settings EXCEPT ![worker[w].field] = Normalize(worker[w].value)]
             c == [worker[w] EXCEPT !.pc = "write", !.next = v]
  <2>1. worker[w].pc = "update" /\ worker[w].field \in Fields
    BY <1>0, <1>1 DEF Lock, CommandType
  <2>2. v \in Values
    <3>1. settings \in [Fields -> Anything] /\ Normalize(worker[w].value) \in Anything
      BY <1>0 DEF Types, Values, Normalize, Anything, CommandType
    <3>2. v \in [Fields -> Anything]
      BY <3>1
    <3>3. CASE worker[w].field = "device"
      BY <1>0, <2>1, <3>1, <3>2, <3>3, ModelsAssumption
      DEF Types, Values, Normalize, Anything, Fits, Fields
    <3>4. CASE worker[w].field = "model"
      BY <1>0, <2>1, <3>1, <3>2, <3>4, ModelsAssumption
      DEF Types, Values, Normalize, Anything, Fits, Fields
    <3>5. CASE worker[w].field = "language"
      BY <1>0, <2>1, <3>1, <3>2, <3>5, ModelsAssumption
      DEF Types, Values, Normalize, Anything, Fits, Fields
    <3> QED
      BY <2>1, <3>3, <3>4, <3>5 DEF Fields
  <2>3. /\ c \in CommandType /\ c.pc = "write"
        /\ c.model = worker[w].model /\ c.after = worker[w].after
    BY <1>0, <2>2 DEF CommandType, Steps, SavingSteps
  <2>4. Fits(c)
    BY <1>0, <2>1, <2>3 DEF Fits, ModelSteps, InstallSteps, LoadingSteps, SavingSteps
  <2>5. worker' = [worker EXCEPT ![w] = c]
    BY <1>1 DEF Lock, CommandsFit
  <2>6. CommandsFit'
    BY <2>3, <2>4, <2>5, ReplacedFits
  <2> QED
    BY <1>1, <2>6 DEF Lock, Types
<1>2. CASE UpdateFails(w)
  BY <1>2, EndsFits DEF UpdateFails, Types
<1>3. CASE Write(w)
  <2>1. CommandsFit'
    BY <1>3, GoesFits DEF Write, SavingSteps, Steps, ModelSteps, InstallSteps, LoadingSteps
  <2> QED
    BY <1>0, <1>3, <2>1 DEF Write, Types
<1>4. CASE RemoveOld(w)
  <2>1. CommandsFit'
    BY <1>4, GoesFits DEF RemoveOld, SavingSteps, Steps, ModelSteps, InstallSteps, LoadingSteps
  <2> QED
    BY <1>4, <2>1 DEF RemoveOld, Types
<1>5. CASE Rename(w)
  <2>1. CommandsFit'
    BY <1>5, GoesFits DEF Rename, SavingSteps, Steps, ModelSteps, InstallSteps, LoadingSteps
  <2>2. tmp = worker[w].next
    BY <1>5 DEF Rename, LocksHeld, FilesAtStep, SavingSteps
  <2> QED
    BY <1>0, <1>5, <2>1, <2>2 DEF Rename, Types
<1>6. CASE Assign(w)
  <2> DEFINE c == [IdleWorker EXCEPT !.pc = worker[w].after,
                     !.model = IF worker[w].after = "idle" THEN None ELSE worker[w].model,
                     !.snapshot = IF worker[w].after = "choose" THEN worker[w].next ELSE Default]
  <2>1. worker[w].pc = "renamed" /\ worker[w].after \in {"idle", "choose", "prepare"}
    BY <1>0, <1>6 DEF Assign, Fits, SavingSteps
  <2>2. /\ c \in CommandType
        /\ c.pc = worker[w].after
        /\ c.model = IF worker[w].after = "idle" THEN None ELSE worker[w].model
    BY <1>0, <2>1, DefaultTypes DEF CommandType, Steps
  <2>3. Fits(c)
    BY <1>0, <2>1, <2>2 DEF Fits, ModelSteps, InstallSteps, LoadingSteps, SavingSteps
  <2>4. worker' = [worker EXCEPT ![w] = c]
    BY <1>6 DEF Assign
  <2>5. CommandsFit'
    BY <2>2, <2>3, <2>4, ReplacedFits
  <2>6. told' = worker[w].next
    BY <1>6 DEF Assign, LocksHeld, SavingSteps, SavesOneField, Saving
  <2> QED
    BY <1>0, <1>6, <2>5, <2>6 DEF Assign, Types
<1> QED
  BY <1>1, <1>2, <1>3, <1>4, <1>5, <1>6 DEF Update

(* The steps of the model manager do.                                      *)
LEMMA ModelTypes ==
  ASSUME Types, CommandsFit, NEW w \in Workers, ModelStep(w), crashes' = crashes
  PROVE  Types' /\ CommandsFit'
<1>0. worker[w] \in CommandType /\ Fits(worker[w])
  BY DEF CommandsFit
<1> USE DEF settingsVars, modelVars, dictationVars, At, PartGets
<1>1. CASE InstallFails(w)
  BY <1>1, EndsFits DEF InstallFails, Types
<1>2. CASE Download(w) \/ Receive(w) \/ Check(w) \/ Commit(w)
  <2>1. worker[w].model \in Models
    BY <1>0, <1>2
    DEF Download, Receive, Check, Commit, Fits, SavingSteps, Steps, ModelSteps, InstallSteps,
        LoadingSteps
  <2>2. CommandsFit'
    BY <1>2, <2>1, GoesFits
    DEF Download, Receive, Check, Commit, SavingSteps, Steps, ModelSteps, InstallSteps,
        LoadingSteps
  <2>3. CASE Download(w) \/ Receive(w) \/ Check(w)
    BY <2>1, <2>2, <2>3 DEF Download, Receive, Check, Types
  <2>4. CASE Commit(w)
    BY <2>1, <2>2, <2>4 DEF Commit, Loadable, Types
  <2> QED
    BY <1>2, <2>3, <2>4
<1>3. CASE AfterInstall(w)
  <2>1. worker[w].model \in Models
    BY <1>0, <1>3 DEF AfterInstall, Fits, SavingSteps, Steps, ModelSteps, InstallSteps, LoadingSteps
  <2>2. CommandsFit'
    BY <1>3, <2>1, EndsFits, ToUpdateFits DEF AfterInstall, Fields
  <2> QED
    BY <1>3, <2>2 DEF AfterInstall, Types
<1>4. CASE AfterRemove(w)
  <2>1. CommandsFit'
    BY <1>4, EndsFits, ToUpdateFits DEF AfterRemove, Fields
  <2> QED
    BY <1>4, <2>1 DEF AfterRemove, Types
<1> QED
  BY <1>1, <1>2, <1>3, <1>4 DEF ModelStep

(* The recognizer a start gets has its type.                               *)
LEMMA GetsTypes ==
  ASSUME Types, CommandsFit, NEW w \in Workers, worker[w].model \in Models,
         NEW loaded \in Nat, Gets(w, loaded)
  PROVE  CommandsFit'
<1> DEFINE r == [worker[w].recognizer EXCEPT !.model = worker[w].model, !.key = worker[w].key,
                                             !.stamp = loaded]
<1>1. worker[w] \in CommandType
  BY DEF CommandsFit
<1>2. r \in RecognizerType
  BY <1>1 DEF CommandType, RecognizerType
<1>3. worker' = [worker EXCEPT ![w].pc = "capture", ![w].recognizer = r]
  BY DEF Gets
<1> QED
  BY <1>2, <1>3, RecognizerFits

(* The steps of a start do.                                                *)
LEMMA StartTypes ==
  ASSUME Types, CommandsFit, NEW w \in Workers, StartStep(w), crashes' = crashes
  PROVE  Types' /\ CommandsFit'
<1>0. worker[w] \in CommandType /\ Fits(worker[w])
  BY DEF CommandsFit
<1> USE DEF settingsVars, modelVars, dictationVars, At
<1>1. CASE Discover(w)
  <2>1. CommandsFit'
    <3>1. CASE Goes(w, "choose")
      BY <3>1, GoesFits DEF SavingSteps, Steps, ModelSteps, InstallSteps, LoadingSteps
    <3>2. CASE Ends(w)
      BY <3>2, EndsFits
    <3>3. CASE \E d \in Devices : ToUpdate(w, "device", d, "choose")
      BY <3>3, ToUpdateFits DEF Fields
    <3> QED
      BY <1>1, <3>1, <3>2, <3>3 DEF Discover
  <2> QED
    BY <1>1, <2>1 DEF Discover, Types
<1>2. CASE Choose(w)
  <2>1. CommandsFit'
    <3>1. CASE \E m \in Models : worker' = [worker EXCEPT ![w] =
                                     [IdleWorker EXCEPT !.pc = "prepare", !.model = m]]
      <4>1. PICK m \in Models : worker' = [worker EXCEPT ![w] =
                                 [IdleWorker EXCEPT !.pc = "prepare", !.model = m]]
        BY <3>1
      <4> DEFINE c == [IdleWorker EXCEPT !.pc = "prepare", !.model = m]
      <4>2. c \in CommandType /\ c.pc = "prepare" /\ c.model = m
        BY DefaultTypes DEF CommandType, Steps
      <4>3. Fits(c)
        BY <4>2 DEF Fits, SavingSteps
      <4> QED
        BY <4>1, <4>2, <4>3, ReplacedFits
    <3>2. CASE Ends(w)
      BY <3>2, EndsFits
    <3>3. CASE \E m \in Models : worker' = [worker EXCEPT ![w].pc = "update",
                 ![w].field = "model", ![w].value = m, ![w].after = "prepare", ![w].model = m]
      <4>1. PICK m \in Models : worker' = [worker EXCEPT ![w].pc = "update",
                 ![w].field = "model", ![w].value = m, ![w].after = "prepare", ![w].model = m]
        BY <3>3
      <4> DEFINE c == [worker[w] EXCEPT !.pc = "update", !.field = "model", !.value = m,
                                         !.after = "prepare", !.model = m]
      <4>2. c \in CommandType /\ c.pc = "update" /\ c.model = m /\ c.value = m /\ c.field = "model"
        BY <1>0 DEF CommandType, Steps, Fields, Anything
      <4>3. Fits(c)
        BY <4>2 DEF Fits
      <4>4. worker' = [worker EXCEPT ![w] = c]
        BY <4>1 DEF CommandsFit
      <4> QED
        BY <4>2, <4>3, <4>4, ReplacedFits
    <3> QED
      BY <1>2, <3>1, <3>2, <3>3 DEF Choose
  <2> QED
    BY <1>2, <2>1 DEF Choose, Types
<1>3. CASE Prepare(w)
  <2>1. worker[w].model \in Models
    BY <1>0, <1>3 DEF Prepare, Fits, ModelSteps
  <2>2. CommandsFit'
    BY <1>3, <2>1, GoesFits, EndsFits
    DEF Prepare, SavingSteps, Steps, ModelSteps, InstallSteps, LoadingSteps
  <2>3. slot' \in SlotType
    BY <1>3, DefaultTypes DEF Prepare, Types, SlotType
  <2> QED
    BY <1>3, <2>2, <2>3 DEF Prepare, Types
<1>4. CASE LookUp(w)
  <2> DEFINE r == [NoRecognizer EXCEPT !.asked = installed[worker[w].model].stamp]
             c == [worker[w] EXCEPT !.pc = "acquire", !.key = KeyFor(worker[w].model),
                                    !.recognizer = r]
  <2>1. worker[w].model \in Models
    BY <1>0, <1>4 DEF LookUp, Fits, ModelSteps, LoadingSteps
  <2>2. installed[worker[w].model].stamp \in Nat
    BY <2>1 DEF Types
  <2>3. r \in RecognizerType
    BY <2>2, DefaultTypes DEF RecognizerType
  <2>4. c \in CommandType /\ c.pc = "acquire" /\ c.model = worker[w].model
    BY <1>0, <2>2, <2>3 DEF CommandType, Steps, LoadingSteps, KeyFor
  <2>5. Fits(c)
    BY <2>1, <2>4 DEF Fits, SavingSteps
  <2>6. worker' = [worker EXCEPT ![w] = c]
    BY <1>4 DEF LookUp, CommandsFit
  <2>7. CommandsFit'
    BY <2>4, <2>5, <2>6, ReplacedFits
  <2> QED
    BY <1>4, <2>7 DEF LookUp, Types
<1>5. CASE Acquire(w)
  <2>1. worker[w].model \in Models /\ cache.stamp \in Nat
    BY <1>0, <1>5 DEF Acquire, Fits, ModelSteps, LoadingSteps, Types, RecognizerType
  <2>2. CommandsFit'
    BY <1>5, <2>1, GetsTypes, GoesFits
    DEF Acquire, SavingSteps, Steps, ModelSteps, InstallSteps, LoadingSteps
  <2> QED
    BY <1>5, <2>2, DefaultTypes DEF Acquire, Types
<1>6. CASE Load(w)
  <2>1. worker[w].model \in Models
    BY <1>0, <1>6 DEF Load, Fits, ModelSteps, LoadingSteps
  <2>2. installed[worker[w].model].stamp \in Nat
    BY <2>1 DEF Types
  <2>3. CASE Gets(w, installed[worker[w].model].stamp)
    BY <1>6, <2>1, <2>2, <2>3, GetsTypes DEF Load, Types
  <2>4. CASE worker' = [worker EXCEPT ![w] = [IdleWorker EXCEPT !.pc = "reset"]]
    BY <1>6, <2>4, GoesOnFits DEF Load, Types
  <2> QED
    BY <1>6, <2>3, <2>4 DEF Load
<1>7. CASE StartCapture(w)
  <2>1. worker[w].model \in Models /\ worker[w].recognizer \in RecognizerType
    BY <1>0, <1>7 DEF StartCapture, Fits, ModelSteps, LoadingSteps, CommandType
  <2>2. CommandsFit'
    BY <1>7, <2>1, GoesFits, KeepsFits
    DEF StartCapture, SavingSteps, Steps, ModelSteps, InstallSteps, LoadingSteps
  <2> QED
    BY <1>7, <2>2 DEF StartCapture, Types
<1>8. CASE Occupy(w)
  <2>1. worker[w].recognizer \in RecognizerType
    BY <1>0 DEF CommandType
  <2>2. CommandsFit'
    BY <1>8, <2>1, EndsFits, KeepsFits DEF Occupy
  <2>3. slot' \in SlotType
    BY <1>8, <2>1, DefaultTypes DEF Occupy, Types, SlotType
  <2> QED
    BY <1>8, <2>2, <2>3 DEF Occupy, Types
<1> QED
  BY <1>1, <1>2, <1>3, <1>4, <1>5, <1>6, <1>7, <1>8 DEF StartStep

(* And those at the end of a dictation.                                    *)
LEMMA EndTypes ==
  ASSUME Types, CommandsFit, NEW w \in Workers, EndStep(w), crashes' = crashes
  PROVE  Types' /\ CommandsFit'
<1>0. worker[w] \in CommandType /\ Fits(worker[w])
  BY DEF CommandsFit
<1> USE DEF settingsVars, modelVars, dictationVars, At
<1>1. CASE Keep(w)
  <2>1. CommandsFit'
    <3>1. PICK next \in {"reset", worker[w].after} :
            worker' = [worker EXCEPT ![w] = [IdleWorker EXCEPT !.pc = next]]
      BY <1>1 DEF Keep
    <3>2. next \in {"reset", "await"}
      BY <1>0, <1>1, <3>1 DEF Keep, Fits
    <3> QED
      BY <3>1, <3>2, GoesOnFits
  <2>2. cache' \in RecognizerType
    BY <1>0, <1>1 DEF Keep, CommandType, RecognizerType
  <2> QED
    BY <1>1, <2>1, <2>2 DEF Keep, Types
<1>2. CASE Await(w) \/ BeginInsertion(w) \/ EndInsertion(w)
  <2>1. CommandsFit'
    BY <1>2, GoesFits, EndsFits
    DEF Await, BeginInsertion, EndInsertion, SavingSteps, Steps, ModelSteps, InstallSteps,
        LoadingSteps, EndingSteps
  <2>2. slot' \in SlotType
    BY <1>2, DefaultTypes DEF Await, BeginInsertion, EndInsertion, Types, SlotType
  <2> QED
    BY <1>2, <2>1, <2>2 DEF Await, BeginInsertion, EndInsertion, Types
<1>3. CASE Reset(w)
  BY <1>3, EndsFits, DefaultTypes DEF Reset, Types
<1> QED
  BY <1>1, <1>2, <1>3 DEF EndStep

(* A new command keeps the types.                                          *)
LEMMA CommandTypes ==
  ASSUME Types, CommandsFit, NEW w \in Workers, Command(w)
  PROVE  Types' /\ CommandsFit'
<1>0. worker[w] \in CommandType /\ Fits(worker[w])
  BY DEF CommandsFit
<1> USE DEF settingsVars, modelVars, dictationVars
<1>1. CASE Set(w) /\ UNCHANGED dictationVars
  <2>1. CommandsFit'
    <3>1. CASE \E d \in Devices : ToUpdate(w, "device", d, "idle")
      BY <3>1, ToUpdateFits DEF Fields
    <3>2. CASE \E l \in Languages : ToUpdate(w, "language", l, "idle")
      BY <3>2, ToUpdateFits DEF Fields
    <3>3. CASE \E m \in Models \cup {None} : ToUpdate(w, "model", m, "idle")
      BY <3>3, ToUpdateFits DEF Fields
    <3> QED
      BY <1>1, <3>1, <3>2, <3>3 DEF Set
  <2> QED
    BY <1>1, <2>1 DEF Set, Command, Types
<1>2. CASE Install(w) /\ UNCHANGED dictationVars
  <2>1. PICK m \in Models :
          \/ /\ worker' = [worker EXCEPT ![w].pc = "installed", ![w].model = m]
             /\ UNCHANGED <<installer, part>>
          \/ /\ worker' = [worker EXCEPT ![w].pc = "download", ![w].model = m]
             /\ installer' = w
             /\ part' = [part EXCEPT ![m] = None]
    BY <1>2 DEF Install
  <2>2. CommandsFit'
    <3>1. PICK s \in {"installed", "download"} :
            worker' = [worker EXCEPT ![w].pc = s, ![w].model = m]
      BY <2>1
    <3> DEFINE c == [worker[w] EXCEPT !.pc = s, !.model = m]
    <3>2. c \in CommandType /\ c.pc = s /\ c.model = m
      BY <1>0 DEF CommandType, Steps, InstallSteps
    <3>3. Fits(c)
      BY <3>2 DEF Fits, SavingSteps
    <3>4. worker' = [worker EXCEPT ![w] = c]
      BY <3>1 DEF CommandsFit
    <3> QED
      BY <3>2, <3>3, <3>4, ReplacedFits
  <2> QED
    BY <1>2, <2>1, <2>2 DEF Install, Command, Types
<1>3. CASE Remove(w) /\ UNCHANGED dictationVars
  <2>1. PICK m \in Models : /\ worker' = [worker EXCEPT ![w].pc = "gone", ![w].model = m]
                            /\ installed' = [installed EXCEPT ![m] = Absent]
    BY <1>3 DEF Remove
  <2> DEFINE c == [worker[w] EXCEPT !.pc = "gone", !.model = m]
  <2>2. c \in CommandType /\ c.pc = "gone" /\ c.model = m
    BY <1>0 DEF CommandType, Steps
  <2>3. Fits(c)
    BY <2>2 DEF Fits, SavingSteps
  <2>4. worker' = [worker EXCEPT ![w] = c]
    BY <2>1 DEF CommandsFit
  <2>5. CommandsFit'
    BY <2>2, <2>3, <2>4, ReplacedFits
  <2> QED
    BY <1>3, <2>1, <2>5 DEF Remove, Command, Types, Absent
<1>4. CASE Start(w) /\ UNCHANGED dictationVars
  <2> DEFINE c == [worker[w] EXCEPT !.pc = "discover", !.snapshot = settings]
  <2>2. c \in CommandType /\ c.pc = "discover"
    BY <1>0 DEF CommandType, Steps, Types
  <2>3. Fits(c)
    BY <2>2 DEF Fits, ModelSteps, InstallSteps, LoadingSteps, SavingSteps
  <2>4. worker' = [worker EXCEPT ![w] = c]
    BY <1>4 DEF Start, CommandsFit
  <2>5. CommandsFit'
    BY <2>2, <2>3, <2>4, ReplacedFits
  <2> QED
    BY <1>4, <2>5 DEF Start, Command, Types
<1>5. CASE (Finish(w) \/ Cancel(w)) /\ UNCHANGED <<modelVars, cache, commands>>
  <2>1. slot.recognizer \in RecognizerType
    BY DEF Types, SlotType
  <2>2. CommandsFit'
    BY <1>5, <2>1, KeepsFits, GoesFits
    DEF Finish, Cancel, SavingSteps, Steps, ModelSteps, InstallSteps, LoadingSteps, EndingSteps
  <2>3. slot' \in SlotType
    BY <1>5, DefaultTypes DEF Finish, Cancel, SlotType
  <2> QED
    BY <1>5, <2>2, <2>3 DEF Command, Types
<1> QED
  BY <1>1, <1>2, <1>3, <1>4, <1>5 DEF Command

(* Every step keeps the types.                                             *)
LEMMA TypesKept ==
  ASSUME Types, CommandsFit, LocksHeld, FilesAtStep, SavesOneField, Next
  PROVE  Types' /\ CommandsFit'
<1>1. CASE \E w \in Workers : Command(w)
  BY <1>1, CommandTypes
<1>2. CASE \E w \in Workers : Step(w)
  BY <1>2, UpdateTypes, ModelTypes, StartTypes, EndTypes DEF Step
<1>3. CASE Crash
  <2>1. CommandsFit'
    BY <1>3, DefaultTypes DEF Crash, CommandsFit
  <2> QED
    BY <1>3, <2>1, DefaultTypes DEF Crash, Types
<1> QED
  BY <1>1, <1>2, <1>3 DEF Next

---------------------------------------------------------------------------
(* What a step does to its own command, and that it leaves the others.     *)

Others(w) == \A v \in Workers \ {w} : worker'[v] = worker[v]

(* A command that ends, goes on or is to change a field.                   *)
LEMMA EndsMoves ==
  ASSUME CommandsFit, NEW w \in Workers, Ends(w)
  PROVE  /\ Others(w) /\ worker'[w] = IdleWorker /\ worker'[w].pc = "idle"
         /\ worker'[w].recognizer = NoRecognizer
BY DEF CommandsFit, Ends, Others, IdleWorker

(* A command that goes on keeps its data.                                  *)
LEMMA GoesMoves ==
  ASSUME CommandsFit, NEW w \in Workers, NEW step, Goes(w, step)
  PROVE  /\ Others(w) /\ worker'[w].pc = step
         /\ worker'[w].model = worker[w].model /\ worker'[w].next = worker[w].next
         /\ worker'[w].key = worker[w].key /\ worker'[w].field = worker[w].field
         /\ worker'[w].value = worker[w].value /\ worker'[w].recognizer = worker[w].recognizer
BY DEF CommandsFit, CommandType, Goes, Others

(* A command that is to change a field has that as its next step.          *)
LEMMA ToUpdateMoves ==
  ASSUME CommandsFit, NEW w \in Workers, NEW f, NEW v, NEW next, ToUpdate(w, f, v, next)
  PROVE  /\ Others(w) /\ worker'[w].pc = "update"
         /\ worker'[w].recognizer = worker[w].recognizer
<1> DEFINE c == [worker[w] EXCEPT !.pc = "update", !.field = f, !.value = v, !.after = next]
<1>1. c.pc = "update" /\ c.recognizer = worker[w].recognizer
  BY DEF CommandsFit, CommandType
<1>2. worker' = [worker EXCEPT ![w] = c]
  BY DEF CommandsFit, ToUpdate
<1> QED
  BY <1>1, <1>2 DEF CommandsFit, Others

(* A command that is to keep a recognizer has that one.                    *)
LEMMA KeepsMoves ==
  ASSUME CommandsFit, NEW w \in Workers, NEW r, NEW next, Keeps(w, r, next)
  PROVE  Others(w) /\ worker'[w].pc = "keep" /\ worker'[w].recognizer = r
<1> DEFINE c == [worker[w] EXCEPT !.pc = "keep", !.recognizer = r, !.after = next]
<1>1. c.pc = "keep" /\ c.recognizer = r
  BY DEF CommandsFit, CommandType
<1>2. worker' = [worker EXCEPT ![w] = c]
  BY DEF CommandsFit, Keeps
<1> QED
  BY <1>1, <1>2 DEF CommandsFit, Others

(* A start that gets a recognizer has one of its model, its key, and the   *)
(* stamp of the file it comes from.                                        *)
LEMMA GetsMoves ==
  ASSUME CommandsFit, NEW w \in Workers, NEW loaded, Gets(w, loaded)
  PROVE  /\ Others(w) /\ worker'[w].pc = "capture"
         /\ worker'[w].recognizer.stamp = loaded
         /\ worker'[w].recognizer.key = worker[w].key
         /\ worker'[w].recognizer.asked = worker[w].recognizer.asked
<1> DEFINE r == [worker[w].recognizer EXCEPT !.model = worker[w].model, !.key = worker[w].key,
                                             !.stamp = loaded]
           c == [worker[w] EXCEPT !.pc = "capture", !.recognizer = r]
<1>1. worker[w] \in CommandType
  BY DEF CommandsFit
<1>2. r.stamp = loaded /\ r.key = worker[w].key /\ r.asked = worker[w].recognizer.asked
  BY <1>1 DEF CommandType, RecognizerType
<1> HIDE DEF r
<1>3. c.pc = "capture" /\ c.recognizer = r
  BY <1>1 DEF CommandType
<1>4. worker' = [worker EXCEPT ![w] = c]
  BY DEF CommandsFit, Gets, r
<1>5. Others(w) /\ worker'[w] = c
  BY <1>4 DEF CommandsFit, Others
<1> QED
  BY <1>2, <1>3, <1>5

(* A start that looks up its model has the key of the file there is.       *)
LEMMA LookUpMoves ==
  ASSUME CommandsFit, NEW w \in Workers, LookUp(w)
  PROVE  /\ Others(w) /\ worker'[w].pc = "acquire"
         /\ worker'[w].model = worker[w].model
         /\ worker'[w].key = installed[worker[w].model].stamp
         /\ worker'[w].recognizer =
              [NoRecognizer EXCEPT !.asked = installed[worker[w].model].stamp]
<1> DEFINE r == [NoRecognizer EXCEPT !.asked = installed[worker[w].model].stamp]
           k == installed[worker[w].model].stamp
           c == [worker[w] EXCEPT !.pc = "acquire", !.key = k, !.recognizer = r]
<1>1. worker[w] \in CommandType
  BY DEF CommandsFit
<1> HIDE DEF r, k
<1>2. c.pc = "acquire" /\ c.model = worker[w].model /\ c.key = k /\ c.recognizer = r
  BY <1>1 DEF CommandType
<1>3. worker' = [worker EXCEPT ![w] = c]
  BY DEF CommandsFit, LookUp, KeyFor, r, k
<1>4. Others(w) /\ worker'[w] = c
  BY <1>3 DEF CommandsFit, Others
<1> QED
  BY <1>2, <1>4 DEF r, k

(* A command that drops its data has no recognizer.                        *)
LEMMA GoesOnMoves ==
  ASSUME CommandsFit, NEW w \in Workers, NEW step,
         worker' = [worker EXCEPT ![w] = [IdleWorker EXCEPT !.pc = step]]
  PROVE  Others(w) /\ worker'[w].pc = step /\ worker'[w].recognizer = NoRecognizer
BY DEF CommandsFit, Others, IdleWorker

StartSteps == {"discover", "choose", "prepare"} \cup LoadingSteps

(* A start stays among its own steps, ends, or goes to a change of         *)
(* settings or to the end of a dictation.                                  *)
LEMMA StartMoves ==
  ASSUME CommandsFit, NEW w \in Workers, StartStep(w)
  PROVE  /\ Others(w)
         /\ worker[w].pc \in StartSteps
         /\ worker'[w].pc \in StartSteps \cup {"idle", "update", "keep", "reset"}
         /\ UNCHANGED <<settingsVars, modelVars>>
<1> USE DEF StartSteps, LoadingSteps, At
<1>1. CASE Discover(w)
  BY <1>1, EndsMoves, GoesMoves, ToUpdateMoves DEF Discover
<1>2. CASE Choose(w)
  <2>1. CASE Ends(w)
    BY <1>2, <2>1, EndsMoves DEF Choose
  <2>2. ASSUME NEW m \in Models,
               worker' = [worker EXCEPT ![w] = [IdleWorker EXCEPT !.pc = "prepare", !.model = m]]
        PROVE  Others(w) /\ worker'[w].pc = "prepare"
    BY <2>2 DEF IdleWorker, CommandsFit, Others
  <2>3. ASSUME NEW m \in Models,
               worker' = [worker EXCEPT ![w].pc = "update", ![w].field = "model",
                                        ![w].value = m, ![w].after = "prepare", ![w].model = m]
        PROVE  Others(w) /\ worker'[w].pc = "update"
    <3> DEFINE c == [worker[w] EXCEPT !.pc = "update", !.field = "model", !.value = m,
                                       !.after = "prepare", !.model = m]
    <3>1. worker[w] \in CommandType
      BY DEF CommandsFit
    <3>2. c.pc = "update"
      BY <3>1 DEF CommandType
    <3>3. worker' = [worker EXCEPT ![w] = c]
      BY <2>3 DEF CommandsFit
    <3> QED
      BY <3>2, <3>3 DEF CommandsFit, Others
  <2> QED
    BY <1>2, <2>1, <2>2, <2>3 DEF Choose
<1>3. CASE Prepare(w)
  BY <1>3, EndsMoves, GoesMoves DEF Prepare
<1>4. CASE LookUp(w)
  BY <1>4, LookUpMoves DEF LookUp
<1>5. CASE Acquire(w)
  BY <1>5, GoesMoves, GetsMoves DEF Acquire
<1>6. CASE Load(w)
  BY <1>6, GetsMoves, GoesOnMoves DEF Load
<1>7. CASE StartCapture(w)
  BY <1>7, GoesMoves, KeepsMoves DEF StartCapture
<1>8. CASE Occupy(w)
  BY <1>8, EndsMoves, KeepsMoves DEF Occupy
<1> QED
  BY <1>1, <1>2, <1>3, <1>4, <1>5, <1>6, <1>7, <1>8 DEF StartStep

(* The end of a dictation stays among its own steps or ends.               *)
LEMMA EndMoves ==
  ASSUME CommandsFit, NEW w \in Workers, EndStep(w)
  PROVE  /\ Others(w)
         /\ worker[w].pc \in EndingSteps
         /\ worker'[w].pc \in EndingSteps \cup {"idle"}
         /\ UNCHANGED <<settingsVars, modelVars>>
<1> USE DEF EndingSteps, At
<1>1. CASE Keep(w)
  <2>1. PICK next \in {"reset", worker[w].after} :
          worker' = [worker EXCEPT ![w] = [IdleWorker EXCEPT !.pc = next]]
    BY <1>1 DEF Keep
  <2>2. next \in {"reset", "await"}
    BY <1>1, <2>1 DEF Keep, CommandsFit, Fits
  <2> QED
    BY <1>1, <2>1, <2>2, GoesOnMoves DEF Keep
<1>2. CASE Await(w)
  BY <1>2, GoesMoves DEF Await
<1>3. CASE BeginInsertion(w)
  BY <1>3, GoesMoves, EndsMoves DEF BeginInsertion
<1>4. CASE EndInsertion(w)
  BY <1>4, GoesMoves, EndsMoves DEF EndInsertion
<1>5. CASE Reset(w)
  BY <1>5, EndsMoves DEF Reset
<1> QED
  BY <1>1, <1>2, <1>3, <1>4, <1>5 DEF EndStep

(* A new command.                                                          *)
LEMMA CommandMoves ==
  ASSUME CommandsFit, NEW w \in Workers, Command(w)
  PROVE  /\ Others(w)
         /\ worker[w].pc = "idle"
         /\ \/ /\ worker'[w].pc \in {"update", "installed", "gone", "discover", "keep", "reset"}
               /\ installer' = installer
            \/ /\ worker'[w].pc = "download"
               /\ installer = None /\ installer' = w
<1>0. worker[w] \in CommandType
  BY DEF CommandsFit
<1>1. CASE Set(w)
  BY <1>1, ToUpdateMoves DEF Command, Set, modelVars, At
<1>2. CASE Install(w)
  <2>1. PICK m \in Models :
          \/ /\ worker' = [worker EXCEPT ![w].pc = "installed", ![w].model = m]
             /\ UNCHANGED installer
          \/ /\ worker' = [worker EXCEPT ![w].pc = "download", ![w].model = m]
             /\ installer = None /\ installer' = w
    BY <1>2 DEF Install
  <2>2. ASSUME NEW s, worker' = [worker EXCEPT ![w].pc = s, ![w].model = m]
        PROVE  Others(w) /\ worker'[w].pc = s
    BY <1>0, <2>2 DEF CommandsFit, CommandType, Others
  <2> QED
    BY <2>1, <2>2 DEF Command, At
<1>3. CASE Remove(w)
  <2>1. PICK m \in Models : worker' = [worker EXCEPT ![w].pc = "gone", ![w].model = m]
    BY <1>3 DEF Remove
  <2> QED
    BY <1>0, <1>3, <2>1 DEF Remove, Command, CommandsFit, CommandType, Others, At
<1>4. CASE Start(w)
  BY <1>0, <1>4 DEF Start, Command, CommandsFit, CommandType, Others, At, modelVars
<1>5. CASE (Finish(w) \/ Cancel(w)) /\ UNCHANGED modelVars
  BY <1>5, KeepsMoves, GoesMoves DEF Finish, Cancel, Command, At, modelVars
<1> QED
  BY <1>1, <1>2, <1>3, <1>4, <1>5 DEF Command

(* A save.                                                                 *)
LEMMA LockMoves ==
  ASSUME CommandsFit, NEW w \in Workers, Lock(w)
  PROVE  /\ Others(w) /\ worker'[w].pc = "write"
         /\ worker'[w].field = worker[w].field /\ worker'[w].value = worker[w].value
         /\ worker'[w].recognizer = worker[w].recognizer
         /\ worker'[w].next = [settings EXCEPT ![worker[w].field] = Normalize(worker[w].value)]
<1> DEFINE v == [settings EXCEPT ![worker[w].field] = Normalize(worker[w].value)]
           c == [worker[w] EXCEPT !.pc = "write", !.next = v]
<1>1. worker[w] \in CommandType
  BY DEF CommandsFit
<1> HIDE DEF v
<1>2. /\ c.pc = "write" /\ c.next = v /\ c.field = worker[w].field
      /\ c.value = worker[w].value /\ c.recognizer = worker[w].recognizer
  BY <1>1 DEF CommandType
<1>3. worker' = [worker EXCEPT ![w] = c]
  BY DEF Lock, CommandsFit, v
<1>4. Others(w) /\ worker'[w] = c
  BY <1>3 DEF CommandsFit, Others
<1> QED
  BY <1>2, <1>4 DEF v

(* A save that is done goes back to the command it was part of.            *)
LEMMA AssignMoves ==
  ASSUME CommandsFit, NEW w \in Workers, Assign(w)
  PROVE  /\ Others(w) /\ worker'[w].pc \in {"idle", "choose", "prepare"}
         /\ worker'[w].recognizer = NoRecognizer
<1>1. worker[w].after \in {"idle", "choose", "prepare"}
  BY DEF Assign, CommandsFit, Fits, SavingSteps, At
<1> QED
  BY <1>1 DEF Assign, CommandsFit, Others, IdleWorker

(* A save stays among its steps or goes back, and touches no model and no  *)
(* recognizer.                                                             *)
LEMMA UpdateMoves ==
  ASSUME CommandsFit, NEW w \in Workers, Update(w)
  PROVE  /\ Others(w)
         /\ UNCHANGED <<modelVars, dictationVars>>
         /\ worker[w].pc \in SavingSteps \cup {"update"}
         /\ worker'[w].pc \in SavingSteps \cup {"idle", "choose", "prepare"}
         /\ worker'[w].recognizer \in {worker[w].recognizer, NoRecognizer}
<1> USE DEF At, SavingSteps
<1>1. CASE Lock(w)
  BY <1>1, LockMoves DEF Lock
<1>2. CASE UpdateFails(w)
  BY <1>2, EndsMoves DEF UpdateFails
<1>3. CASE Write(w)
  BY <1>3, GoesMoves DEF Write
<1>4. CASE RemoveOld(w)
  BY <1>4, GoesMoves DEF RemoveOld
<1>5. CASE Rename(w)
  BY <1>5, GoesMoves DEF Rename
<1>6. CASE Assign(w)
  BY <1>6, AssignMoves DEF Assign
<1> QED
  BY <1>1, <1>2, <1>3, <1>4, <1>5, <1>6 DEF Update

(* A step of the model manager.                                            *)
LEMMA ModelMoves ==
  ASSUME CommandsFit, NEW w \in Workers, ModelStep(w)
  PROVE  /\ Others(w)
         /\ UNCHANGED <<settingsVars, dictationVars>>
         /\ worker[w].pc \in InstallSteps \cup {"installed", "gone"}
         /\ worker'[w].pc \in InstallSteps \cup {"idle", "installed", "update"}
         /\ worker'[w].recognizer \in {worker[w].recognizer, NoRecognizer}
<1> USE DEF At, InstallSteps
<1>1. CASE InstallFails(w)
  BY <1>1, EndsMoves DEF InstallFails
<1>2. CASE Download(w) \/ Receive(w) \/ Check(w) \/ Commit(w)
  BY <1>2, GoesMoves DEF Download, Receive, Check, Commit
<1>3. CASE AfterInstall(w) \/ AfterRemove(w)
  BY <1>3, EndsMoves, ToUpdateMoves DEF AfterInstall, AfterRemove
<1> QED
  BY <1>1, <1>2, <1>3 DEF ModelStep

---------------------------------------------------------------------------
(* The locks.                                                              *)

(* A lock is taken with the first of its steps and given back with the     *)
(* last, or with the failure.                                              *)
LEMMA LocksKept ==
  ASSUME Types, CommandsFit, LocksHeld, Next
  PROVE  LocksHeld'
<1> USE ModelsAssumption DEF LocksHeld, Others, SavingSteps, InstallSteps, At
<1>1. ASSUME NEW w \in Workers, Command(w)
      PROVE  LocksHeld'
  BY <1>1, CommandMoves DEF Command, settingsVars
<1>2. ASSUME NEW w \in Workers, Update(w)
      PROVE  LocksHeld'
  <2>1. Others(w) /\ installer' = installer
    BY <1>2, UpdateMoves DEF modelVars
  <2>2. CASE Lock(w)
    <3>1. worker[w].pc = "update" /\ worker'[w].pc = "write" /\ writer = None /\ writer' = w
      BY <2>2, LockMoves DEF Lock
    <3> QED
      BY <2>1, <3>1
  <2>3. CASE UpdateFails(w)
    BY <2>1, <2>3, EndsMoves DEF UpdateFails
  <2>4. CASE Write(w) \/ RemoveOld(w) \/ Rename(w)
    BY <2>1, <2>4, GoesMoves DEF Write, RemoveOld, Rename
  <2>5. CASE Assign(w)
    BY <2>1, <2>5, AssignMoves, ZenonT(40) DEF Assign
  <2> QED
    BY <1>2, <2>2, <2>3, <2>4, <2>5 DEF Update
<1>3. ASSUME NEW w \in Workers, ModelStep(w)
      PROVE  LocksHeld'
  <2>1. Others(w) /\ writer' = writer
    BY <1>3, ModelMoves DEF settingsVars
  <2>2. CASE InstallFails(w)
    BY <2>1, <2>2, EndsMoves DEF InstallFails
  <2>3. CASE Download(w) \/ Receive(w) \/ Check(w) \/ Commit(w)
    BY <2>1, <2>3, GoesMoves DEF Download, Receive, Check, Commit, modelVars
  <2>4. CASE AfterInstall(w) \/ AfterRemove(w)
    BY <2>1, <2>4, EndsMoves, ToUpdateMoves DEF AfterInstall, AfterRemove, modelVars
  <2> QED
    BY <1>3, <2>2, <2>3, <2>4 DEF ModelStep
<1>4. ASSUME NEW w \in Workers, StartStep(w)
      PROVE  LocksHeld'
  BY <1>4, StartMoves DEF StartSteps, LoadingSteps, settingsVars, modelVars
<1>5. ASSUME NEW w \in Workers, EndStep(w)
      PROVE  LocksHeld'
  BY <1>5, EndMoves DEF EndingSteps, settingsVars, modelVars
<1>6. CASE Crash
  BY <1>6, DefaultTypes DEF Crash, IdleWorker
<1> QED
  BY <1>1, <1>2, <1>3, <1>4, <1>5, <1>6 DEF Next, Step

---------------------------------------------------------------------------
(* The settings file.                                                      *)

(* A step of a command that is not saving changes nothing of the files nor *)
(* of the command that saves.                                              *)
OtherStep(w) == ModelStep(w) \/ StartStep(w) \/ EndStep(w)

LEMMA SaverUntouched ==
  ASSUME Types, CommandsFit, LocksHeld, NEW w \in Workers,
         Command(w) \/ (OtherStep(w) /\ platform' = platform)
  PROVE  /\ UNCHANGED <<settings, file, tmp, told, writer, platform>>
         /\ \A v \in Workers : writer = v => worker'[v] = worker[v]
<1> USE DEF LocksHeld, Others, SavingSteps, InstallSteps, StartSteps, LoadingSteps,
           EndingSteps
<1>1. CASE Command(w)
  BY <1>1, CommandMoves DEF Command, settingsVars
<1>2. CASE ModelStep(w) /\ platform' = platform
  BY <1>2, ModelMoves DEF settingsVars
<1>3. CASE StartStep(w) /\ platform' = platform
  BY <1>3, StartMoves DEF settingsVars
<1>4. CASE EndStep(w) /\ platform' = platform
  BY <1>4, EndMoves DEF settingsVars
<1> QED
  BY <1>1, <1>2, <1>3, <1>4 DEF OtherStep

(* Each step of a save leaves the files as its next step, or a program     *)
(* that starts again, expects them.                                        *)
LEMMA FilesKept ==
  ASSUME Types, CommandsFit, LocksHeld, FilesAtStep, SavesOneField, Next
  PROVE  FilesAtStep'
<1> USE ModelsAssumption DEF FilesAtStep, Kept, At
<1>1. ASSUME NEW w \in Workers,
             Command(w) \/ (OtherStep(w) /\ platform' = platform)
      PROVE  FilesAtStep'
  BY <1>1, SaverUntouched
<1>2. ASSUME NEW w \in Workers, Update(w), platform' = platform
      PROVE  FilesAtStep'
  <2>1. Others(w)
    BY <1>2, UpdateMoves
  <2> USE DEF LocksHeld, Others, SavingSteps
  <2>2. CASE Lock(w)
    BY <1>2, <2>1, <2>2, LockMoves DEF Lock
  <2>3. CASE UpdateFails(w)
    BY <1>2, <2>1, <2>3 DEF UpdateFails
  <2>4. CASE Write(w)
    BY <1>2, <2>1, <2>4, GoesMoves DEF Write
  <2>5. CASE RemoveOld(w)
    BY <1>2, <2>1, <2>5, GoesMoves DEF RemoveOld
  <2>6. CASE Rename(w)
    BY <1>2, <2>1, <2>6, GoesMoves DEF Rename
  <2>7. CASE Assign(w)
    <3>1. writer = w /\ file = worker[w].next /\ worker[w].next = Saving(w)
      BY <2>7 DEF Assign, SavesOneField
    <3>2. told' = Saving(w) /\ file' = file /\ writer' = None
      BY <2>7 DEF Assign, Saving
    <3> QED
      BY <3>1, <3>2
  <2> QED
    BY <1>2, <2>2, <2>3, <2>4, <2>5, <2>6, <2>7 DEF Update
<1>3. CASE Crash
  BY <1>3 DEF Crash
<1> QED
  BY <1>1, <1>2, <1>3 DEF Next, Step, OtherStep

(* The settings are what was told, and one field at a time is being given  *)
(* what its setter was told.                                               *)
LEMMA ToldKept ==
  ASSUME Types, CommandsFit, LocksHeld, SettingsAsTold, SavesOneField, Next
  PROVE  SettingsAsTold' /\ SavesOneField'
<1> USE ModelsAssumption DEF SettingsAsTold, SavesOneField
<1>1. ASSUME NEW w \in Workers, Command(w) \/ (OtherStep(w) /\ platform' = platform)
      PROVE  SettingsAsTold' /\ SavesOneField'
  BY <1>1, SaverUntouched DEF Saving
<1>2. ASSUME NEW w \in Workers, Update(w)
      PROVE  SettingsAsTold' /\ SavesOneField'
  <2>1. Others(w)
    BY <1>2, UpdateMoves
  <2> USE DEF LocksHeld, Others, SavingSteps, At
  <2>2. CASE Lock(w)
    <3>1. settings' = settings /\ told' = told /\ writer' = w
      BY <2>2 DEF Lock
    <3>2. worker'[w].next = [settings EXCEPT ![worker[w].field] = Normalize(worker[w].value)]
      BY <2>2, LockMoves
    <3>3. worker'[w].field = worker[w].field /\ worker'[w].value = worker[w].value
      BY <2>2, LockMoves
    <3>4. worker'[w].next = Saving(w)'
      BY <3>1, <3>2, <3>3 DEF Saving
    <3> QED
      BY <3>1, <3>4
  <2>3. CASE UpdateFails(w)
    BY <2>3 DEF UpdateFails
  <2>4. CASE Write(w) \/ RemoveOld(w) \/ Rename(w)
    <3>1. settings' = settings /\ told' = told /\ writer' = writer /\ writer = w
      BY <2>4 DEF Write, RemoveOld, Rename
    <3>2. /\ worker'[w].next = worker[w].next /\ worker'[w].field = worker[w].field
          /\ worker'[w].value = worker[w].value
      BY <2>4, GoesMoves DEF Write, RemoveOld, Rename
    <3>3. worker'[w].next = Saving(w)'
      BY <3>1, <3>2 DEF Saving
    <3> QED
      BY <3>1, <3>3
  <2>5. CASE Assign(w)
    <3>1. writer = w /\ worker[w].next = Saving(w)
      BY <2>5 DEF Assign
    <3>2. settings' = worker[w].next /\ told' = Saving(w) /\ writer' = None
      BY <2>5 DEF Assign, Saving
    <3> QED
      BY <3>1, <3>2
  <2> QED
    BY <1>2, <2>2, <2>3, <2>4, <2>5 DEF Update
<1>3. CASE Crash
  BY <1>3 DEF Crash
<1> QED
  BY <1>1, <1>2, <1>3 DEF Next, Step, OtherStep

---------------------------------------------------------------------------
(* The models.                                                             *)

(* A step of a command that is not installing changes nothing of the       *)
(* temporary files nor of the command that installs.                       *)
LEMMA InstallerUntouched ==
  ASSUME Types, CommandsFit, LocksHeld, NEW w \in Workers,
         Update(w) \/ StartStep(w) \/ EndStep(w)
  PROVE  /\ UNCHANGED <<installed, part, stamp>>
         /\ \A v \in Workers : worker'[v].pc \in InstallSteps => worker'[v] = worker[v]
BY UpdateMoves, StartMoves, EndMoves
DEF modelVars, Others, SavingSteps, InstallSteps, StartSteps, LoadingSteps, EndingSteps

(* Only a file that passed the check is committed, and no step but its own *)
(* command's changes it in between.                                        *)
LEMMA CommitsKept ==
  ASSUME Types, CommandsFit, LocksHeld, CommitsModel, InstalledIsValidated, Next
  PROVE  CommitsModel' /\ InstalledIsValidated'
<1> USE ModelsAssumption DEF CommitsModel, InstalledIsValidated, IsInstalled, At, InstallSteps
<1>1. ASSUME NEW w \in Workers, Command(w)
      PROVE  CommitsModel' /\ InstalledIsValidated'
  <2>1. Others(w) /\ worker[w].pc = "idle" /\ worker'[w].pc # "commit"
    BY <1>1, CommandMoves
  <2>2. CASE installed' = installed /\ part' = part
    BY <2>1, <2>2 DEF Others
  <2>3. CASE Install(w)
    BY <2>1, <2>3 DEF Install, Others, LocksHeld, Types
  <2>4. CASE Remove(w)
    <3>1. PICK m \in Models : installed' = [installed EXCEPT ![m] = Absent]
      BY <2>4 DEF Remove
    <3> QED
      BY <2>1, <2>4, <3>1, ZenonT(40) DEF Remove, Others, Types
  <2> QED
    BY <1>1, <2>2, <2>3, <2>4 DEF Command, Set, Start, modelVars
<1>2. ASSUME NEW w \in Workers, Update(w) \/ StartStep(w) \/ EndStep(w)
      PROVE  CommitsModel' /\ InstalledIsValidated'
  BY <1>2, InstallerUntouched
<1>3. ASSUME NEW w \in Workers, ModelStep(w)
      PROVE  CommitsModel' /\ InstalledIsValidated'
  <2>1. Others(w)
    BY <1>3, ModelMoves
  <2>2. \A v \in Workers \ {w} : worker[w].pc \in InstallSteps => worker[v].pc # "commit"
    BY DEF LocksHeld
  <2> USE DEF Others, PartGets
  <2>3. CASE InstallFails(w)
    BY <2>1, <2>2, <2>3, EndsMoves DEF InstallFails
  <2>4. CASE Download(w) \/ Receive(w)
    BY <2>1, <2>2, <2>4, GoesMoves DEF Download, Receive
  <2>5. CASE Check(w)
    BY <2>1, <2>2, <2>5, GoesMoves DEF Check, Loadable, modelVars
  <2>6. CASE Commit(w)
    <3>1. worker[w].model \in Models /\ part[worker[w].model] = "model"
      BY <2>6 DEF Commit, CommandsFit, Fits, ModelSteps
    <3>2. installed' = [installed EXCEPT ![worker[w].model] = [stamp |-> stamp + 1, valid |-> TRUE]]
      BY <2>6, <3>1 DEF Commit, Loadable
    <3>3. InstalledIsValidated'
      BY <3>1, <3>2 DEF Types
    <3> QED
      BY <2>1, <2>2, <2>6, <3>3, GoesMoves DEF Commit
  <2>7. CASE AfterInstall(w) \/ AfterRemove(w)
    BY <2>1, <2>7, EndsMoves, ToUpdateMoves DEF AfterInstall, AfterRemove, modelVars
  <2> QED
    BY <1>3, <2>3, <2>4, <2>5, <2>6, <2>7 DEF ModelStep
<1>4. CASE Crash
  BY <1>4, DefaultTypes DEF Crash, IdleWorker
<1> QED
  BY <1>1, <1>2, <1>3, <1>4 DEF Next, Step

---------------------------------------------------------------------------
(* The recognizers.                                                        *)

(* What is installed only changes to nothing or to a file with a new stamp.*)
FilesGrowNewer ==
  /\ stamp' >= stamp
  /\ \A m \in Models : \/ installed'[m] = installed[m]
                        \/ installed'[m] = Absent
                        \/ installed'[m].stamp = stamp'

(* It is then enough to look at the recognizers that are kept, in the slot *)
(* and with the command whose step it is, and at its key.                  *)
LEMMA RecognizersStay ==
  ASSUME Types, Types', CommandsFit, RecognizersInv, FilesGrowNewer,
         NEW w \in Workers, Others(w),
         NewEnough(cache'), NewEnough(slot'.recognizer), NewEnough(worker'[w].recognizer),
         LookedUp(w)'
  PROVE  RecognizersInv'
<1>0. /\ stamp \in Nat /\ stamp' \in Nat
      /\ \A m \in Models : installed[m].stamp \in Nat /\ installed[m].stamp <= stamp
  BY DEF Types, RecognizersInv
<1>1. \A m \in Models : installed'[m].stamp <= stamp'
  BY <1>0 DEF FilesGrowNewer, Absent
<1>2. ASSUME NEW v \in Workers \ {w}
      PROVE  NewEnough(worker'[v].recognizer) /\ LookedUp(v)'
  <2>1. worker'[v] = worker[v] /\ NewEnough(worker[v].recognizer) /\ LookedUp(v)
    BY DEF Others, RecognizersInv
  <2>2. worker[v].key \in Nat
    BY DEF CommandsFit, CommandType
  <2>3. ASSUME worker[v].pc \in {"acquire", "load"}
        PROVE  /\ worker[v].key <= stamp'
               /\ IsInstalled(worker[v].model)' =>
                    installed'[worker[v].model].stamp >= worker[v].key
    <3>1. /\ worker[v].key <= stamp
          /\ IsInstalled(worker[v].model) =>
               installed[worker[v].model].stamp >= worker[v].key
      BY <2>1, <2>3 DEF LookedUp
    <3>2. worker[v].key <= stamp'
      BY <1>0, <2>2, <3>1 DEF FilesGrowNewer
    <3>3. ASSUME worker[v].model \in Models, installed'[worker[v].model] # Absent
          PROVE  installed'[worker[v].model].stamp >= worker[v].key
      BY <1>0, <2>2, <3>1, <3>2, <3>3 DEF FilesGrowNewer, IsInstalled
    <3> QED
      BY <2>1, <3>2, <3>3 DEF IsInstalled
  <2> QED
    BY <2>1, <2>3 DEF LookedUp
<1> QED
  BY <1>1, <1>2 DEF RecognizersInv

(* No recognizer is as good as a new one.                                  *)
LEMMA NoneIsNewEnough == NewEnough(NoRecognizer) /\ NewEnough(Idle.recognizer)
BY DEF NewEnough, NoRecognizer, Idle

(* A step that leaves the recognizers where they are, or loses its own,    *)
(* and comes not to load.                                                  *)
LEMMA RecognizersUntouched ==
  ASSUME Types, Types', CommandsFit, RecognizersInv, FilesGrowNewer,
         NEW w \in Workers, Others(w),
         cache' = cache, slot'.recognizer \in {slot.recognizer, NoRecognizer},
         worker'[w].recognizer \in {worker[w].recognizer, slot.recognizer, NoRecognizer},
         worker'[w].pc \notin {"acquire", "load"}
  PROVE  RecognizersInv'
<1>1. /\ NewEnough(cache') /\ NewEnough(slot'.recognizer)
      /\ NewEnough(worker'[w].recognizer)
  BY NoneIsNewEnough DEF RecognizersInv
<1>2. LookedUp(w)'
  BY DEF LookedUp
<1> QED
  BY <1>1, <1>2, RecognizersStay

(* The steps of a start: what it looks up is what there is, what it takes  *)
(* from those kept has that key, and what it loads is newer.               *)
LEMMA StartKeepsRecognizers ==
  ASSUME Types, Types', CommandsFit, RecognizersInv, NEW w \in Workers, StartStep(w)
  PROVE  RecognizersInv'
<1>0. /\ Others(w) /\ UNCHANGED <<installed, stamp>> /\ FilesGrowNewer
      /\ worker[w] \in CommandType /\ Fits(worker[w])
      /\ NewEnough(worker[w].recognizer) /\ LookedUp(w)
      /\ NewEnough(slot.recognizer) /\ NewEnough(cache)
  BY StartMoves DEF modelVars, CommandsFit, FilesGrowNewer, Types, RecognizersInv
<1> USE DEF At, dictationVars
<1>1. CASE Discover(w)
  BY <1>0, <1>1, GoesMoves, EndsMoves, ToUpdateMoves, RecognizersUntouched DEF Discover
<1>2. CASE Choose(w)
  <2>1. /\ worker'[w].pc \notin {"acquire", "load"}
        /\ worker'[w].recognizer \in {worker[w].recognizer, NoRecognizer}
    <3>1. CASE Ends(w)
      BY <3>1, EndsMoves
    <3>2. ASSUME NEW m \in Models,
                 worker' = [worker EXCEPT ![w] = [IdleWorker EXCEPT !.pc = "prepare", !.model = m]]
          PROVE  worker'[w].pc = "prepare" /\ worker'[w].recognizer = NoRecognizer
      BY <3>2 DEF IdleWorker, CommandsFit
    <3>3. ASSUME NEW m \in Models,
                 worker' = [worker EXCEPT ![w].pc = "update", ![w].field = "model",
                                          ![w].value = m, ![w].after = "prepare", ![w].model = m]
          PROVE  worker'[w].pc = "update" /\ worker'[w].recognizer = worker[w].recognizer
      <4> DEFINE c == [worker[w] EXCEPT !.pc = "update", !.field = "model", !.value = m,
                                         !.after = "prepare", !.model = m]
      <4>1. c.pc = "update" /\ c.recognizer = worker[w].recognizer
        BY <1>0 DEF CommandType
      <4>2. worker' = [worker EXCEPT ![w] = c]
        BY <3>3 DEF CommandsFit
      <4> QED
        BY <4>1, <4>2 DEF CommandsFit
    <3> QED
      BY <1>2, <3>1, <3>2, <3>3 DEF Choose
  <2> QED
    BY <1>0, <1>2, <2>1, RecognizersUntouched DEF Choose
<1>3. CASE Prepare(w)
  <2>1. slot'.recognizer \in {slot.recognizer, NoRecognizer} /\ cache' = cache
    BY <1>3 DEF Prepare, Idle
  <2>2. /\ worker'[w].pc \notin {"acquire", "load"}
        /\ worker'[w].recognizer \in {worker[w].recognizer, NoRecognizer}
    BY <1>3, GoesMoves, EndsMoves DEF Prepare
  <2> QED
    BY <1>0, <2>1, <2>2, RecognizersUntouched
<1>4. CASE LookUp(w)
  <2> DEFINE m == worker[w].model
  <2>1. m \in Models /\ installed[m].stamp \in Nat /\ installed[m].stamp <= stamp
    BY <1>0, <1>4 DEF LookUp, Fits, ModelSteps, LoadingSteps, Types, RecognizersInv
  <2>2. /\ worker'[w].model = m /\ worker'[w].key = installed[m].stamp
        /\ worker'[w].recognizer = [NoRecognizer EXCEPT !.asked = installed[m].stamp]
        /\ UNCHANGED <<slot, cache>>
    BY <1>4, LookUpMoves DEF LookUp
  <2>3. NewEnough(worker'[w].recognizer) /\ worker'[w].recognizer.asked = installed[m].stamp
    BY <2>2 DEF NewEnough, NoRecognizer
  <2>4. LookedUp(w)'
    BY <1>0, <2>1, <2>2, <2>3 DEF LookedUp, IsInstalled
  <2> QED
    BY <1>0, <2>2, <2>3, <2>4, RecognizersStay
<1>5. CASE Acquire(w)
  <2>1. worker[w].pc = "acquire" /\ worker[w].key = worker[w].recognizer.asked /\ slot' = slot
    BY <1>0, <1>5 DEF Acquire, LookedUp
  <2>2. NewEnough(cache')
    BY <1>5, NoneIsNewEnough DEF Acquire
  <2>3. CASE Gets(w, cache.stamp) /\ cache.key = worker[w].key
    <3>1. cache.stamp >= worker[w].key
      BY <1>0, <2>3 DEF NewEnough
    <3>2. NewEnough(worker'[w].recognizer) /\ LookedUp(w)'
      BY <2>1, <2>3, <3>1, GetsMoves DEF NewEnough, LookedUp
    <3> QED
      BY <1>0, <2>1, <2>2, <3>2, RecognizersStay
  <2>4. CASE Goes(w, "load")
    <3>1. NewEnough(worker'[w].recognizer)
      BY <1>0, <2>4, GoesMoves
    <3>2. LookedUp(w)'
      BY <1>0, <2>1, <2>4, GoesMoves DEF LookedUp, IsInstalled
    <3> QED
      BY <1>0, <2>1, <2>2, <3>1, <3>2, RecognizersStay
  <2> QED
    BY <1>5, <2>3, <2>4 DEF Acquire
<1>6. CASE Load(w)
  <2>1. /\ worker[w].key = worker[w].recognizer.asked /\ UNCHANGED <<slot, cache>>
        /\ IsInstalled(worker[w].model) => installed[worker[w].model].stamp >= worker[w].key
    BY <1>0, <1>6 DEF Load, LookedUp
  <2>2. CASE IsInstalled(worker[w].model) /\ Gets(w, installed[worker[w].model].stamp)
    <3>1. NewEnough(worker'[w].recognizer) /\ LookedUp(w)'
      BY <2>1, <2>2, GetsMoves DEF NewEnough, LookedUp
    <3> QED
      BY <1>0, <2>1, <3>1, RecognizersStay
  <2>3. CASE worker' = [worker EXCEPT ![w] = [IdleWorker EXCEPT !.pc = "reset"]]
    <3>1. worker'[w].pc = "reset" /\ worker'[w].recognizer = NoRecognizer
      BY <2>3, GoesOnMoves
    <3>2. cache' = cache /\ slot'.recognizer = slot.recognizer
      BY <2>1
    <3> QED
      BY <1>0, <3>1, <3>2, RecognizersUntouched
  <2> QED
    BY <1>6, <2>2, <2>3 DEF Load
<1>7. CASE StartCapture(w)
  <2>1. /\ worker'[w].pc \notin {"acquire", "load"}
        /\ worker'[w].recognizer = worker[w].recognizer
    BY <1>7, GoesMoves, KeepsMoves DEF StartCapture
  <2> QED
    BY <1>0, <1>7, <2>1, RecognizersUntouched DEF StartCapture
<1>8. CASE Occupy(w)
  <2>1. /\ worker'[w].pc \notin {"acquire", "load"}
        /\ worker'[w].recognizer \in {worker[w].recognizer, NoRecognizer}
    BY <1>8, EndsMoves, KeepsMoves DEF Occupy
  <2>2. slot'.recognizer \in {slot.recognizer, worker[w].recognizer} /\ cache' = cache
    BY <1>8 DEF Occupy, Idle
  <2>3. NewEnough(slot'.recognizer) /\ NewEnough(worker'[w].recognizer) /\ LookedUp(w)'
    BY <1>0, <2>1, <2>2, NoneIsNewEnough DEF LookedUp
  <2> QED
    BY <1>0, <2>2, <2>3, RecognizersStay
<1> QED
  BY <1>1, <1>2, <1>3, <1>4, <1>5, <1>6, <1>7, <1>8 DEF StartStep

(* A recognizer that is kept is the one a dictation had.                   *)
LEMMA EndKeepsRecognizers ==
  ASSUME Types, Types', CommandsFit, RecognizersInv, NEW w \in Workers, EndStep(w)
  PROVE  RecognizersInv'
<1>0. /\ Others(w) /\ UNCHANGED <<installed, stamp>> /\ FilesGrowNewer
      /\ worker'[w].pc \notin {"acquire", "load"}
  BY EndMoves DEF EndingSteps, modelVars, FilesGrowNewer, Types
<1>1. CASE Keep(w)
  <2>1. /\ worker[w].recognizer \in RecognizerType /\ NewEnough(worker[w].recognizer)
        /\ NewEnough(slot.recognizer)
    BY DEF CommandsFit, CommandType, RecognizersInv
  <2>2. worker'[w].recognizer = NoRecognizer /\ slot' = slot
    BY <1>1, GoesOnMoves DEF Keep
  <2>3. cache' = [worker[w].recognizer EXCEPT !.asked = 0]
    BY <1>1 DEF Keep
  <2>4. /\ cache'.stamp = worker[w].recognizer.stamp /\ cache'.stamp \in Nat
        /\ cache'.key = worker[w].recognizer.key /\ cache'.asked = 0
    BY <2>1, <2>3 DEF RecognizerType
  <2>5. NewEnough(cache') /\ NewEnough(worker'[w].recognizer) /\ LookedUp(w)'
    BY <1>0, <2>1, <2>2, <2>4, NoneIsNewEnough DEF NewEnough, LookedUp
  <2> QED
    BY <1>0, <2>1, <2>2, <2>5, RecognizersStay
<1>2. CASE Await(w) \/ BeginInsertion(w) \/ EndInsertion(w) \/ Reset(w)
  <2>1. worker'[w].recognizer \in {worker[w].recognizer, NoRecognizer}
    BY <1>2, GoesMoves, EndsMoves DEF Await, BeginInsertion, EndInsertion, Reset
  <2>2. cache' = cache
    BY <1>2 DEF Await, BeginInsertion, EndInsertion, Reset, dictationVars
  <2>3. slot'.recognizer \in {slot.recognizer, NoRecognizer}
    <3>1. CASE Await(w)
      <4>1. slot'.recognizer = Idle.recognizer
        BY <3>1 DEF Await, Idle
      <4> QED
        BY <4>1 DEF Idle
    <3>2. CASE Reset(w)
      BY <3>2 DEF Reset, Idle
    <3>3. CASE BeginInsertion(w)
      BY <3>3 DEF BeginInsertion, Types, SlotType
    <3>4. CASE EndInsertion(w)
      BY <3>4 DEF EndInsertion, dictationVars
    <3> QED
      BY <1>2, <3>1, <3>2, <3>3, <3>4
  <2> QED
    BY <1>0, <2>1, <2>2, <2>3, RecognizersUntouched
<1> QED
  BY <1>1, <1>2 DEF EndStep

(* Every step keeps the stamps, the keys and the recognizers.              *)
LEMMA RecognizersKept ==
  ASSUME Types, Types', CommandsFit, RecognizersInv, Next
  PROVE  RecognizersInv'
<1>1. ASSUME NEW w \in Workers, Command(w)
      PROVE  RecognizersInv'
  <2>1. /\ Others(w) /\ worker'[w].pc \notin {"acquire", "load"}
        /\ stamp' = stamp /\ stamp \in Nat /\ cache' = cache
    BY <1>1, CommandMoves
    DEF Command, Set, Install, Remove, Start, modelVars, dictationVars, Types
  <2>2. FilesGrowNewer
    <3>1. CASE installed' = installed
      BY <2>1, <3>1 DEF FilesGrowNewer
    <3>2. CASE Remove(w)
      BY <2>1, <3>2 DEF Remove, Types, FilesGrowNewer
    <3> QED
      BY <1>1, <3>1, <3>2 DEF Command, Set, Install, Start, modelVars
  <2>3. slot'.recognizer \in {slot.recognizer, NoRecognizer}
    BY <1>1 DEF Command, Finish, Cancel, Idle, dictationVars
  <2>4. worker'[w].recognizer \in {worker[w].recognizer, slot.recognizer, NoRecognizer}
    <3>0. worker[w] \in CommandType
      BY DEF CommandsFit
    <3>1. CASE Set(w)
      BY <3>1, ToUpdateMoves DEF Set
    <3>2. ASSUME NEW s, NEW m, worker' = [worker EXCEPT ![w].pc = s, ![w].model = m]
          PROVE  worker'[w].recognizer = worker[w].recognizer
      BY <3>0, <3>2 DEF CommandsFit, CommandType
    <3>3. CASE Install(w) \/ Remove(w)
      BY <3>2, <3>3 DEF Install, Remove
    <3>4. CASE Start(w)
      BY <3>0, <3>4 DEF Start, CommandsFit, CommandType
    <3>5. CASE Finish(w) \/ Cancel(w)
      BY <3>5, KeepsMoves, GoesMoves DEF Finish, Cancel
    <3> QED
      BY <1>1, <3>1, <3>3, <3>4, <3>5 DEF Command
  <2> QED
    BY <2>1, <2>2, <2>3, <2>4, RecognizersUntouched
<1>2. ASSUME NEW w \in Workers, Update(w)
      PROVE  RecognizersInv'
  <2>1. /\ Others(w) /\ worker'[w].pc \notin {"acquire", "load"} /\ UNCHANGED dictationVars
        /\ worker'[w].recognizer \in {worker[w].recognizer, NoRecognizer}
    BY <1>2, UpdateMoves DEF SavingSteps
  <2>2. FilesGrowNewer
    BY <1>2, UpdateMoves DEF modelVars, Types, FilesGrowNewer
  <2> QED
    BY <2>1, <2>2, RecognizersUntouched DEF dictationVars
<1>3. ASSUME NEW w \in Workers, ModelStep(w)
      PROVE  RecognizersInv'
  <2>1. /\ Others(w) /\ worker'[w].pc \notin {"acquire", "load"} /\ UNCHANGED dictationVars
        /\ worker'[w].recognizer \in {worker[w].recognizer, NoRecognizer}
    BY <1>3, ModelMoves DEF InstallSteps
  <2>2. FilesGrowNewer
    <3>1. CASE Commit(w)
      BY <3>1 DEF Commit, Types, FilesGrowNewer
    <3>2. CASE ~Commit(w)
      BY <1>3, <3>2 DEF ModelStep, InstallFails, Download, Receive, Check, AfterInstall,
                        AfterRemove, modelVars, Types, FilesGrowNewer
    <3> QED
      BY <3>1, <3>2
  <2> QED
    BY <2>1, <2>2, RecognizersUntouched DEF dictationVars
<1>4. CASE Crash
  <2>1. \A w \in Workers : worker'[w] = IdleWorker
    BY <1>4 DEF Crash
  <2>2. /\ installed' = installed /\ stamp' = stamp
        /\ cache' = NoRecognizer /\ slot'.recognizer = NoRecognizer
    BY <1>4 DEF Crash, Idle
  <2>3. \A w \in Workers : NewEnough(worker'[w].recognizer) /\ LookedUp(w)'
    BY <2>1, NoneIsNewEnough DEF IdleWorker, LookedUp
  <2> QED
    BY <2>2, <2>3, NoneIsNewEnough DEF RecognizersInv
<1> QED
  BY <1>1, <1>2, <1>3, <1>4, StartKeepsRecognizers, EndKeepsRecognizers DEF Next, Step

---------------------------------------------------------------------------
(* The invariant and what follows from it.                                 *)

(* The program starts in the invariant: nothing is being done, the files   *)
(* are those of a program that never saved, and what counts as installed   *)
(* was validated.                                                          *)
LEMMA InitModelsInv == Init => ModelsInv
<1> SUFFICES ASSUME Init PROVE ModelsInv
  OBVIOUS
<1> USE ModelsAssumption, DefaultTypes DEF Init
<1>0. /\ \A w \in Workers : worker[w] = IdleWorker /\ worker[w].pc = "idle"
      /\ \A m \in Models : installed[m].stamp \in Nat /\ installed[m].stamp <= 1
  BY DEF IdleWorker, Absent
<1>1. Types
  <2>1. installed \in [Models -> [stamp : Nat, valid : BOOLEAN]]
    <3>1. {Absent, [stamp |-> 1, valid |-> TRUE]} \subseteq [stamp : Nat, valid : BOOLEAN]
      BY DEF Absent
    <3> QED
      BY <3>1
  <2>2. slot \in SlotType /\ cache \in RecognizerType /\ stamp \in Nat /\ crashes \in Nat
    OBVIOUS
  <2>3. /\ settings \in Values /\ told \in Values
        /\ file \in Values \cup {None} /\ tmp \in Values \cup {None, Partial}
    OBVIOUS
  <2>4. part \in [Models -> {None, Partial, "model", "other"}]
    OBVIOUS
  <2> QED
    BY <2>1, <2>2, <2>3, <2>4 DEF Types
<1>2. CommandsFit
  BY DEF CommandsFit
<1>3. LocksHeld
  BY <1>0 DEF LocksHeld, SavingSteps, InstallSteps
<1>4. CommitsModel
  BY <1>0 DEF CommitsModel, At
<1>5. InstalledIsValidated
  BY DEF InstalledIsValidated, IsInstalled
<1>6. FilesAtStep /\ SettingsAsTold /\ SavesOneField
  BY DEF FilesAtStep, Kept, SettingsAsTold, SavesOneField
<1>7. RecognizersInv
  <2>1. \A w \in Workers : NewEnough(worker[w].recognizer) /\ LookedUp(w)
    BY <1>0, NoneIsNewEnough DEF IdleWorker, LookedUp
  <2> QED
    BY <1>0, <2>1, NoneIsNewEnough DEF RecognizersInv
<1> QED
  BY <1>1, <1>2, <1>3, <1>4, <1>5, <1>6, <1>7 DEF ModelsInv

(* Every step keeps the invariant.                                         *)
LEMMA ModelsInvKept == ModelsInv /\ [Next]_vars => ModelsInv'
<1>1. ASSUME ModelsInv, Next PROVE ModelsInv'
  <2> USE <1>1 DEF ModelsInv
  <2>1. Types' /\ CommandsFit'
    BY TypesKept
  <2>2. LocksHeld'
    BY LocksKept
  <2>3. CommitsModel' /\ InstalledIsValidated'
    BY CommitsKept
  <2>4. FilesAtStep'
    BY FilesKept
  <2>5. SettingsAsTold' /\ SavesOneField'
    BY ToldKept
  <2>6. RecognizersInv'
    BY <2>1, RecognizersKept
  <2> QED
    BY <2>1, <2>2, <2>3, <2>4, <2>5, <2>6
<1>2. ASSUME ModelsInv, UNCHANGED vars PROVE ModelsInv'
  <2> USE <1>2 DEF ModelsInv, vars, settingsVars, modelVars, dictationVars
  <2>1. Types' /\ CommandsFit' /\ LocksHeld'
    BY DEF Types, CommandsFit, LocksHeld
  <2>2. CommitsModel' /\ InstalledIsValidated'
    BY DEF CommitsModel, At, InstalledIsValidated, IsInstalled
  <2>3. FilesAtStep' /\ SettingsAsTold' /\ SavesOneField'
    BY DEF FilesAtStep, Kept, At, SettingsAsTold, SavesOneField, Saving
  <2>4. RecognizersInv'
    BY DEF RecognizersInv, LookedUp, IsInstalled
  <2> QED
    BY <2>1, <2>2, <2>3, <2>4
<1> QED
  BY <1>1, <1>2

(* Whatever commands run, fail or are cut off by a crash, the invariant    *)
(* holds.                                                                  *)
THEOREM ModelsInvariant == Spec => []ModelsInv
BY InitModelsInv, ModelsInvKept, PTL DEF Spec

(* The settings, the files and the models keep their types, and a lock is  *)
(* held only by a worker in the middle of what it protects: a failure on   *)
(* any path gives it back (settings.rs, models.rs).                        *)
THEOREM ModelsTypeCorrect == Spec => []ModelsTypeOK
<1>1. ModelsInv => ModelsTypeOK
  BY DEF ModelsInv, Types, SlotType, LocksHeld, SavingSteps, InstallSteps, ModelsTypeOK
<1> QED
  BY <1>1, ModelsInvariant, PTL

(* A model that counts as installed was loaded from once (models.rs, the   *)
(* order of download, validation and rename in install).                   *)
THEOREM ModelsValidated == Spec => []InstalledIsValidated
<1>1. ModelsInv => InstalledIsValidated
  BY DEF ModelsInv
<1> QED
  BY <1>1, ModelsInvariant, PTL

(* Wherever the process ends, the settings file holds the settings as they *)
(* were last told or those with the field that is being saved, or on       *)
(* Windows there is none (settings.rs, write_settings).                    *)
THEOREM SettingsSurvive == Spec => []SettingsDurable
<1>1. ASSUME ModelsInv PROVE SettingsDurable
  <2>1. CASE writer = None
    BY <1>1, <2>1 DEF ModelsInv, FilesAtStep, Kept, SettingsDurable
  <2>2. CASE writer \in Workers /\ ~At(writer, "renamed")
    BY <1>1, <2>2 DEF ModelsInv, FilesAtStep, Kept, SettingsDurable
  <2>3. CASE writer \in Workers /\ At(writer, "renamed")
    <3>1. file = Saving(writer)
      BY <1>1, <2>3 DEF ModelsInv, FilesAtStep, SavesOneField
    <3> QED
      BY <2>3, <3>1 DEF SettingsDurable
  <2> QED
    BY <1>1, <2>1, <2>2, <2>3 DEF ModelsInv, Types
<1> QED
  BY <1>1, ModelsInvariant, PTL

(* Field by field, the settings are what the last command that saved the   *)
(* field was told: no command undoes what another saved of another field   *)
(* (settings.rs, update, with the lock held from the copy to the           *)
(* assignment).  Of the same field the last save wins.                     *)
THEOREM SettingsKeepWhatWasTold == Spec => []SettingsAsTold
<1>1. ModelsInv => SettingsAsTold
  BY DEF ModelsInv
<1> QED
  BY <1>1, ModelsInvariant, PTL

(* No dictation and no command on its way to or from one has a recognizer  *)
(* older than the file that was installed when its key was made            *)
(* (dictation.rs, RecognizerCacheKey and acquire_recognizer).              *)
THEOREM RecognizersAreFresh == Spec => []RecognizerFresh
<1>1. ModelsInv => RecognizerFresh
  BY DEF ModelsInv, RecognizersInv, NewEnough, RecognizerFresh
<1> QED
  BY <1>1, ModelsInvariant, PTL
=============================================================================
