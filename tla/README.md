# Verification of BLCVoice

TLA+ models of BLCVoice, a desktop dictation program in Rust: the user presses a
shortcut or a button, speech is captured, recognized and typed into the focused
application. The modules are translated from the Rust source; TLC checks them on
small instances and TLAPS proves the theorems for every value of the constants.
Source paths below are relative to the repository root; desktop files that are
named without a path are in `apps/desktop/src-tauri/src`.

## 1. Inventory

| Component | Source | State | Operations |
|---|---|---|---|
| Session lifecycle, coordinator | `crates/blcvoice-core` | next session id; the current session: id, state, failure stage | begin, transition, cancel, current |
| Dictation runtime | `crates/blcvoice-runtime` | the work slot: Empty, Arming, Recording (collector), Finalizing, Finalized (audio), Transcribing | start, pump, finalize, transcribe, finish_transform, insertion_delivered, fail, cancel |
| Desktop capture service | `apps/desktop/src-tauri/src/capture.rs` | start in flight, the pump worker and its session, last pump failure | start, finish, cancel of dictations and microphone tests; the pump thread |
| Desktop dictation service | `.../dictation.rs` | slot: Idle, Preparing, Recording, Finalizing, AwaitingInsertion, Inserting; cached recognizer | start, finish, begin/complete/fail insertion, cancel |
| Shortcut controller | `crates/blcvoice-shortcuts` | mode, key down, dictation requested | handle press and release, force_idle, set_mode |
| Shortcut service, dictation coordinator | `.../shortcut.rs`, `.../coordinator.rs` | registration state; Idle, Starting (stop requested), Recording, Finishing | route a phase, request start and stop, complete start and finish, reset; lifecycle events |
| IPC commands, page | `.../ipc.rs`, `apps/desktop/ui/app.js` | the page's view of the dictation | the second way to start, finish and cancel; settings and model commands |
| Insertion service, history recording | `.../insertion.rs`, `.../history.rs` | the inserter that is kept, its lock; last error | insert text, record the outcome |
| History storage | `crates/blcvoice-storage` | SQLite schema version, rows, id sequence | open, migrate, append, list, delete |
| Model manager, settings | `.../models.rs`, `.../settings.rs` | installed files, partial files; settings in memory and on disk | install, remove, select; replace the settings file |
| Capture ring, cpal session | `crates/blcvoice-audio-cpal`, `crates/blcvoice-audio` | ring, received, dropped and error counters | discover, start, realtime callback, read, pause, close |
| Utterance buffer, collector | `crates/blcvoice-audio-processing`, `crates/blcvoice-dictation` | samples, limits | pump, finalize, resample, transcribe |
| VAD, ASR | `crates/blcvoice-vad*`, `-asr*` | the model built for the recording's rate; the loaded engine | analyse, recognize |
| Insertion backends, platform | `crates/blcvoice-insertion*`, `-platform` | X11 scratch key; EIS connection, devices, queue | connect, insert; detect |

How they interact. A command thread (an IPC command or the shortcut's task) calls
the dictation service, which calls the capture service, which calls the runtime;
one pump thread per recording calls the runtime too. All of them share the runtime,
whose two locks, the coordinator's and the work slot's, are never held together; the
slow steps (opening the microphone, draining it, recognition) run under neither.
The realtime callback hands frames to the collector through the ring. A finish that
got a text calls the insertion service, then the history. The shortcut path reports
to the page through lifecycle events.

What makes it hard, and what makes each part correct:

- **Runtime and coordinator** — an operation is several critical sections; a cancel,
  a failing pump or a new session may come between any two. Correct when slot and
  session never part, a session that is over owns no microphone and no audio, a late
  result changes nothing, a recognition error leaves the audio to try again, and no
  session is stranded in a state nobody can take it out of.
- **Capture service** — one capture at a time; a worker belongs to the session that
  created it; a failed worker can still be claimed. It must call the runtime in the
  order the runtime relies on.
- **Dictation service** — the slot changes outside the runtime's locks, so it can
  disagree with the session; the cached recognizer has one owner and must not outlive
  its file.
- **Shortcut, coordinator, page** — the controller guesses what the dictation does
  and is corrected afterwards; presses, completions and events interleave. Every
  recording that was started must be one the user can stop.
- **Capture ring, collector** — three threads, no lock. Every sample is delivered or
  counted as lost, in whole frames, and a recording that is accepted has no gap.
- **Recognition** — three counts of the same audio (source frames, mono samples,
  resampled samples), a resampler with delay, and limits on each.
- **Insertion** — any request to the display server may fail in the middle of a text;
  what is reported must be what was typed, and the keyboard must be given back.
- **History** — files outlive processes: crashes, other processes, other versions.
- **Models, settings** — files are replaced in several steps; a crash in between must
  leave either the old or the new, and commands on different settings must not undo each
  other.

`PROJECT.json` lists the hazards at their lines.

## 2. Plan

The most important behaviour first. Every module has constants with named
assumptions, one action per critical section or request, invariants in named parts,
and no RECURSIVE operator.

| Step | Modules | State |
|---|---|---|
| 1 | `SessionLifecycle`, `DictationRuntime`, `AudioCustody` | checked; `DictationRuntimeProofs` |
| 2 | `DesktopDictation`, which extends `DictationRuntime` and implements its disciplined form | checked; `DesktopDictationProofs` |
| 3 | `ShortcutDictation` | checked; `ShortcutDictationProofs` |
| 4 | `AudioCapture` | checked; `AudioCaptureProofs` |
| 5 | `UtteranceRecognition` | checked; `UtteranceRecognitionProofs` |
| 6 | `TextInsertion` with `XTestInsertion` and `EisInsertion`, composed by `InsertionService` | checked; `InsertionProofs` |
| 7 | `HistoryStore`, composed with the finishes and the page by `TextDelivery` | checked; `TextDeliveryProofs` |
| 8 | `ConfiguredModels` | checked; `ConfiguredModelsProofs` |

Left: a reload of the page in `ShortcutDictation`. Every invariant and every action property
of a passing run has its theorem; liveness stays with TLC.

## 3. What is modelled

### SessionLifecycle — `crates/blcvoice-core`

`next_id` and `current` are the coordinator's two fields. `Source` and `Target` are
the table of `DictationSession::apply`; `TranscriptReady` with its flag is two
events. `Begin` is `begin` (busy unless terminal, `checked_add`, a new Arming
session), `Submit` is `transition` and `cancel`. `Begin` reads the id before it
increments the counter, as the code does, so the last value of the counter names no
session. `MaxSession` stands for `u64::MAX`.

### DictationRuntime — `crates/blcvoice-runtime`

`work` is the slot, without the audio. `op[t]` is the operation thread `t` is inside
of: which call, at which step, for which session, and the stage of a failure it has
still to submit. Every critical section and every unlocked call is one action, in the
order of the code:

| Operation | Actions |
|---|---|
| `start_recording` | `BeginRecording`, `ReserveArming`, `StartCapture`, `RecordingStarted`, `StoreRecording` |
| `pump_recording` | `PumpRecording`, `Pump` |
| `finalize_recording` | `FinalizeRecording`, `TakeRecording`, `FinalizeAudio`, `AudioFinalized`, `StoreFinalized` |
| `transcribe`, `transcribe_with_vad` | `Transcribe`, `TakeFinalized`, `Recognize`, then `RestoreFinalized`, or `ReleaseSilence` and `CancelSilence`, or `TranscriptReady` and `ClearReservation` |
| `finish_transform`, `insertion_delivered` | `FinishTransform`, `InsertionDelivered` |
| `fail`, `cancel` | `Fail` and `FailSession`, `Cancel` and `CancelSession` |
| error tails | `DiscardAndFail` or `Discard` (`clear_work`), `ReadForFailure` and `BestEffortFail` (`best_effort_fail`) |

A call that is refused before it changes anything is no action. `StartCapture`,
`Pump`, `FinalizeAudio` and `Recognize` choose among the outcomes of the device, the
collector, the detector and the recognizer. `transcribe` without a detector is the
sub-case of `transcribe_with_vad` that never reports silence.

`Disciplined` says what the callers do. When TRUE, a session id is used only after
the `start_recording` that made it has returned, and `start`, `finalize`,
`transcribe` and the delivery of one session follow each other; pumps, cancels and
failures come at any time. That is what `capture.rs` enforces: `cancel_session`
refuses while a start is in flight, and only the thread that took the worker
(`take_worker`) finalizes and goes on. When FALSE, any thread calls anything.
`DesktopDictation` checks, and `DesktopDictationProofs` proves, that the desktop services
are disciplined.

### AudioCustody — what the runtime promises

The abstract specification: one session at a time has custody of audio, takes it once
and in turn, live audio becomes final and never live again, and the next session
begins only when nobody has custody. `DictationRuntime` implements it under the
mapping in `Custody`.

### DesktopDictation — `capture.rs`, `dictation.rs`, and the commands of `ipc.rs`

`control` is `CaptureControl`, `pump` the worker threads, `slot` the `DictationSlot`.
`cmd[c]` is the call that command thread `c` serves: its step, session and the worker
it has taken. Command and pump threads are threads of the runtime: a call of theirs
enters the runtime (`Begins`, `Finalizes`, `Transcribes`, `FailsRecognition`,
`FailsDelivery`, `Cancels`, `PumpCall`), goes through its steps (`RuntimeStep`,
`PumpStep`) and resumes by how it returned.

| Code | Actions |
|---|---|
| `dictation.start` | `ClaimStart`, `Load`, then `start_capture`, then `Occupy` |
| `capture.start_capture` | `ClaimCapture` (with `reap_finished_worker`), `Begins`, `Install` or `Uninstall` |
| `finish_dictation_session` | `ClaimFinish`, `FinishTake`, `Join`, `Finalizes`, `Transcribes`, `FailsRecognition` or `AwaitInsertion`, `BeginInsertion`, `InsertText`, `EnsureInserting`, `Deliver` or `FailsDelivery`, `Reset` |
| `dictation.cancel` | `ClaimCancel`, then `cancel_session`, then `Reset` |
| `capture.cancel_session` | `CancelTake`, `Join`, `Cancels` |
| microphone test | `start_capture`; `FinishTake`, `Join`, `Finalizes`, `Cancels`; `cancel_session` |
| `pump_capture` | `PumpCall`, `PumpStep`, `PumpCheck`, `PumpWait` |

`Offered` are the calls that are made and `Callers` who may make them; the choice
stays fixed in `caller`. `"page"` waits for each answer of a dictation call
(`state.dictationBusy` in `app.js`) and tests only its own session; `"threads"` are
overlapping calls, of the shortcut and the page; `"anyone"` may also name any session
in a microphone test command, which the commands accept.

### ShortcutDictation — `blcvoice-shortcuts`, `shortcut.rs`, `coordinator.rs`, `app.js`

`controller`, `registration` and `coord` are the controller, the registration and the
coordinator. `environment` decides the `Backend`; `MarkRegistering`,
`MarkRegistered` and `MarkFailed` are the setup and, where the portal serves the
shortcut, the end of its signal stream. `handler` is the thread that routes one phase
at a time; `task[k]` is a spawned task or a command of the page with its step;
`events` are the lifecycle events on their way and `page` the three fields of the
page's state they drive. Of the dictation service only the slot is kept: a call claims
it in one step and has its outcome in another (`ClaimStart`, `Start`, `ClaimFinish`,
`Finish`, `ClaimCancel`, `Cancel`); what happens in between is the subject of
`DesktopDictation`. The events `completed`, `noSpeech` and `failed` change the page's
fields alike and are one event. A phase is `HandlePhase`, then `BeginStart` and
`SpawnStart`, or `BeginStop` and `SpawnFinish`; a start task ends in `CompleteStart`
and `EmitRecording`, with `SpawnQueuedFinish` when a stop was queued, or in
`ResetCoordinator`, `ResetController` and `ReportEnd`; a finish task in
`CompleteFinish` and `ReportEnd`. Production uses toggle mode; push-to-talk is the
other mode of the same controller, and the passing runs start in either.

### AudioCapture — `blcvoice-audio-cpal`, `blcvoice-audio`, `blcvoice-dictation`, `UtteranceBuffer`

A sample is the pair of its frame number and its channel; its value is left out.
`ring`, `metrics` and `utterance` are the ring, the counters and the collector's
buffer; `callback` and `collector` say how far the two threads are.

| Code | Actions |
|---|---|
| discovery, `start_input_capture`, `RecordingCollector::new` | `DiscoverHost`, `StartInputCapture` |
| the data callback | `IngestTyped` or `IngestUnusable`, `Commit`, `RecordReceived`, `RecordDropped` |
| the error callback | `RecordError` |
| `pump`, `finalize` | `Pump` or `Finalize` (the pause), `Read` until the ring is found empty, `CheckIntegrity` |
| the runtime drops the collector | `Discard` |

The callback writes the ring before it counts, and the collector reads the ring before
it judges the counters; nothing waits for a callback that is running at the pause. The
backend may deliver part of a frame, data of the wrong type, or any number of frames.

### UtteranceRecognition — `blcvoice-dictation`, `blcvoice-vad*`, `AudioPreprocessor`, `blcvoice-asr*`

One call after the other for a finalized recording, in frames: `Finalized` (every finish
makes a detector of its own, `dictation.rs:343`, so nothing is left of an earlier call),
`ModelForRate` (its model may not be built), `AnalyzeMono` (any ordered ranges may come
out, and the code validates them), `Slice` (the envelope of the speech), `FeedBlock`,
`FeedRest`, `Flush` and `Trim` (the resampler with its delay, rounding and what it
holds back), `Validate` and `Transcribe` with each kind of failure. Resampler, network
and engine are external: the model says what the code may be given by them.

### TextInsertion, XTestInsertion, EisInsertion, InsertionService — `blcvoice-insertion*`, `blcvoice-platform`, `insertion.rs`

A text is a short sequence of pieces: a character, a line break, a control character.
`job` is the text being inserted, with its step; `typed` is what the focused
application received; `outcome` what the caller is told. `TextInsertion` has what the
backends share and the native library's one call (`NativeInsert`, `NoBackend`).

| Code | Actions |
|---|---|
| `insert_text` of the service | `Call`, `Take` (the lock), the backend, `Return` |
| X11 | `XConnect`, `XBegin`, per character `ApplyKeysym` and `EmitKey`, `RestoreMapping`, each of which may fail |
| EIS, caller | `EisConnect`, `Ask` (the command queue and its answer) |
| EIS, worker thread | `Ready` or `ReadyFails`, `HandleEvent`, `NoTextDevice`, `WorkerInserts`, `WorkerExits` |
| outside | `ChangeLayout` (the user gives a key a meaning), `ChangeDevice` and `HandleRequest` (the compositor), `Crash` |

The worker's `slots`, a vector in the code, are a set of records: `added`, the serial of
the event that brought the device, is the place in the vector, and `Submit` takes the
first of the `TextSlots` in that order. A device that is removed and added again gets a new slot at the
end.

### HistoryStore, TextDelivery — `blcvoice-storage`, `history.rs`, the finish in `ipc.rs`

`db` is the file: its version, whether it has the table, its rows and the next id;
`store[p]` is how far process `p` has opened it. `Open` reads the version outside the
transaction of `Migrate`; `InsertRow` and `DeleteRow` are one transaction each, which
may fail. `TextDelivery` adds the finishes (`FinishDictation`, `InsertText`,
`EndInsertion`, `Record`, `CaptureResult`), the history page (`List`, `Delete`) and
`Crash`, after which the process opens the file again.

### ConfiguredModels — `models.rs`, `settings.rs`, `ipc.rs`, the recognizer of `dictation.rs`

`settings`, `file` and `tmp` are the settings in memory, on disk and in the file they
are replaced through; `told` remembers, per field, what the last command that saved it
was told. `installed[m]` and `part[m]` are a model's file and its partial file; a file is
told apart by its stamp, which stands for length and modification time. `worker[w]` is a
command, its step and the recognizer it holds; `slot` the `DictationSlot` with its
recognizer, `cache` the recognizer that is kept. The slot and the cache have a lock each,
never held together, so each section is an action.

| Code | Actions |
|---|---|
| `update` of the settings | `Lock`, `Write`, `RemoveOld` (Windows), `Rename`, `Assign`, or `UpdateFails` at any of them |
| `install`, `remove` | `Install`, `Download`, `Receive`, `Check`, `Commit`, `AfterInstall`; `Remove`, `AfterRemove`; `InstallFails` |
| `start_configured_dictation` | `Start` (a snapshot of the settings), `Discover`, `Choose` |
| `DesktopDictationService::start` | `Prepare`, `LookUp` (the key of the file), `Acquire` (the kept recognizer or none), `Load`, `StartCapture`, `Occupy`; on failure `Keep`, `Reset` |
| `finish`, the insertion | `Finish`, `Keep`, then `Reset`, or `Await`, `BeginInsertion`, `EndInsertion`, `Reset` |
| `cancel` | `Cancel` (the slot is free), `Keep`, `Reset` |
| process | `Crash`: memory goes, files stay |

A cancel frees the slot (`dictation.rs:449`), puts its recognizer back (485-487) and
resets the slot once more (492). A start may come in between and lose the slot, and a
second one beside it then looks up, loads and keeps recognizers at the same time: the
runs include that. What the sessions make of it is the subject of `DesktopDictation`.
Which session a finish or a cancel names is left out; the worker that awaits the
insertion (`owner`) stands for it.

## 4. Runs

| Run | Instance | Shows |
|---|---|---|
| `disciplined` | 3 threads, 3 sessions; 662,112 states | types, slot and session agree, stale work is harmless, nobody is stranded, `AudioCustody` is implemented |
| `services_discipline` | 2 commands, 2 workers, 2 sessions, all calls, page or anyone; 192,003 states | every step of the services is a step of the disciplined runtime; at rest every live session can be ended |
| `services_settle` | 2 commands, 2 workers, 3 sessions, overlapping calls, fairness; 57,670 states | calls return, the slot settles, the microphone is let go, text is typed only for the current session |
| `insertion_race` | as `services_discipline`, overlapping calls | violated: see Findings |
| `shortcut_and_page` | 2 tasks, 2 sessions, 3 events, three environments, both modes; 664,763 states | the coordinator knows the dictation its tasks work on |
| `shortcut_only` | shortcut alone, 3 sessions, fairness; 100,157 states | every recording can be stopped; a queued stop is applied; the coordinator settles; a user who goes on pressing stops the recording |
| `foreign_press` | 2 tasks, shortcut and page | violated: see Findings |
| `capture` | 2 channels, a ring of 2 frames, 5 frames, limit of 3, 1 error; 125,122 states | accepted recordings have no gap and miss nothing that was counted; the counters account for every sample |
| `recognition` | up to 5 frames, three rates, blocks of 3, delay 1; 20,284 states | text comes from all of the speech; only silence is cut; calls return |
| `insertion` | 2 texts, 4 environments, 5 keys, 4 compositor events, 1 crash; 483,137 states | what is reported was typed, the keyboard is given back, receipts are honoured, calls return |
| `delivery` | 2 dictations, 2 processes, 1 crash, four kinds of file; 153,596 states | texts are accounted for, history rows tell the outcome, deletions hit what was shown, the file is usable or left alone |
| `models` | 2 workers, 2 models, 4 commands, 1 crash, both platforms; 2,034,171 states | installed models are valid, settings survive and are as they were told, recognizers are fresh |

What the properties say:

- `WorkMatchesSession`: the two locks tell one story. `NewSessionUnblocked`: a new
  session never finds an old reservation. `NoAbandonedSession`: when nothing is in
  flight for the current session, it is over, or the slot holds what its state needs;
  in particular a recognition error leaves the audio to retry. `StaleWorkHarmless`: a
  step for a session that is not current changes neither the coordinator nor another
  session's work.
- `ImplementsRuntime`: the discipline the theorems assume is what the services do, also
  when a microphone test call names the session of a dictation. `ServicesAgree`: when
  no call is in flight, a live session has a worker that can be claimed and is the
  slot's or a microphone test's; it is stated for the page, because a start that
  overlaps a cancel breaks it (see Findings). `CallsReturn`, `SlotSettles`,
  `TransitEnds`, `MicrophoneReleased`: joining a worker ends, and no error path leaves
  slot, session or microphone between two states.
- `CoordinatorTracksTask`: a task that starts or finishes a dictation finds the
  coordinator where it left it, and there is one such task. `RecordingHasControl`: at
  rest a recording can be stopped by the shortcut or by the page. `PressingStops`: the
  controller may believe the wrong thing, but not for ever.
- `FinalizedGapFree`, `NothingReturnedIsLost`, `LossIsCounted`: the order of writing and
  counting on one thread, and of reading and judging on the other, is enough without a
  lock. A callback that is still running at the pause may be missing, as a whole: then
  nobody has counted it.
- `WholeSpeechRecognized`: block-wise feeding, flushing and trimming give exactly the
  rounded-up length of the cut. `OnlySilenceCut`: the envelope holds every detected
  range and stays inside the recording.
- `TypedAsReported`, `KeymapRestored`: for X11, at every step and every failing
  request. `ReceiptHonoured`: for EIS, a text reported as submitted while no device
  changed arrives, also after devices were paused and resumed.
- `TextAccountedFor`, `HistoryTellsOutcome`, `DeletesWhatWasShown`, `StoreUsable`,
  `NewerFileKept`: across crashes and a second process that migrates the same file.
- `InstalledIsValidated`, `SettingsDurable`, `RecognizerFresh`: across failures at each
  step, a crash anywhere, and a model that is removed and installed again while its
  recognizer is kept or on its way between a dictation and the cache. `SettingsAsTold`:
  each field is what the last command that saved it was told, although others save, fail
  or work from older snapshots meanwhile. It says nothing against a later save of the
  same field: there the last one wins (see Findings).

The type invariants of the modules whose properties already use the place of the list
(`DesktopTypeOK`, `TypeOK` of `ShortcutDictation`, `CaptureTypeOK`, `RecTypeOK`,
`InsertionTypeOK`, `DeliveryTypeOK`) hold on the same instances: add them to the cfg.

Bounds. `MaxSession = 4` gives three sessions, so that work of the first can be late
for the second while the third begins, and reaches the exhaustion of the counter;
three threads put a pipeline operation, a pump or failure, and a cancel on one
session together. The services need two commands for a cancel or a test beside a
dictation, and two workers because the worker of one recording may still be joined
when the next is installed; with two sessions an operation of the first can be late
for the second. Two tasks of the shortcut let a finish report while the next start
runs, and a queue of three events lets the end of one dictation be overtaken by the
beginning of the next. In `capture` the ring of two frames can be empty, half full and
full, the sizes of buffers are an odd one, exact ones and one larger than the ring,
and the limit of the utterance can be passed. In `recognition` the rates are half,
equal to and above the engine's, with a cut shorter than a block, a block, and more.
In `insertion` the keys are a free modifier, one of the user, free ones and one that
changes its meaning; the texts are empty, refused, and have a piece twice, so that the
scratch key changes or keeps its meaning. In `delivery` the file is missing, current,
newer or without its table. In `models` four commands let an install, a removal and a
second install fall between two starts; finishes and cancels need no bound, since each
needs a start. Threads, tasks and workers that run the same
code, and the models, are symmetric; symmetry is not used in the runs that check liveness.

Deadlock is not looked for where the system rests: the shortcut alone after its
sessions are used up, and the modules of steps 4 to 8, whose recordings, texts, finishes
or commands are numbered and come to an end.

Fairness. `DesktopFairSpec`: a call that was accepted is carried out and a pump goes on
draining; the mutexes are held for a few statements and never nested, native calls
return, and a join only waits. `FairSpec` of `ShortcutDictation` lets spawned tasks, the
routing thread and the page's event loop run; that the user presses again and again is
the premise of `PressingStops` (`KeepsPressing`), not a fairness. `RecSpec`: the call
goes on until it returns; that the resampler fails is never owed. `Spec` of
`InsertionService`: the threads go on and the display server answers, and the lock is
given to each of its waiters in the end (strong fairness of `Take`, since others may
take it in between). `Spec` of `TextDelivery`: finishes go on and the process opens its
history. Nothing is assumed about when, or whether, somebody calls.

## 5. Theorems

All of them hold for every value of the constants that satisfies the named assumptions.

**`DictationRuntimeProofs`** — any set of threads and any bound on ids. `TypeCorrect`
and `StaleWorkIsHarmless` need no discipline and rest on `BasicInv`: types, which steps
belong to which call, the current session is the newest, an empty slot has no owner.
`WorkFollowsSession` and `StartNeverBlocked` hold under `Disciplined`. Neither invariant
is inductive as it stands: a step keeps slot and session together only because of what
threads between two steps may rely on. `RuntimeInv` states that: pipeline operations on
a session do not overlap (`Exclusive`); a session being started is live and its slot
follows its steps (`StartOwns`); once a thread has cleared the slot to end a session,
the session never owns it again (`ClearedStaysClear`); how far the session and the slot
are at each step (`StateAtStep`, `SlotAtStep`); and every Arming or Transcribing
reservation has a thread that made it (`Reserved`).

On top of it `NoneAbandoned`: no session is stranded. `AttendedInv` adds whom a session in need is waiting for: one that lost its slot has a
thread that will end it (`LossIsAttended`), a session in FinalizingAudio is held by the
finalizing thread (`FinalizingIsHeld`), audio that was taken out is in the hands of the
thread that took it (`StoppedIsTaken`), and a release of silence comes only after
that (`ReleasesAreLate`). `CustodyKept`: initial states map to initial states of
`AudioCustody` and every step to a step or a stutter, hence the disciplined runtime
implements it.

**`DesktopDictationProofs`** — any number of commands, workers and sessions. Here the
discipline is no longer assumed: `RuntimeImplemented` proves that every step of the
services is a step of the disciplined runtime or leaves the runtime alone, and the
theorems above, taken for the disciplined runtime, become `ServicesKeepWork`,
`ServicesStartFreely` and `ServicesAbandonNone` of the program. That a call of the runtime
is one a disciplined caller may make cannot be read off the step that makes it: it
depends on what other commands and workers may be doing with that session.
`DisciplineInv` (`ServicesDisciplined`) says so: which step belongs to which call, and
which operation of the runtime to which step (`CommandsFit`, `PumpsFit`, `OpsFollow`); a
worker is claimed by one call and only by one that names its session (`WorkersClaimed`);
one start is between its claim and its worker (`OneStart`); a session is started once
and until then nobody has got hold of it but calls of the microphone test that are still
at their first step (`StartedOnce`, `StartedFirst`); and one call has the recording of a
session to finish it, after which the service has no worker for it (`FinishedOnce`).

`TextOnlyForCurrent` proves `InsertsOnlyCurrent` for callers that do not name the session
of a dictation in a call of the microphone test (`"anyone" \notin Callers`; the page and
the shortcut keep them apart, and with foreign calls a test's cancel may end a dictation
at any step). `InsertionInv` adds that tests and dictations have different sessions and
that nobody names a session before its start has returned (`TestsApart`,
`StartUnnamed`), that what the slot holds was started and is unclaimed while Recording
(`SlotStarted`, `SlotUnclaimed`), that a finish and a cancel share a session only where
the finish is about to find the slot taken (`ClaimsApart`, `AwaitedByFinish`), that a
session has one worker and none after its finish has joined it, so that no late failure
of the pump ends it (`OneWorker`, `WorkerGone`), and that from the transcript on the
session is in Inserting (`InsertingHeld`).

`PageControlsSessions` proves `ServicesAgree`: if the page waits for each answer, then
whenever no call is in flight a live session has a worker, and the slot or a test names
it, so that a call can still end it. The property speaks of the quiet moments only, and
`PageInv` has to say what holds in all the others:

- the slot is as the one dictation call in flight has it (`DictatesAlone`,
  `SlotFollows`), so a reset at the end of a call never empties another's slot;
- a start in flight finds no worker, and a worker is told to stop only by the call that
  takes it (`StartHasNoWorker`, `WorkerUntold`);
- a session is in Recording as long as it has a worker or waits for one or for its finalization
  (`RecordingWorked`), so installing a worker and finalizing are never refused by a late
  failure;
- a worker fails on a live session only when a cancel has got ahead of it and is about
  to end the session (`FailureAttended`); this is why reaping a failed worker, or giving
  up a finish because of it, strands nothing;
- and `SessionHeld`, of which `ServicesAgree` is the quiet case: a live session has a
  call that will end it or give it a worker (`Attends`), or its worker can be got at,
  through the slot, as a test, or by a call on its way (`Reachable`).

The steps of the runtime enter through `RuntimeServes`, the invariants of
`DictationRuntimeProofs` taken for the program: a call that the runtime answers while its
session is live has done its work, or another call has the session (`FinalizeAnswers`,
`OthersAnswer`).

**`AudioCaptureProofs`** — any device, ring, limit, sizes of buffers and number of
errors. `RecordingsAreGapFree`, `RecordingsAreComplete`, `CountersAccount`. The
invariant follows the callback: what the counters say at each of its steps (`Counted`),
that a claim fits the ring until it is committed (`ClaimFits`), that all three
quantities are whole frames (`WholeFrames`), and that utterance and ring together, as
long as nothing was dropped or refused, are the microphone's stream up to the buffer in
hand (`InOrder`). `ReturnedIsHeld` carries what was counted at the pause through the
reading. The lemmas are about quotients and remainders of whole frames and about
cutting and joining sequences.

**`TextDeliveryProofs`** — any number of dictations, processes and crashes.
`NoTextIsLost`, `RowsTellOutcome`, `OpenedIsUsable`, `DeletionsWereShown`,
`NewerIsKept`. `DeliveryInv` adds that ids are below the next one and name one row each,
also the rows a page still shows (`IdsAreFresh`), that a file without its table has no
rows (`RowsNeedTable`), and that rows are those of finishes that have appended
(`RowsAreRecorded`, `OneRowEach`).

**`ConfiguredModelsProofs`** — any number of workers, models, commands and crashes.
`ModelsTypeCorrect`, `ModelsValidated`, `SettingsSurvive`, `SettingsKeepWhatWasTold`,
`RecognizersAreFresh`. `ModelsInv` says which command is at which step (`CommandsFit`),
that each lock is held by the worker inside its section and by no other (`LocksHeld`),
what the files are at each step of a replacement (`FilesAtStep`), that the settings are
as told and a save differs from them in the one field its command is changing
(`SettingsAsTold`, `SavesOneField`), that only a validated file is committed
(`CommitsModel`), and of every recognizer, kept, in the slot or with a command, that it
is as new as its key, and of every key that is looked up, that what is installed since
is newer (`RecognizersInv`). No part of it says that one start at a time has the slot: a
late reset breaks that.

**`ShortcutDictationProofs`** — any number of tasks, sessions and queued events.
`ShortcutTypeCorrect`, and `CoordinatorTracksItsTask` for every way of starting a
dictation. The property speaks of tasks; that it is kept depends on what the coordinator
is waiting for, so `TrackingInv` adds that a start in flight finds the coordinator
Starting and a finish finds it Finishing with its session (`TasksAwaited`), that there
is one such task (`OneActive`), that what the routing thread is about to spawn is what
the coordinator keeps (`HandlerAwaited`), and that a start that succeeded has its
session (`StartedHasId`). `ShortcutKeepsControl` is about the shortcut alone: it assumes
`"page" \notin Controls`, because with the page the property is violated (run
`foreign_press`), and excepts the portal, whose stream of signals may end in the middle
of a recording. `ControlInv` names who will end the recording the slot is in: the next
press, a stop on its way, or the start that has not reported it yet (`RecordingAwaited`).

**`UtteranceRecognitionProofs`** — recordings of any length, any rates, blocks, delay and
number of frames the resampler yields. `TextFromWholeSpeech`, `SpeechStaysInside`.
`RecInv` follows the call step by step: that the envelope holds the ranges once it is
computed (`SpeechKept`), how much was fed (`FedInOrder`), and that what is handed on is a
stretch of what was produced, in the end exactly from the delay on and as long as the cut
requires (`OutputProduced`, `OutputWhole`). The lemmas are about division that rounds up.

**`InsertionProofs`** — any texts, dictations, keycodes, devices, events and crashes.

- `XReportsTrue`: `TypingInv` says that what was typed is a beginning of the text, piece
  by piece (`Beginning`), how much the caller has been told (`Reported`), and in between
  what a submission has counted, also after a request that failed with or without effect,
  and that the scratch key means what the adapter believes (`Counted`).
- `KeymapGivenBack`: from `KeysInv`, in which the scratch key is a key without a first
  meaning and no modifier (`ScratchFree`). Its hypothesis `[]ScratchKept` is that the user
  gives no meaning to the one key the inserter holds. Without it the theorem is false, as
  the finding on late meanings below shows; `UserKeysSafe` concludes `UserKeysKept` from
  the same. `FixedLayoutGivenBack` has no hypothesis about behaviours: if the layout stays
  (`ChangedKeys = {}`), the scratch key stays free by itself, since a key that has a
  meaning in the server only because a crash left it there is never chosen.
- `ReceiptsHonoured`: the worker decides by events that are behind what the compositor
  has done, and the compositor handles requests that are behind the worker. `ReceiptInv`
  relates all four: serials rise (`SerialsRise`), the last event of a device tells how the
  compositor has it (`LastTells`), a device is added once until it is removed
  (`AddedOnce`), a slot of which no event is awaited is as the compositor has it
  (`SlotsFollow`, `SlotsEmulate`), a text in the queue of an undisturbed dictation meets a
  device that is resumed and emulating (`TextTaken`), and what is typed of a text together
  with what is queued is the whole text (`Submitted`, `RestAfter`).

From `ServiceAssumption` the proofs use that a text is a sequence of pieces and that
no piece is the value that stands for a key without a meaning.

Model-checked only: the liveness properties (`CallsReturn`, `SlotSettles`,
`MicrophoneReleased`, `TransitEnds`, `QueuedStopApplied`, `CoordinatorSettles`,
`PressingStops`, `RecognitionReturns`, `CallReturns`, `FinishReturns`), since fairness and
ENABLED are out of the prover's reach.

## 6. Findings

Two have a run of their own:

- **The late reset of a cancel** (`dictation.rs:492`, run `insertion_race`). `cancel`
  gives the slot up first and resets it once more at the end, whatever it holds by then.
  A start between the two loses its claim: a further start prepares beside it
  (`docs/adr/0019...:26` "rejects ... overlapping preparation/recording/finalization
  work"), its recording is cancelled as invalidated, or, if the cancel is that late, its
  insertion loses the slot (`docs/adr/0023...:22`: the `Inserting` state exists "so
  insertion cannot race with cancellation or another session"); then the session stays
  in Inserting and no dictation can begin any more.
- **A shortcut press orphans a dictation of the page** (`coordinator.rs:74`, run
  `foreign_press`). The starting event makes the page forget its session, the start is
  refused, and the recording has no control left. `app.js:188` tells the user to press
  "the button or Ctrl + Shift + Space".

The following were met while modelling. The first five are properties the modules
define; each is found violated when it is added to the named instance.

- **A cancel during `start_recording` blocks the next session**
  (`crates/blcvoice-runtime/src/lib.rs:455`; `NewSessionUnblocked` with
  `Disciplined = FALSE`). `begin` publishes the session before `reserve_arming` takes
  the slot. A cancel in between clears nothing; the start then reserves the slot for a
  session that is already Cancelled, and the next session is refused.
  `docs/adr/0012-runtime-orchestration-boundary.md:48` says that clearing first
  "prevents a newly started session from inheriting or being blocked by an old session's
  resource reservation". The desktop services do not reach it, because they refuse to
  cancel while a start is in flight (`services_discipline`).
- **A failed worker is reaped by the next start** (`capture.rs:361`; `FailureClaimable`
  as a property of `services_discipline`). `docs/adr/0013-desktop-capture-scheduling.md:27`
  promises that it "remains claimable by the matching finish/cancel path".
  `start_capture` reaps it, and clears the stored failure right after.
- **A refused press leaves the latch set** (`coordinator.rs:75`; `LatchAgrees` in
  `shortcut_only`). A press while the last dictation is finishing is refused without
  resetting the controller; the next press does nothing.
  `docs/adr/0024-shortcut-dictation-coordinator.md:30` says the reset makes this
  impossible for a failed start. `PressingStops` shows that it does not last.
- **A whole text reported as not submitted** (`crates/blcvoice-insertion-x11`;
  `PartialIsReported` in `insertion`). When every character was typed and then restoring
  the scratch key fails, the error is that of the backend, not a partial submission as
  `docs/adr/0022-x11-xtest-text-insertion.md:17` says; the caller is given back a text the
  application already has.
- **A key that got its meaning late loses it** (`crates/blcvoice-insertion-x11/src/lib.rs:191`;
  `UserKeysKept` in `insertion` with `ChangedKeys = {3}`, the key that is chosen). The
  unused key is looked up once per connection, the connection is kept, and
  `docs/adr/0022:13` speaks of a keycode whose current mapping is empty.
- **Delivered, but reported as an error** (`ipc.rs:168`). When `complete_insertion` is
  refused after the text was inserted (a cancel in between), the command fails, carries
  no text, and no history row is written for what the user already has.
- **Full-scale audio may be refused** (`UtteranceRecognition`, `Validate`). Resampling may
  overshoot the range the recognizer's input accepts, and nothing limits it;
  `docs/adr/0009:68` leaves the policy open, so the dictation fails.
- **An automatic choice is saved over the user's** (`ipc.rs:74-78`, `ipc.rs:117`). A
  dictation that starts while the selected microphone is unplugged, or the selected model
  is missing, saves what it picked instead.
- **Of two saves of one setting the later wins, whatever it was decided on.** A command
  that looks at the settings and then saves (`snapshot`, then `set_model` or
  `set_input_device`) takes the lock anew for the save. A removal that found its model
  selected clears the selection (`ipc.rs:818-821`), an install that found none selected
  selects its own (`ipc.rs:795-799`), and a start that found the device or the model gone
  saves its choice (`ipc.rs:58`, then 74-78 and 117), each also when the user has selected
  another in between. The model does the same; no document of the repository promises
  otherwise, and `SettingsAsTold` is about different settings only.
- **Events may overtake each other** (`coordinator.rs:201`). The coordinator is free before
  the end of the last dictation is emitted, so the page may handle the beginning of the
  next one first. What the page shows is the subject of no property, only who can stop a
  recording is.
- **A shortcut recording when the portal's stream ends** (`shortcut.rs:284`). Later presses
  are ignored and the page has no id for the session: it runs to its limit.

## 7. Not modelled

- The values of samples: conversion, mixing, resampling and the network are taken as
  external, with every result the code would accept or has to refuse. `process_block` of
  the preprocessor is left out, because only tests call it.
- The engine's options, timestamps and languages; the catalog of models and the
  recommendation, which are data.
- The handshake with the desktop portal, which is one step that succeeds or fails and
  may wait for the user for ever; restore tokens, which nothing stores; the wire formats
  of display servers.
- Of the page everything but the dictation state, and its reload; `set_mode` of the
  shortcut controller, which nothing calls.
- Formatting, logging, error text and health reports; a panic inside a critical section
  (the code recovers a poisoned lock).
- A second process that dictates: `TextDelivery` lets other processes open and migrate
  the history, but the program's other files have one user.
