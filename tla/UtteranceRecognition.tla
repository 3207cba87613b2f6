-------------------------- MODULE UtteranceRecognition --------------------------
(***************************************************************************)
(* From a finalized recording to its text (blcvoice-dictation,             *)
(* blcvoice-vad, blcvoice-vad-silero, AudioPreprocessor of                 *)
(* blcvoice-audio-processing, blcvoice-asr, blcvoice-asr-transcribe):      *)
(* speech is detected on a mono view, the envelope of the speech is cut    *)
(* out, resampled block by block to what the engine wants, validated and   *)
(* recognized.  Frames are counted, their values are left out but for the  *)
(* peak of the recording.  The resampler, the network and the engine are   *)
(* external: the model says what the code may be given by them.            *)
(***************************************************************************)
EXTENDS Integers, Sequences, FiniteSets

CONSTANTS
  MaxFrames,        \* bound: frames of a recording
  Rates,            \* sample rates of the input devices
  AsrRate,          \* sample rate the engine requires
  Block,            \* frames the resampler takes at once
  Delay,            \* frames of silence the resampler puts first
  MaxLag            \* output frames the resampler may hold back beyond its delay

ASSUME RecognitionAssumption ==
  /\ MaxFrames \in Nat \ {0}
  /\ Rates \subseteq Nat \ {0} /\ Rates # {}
  /\ AsrRate \in Nat \ {0}
  /\ Block \in Nat \ {0}
  /\ Delay \in Nat /\ MaxLag \in Nat

VARIABLES
  recording,        \* the FinalizedRecording
  analysis,         \* the speech ranges found
  envelope,         \* source frames kept: from the first one on, up to the second
  resampling,       \* frames fed, calls that flushed, frames produced, and whether the
                    \* resampler yields anything for silence
  output,           \* the part of the produced frames that is handed on
  run               \* step of the call and its result

recVars == <<recording, analysis, envelope, resampling, output, run>>

---------------------------------------------------------------------------
At(step) == run.pc = step

Goto(step) == run' = [run EXCEPT !.pc = step]

Return(result) == run' = [pc |-> "done", result |-> result]

Peaks == {"normal", "full", "beyond", "nan"}

Recordings == [frames: 1 .. MaxFrames, rate: Rates, peak: Peaks]

Ranges(n) == {r \in (0 .. n) \X (0 .. n) : r[1] < r[2]}

(* Nothing is left of an earlier call: every finish has a detector of its  *)
(* own (finish of dictation.rs), and every utterance a resampler.          *)
Finalized ==
  /\ At("done")
  /\ recording' \in Recordings
  /\ analysis' = <<>>
  /\ envelope' = <<0, 0>>
  /\ resampling' = [fed |-> 0, produced |-> 0, flushes |-> 0, drains |-> TRUE]
  /\ output' = <<0, 0>>
  /\ run' = [pc |-> "detect", result |-> "None"]

---------------------------------------------------------------------------
(* Speech detection.                                                       *)

(* validate_mono_samples, then the new detector's model for the rate of    *)
(* the recording, which may not be built.                                  *)
ModelForRate ==
  /\ At("detect")
  /\ \/ Return("SpeechDetection")
     \/ recording.peak # "nan" /\ Goto("analyze")
  /\ UNCHANGED <<recording, analysis, envelope, resampling, output>>

(* VadAnalysis::new.  The ranges come in the order of time; the last       *)
(* window of the network reaches past the end of the audio.                *)
ValidRanges(ranges) ==
  \A i \in DOMAIN ranges : ranges[i][1] < ranges[i][2] /\ ranges[i][2] <= recording.frames

Detections ==
  LET R == Ranges(recording.frames + 1)
  IN {<<>>} \cup {<<r>> : r \in R} \cup {p \in R \X R : p[1][2] < p[2][1]}

(* speech_envelope, in source frames, for the mono view has the same rate. *)
(* Fault: the envelope ends with the first range.                          *)
SpeechEnvelopeOfFirst(ranges) == ranges[1]
SpeechEnvelope(ranges) == <<ranges[1][1], ranges[Len(ranges)][2]>>

AnalyzeMono ==
  /\ At("analyze")
  /\ \/ /\ Return("SpeechDetection")
        /\ UNCHANGED <<analysis, envelope>>
     \/ \E ranges \in Detections :
          /\ analysis' = ranges
          /\ envelope' = IF ranges = <<>> THEN envelope ELSE SpeechEnvelope(ranges)
          /\ IF ~ValidRanges(ranges) THEN Return("SpeechDetection")
             ELSE IF ranges = <<>> THEN Return("NoSpeech")
             ELSE Goto("slice")
  /\ UNCHANGED <<recording, resampling, output>>

---------------------------------------------------------------------------
(* process_utterance for the envelope.                                     *)

Cut == envelope[2] - envelope[1]

Resamples == recording.rate # AsrRate

DivCeil(a, b) == (a + b - 1) \div b

Expected == DivCeil(Cut * AsrRate, recording.rate)

Required == Delay + Expected

(* The slice must lie in the utterance; a device already at the engine's   *)
(* rate is copied, any other gets a resampler of its own, freshly reset.   *)
Slice ==
  /\ At("slice")
  /\ IF envelope[2] > recording.frames
     THEN Return("InvalidConfiguration") /\ UNCHANGED <<resampling, output>>
     ELSE IF Resamples
          THEN /\ Goto("feed")
               /\ \E drains \in BOOLEAN : resampling' = [resampling EXCEPT !.drains = drains]
               /\ UNCHANGED output
          ELSE Goto("validate") /\ output' = <<0, Cut>> /\ UNCHANGED resampling
  /\ UNCHANGED <<recording, analysis, envelope>>

(* What the resampler can have produced from so many frames of input, and  *)
(* what it may then still hold back.                                       *)
Available(fed) == (fed * AsrRate) \div recording.rate

Productions(fed) ==
  LET most == Available(fed)
  IN {n \in 0 .. most : n >= resampling.produced /\ n + MaxLag >= most}

Processed(fed, flushes, produced) ==
  resampling' = [resampling EXCEPT !.fed = fed, !.flushes = flushes, !.produced = produced]

Padded(flushes) == Block * (flushes + DivCeil(Cut, Block))

(* One complete block, while there is one.                                 *)
FeedBlock ==
  /\ At("feed")
  /\ Cut - resampling.fed >= Block
  /\ \E produced \in Productions(resampling.fed + Block) :
       Processed(resampling.fed + Block, 0, produced)
  /\ UNCHANGED <<recording, analysis, envelope, output, run>>

(* The short rest, padded to a block by the resampler.                     *)
(* Fault: the rest of the utterance is dropped.                            *)
FeedRestDropped ==
  /\ At("feed")
  /\ Cut - resampling.fed < Block
  /\ Goto("flush")
  /\ UNCHANGED <<recording, analysis, envelope, resampling, output>>
FeedRest ==
  /\ At("feed")
  /\ Cut - resampling.fed < Block
  /\ IF Cut = resampling.fed
     THEN UNCHANGED resampling
     ELSE \E produced \in Productions(Padded(0)) : Processed(Cut, 0, produced)
  /\ Goto("flush")
  /\ UNCHANGED <<recording, analysis, envelope, output>>

(* Silence is fed until the delayed end is there.  A resampler that yields *)
(* nothing for it ends the call.                                           *)
Drained ==
  IF resampling.drains
  THEN {n \in Productions(Padded(resampling.flushes + 1)) : n > resampling.produced}
  ELSE {resampling.produced}

(* Fault: a call that yields nothing is tried again.                       *)
FlushAgain ==
  /\ At("flush")
  /\ resampling.produced < Required
  /\ \E produced \in Drained :
       Processed(resampling.fed,
                 resampling.flushes + (IF resampling.drains THEN 1 ELSE 0), produced)
  /\ UNCHANGED <<recording, analysis, envelope, output, run>>
Flush ==
  /\ At("flush")
  /\ resampling.produced < Required
  /\ \E produced \in Drained :
       IF produced = resampling.produced
       THEN Return("Processing") /\ UNCHANGED resampling
       ELSE /\ Processed(resampling.fed, resampling.flushes + 1, produced)
            /\ UNCHANGED run
  /\ UNCHANGED <<recording, analysis, envelope, output>>

(* The delay is cut off and the exact length kept.                         *)
Trim ==
  /\ At("flush")
  /\ resampling.produced >= Required
  /\ IF Delay + Expected > resampling.produced
     THEN Return("Processing") /\ UNCHANGED output
     ELSE Goto("validate") /\ output' = <<Delay, Delay + Expected>>
  /\ UNCHANGED <<recording, analysis, envelope, resampling>>

(* Any call of the resampler may fail.                                     *)
ResamplerFails ==
  /\ At("feed") \/ At("flush")
  /\ Return("Processing")
  /\ UNCHANGED <<recording, analysis, envelope, resampling, output>>

---------------------------------------------------------------------------
(* Recognition.                                                            *)

(* AudioInput::new refuses a sample outside [-1, 1]; audio at full scale   *)
(* may overshoot when it is resampled, and nothing limits it.              *)
Validate ==
  /\ At("validate")
  /\ \/ /\ recording.peak = "beyond" \/ (recording.peak = "full" /\ Resamples)
        /\ Return("InvalidAsrAudio")
     \/ /\ recording.peak # "beyond"
        /\ Goto("transcribe")
  /\ UNCHANGED <<recording, analysis, envelope, resampling, output>>

RecognitionErrorKind ==
  {"InvalidAudio", "InvalidRequest", "Unsupported", "ModelNotFound", "ModelLoad",
   "ResourceExhausted", "BackendUnavailable", "InputTooLong", "Cancelled",
   "OutputTruncated", "Busy", "Internal"}

(* map_native_error, which also stands for a refused language or target.   *)
NativeErrorKinds == RecognitionErrorKind \ {"InvalidAudio"}

(* The engine is not called for an empty buffer.                           *)
Transcribe ==
  /\ At("transcribe")
  /\ \E result \in IF output[1] = output[2] THEN {"InvalidAudio"}
                   ELSE {"Transcribed"} \cup NativeErrorKinds : Return(result)
  /\ UNCHANGED <<recording, analysis, envelope, resampling, output>>

---------------------------------------------------------------------------
RecInit ==
  /\ recording = [frames |-> 1, rate |-> AsrRate, peak |-> "normal"]
  /\ analysis = <<>>
  /\ envelope = <<0, 0>>
  /\ resampling = [fed |-> 0, produced |-> 0, flushes |-> 0, drains |-> TRUE]
  /\ output = <<0, 0>>
  /\ run = [pc |-> "done", result |-> "None"]

Resample == FeedBlock \/ FeedRest \/ Flush \/ Trim

Work == ModelForRate \/ AnalyzeMono \/ Slice \/ Resample \/ Validate \/ Transcribe

RecNext == Finalized \/ Work \/ ResamplerFails

(* The call runs on a thread of its own and goes on until it returns; that *)
(* the resampler fails is never owed.                                      *)
RecSpec == RecInit /\ [][RecNext]_recVars /\ WF_recVars(Work)

---------------------------------------------------------------------------
Results == {"None", "NoSpeech", "SpeechDetection", "InvalidConfiguration", "Processing",
            "InvalidAsrAudio", "Transcribed"} \cup RecognitionErrorKind

(* Every part of the call has its type, and the engine's view of the audio *)
(* is never longer than what was produced for it.                          *)
RecTypeOK ==
  /\ envelope \in (0 .. MaxFrames + 1) \X (0 .. MaxFrames + 1)
  /\ resampling \in [fed: 0 .. MaxFrames, produced: Nat, flushes: Nat, drains: BOOLEAN]
  /\ output[1] <= output[2]
  /\ Resamples => output[2] <= resampling.produced
  /\ run.result \in Results

(* Text comes only from the whole cut: each of its frames went through the *)
(* resampler, the short rest too, the delay is cut off, the length is that *)
(* of the speech, rounded up, and all of it was produced (ADR 0007).       *)
WholeSpeechRecognized ==
  run.result = "Transcribed" =>
    /\ Resamples => /\ resampling.fed = Cut
                    /\ output[1] = Delay /\ output[2] <= resampling.produced
    /\ output[2] - output[1] = Expected

(* What is cut off is silence: no speech that was detected lies outside.   *)
OnlySilenceCut ==
  At("validate") \/ At("transcribe") =>
    /\ envelope[2] <= recording.frames
    /\ \A i \in DOMAIN analysis :
         envelope[1] <= analysis[i][1] /\ analysis[i][2] <= envelope[2]

(* A call returns, whatever the resampler yields for the silence it gets.  *)
RecognitionReturns == run.pc # "done" ~> run.pc = "done"
=============================================================================
