----------------------- MODULE UtteranceRecognitionProofs -----------------------
(***************************************************************************)
(* Theorems about UtteranceRecognition for recordings of any length, any   *)
(* rates of the devices and of the engine, and any resampler.              *)
(***************************************************************************)
EXTENDS UtteranceRecognition, TLAPS

---------------------------------------------------------------------------
(* Types.  The first recording stands for none and has the engine's rate.  *)

PcSteps == {"detect", "analyze", "slice", "feed", "flush", "validate", "transcribe", "done"}

RecordingType == [frames: 1 .. MaxFrames, rate: Rates \cup {AsrRate}, peak: Peaks]

Frames == 0 .. MaxFrames + 1

AnalysisType == Seq(Frames \X Frames)

ResamplingType == [fed: Nat, produced: Nat, flushes: Nat, drains: BOOLEAN]

RunType == [pc: PcSteps, result: Results]

RecTypes ==
  /\ recording \in RecordingType
  /\ analysis \in AnalysisType
  /\ envelope \in Frames \X Frames
  /\ resampling \in ResamplingType
  /\ output \in Nat \X Nat
  /\ run \in RunType

---------------------------------------------------------------------------
(* The inductive invariant.                                                *)

Transcribed == run.result = "Transcribed"

(* A result is there when the call has returned, and not before.           *)
ResultAtEnd == ~At("done") => run.result = "None"

(* The envelope holds the speech, and lies in the recording once sliced.   *)
SpeechKept ==
  At("slice") \/ At("feed") \/ At("flush") \/ At("validate") \/ At("transcribe") =>
    /\ envelope[1] < envelope[2] /\ envelope[2] <= recording.frames
    /\ \A i \in DOMAIN analysis :
         envelope[1] <= analysis[i][1] /\ analysis[i][2] <= envelope[2]

(* From the first step on it is one of a device.                           *)
RecordingMade == At("done") \/ recording.rate \in Rates

EnvelopeOrdered == envelope[1] <= envelope[2]

(* Only what is resampled is fed, never beyond the cut, all of it before   *)
(* the silence.                                                            *)
FedInOrder ==
  /\ At("detect") \/ At("analyze") \/ At("slice") => resampling.fed = 0 /\ output = <<0, 0>>
  /\ At("feed") => Resamples /\ resampling.fed <= Cut /\ output = <<0, 0>>
  /\ At("flush") => Resamples /\ resampling.fed = Cut /\ output = <<0, 0>>

WholeOutput ==
  IF Resamples
  THEN /\ resampling.fed = Cut
       /\ output = <<Delay, Delay + Expected>>
       /\ output[2] <= resampling.produced
  ELSE output = <<0, Cut>>

OutputWhole == At("validate") \/ At("transcribe") \/ Transcribed => WholeOutput

(* What is handed on is a stretch of what was produced.                    *)
OutputProduced == output[1] <= output[2] /\ (Resamples => output[2] <= resampling.produced)

FedBounded == resampling.fed <= MaxFrames

RecInv ==
  /\ RecTypes
  /\ ResultAtEnd
  /\ RecordingMade
  /\ EnvelopeOrdered
  /\ SpeechKept
  /\ FedInOrder
  /\ OutputWhole
  /\ OutputProduced
  /\ FedBounded
---------------------------------------------------------------------------
(* Frames rounded up to the engine's rate.                                 *)

LEMMA DivCeilNat ==
  ASSUME NEW a \in Nat, NEW b \in Nat \ {0}
  PROVE  DivCeil(a, b) \in Nat
BY DEF DivCeil

(* Rounding up is exact for a multiple.                                    *)
LEMMA DivCeilOfMultiple ==
  ASSUME NEW a \in Nat, NEW b \in Nat \ {0}
  PROVE  DivCeil(a * b, b) = a
<1> DEFINE q == DivCeil(a * b, b)
<1>1. q \in Nat
  BY DivCeilNat
<1>2. a * b \in Nat
  OBVIOUS
<1>3. q * b <= a * b + b - 1 /\ a * b + b - 1 < q * b + b
  BY <1>2 DEF DivCeil
<1>4. q * b < (a + 1) * b
  BY <1>1, <1>3
<1>5. a * b < (q + 1) * b
  BY <1>1, <1>3
<1>6. q < a + 1
  BY <1>1, <1>4
<1>7. a < q + 1
  BY <1>1, <1>5
<1> QED
  BY <1>1, <1>6, <1>7

(* The length of the output is a natural number, and that of the cut when  *)
(* nothing is resampled.                                                   *)
LEMMA ExpectedLength ==
  ASSUME RecTypes, EnvelopeOrdered
  PROVE  /\ Cut \in Nat
         /\ Expected \in Nat
         /\ ~Resamples => Expected = Cut
<1>1. envelope[1] \in Nat /\ envelope[2] \in Nat
  BY RecognitionAssumption DEF RecTypes, Frames
<1>2. Cut \in Nat
  BY <1>1 DEF EnvelopeOrdered, Cut
<1>3. recording.rate \in Nat \ {0} /\ AsrRate \in Nat \ {0}
  BY RecognitionAssumption DEF RecTypes, RecordingType
<1>4. Cut * AsrRate \in Nat
  BY <1>2, <1>3
<1>5. Expected \in Nat
  BY <1>3, <1>4, DivCeilNat DEF Expected
<1>6. ~Resamples => Expected = Cut
  BY <1>2, <1>3, DivCeilOfMultiple DEF Expected, Resamples
<1> QED
  BY <1>2, <1>5, <1>6

---------------------------------------------------------------------------
(* Returning keeps everything but the result.                              *)

dataVars == <<recording, analysis, envelope, resampling, output>>

(* A call that returns without text keeps the invariant.                   *)
LEMMA ReturnKeeps ==
  ASSUME RecInv, NEW result \in Results \ {"Transcribed"}, Return(result), UNCHANGED dataVars
  PROVE  RecInv'
<1>1. RecTypes'
  BY DEF RecInv, RecTypes, RunType, PcSteps, Return, dataVars
<1>2. run'.pc = "done" /\ run'.result # "Transcribed"
  BY DEF Return
<1> QED
  BY <1>1, <1>2
  DEF RecInv, dataVars, At, Transcribed, ResultAtEnd, RecordingMade, EnvelopeOrdered,
      SpeechKept, FedInOrder, OutputWhole, OutputProduced, FedBounded, Resamples

(* Every recording starts with nothing fed and nothing found.              *)
LEMMA FinalizedKeeps == ASSUME RecInv, Finalized PROVE RecInv'
<1> USE DEF Finalized
<1>1. recording' \in RecordingType
  BY DEF Recordings, RecordingType
<1>2. analysis' \in AnalysisType
  BY DEF AnalysisType
<1>3. envelope' \in Frames \X Frames
  BY RecognitionAssumption DEF Frames
<1>4. resampling' \in ResamplingType
  BY DEF ResamplingType
<1>5. run' \in RunType /\ run'.pc = "detect" /\ run'.result = "None"
  BY DEF RunType, PcSteps, Results
<1>6. output' \in Nat \X Nat
  OBVIOUS
<1>7. RecTypes'
  BY <1>1, <1>2, <1>3, <1>4, <1>5, <1>6 DEF RecInv, RecTypes
<1>8. FedBounded'
  BY RecognitionAssumption DEF FedBounded
<1> QED
  BY <1>5, <1>7, <1>8
  DEF RecInv, At, Transcribed, ResultAtEnd, RecordingMade, EnvelopeOrdered,
      SpeechKept, FedInOrder, OutputWhole, OutputProduced, Recordings

LEMMA ModelForRateKeeps == ASSUME RecInv, ModelForRate PROVE RecInv'
<1>1. UNCHANGED dataVars /\ At("detect")
  BY DEF ModelForRate, dataVars
<1>2. CASE Return("SpeechDetection")
  BY <1>1, <1>2, ReturnKeeps DEF Results
<1>3. CASE Goto("analyze")
  <2>1. run' \in RunType /\ run'.pc = "analyze" /\ run'.result = run.result
    BY <1>3 DEF Goto, RecInv, RecTypes, RunType, PcSteps
  <2>2. RecTypes'
    BY <1>1, <2>1 DEF RecInv, RecTypes, dataVars
  <2> QED
    BY <1>1, <2>1, <2>2
    DEF RecInv, At, dataVars, Transcribed, ResultAtEnd, RecordingMade, EnvelopeOrdered,
        SpeechKept, FedInOrder, OutputWhole, OutputProduced, FedBounded, Resamples
<1> QED
  BY <1>2, <1>3 DEF ModelForRate

(* The ranges found have the shape the network gives them.                 *)
LEMMA DetectionsTyped ==
  ASSUME RecTypes, NEW ranges \in Detections
  PROVE  /\ ranges \in Seq(Frames \X Frames)
         /\ ranges # <<>> =>
              /\ SpeechEnvelope(ranges) \in Frames \X Frames
              /\ SpeechEnvelope(ranges)[1] < SpeechEnvelope(ranges)[2]
              /\ \A i \in DOMAIN ranges : /\ SpeechEnvelope(ranges)[1] <= ranges[i][1]
                                          /\ ranges[i][2] <= SpeechEnvelope(ranges)[2]
              /\ ValidRanges(ranges) => SpeechEnvelope(ranges)[2] <= recording.frames
<1> DEFINE R == Ranges(recording.frames + 1)
<1>1. recording.frames \in 1 .. MaxFrames
  BY DEF RecTypes, RecordingType
<1>2. \A r \in R : r \in Frames \X Frames /\ r[1] < r[2]
  BY <1>1, RecognitionAssumption DEF Ranges, Frames
<1>3. \A r \in Frames \X Frames : r[1] \in Nat /\ r[2] \in Nat
  BY RecognitionAssumption DEF Frames
<1> HIDE DEF R
<1>4. CASE ranges = <<>>
  BY <1>4
<1>5. CASE \E r \in R : ranges = <<r>>
  <2>1. PICK r \in R : ranges = <<r>>
    BY <1>5
  <2>2. ranges \in Seq(Frames \X Frames) /\ Len(ranges) = 1 /\ DOMAIN ranges = {1}
    BY <1>2, <2>1
  <2>3. SpeechEnvelope(ranges) = <<r[1], r[2]>>
    BY <2>1, <2>2 DEF SpeechEnvelope
  <2> QED
    BY <1>2, <1>3, <2>1, <2>2, <2>3 DEF ValidRanges
<1>6. CASE \E p \in R \X R : ranges = p /\ p[1][2] < p[2][1]
  <2>1. PICK r \in R, s \in R : ranges = <<r, s>> /\ r[2] < s[1]
    BY <1>6
  <2>2. ranges \in Seq(Frames \X Frames) /\ Len(ranges) = 2 /\ DOMAIN ranges = {1, 2}
    BY <1>2, <2>1
  <2>3. SpeechEnvelope(ranges) = <<r[1], s[2]>>
    BY <2>1, <2>2 DEF SpeechEnvelope
  <2>4. /\ r[1] \in Nat /\ r[2] \in Nat /\ s[1] \in Nat /\ s[2] \in Nat
        /\ r[1] < r[2] /\ s[1] < s[2]
    BY <1>2, <1>3
  <2>5. r[1] <= s[1] /\ r[2] <= s[2] /\ r[1] < s[2]
    BY <2>1, <2>4
  <2>6. SpeechEnvelope(ranges) \in Frames \X Frames
    BY <1>2, <2>3
  <2>7. ValidRanges(ranges) => s[2] <= recording.frames
    BY <2>1, <2>2 DEF ValidRanges
  <2> QED
    BY <2>1, <2>2, <2>3, <2>4, <2>5, <2>6, <2>7
<1> QED
  BY <1>4, <1>5, <1>6 DEF Detections, R

(* What is judged is the recording, and the envelope holds its speech.     *)
LEMMA AnalyzeMonoKeeps == ASSUME RecInv, AnalyzeMono PROVE RecInv'
<1>1. CASE Return("SpeechDetection") /\ UNCHANGED <<analysis, envelope>>
  BY <1>1, ReturnKeeps DEF Results, AnalyzeMono, dataVars
<1>2. CASE ~(Return("SpeechDetection") /\ UNCHANGED <<analysis, envelope>>)
  <2>1. PICK ranges \in Detections :
          /\ analysis' = ranges
          /\ envelope' = IF ranges = <<>> THEN envelope ELSE SpeechEnvelope(ranges)
          /\ IF ~ValidRanges(ranges) THEN Return("SpeechDetection")
             ELSE IF ranges = <<>> THEN Return("NoSpeech")
             ELSE Goto("slice")
    BY <1>2 DEF AnalyzeMono
  <2>2. UNCHANGED <<recording, resampling, output>> /\ At("analyze")
    BY DEF AnalyzeMono
  <2>3. RecTypes /\ recording.rate \in Rates
    BY <2>2 DEF RecInv, RecordingMade, At
  <2>4. analysis' \in AnalysisType
    BY <2>1, <2>3, DetectionsTyped DEF AnalysisType
  <2>5. envelope' \in Frames \X Frames /\ EnvelopeOrdered'
    <3>1. CASE ranges = <<>>
      BY <2>1, <3>1 DEF RecInv, RecTypes, EnvelopeOrdered
    <3>2. CASE ranges # <<>>
      <4>1. envelope' \in Frames \X Frames /\ envelope'[1] < envelope'[2]
        BY <2>1, <2>3, <3>2, DetectionsTyped
      <4> QED
        BY <4>1, RecognitionAssumption DEF EnvelopeOrdered, Frames
    <3> QED
      BY <3>1, <3>2
  <2>6. /\ run' \in RunType
        /\ \/ run'.pc = "done" /\ run'.result \in {"SpeechDetection", "NoSpeech"}
           \/ /\ run'.pc = "slice" /\ run'.result = run.result
              /\ ValidRanges(ranges) /\ ranges # <<>>
    BY <2>1 DEF Return, Goto, RecInv, RecTypes, RunType, PcSteps, Results
  <2>7. RecTypes'
    BY <2>2, <2>4, <2>5, <2>6 DEF RecInv, RecTypes
  <2>8. SpeechKept'
    <3>1. CASE run'.pc = "done"
      BY <3>1 DEF SpeechKept, At
    <3>2. CASE ValidRanges(ranges) /\ ranges # <<>>
      BY <2>1, <2>2, <2>3, <3>2, DetectionsTyped DEF SpeechKept
    <3> QED
      BY <2>6, <3>1, <3>2
  <2>9. resampling.fed = 0 /\ output = <<0, 0>> /\ run.result = "None"
    BY <2>2 DEF RecInv, FedInOrder, ResultAtEnd, At
  <2>10. ResultAtEnd' /\ RecordingMade' /\ FedBounded'
    BY <2>2, <2>3, <2>6, <2>9 DEF ResultAtEnd, RecordingMade, FedBounded, RecInv, At
  <2>11. FedInOrder' /\ OutputWhole' /\ OutputProduced'
    BY <2>2, <2>6, <2>9
    DEF FedInOrder, OutputWhole, OutputProduced, Transcribed, RecInv, At, Resamples
  <2> QED
    BY <2>5, <2>7, <2>8, <2>10, <2>11 DEF RecInv
<1> QED
  BY <1>1, <1>2

(* A step of the resampling works on the recording, the ranges and the     *)
(* envelope as they were found.                                            *)
LEMMA ResamplingKeeps ==
  ASSUME RecInv, UNCHANGED <<recording, analysis, envelope>>,
         At("slice") \/ At("feed") \/ At("flush"),
         run' \in RunType, run'.result = "None",
         run'.pc \in {"feed", "flush", "validate"},
         resampling' \in ResamplingType, output' \in Nat \X Nat,
         FedInOrder', OutputWhole', OutputProduced', FedBounded'
  PROVE  RecInv'
<1>1. RecTypes'
  BY DEF RecInv, RecTypes
<1> QED
  BY <1>1
  DEF RecInv, At, ResultAtEnd, RecordingMade, EnvelopeOrdered, SpeechKept

(* The cut begins to be fed, or is what the engine gets as it is.          *)
LEMMA SliceKeeps == ASSUME RecInv, Slice PROVE RecInv'
<1>1. /\ UNCHANGED <<recording, analysis, envelope>> /\ At("slice")
      /\ resampling.fed = 0 /\ output = <<0, 0>> /\ run.result = "None"
  BY DEF Slice, RecInv, FedInOrder, ResultAtEnd, At
<1>2. Cut \in Nat /\ Cut' = Cut /\ Resamples' = Resamples
  BY <1>1, ExpectedLength DEF RecInv, Cut, Resamples
<1>3. envelope[2] <= recording.frames
  BY <1>1 DEF RecInv, SpeechKept
<1>4. envelope[2] \in Nat /\ recording.frames \in Nat
  BY RecognitionAssumption DEF RecInv, RecTypes, Frames, RecordingType
<1>5. CASE Resamples
  <2>1. Goto("feed") /\ UNCHANGED output
    BY <1>3, <1>4, <1>5 DEF Slice
  <2>2. \E drains \in BOOLEAN : resampling' = [resampling EXCEPT !.drains = drains]
    BY <1>3, <1>4, <1>5 DEF Slice
  <2>3. /\ resampling' \in ResamplingType /\ resampling'.fed = 0
        /\ resampling'.produced = resampling.produced /\ resampling.produced \in Nat
    BY <1>1, <2>2 DEF RecInv, RecTypes, ResamplingType
  <2>4. run' \in RunType /\ run'.pc = "feed" /\ run'.result = "None"
    BY <1>1, <2>1 DEF Goto, RecInv, RecTypes, RunType, PcSteps
  <2>5. FedInOrder' /\ OutputWhole' /\ OutputProduced' /\ FedBounded'
    BY <1>1, <1>2, <1>5, <2>1, <2>3, <2>4, RecognitionAssumption
    DEF FedInOrder, OutputWhole, OutputProduced, FedBounded, Transcribed, At
  <2> QED
    BY <1>1, <2>1, <2>3, <2>4, <2>5, ResamplingKeeps DEF RecInv, RecTypes
<1>6. CASE ~Resamples
  <2>1. Goto("validate") /\ output' = <<0, Cut>> /\ UNCHANGED resampling
    BY <1>3, <1>4, <1>6 DEF Slice
  <2>2. run' \in RunType /\ run'.pc = "validate" /\ run'.result = "None"
    BY <1>1, <2>1 DEF Goto, RecInv, RecTypes, RunType, PcSteps
  <2>3. FedInOrder' /\ FedBounded'
    BY <2>1, <2>2 DEF FedInOrder, FedBounded, RecInv, At
  <2>4. OutputWhole' /\ OutputProduced'
    BY <1>2, <1>6, <2>1 DEF OutputWhole, WholeOutput, OutputProduced
  <2>5. output' \in Nat \X Nat /\ resampling' \in ResamplingType
    BY <1>2, <2>1 DEF RecInv, RecTypes
  <2> QED
    BY <1>1, <2>2, <2>3, <2>4, <2>5, ResamplingKeeps
<1> QED
  BY <1>5, <1>6

(* Blocks, the rest and the silence: nothing but what is fed and produced  *)
(* changes, and no more than the cut is fed.                               *)
Feeds(fed, flushes, produced) ==
  /\ At("feed") \/ At("flush")
  /\ Processed(fed, flushes, produced) \/ (UNCHANGED resampling /\ fed = resampling.fed)
  /\ UNCHANGED <<recording, analysis, envelope, output>>
  /\ \/ At("feed") /\ fed <= Cut /\ UNCHANGED run
     \/ At("feed") /\ fed = Cut /\ Goto("flush")
     \/ At("flush") /\ fed = Cut /\ UNCHANGED run

LEMMA FeedingKeeps ==
  ASSUME RecInv, NEW fed \in Nat, NEW flushes \in Nat, NEW produced \in Nat,
         Feeds(fed, flushes, produced)
  PROVE  RecInv'
<1> USE DEF Feeds
<1>1. Resamples /\ output = <<0, 0>> /\ run.result = "None" /\ output' = output
  BY DEF RecInv, FedInOrder, ResultAtEnd, At
<1>2. Cut \in Nat /\ Cut' = Cut /\ Resamples' = Resamples
  BY ExpectedLength DEF RecInv, Cut, Resamples
<1>3. resampling' \in ResamplingType /\ resampling'.fed = fed /\ resampling'.produced \in Nat
  BY DEF Processed, RecInv, RecTypes, ResamplingType
<1>4. /\ run' \in RunType /\ run'.result = "None"
      /\ (run'.pc = "feed" /\ fed <= Cut) \/ (run'.pc = "flush" /\ fed = Cut)
  <2>1. CASE UNCHANGED run
    BY <1>1, <2>1 DEF RecInv, RecTypes, At
  <2>2. CASE Goto("flush")
    BY <1>1, <2>2 DEF Goto, RecInv, RecTypes, RunType, PcSteps, At
  <2> QED
    BY <2>1, <2>2
<1>5. Cut <= MaxFrames
  <2>1. envelope[1] \in Nat /\ envelope[2] \in Nat /\ recording.frames \in 1 .. MaxFrames
    BY RecognitionAssumption DEF RecInv, RecTypes, Frames, RecordingType
  <2>2. envelope[2] <= recording.frames
    BY DEF RecInv, SpeechKept
  <2> QED
    BY <2>1, <2>2, RecognitionAssumption DEF Cut
<1>6. FedInOrder'
  BY <1>1, <1>2, <1>3, <1>4 DEF FedInOrder, At
<1>7. OutputWhole'
  BY <1>4 DEF OutputWhole, Transcribed, At
<1>8. OutputProduced'
  BY <1>1, <1>3 DEF OutputProduced
<1>9. FedBounded'
  BY <1>2, <1>3, <1>5, RecognitionAssumption DEF FedBounded
<1> QED
  BY <1>1, <1>3, <1>4, <1>6, <1>7, <1>8, <1>9, ResamplingKeeps DEF RecInv, RecTypes

(* What the resampler can have produced is a number of frames.             *)
LEMMA ProductionsNat == ASSUME NEW fed, NEW n \in Productions(fed) PROVE n \in Nat
BY DEF Productions

LEMMA FeedBlockKeeps == ASSUME RecInv, FeedBlock PROVE RecInv'
<1>1. PICK produced \in Productions(resampling.fed + Block) :
        Processed(resampling.fed + Block, 0, produced)
  BY DEF FeedBlock
<1>2. Cut \in Nat /\ resampling.fed \in Nat /\ Block \in Nat
  BY ExpectedLength, RecognitionAssumption DEF RecInv, RecTypes, ResamplingType
<1>3. resampling.fed + Block <= Cut
  BY <1>2 DEF FeedBlock
<1>4. Feeds(resampling.fed + Block, 0, produced)
  BY <1>1, <1>3 DEF Feeds, FeedBlock
<1> QED
  BY <1>2, <1>4, ProductionsNat, FeedingKeeps

LEMMA FeedRestKeeps == ASSUME RecInv, FeedRest PROVE RecInv'
<1>1. Cut \in Nat /\ resampling.fed \in Nat /\ resampling.produced \in Nat
  BY ExpectedLength DEF RecInv, RecTypes, ResamplingType
<1>2. /\ At("feed") /\ Goto("flush")
      /\ UNCHANGED <<recording, analysis, envelope, output>>
  BY <1>1 DEF FeedRest
<1>3. CASE Cut = resampling.fed
  <2>1. Feeds(Cut, 0, 0)
    BY <1>2, <1>3 DEF FeedRest, Feeds
  <2> QED
    BY <1>1, <2>1, FeedingKeeps
<1>4. CASE Cut # resampling.fed
  <2>1. PICK produced \in Productions(Padded(0)) : Processed(Cut, 0, produced)
    BY <1>4 DEF FeedRest
  <2>2. Feeds(Cut, 0, produced)
    BY <1>2, <2>1 DEF Feeds
  <2> QED
    BY <1>1, <2>2, ProductionsNat, FeedingKeeps
<1> QED
  BY <1>3, <1>4

LEMMA FlushKeeps == ASSUME RecInv, Flush PROVE RecInv'
<1>1. /\ Cut \in Nat /\ resampling.fed \in Nat /\ resampling.produced \in Nat
      /\ resampling.flushes + 1 \in Nat /\ resampling.fed = Cut
  BY ExpectedLength DEF RecInv, RecTypes, ResamplingType, FedInOrder, Flush
<1>2. PICK produced \in Drained :
        IF produced = resampling.produced
        THEN Return("Processing") /\ UNCHANGED resampling
        ELSE /\ Processed(resampling.fed, resampling.flushes + 1, produced)
             /\ UNCHANGED run
  BY DEF Flush
<1>3. CASE produced = resampling.produced
  BY <1>2, <1>3, ReturnKeeps DEF Flush, Results, dataVars
<1>4. CASE produced # resampling.produced
  <2>1. produced \in Nat
    BY <1>2, <1>4, ProductionsNat DEF Drained
  <2>2. Feeds(resampling.fed, resampling.flushes + 1, produced)
    BY <1>1, <1>2, <1>4 DEF Feeds, Flush
  <2> QED
    BY <1>1, <2>1, <2>2, FeedingKeeps
<1> QED
  BY <1>3, <1>4

(* The delay is cut off what was produced, and the rest has its length.    *)
LEMMA TrimKeeps == ASSUME RecInv, Trim PROVE RecInv'
<1>1. /\ UNCHANGED <<recording, analysis, envelope, resampling>>
      /\ At("flush") /\ resampling.produced >= Required
  BY DEF Trim
<1>2. Cut \in Nat /\ Expected \in Nat /\ Delay \in Nat /\ resampling.produced \in Nat
  BY ExpectedLength, RecognitionAssumption DEF RecInv, RecTypes, ResamplingType
<1>3. Cut' = Cut /\ Expected' = Expected /\ Resamples' = Resamples
  BY <1>1 DEF Cut, Expected, Resamples
<1>4. Goto("validate") /\ output' = <<Delay, Delay + Expected>>
  BY <1>1, <1>2 DEF Trim, Required
<1>5. Resamples /\ resampling.fed = Cut /\ run.result = "None"
  BY <1>1 DEF RecInv, FedInOrder, ResultAtEnd, At
<1>6. run' \in RunType /\ run'.pc = "validate" /\ run'.result = "None"
  BY <1>4, <1>5 DEF Goto, RecInv, RecTypes, RunType, PcSteps
<1>7. output' \in Nat \X Nat /\ output'[1] <= output'[2] /\ output'[2] <= resampling'.produced
  BY <1>1, <1>2, <1>4 DEF Required
<1>8. OutputWhole'
  BY <1>1, <1>3, <1>4, <1>5, <1>7 DEF OutputWhole, WholeOutput
<1>9. FedInOrder' /\ OutputProduced' /\ FedBounded'
  BY <1>1, <1>6, <1>7 DEF FedInOrder, OutputProduced, FedBounded, RecInv, At
<1> QED
  BY <1>1, <1>6, <1>7, <1>8, <1>9, ResamplingKeeps DEF RecInv, RecTypes

(* What is validated and recognized is the whole output.                   *)
LEMMA ValidateKeeps == ASSUME RecInv, Validate PROVE RecInv'
<1>1. UNCHANGED dataVars /\ At("validate")
  BY DEF Validate, dataVars
<1>2. CASE Return("InvalidAsrAudio")
  BY <1>1, <1>2, ReturnKeeps DEF Results
<1>3. CASE Goto("transcribe")
  <2>1. run' \in RunType /\ run'.pc = "transcribe" /\ run'.result = run.result
    BY <1>3 DEF Goto, RecInv, RecTypes, RunType, PcSteps
  <2>2. RecTypes'
    BY <1>1, <2>1 DEF RecInv, RecTypes, dataVars
  <2>3. WholeOutput'
    BY <1>1 DEF RecInv, OutputWhole, WholeOutput, Resamples, Cut, Expected, dataVars
  <2> QED
    BY <1>1, <2>1, <2>2, <2>3
    DEF RecInv, At, dataVars, ResultAtEnd, RecordingMade, EnvelopeOrdered,
        SpeechKept, FedInOrder, OutputWhole, OutputProduced, FedBounded, Resamples
<1> QED
  BY <1>2, <1>3 DEF Validate

LEMMA TranscribeKeeps == ASSUME RecInv, Transcribe PROVE RecInv'
<1>1. UNCHANGED dataVars /\ At("transcribe")
  BY DEF Transcribe, dataVars
<1>2. CASE \E result \in Results \ {"Transcribed"} : Return(result)
  BY <1>1, <1>2, ReturnKeeps
<1>3. CASE Return("Transcribed")
  <2>1. run' \in RunType /\ run'.pc = "done" /\ run'.result = "Transcribed"
    BY <1>3 DEF Return, RunType, PcSteps, Results
  <2>2. RecTypes'
    BY <1>1, <2>1 DEF RecInv, RecTypes, dataVars
  <2>3. WholeOutput'
    BY <1>1 DEF RecInv, OutputWhole, WholeOutput, Resamples, Cut, Expected, dataVars
  <2> QED
    BY <1>1, <2>1, <2>2, <2>3
    DEF RecInv, At, dataVars, ResultAtEnd, RecordingMade, EnvelopeOrdered,
        SpeechKept, FedInOrder, OutputWhole, OutputProduced, FedBounded, Resamples
<1> QED
  BY <1>2, <1>3 DEF Transcribe, Results, NativeErrorKinds, RecognitionErrorKind

---------------------------------------------------------------------------

LEMMA RecInitHolds == RecInit => RecInv
<1> SUFFICES ASSUME RecInit PROVE RecInv
  OBVIOUS
<1> USE RecognitionAssumption DEF RecInit
<1>1. recording \in RecordingType
  BY DEF RecordingType, Peaks
<1>2. analysis \in AnalysisType
  BY DEF AnalysisType
<1>3. envelope \in Frames \X Frames
  BY DEF Frames
<1>4. resampling \in ResamplingType /\ output \in Nat \X Nat
  BY DEF ResamplingType
<1>5. run \in RunType
  BY DEF RunType, PcSteps, Results
<1>6. RecTypes
  BY <1>1, <1>2, <1>3, <1>4, <1>5 DEF RecTypes
<1> QED
  BY <1>6
  DEF RecInv, At, Transcribed, ResultAtEnd, RecordingMade, EnvelopeOrdered,
      SpeechKept, FedInOrder, OutputWhole, OutputProduced, FedBounded

LEMMA RecNextKeeps == RecInv /\ [RecNext]_recVars => RecInv'
<1> SUFFICES ASSUME RecInv, [RecNext]_recVars PROVE RecInv'
  OBVIOUS
<1>1. CASE Finalized
  BY <1>1, FinalizedKeeps
<1>2. CASE Work
  BY <1>2, ModelForRateKeeps, AnalyzeMonoKeeps, SliceKeeps, FeedBlockKeeps, FeedRestKeeps,
     FlushKeeps, TrimKeeps, ValidateKeeps, TranscribeKeeps DEF Work, Resample
<1>3. CASE ResamplerFails
  BY <1>3, ReturnKeeps DEF ResamplerFails, Results, dataVars
<1>4. CASE UNCHANGED recVars
  BY <1>4
  DEF recVars, RecInv, RecTypes, At, Transcribed, ResultAtEnd, RecordingMade,
      EnvelopeOrdered, SpeechKept, FedInOrder, OutputWhole, WholeOutput, OutputProduced,
      FedBounded, Resamples, Cut, Expected
<1> QED
  BY <1>1, <1>2, <1>3, <1>4 DEF RecNext

LEMMA RecInvHolds == RecSpec => []RecInv
BY RecInitHolds, RecNextKeeps, PTL DEF RecSpec

(* Every part of a recognition keeps its type, whatever the rates, the     *)
(* block and the delay are.                                                *)
THEOREM RecognitionTypeCorrect == RecSpec => []RecTypeOK
<1>1. RecInv => RecTypeOK
  <2> SUFFICES ASSUME RecInv PROVE RecTypeOK
    OBVIOUS
  <2>1. resampling \in [fed: 0 .. MaxFrames, produced: Nat, flushes: Nat, drains: BOOLEAN]
    BY RecognitionAssumption DEF RecInv, RecTypes, ResamplingType, FedBounded
  <2> QED
    BY <2>1 DEF RecInv, RecTypes, RecTypeOK, OutputProduced, Frames, RunType
<1> QED
  BY <1>1, RecInvHolds, PTL

(* Text comes only from the whole cut, the short rest and the delayed end  *)
(* included, and the engine's audio has exactly the length of the speech.  *)
THEOREM TextFromWholeSpeech == RecSpec => []WholeSpeechRecognized
<1>1. RecInv => WholeSpeechRecognized
  <2> SUFFICES ASSUME RecInv, Transcribed PROVE WholeSpeechRecognized
    BY DEF WholeSpeechRecognized, Transcribed
  <2>1. WholeOutput
    BY DEF RecInv, OutputWhole
  <2>2. Cut \in Nat /\ Expected \in Nat /\ Delay \in Nat /\ (~Resamples => Expected = Cut)
    BY ExpectedLength, RecognitionAssumption DEF RecInv
  <2>3. output[2] - output[1] = Expected
    <3>1. CASE Resamples
      BY <2>1, <2>2, <3>1 DEF WholeOutput
    <3>2. CASE ~Resamples
      BY <2>1, <2>2, <3>2 DEF WholeOutput
    <3> QED
      BY <3>1, <3>2
  <2> QED
    BY <2>1, <2>3 DEF WholeSpeechRecognized, WholeOutput
<1> QED
  BY <1>1, RecInvHolds, PTL

(* No speech that was detected is cut off before the engine.               *)
THEOREM SpeechStaysInside == RecSpec => []OnlySilenceCut
<1>1. RecInv => OnlySilenceCut
  BY DEF RecInv, SpeechKept, OnlySilenceCut
<1> QED
  BY <1>1, RecInvHolds, PTL
=============================================================================
