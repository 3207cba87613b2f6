------------------------------ MODULE AudioCapture ------------------------------
(***************************************************************************)
(* The way of the audio from the microphone to a finalized recording:      *)
(* discovery and opening of the input, the realtime callback that fills a  *)
(* bounded ring, and the RecordingCollector that drains it, from another   *)
(* thread, into one bounded utterance (blcvoice-audio-cpal, blcvoice-audio,*)
(* UtteranceBuffer of blcvoice-audio-processing, blcvoice-dictation).      *)
(* A sample is the pair of its frame number and its channel; the value a   *)
(* sample has is left out.                                                 *)
(***************************************************************************)
EXTENDS Integers, Sequences, FiniteSets

CONSTANTS
  Channels,         \* channels of the device
  RateHz,           \* frames per second of the device
  CapacityMs,       \* length of the ring
  MaxDurationMs,    \* length of the longest utterance
  ScratchFrames,    \* frames the collector reads at once
  BufferSizes,      \* samples the backend may pass to one callback
  MaxHeard,         \* bound: frames delivered in one recording
  MaxErrors,        \* bound: errors the backend reports in one recording
  Hosts             \* the audio hosts of the platform, as cpal lists them

ASSUME CaptureAssumption ==
  /\ Channels \in Nat \ {0}
  /\ RateHz \in Nat \ {0}
  /\ CapacityMs \in 1 .. 5000
  /\ MaxDurationMs \in Nat \ {0}
  /\ ScratchFrames \in Nat \ {0}
  /\ BufferSizes \subseteq Nat
  /\ MaxHeard \in Nat
  /\ MaxErrors \in Nat
  /\ Hosts \in Seq({"PipeWire", "PulseAudio", "Wasapi", "CoreAudio", "AAudio", "Alsa",
                    "Jack", "Asio", "Other"})

VARIABLES
  discovery,        \* hosts not asked yet, the backend found, failures met on the way
  stream,           \* the cpal stream: closed, playing or paused
  heard,            \* frames the microphone has delivered
  ring,             \* the samples committed and not read yet
  callback,         \* the realtime callback: its step and the samples it holds
  metrics,          \* CaptureMetrics
  utterance,        \* the samples the collector has kept
  collector,        \* the collector's step, whether it finalizes and the end it came to
  returned          \* history: samples of callbacks that had returned at the pause

deviceVars == <<heard, ring, callback, metrics>>
workerVars == <<utterance, collector, returned>>
captureVars == <<discovery, stream, heard, ring, callback, metrics, utterance, collector,
                 returned>>

---------------------------------------------------------------------------
(* Sizes.                                                                  *)

DivCeil(a, b) == (a + b - 1) \div b

(* CaptureBufferConfig::capacity_samples.                                  *)
RingSamples == DivCeil(RateHz * CapacityMs, 1000) * Channels

(* UtteranceBuffer::with_max_duration_ms.                                  *)
MaxFrames == DivCeil(RateHz * MaxDurationMs, 1000)

FrameAligned(samples) == samples - (samples % Channels)

Smaller(a, b) == IF a < b THEN a ELSE b

(* n samples in the order the device delivers them from frame first on.    *)
Samples(first, n) == [i \in 1 .. n |-> <<first + ((i - 1) \div Channels), (i - 1) % Channels>>]

Frames == Len(utterance) \div Channels

---------------------------------------------------------------------------
(* Discovery.                                                              *)

Priority(host) ==
  CASE host \in {"PipeWire", "Wasapi", "CoreAudio", "AAudio"} -> 0
    [] host = "PulseAudio" -> 1
    [] host = "Alsa" -> 2
    [] host \in {"Jack", "Asio"} -> 3
    [] OTHER -> 10

(* The hosts are sorted by priority, those of one priority stay in order.  *)
NextHost(left) ==
  CHOOSE i \in left : \A j \in left :
    \/ Priority(Hosts[i]) < Priority(Hosts[j])
    \/ Priority(Hosts[i]) = Priority(Hosts[j]) /\ i <= j

(* Ask the next host.  It cannot be reached or listed, or it lists devices *)
(* of which some may be usable and some may be reported as failing.  The   *)
(* first host with a usable device is taken.                               *)
DiscoverHost(listed, usable, reported) ==
  /\ discovery.left # {}
  /\ discovery.backend = 0
  /\ LET i == NextHost(discovery.left)
         found == listed /\ usable
     IN discovery' = [left |-> discovery.left \ {i},
                      backend |-> IF found THEN i ELSE 0,
                      failures |-> discovery.failures \cup
                                     (IF ~found \/ reported THEN {i} ELSE {})]
  /\ UNCHANGED <<stream, deviceVars, workerVars>>

(* start_input_capture.  The device was named by an earlier discovery and  *)
(* may be gone: every step is tried again and the first that fails is told.*)
OpenSteps == {"parse", "host", "device", "config", "format", "capacity", "build", "play"}

(* RecordingCollector::new takes the playing stream and drops it when the  *)
(* stream's format, the scratch buffer or the limit cannot be had.         *)
CollectorSteps == {"read_size", "stream_format", "scratch", "limit"}

StartInputCapture ==
  /\ discovery.backend # 0
  /\ stream = "closed"
  /\ collector.pc = "idle"
  /\ \/ /\ \E failed \in OpenSteps \cup CollectorSteps :
             collector' = [collector EXCEPT !.pc = "done", !.end = failed]
        /\ UNCHANGED stream
     \/ /\ stream' = "playing"
        /\ UNCHANGED collector
  /\ UNCHANGED <<discovery, deviceVars, utterance, returned>>

---------------------------------------------------------------------------
(* The realtime callback.                                                  *)

Quiet == [pc |-> "idle", samples |-> <<>>, writable |-> 0]

CountErrors(n) == metrics' = [metrics EXCEPT !.errors = @ + n]

(* ingest_typed up to the claim of the ring: a buffer of whole frames is   *)
(* cut to what fits, the rest of a frame is an error of the backend.       *)
Writable(n) == FrameAligned(Smaller(RingSamples - Len(ring), FrameAligned(n)))

IngestTyped(n) ==
  /\ stream = "playing"
  /\ callback = Quiet
  /\ heard + DivCeil(n, Channels) <= MaxHeard
  /\ heard' = heard + DivCeil(n, Channels)
  /\ callback' = [pc |-> IF Writable(n) = 0 THEN "received" ELSE "commit",
                  samples |-> Samples(heard, n),
                  writable |-> Writable(n)]
  /\ CountErrors(IF FrameAligned(n) = n THEN 0 ELSE 1)
  /\ UNCHANGED <<discovery, stream, ring, workerVars>>

(* The backend hands over data of another type than it said, or of a format*)
(* the code does not know: nothing is kept and an error is counted; in the *)
(* second case the samples are counted too, as dropped.                    *)
IngestUnusable(dropped) ==
  /\ stream = "playing"
  /\ callback = Quiet
  /\ metrics.errors < MaxErrors
  /\ heard + DivCeil(dropped, Channels) <= MaxHeard
  /\ heard' = heard + DivCeil(dropped, Channels)
  /\ metrics' = [received |-> metrics.received + dropped,
                 dropped |-> metrics.dropped + dropped,
                 errors |-> metrics.errors + 1]
  /\ UNCHANGED <<discovery, stream, ring, callback, workerVars>>

(* commit_all publishes the samples before they are counted.               *)
Commit ==
  /\ callback.pc = "commit"
  /\ ring' = ring \o SubSeq(callback.samples, 1, callback.writable)
  /\ callback' = [callback EXCEPT !.pc = "received"]
  /\ UNCHANGED <<discovery, stream, heard, metrics, workerVars>>

RecordReceived ==
  /\ callback.pc = "received"
  /\ metrics' = [metrics EXCEPT !.received = @ + Len(callback.samples)]
  /\ callback' = [callback EXCEPT !.pc = "dropped"]
  /\ UNCHANGED <<discovery, stream, heard, ring, workerVars>>

(* Fault: a buffer that fits in part is counted as if it had fitted.       *)
RecordNoDrop ==
  /\ callback.pc = "dropped"
  /\ metrics' = [metrics EXCEPT !.dropped =
                   @ + IF callback.writable = 0 THEN Len(callback.samples) ELSE 0]
  /\ callback' = Quiet
  /\ UNCHANGED <<discovery, stream, heard, ring, workerVars>>

RecordDropped ==
  /\ callback.pc = "dropped"
  /\ metrics' = [metrics EXCEPT !.dropped = @ + (Len(callback.samples) - callback.writable)]
  /\ callback' = Quiet
  /\ UNCHANGED <<discovery, stream, heard, ring, workerVars>>

(* The error callback of the stream, from whatever thread the backend uses.*)
RecordError ==
  /\ stream # "closed"
  /\ metrics.errors < MaxErrors
  /\ CountErrors(1)
  /\ UNCHANGED <<discovery, stream, heard, ring, callback, workerVars>>

---------------------------------------------------------------------------
(* RecordingCollector.                                                     *)

CollectorAt(step) == collector.pc = step

CollectorGoes(step) == collector' = [collector EXCEPT !.pc = step]

(* The collector is consumed with its result and its stream is dropped.    *)
End(result) ==
  /\ collector' = [pc |-> "done", finalizing |-> collector.finalizing, end |-> result]
  /\ stream' = "closed"

Pump ==
  /\ stream = "playing"
  /\ CollectorAt("idle")
  /\ CollectorGoes("read")
  /\ UNCHANGED <<discovery, stream, deviceVars, utterance, returned>>

(* What the callbacks that have returned by now had received.              *)
CountedByNow ==
  metrics.received - IF callback.pc = "dropped" THEN Len(callback.samples) ELSE 0

(* finalize starts with a pause, which may fail.  Nothing here waits for a *)
(* callback that is running.                                               *)
Finalize ==
  /\ stream = "playing"
  /\ CollectorAt("idle")
  /\ \/ /\ stream' = "paused"
        /\ collector' = [collector EXCEPT !.pc = "read", !.finalizing = TRUE]
        /\ returned' = CountedByNow
     \/ /\ End("Capture")
        /\ UNCHANGED returned
  /\ UNCHANGED <<discovery, deviceVars, utterance>>

(* One turn of the loop of pump: read what fits the scratch buffer, until  *)
(* nothing is left.                                                        *)
Chunk == FrameAligned(Smaller(ScratchFrames * Channels, Len(ring)))

(* Fault: an utterance over its limit is cut instead of refused.           *)
PushTruncated(chunk) ==
  /\ utterance' = utterance \o SubSeq(chunk, 1, Smaller(Len(chunk),
                                        MaxFrames * Channels - Len(utterance)))
  /\ UNCHANGED <<stream, collector>>
PushInterleaved(chunk) ==
  IF Len(chunk) % Channels # 0
  THEN End("InvalidCaptureRead") /\ UNCHANGED utterance
  ELSE IF Frames + Len(chunk) \div Channels > MaxFrames
       THEN End("UtteranceTooLong") /\ UNCHANGED utterance
       ELSE utterance' = utterance \o chunk /\ UNCHANGED <<stream, collector>>

Read ==
  /\ CollectorAt("read")
  /\ IF Chunk = 0
     THEN /\ CollectorGoes(IF collector.finalizing THEN "check" ELSE "idle")
          /\ UNCHANGED <<stream, ring, utterance>>
     ELSE /\ ring' = SubSeq(ring, Chunk + 1, Len(ring))
          /\ PushInterleaved(SubSeq(ring, 1, Chunk))
  /\ UNCHANGED <<discovery, heard, callback, metrics, returned>>

(* Fault: the counters are not judged.                                     *)
CheckSkipped ==
  /\ CollectorAt("check")
  /\ End(IF utterance = <<>> THEN "EmptyUtterance" ELSE "Finalized")
  /\ UNCHANGED <<discovery, deviceVars, utterance, returned>>

CheckIntegrity ==
  /\ CollectorAt("check")
  /\ End(IF metrics.dropped > 0 \/ metrics.errors > 0 THEN "CaptureIntegrity"
         ELSE IF utterance = <<>> THEN "EmptyUtterance" ELSE "Finalized")
  /\ UNCHANGED <<discovery, deviceVars, utterance, returned>>

(* Another thread ends the session: the runtime drops the collector.       *)
Discard ==
  /\ stream = "playing"
  /\ CollectorAt("idle")
  /\ End("Discarded")
  /\ UNCHANGED <<discovery, deviceVars, utterance, returned>>

---------------------------------------------------------------------------
CaptureInit ==
  /\ discovery = [left |-> DOMAIN Hosts, backend |-> 0, failures |-> {}]
  /\ stream = "closed"
  /\ heard = 0
  /\ ring = <<>>
  /\ callback = Quiet
  /\ metrics = [received |-> 0, dropped |-> 0, errors |-> 0]
  /\ utterance = <<>>
  /\ collector = [pc |-> "idle", finalizing |-> FALSE, end |-> "none"]
  /\ returned = 0

Callback ==
  \/ \E n \in BufferSizes : IngestTyped(n)
  \/ \E dropped \in {0} \cup BufferSizes : IngestUnusable(dropped)
  \/ Commit
  \/ RecordReceived
  \/ RecordDropped

Collect == Pump \/ Finalize \/ Read \/ CheckIntegrity \/ Discard

CaptureNext ==
  \/ \E listed, usable, reported \in BOOLEAN : DiscoverHost(listed, usable, reported)
  \/ StartInputCapture
  \/ Callback
  \/ RecordError
  \/ Collect

CaptureSpec == CaptureInit /\ [][CaptureNext]_captureVars

---------------------------------------------------------------------------
Ends == OpenSteps \cup CollectorSteps \cup
        {"none", "Capture", "InvalidCaptureRead", "UtteranceTooLong", "CaptureIntegrity",
         "EmptyUtterance", "Finalized", "Discarded"}

Sample == (0 .. MaxHeard) \X (0 .. Channels - 1)

(* Every part of the capture has its type, and the ring, that a frame      *)
(* boundary never leaves, never holds more than its capacity.              *)
CaptureTypeOK ==
  /\ discovery \in [left: SUBSET DOMAIN Hosts, backend: 0 .. Len(Hosts),
                     failures: SUBSET DOMAIN Hosts]
  /\ stream \in {"closed", "playing", "paused"}
  /\ heard \in 0 .. MaxHeard
  /\ ring \in Seq(Sample) /\ Len(ring) <= RingSamples /\ Len(ring) % Channels = 0
  /\ callback.pc \in {"idle", "commit", "received", "dropped"}
  /\ callback.samples \in Seq(Sample)
  /\ metrics \in [received: Nat, dropped: Nat, errors: Nat]
  /\ utterance \in Seq(Sample)
  /\ collector \in [pc: {"idle", "read", "check", "done"}, finalizing: BOOLEAN, end: Ends]

(* A recording that passes finalize is what the microphone delivered from  *)
(* its start on, frame by frame and without a gap, however callback, error *)
(* callback, pump and finalize interleave: samples are committed before    *)
(* they are counted, and read before the counters are judged.              *)
FinalizedGapFree ==
  collector.end = "Finalized" => utterance = Samples(0, Len(utterance))

(* It is complete too: nothing is missing of a callback that had been      *)
(* counted when the stream was paused.                                     *)
NothingReturnedIsLost ==
  collector.end = "Finalized" => Len(utterance) >= returned

(* Between two callbacks the counters account for every sample: received   *)
(* and not dropped is in the ring or in the utterance, in whole frames.    *)
LossIsCounted ==
  callback = Quiet /\ collector.end \in {"none", "Finalized"} =>
    /\ metrics.received = metrics.dropped + Len(ring) + Len(utterance)
    /\ Len(ring) % Channels = 0 /\ Len(utterance) % Channels = 0
=============================================================================
