------------------------- MODULE AudioCaptureProofs -------------------------
(***************************************************************************)
(* Theorems about AudioCapture for any device, ring, limit, sizes of       *)
(* buffers and number of errors.                                           *)
(***************************************************************************)
EXTENDS AudioCapture, SequenceTheorems, TLAPS

---------------------------------------------------------------------------
(* The inductive invariant.                                                *)

AnySample == Nat \X Nat

CallbackType ==
  [pc : {"idle", "commit", "received", "dropped"}, samples : Seq(AnySample), writable : Nat]

MetricsType == [received : Nat, dropped : Nat, errors : Nat]

CollectorType ==
  [pc : {"idle", "read", "check", "done"}, finalizing : BOOLEAN, end : Ends]

Types ==
  /\ heard \in Nat
  /\ ring \in Seq(AnySample)
  /\ callback \in CallbackType
  /\ metrics \in MetricsType
  /\ utterance \in Seq(AnySample)
  /\ collector \in CollectorType
  /\ returned \in Int

(* Only whole frames are read, written and kept.                           *)
WholeFrames ==
  /\ Len(ring) % Channels = 0
  /\ Len(utterance) % Channels = 0
  /\ callback.writable % Channels = 0

(* What was claimed is part of what was delivered and fits.                *)
ClaimFits ==
  /\ callback.pc = "idle" <=> callback = Quiet
  /\ callback.writable <= Len(callback.samples)
  /\ Len(ring) <= RingSamples
  /\ callback.pc = "commit" => Len(ring) + callback.writable <= RingSamples

EndIsDone == collector.end # "none" <=> collector.pc = "done"

Held == Len(ring) + Len(utterance)

(* The counters, at every step of the callback.                            *)
Counted ==
  collector.end \in {"none", "Finalized"} =>
    /\ callback.pc \in {"idle", "commit"} => metrics.received = metrics.dropped + Held
    /\ callback.pc = "received" =>
         metrics.received + callback.writable = metrics.dropped + Held
    /\ callback.pc = "dropped" =>
         metrics.received + callback.writable =
           metrics.dropped + Held + Len(callback.samples)

(* What had been counted at the pause is in ring and utterance until the   *)
(* ring is empty, and in the utterance then, or it was dropped.            *)
ReturnedIsHeld ==
  /\ collector.finalizing /\ collector.end = "none" => returned <= metrics.dropped + Held
  /\ collector.pc = "check" => returned <= metrics.dropped + Len(utterance)
  /\ collector.end = "Finalized" => returned <= Len(utterance)

Kept == utterance \o ring

(* As long as nothing was dropped or refused, what is kept is all the      *)
(* microphone has delivered but the buffer of the callback, which goes on  *)
(* where that ends.                                                        *)
InOrder ==
  collector.end = "none" /\ metrics.dropped = 0 /\ metrics.errors = 0 =>
    /\ Kept = Samples(0, Held)
    /\ callback.pc = "idle" => Channels * heard = Held
    /\ callback.pc = "commit" =>
         /\ Channels * heard = Held + Len(callback.samples)
         /\ callback.samples = Samples(Held \div Channels, Len(callback.samples))
    /\ callback.pc \in {"received", "dropped"} =>
         Channels * heard + callback.writable = Held + Len(callback.samples)

CaptureInv ==
  /\ Types
  /\ WholeFrames
  /\ ClaimFits
  /\ EndIsDone
  /\ Counted
  /\ ReturnedIsHeld
  /\ InOrder
  /\ FinalizedGapFree

---------------------------------------------------------------------------
(* Arithmetic of frames.                                                   *)

(* A device has at least one channel.                                      *)
LEMMA ChannelsPositive == Channels \in Nat /\ Channels > 0
BY CaptureAssumption

(* Division by the number of channels has its quotient and its remainder.  *)
LEMMA QuotientRemainder ==
  ASSUME NEW n \in Int
  PROVE  /\ n \div Channels \in Int /\ n % Channels \in 0 .. Channels - 1
         /\ n = Channels * (n \div Channels) + (n % Channels)
BY ChannelsPositive, SMTT(30)

(* They are the only ones.                                                 *)
LEMMA QuotientIsUnique ==
  ASSUME NEW q \in Int, NEW r \in 0 .. Channels - 1
  PROVE  (Channels * q + r) \div Channels = q /\ (Channels * q + r) % Channels = r
<1>1. (Channels * q + r) \div Channels = q
  BY ChannelsPositive, SMTT(30)
<1>2. (Channels * q + r) % Channels = r
  BY ChannelsPositive, SMTT(30)
<1> QED
  BY <1>1, <1>2

(* Whole frames shift the frame number and leave the channel.              *)
LEMMA FramesShift ==
  ASSUME NEW q \in Nat, NEW j \in Nat
  PROVE  /\ (Channels * q + j) \div Channels = q + (j \div Channels)
         /\ (Channels * q + j) % Channels = j % Channels
<1>1. PICK d \in Int, m \in 0 .. Channels - 1 :
        d = j \div Channels /\ m = j % Channels /\ j = Channels * d + m
  BY QuotientRemainder
<1>2. Channels * (q + d) = Channels * q + Channels * d
  BY ChannelsPositive, SMTT(30)
<1>3. Channels * q \in Int /\ Channels * d \in Int
  BY ChannelsPositive, SMTT(30)
<1>4. Channels * q + j = Channels * (q + d) + m
  BY <1>1, <1>2, <1>3, ChannelsPositive, SMTT(30)
<1>5. q + d \in Int
  OBVIOUS
<1> QED
  BY <1>1, <1>4, <1>5, QuotientIsUnique

(* Sums and differences of whole frames are whole frames.                  *)
LEMMA WholeFramesAdd ==
  ASSUME NEW a \in Int, NEW b \in Int, a % Channels = 0, b % Channels = 0
  PROVE  (a + b) % Channels = 0 /\ (a - b) % Channels = 0
<1>1. PICK d \in Int, e \in Int : a = Channels * d /\ b = Channels * e
  <2>1. \A c \in Int : c % Channels = 0 => \E d \in Int : c = Channels * d
    <3> SUFFICES ASSUME NEW c \in Int, c % Channels = 0
                 PROVE  \E d \in Int : c = Channels * d
      OBVIOUS
    <3>1. PICK d \in Int, m \in Int : m = c % Channels /\ c = Channels * d + m
      BY QuotientRemainder
    <3>2. c = Channels * d
      BY <3>1, ChannelsPositive, SMTT(30)
    <3> QED
      BY <3>2
  <2> QED
    BY <2>1
<1>2. /\ a + b = Channels * (d + e) + 0
      /\ a - b = Channels * (d - e) + 0
  BY <1>1, ChannelsPositive, SMTT(30)
<1>3. d + e \in Int /\ d - e \in Int /\ 0 \in 0 .. Channels - 1
  BY ChannelsPositive
<1> QED
  BY <1>2, <1>3, QuotientIsUnique

(* Cutting to whole frames.                                                *)
LEMMA AlignedFacts ==
  ASSUME NEW n \in Nat
  PROVE  /\ FrameAligned(n) \in Nat /\ FrameAligned(n) <= n
         /\ FrameAligned(n) % Channels = 0
         /\ n % Channels = 0 => FrameAligned(n) = n
<1>1. /\ n \div Channels \in Int /\ n % Channels \in 0 .. Channels - 1
      /\ n = Channels * (n \div Channels) + (n % Channels)
  BY QuotientRemainder
<1>2. n \div Channels >= 0
  BY ChannelsPositive, SMTT(30)
<1> DEFINE q == n \div Channels
           r == n % Channels
<1>3. Channels * q \in Nat
  BY <1>1, <1>2, ChannelsPositive, SMTT(30)
<1>4. FrameAligned(n) = Channels * q + 0
  BY <1>1, <1>3 DEF FrameAligned
<1>5. 0 \in 0 .. Channels - 1
  BY ChannelsPositive
<1>6. FrameAligned(n) % Channels = 0
  BY <1>1, <1>4, <1>5, QuotientIsUnique
<1> QED
  BY <1>1, <1>3, <1>4, <1>6 DEF FrameAligned

(* A buffer of whole frames has as many frames as are heard of it.         *)
LEMMA FramesOfBuffer ==
  ASSUME NEW n \in Nat
  PROVE  /\ DivCeil(n, Channels) \in Nat
         /\ FrameAligned(n) = n => Channels * DivCeil(n, Channels) = n
<1>1. PICK d \in Int, m \in 0 .. Channels - 1 :
        d = n \div Channels /\ m = n % Channels /\ n = Channels * d + m
  BY QuotientRemainder
<1>2. DivCeil(n, Channels) \in Nat
  BY ChannelsPositive, SMTT(30) DEF DivCeil
<1>3. ASSUME FrameAligned(n) = n
      PROVE  Channels * DivCeil(n, Channels) = n
  <2>1. m = 0
    BY <1>1, <1>3 DEF FrameAligned
  <2>2. n + Channels - 1 = Channels * d + (Channels - 1)
    BY <1>1, <2>1, ChannelsPositive, SMTT(30)
  <2>3. Channels - 1 \in 0 .. Channels - 1
    BY ChannelsPositive
  <2>4. DivCeil(n, Channels) = d
    BY <2>2, <2>3, QuotientIsUnique DEF DivCeil
  <2> QED
    BY <1>1, <2>1, <2>4, ChannelsPositive, SMTT(30)
<1> QED
  BY <1>2, <1>3

(* The capacity of the ring is a number.                                   *)
LEMMA RingSamplesNat == RingSamples \in Nat
<1> DEFINE x == RateHz * CapacityMs
<1>1. x \in Nat
  BY CaptureAssumption, SMTT(30)
<1> HIDE DEF x
<1>2. DivCeil(x, 1000) \in Nat
  BY <1>1, SMTT(30) DEF DivCeil
<1>3. DivCeil(x, 1000) * Channels \in Nat
  BY <1>2, ChannelsPositive, SMTT(30)
<1> QED
  BY <1>3 DEF x, RingSamples

(* The claim of a callback.                                                *)
LEMMA WritableFacts ==
  ASSUME NEW n \in Nat, Types, Len(ring) <= RingSamples
  PROVE  /\ Writable(n) \in Nat /\ Writable(n) <= n
         /\ Writable(n) % Channels = 0
         /\ Len(ring) + Writable(n) <= RingSamples
<1>1. Len(ring) \in Nat
  BY DEF Types
<1>2. RingSamples \in Nat
  BY RingSamplesNat
<1>3. FrameAligned(n) \in Nat /\ FrameAligned(n) <= n
  BY AlignedFacts
<1> DEFINE s == Smaller(RingSamples - Len(ring), FrameAligned(n))
<1>4. s \in Nat /\ s <= n /\ s <= RingSamples - Len(ring)
  BY <1>1, <1>2, <1>3 DEF Smaller
<1>5. Writable(n) = FrameAligned(s)
  BY DEF Writable
<1>6. /\ FrameAligned(s) \in Nat /\ FrameAligned(s) <= s
      /\ FrameAligned(s) % Channels = 0
  BY <1>4, AlignedFacts
<1> HIDE DEF s
<1> QED
  BY <1>1, <1>2, <1>4, <1>5, <1>6

(* What the collector reads at once: nothing only when nothing is there.   *)
LEMMA ChunkFacts ==
  ASSUME Types, Len(ring) % Channels = 0
  PROVE  /\ Chunk \in Nat /\ Chunk <= Len(ring)
         /\ Chunk % Channels = 0
         /\ Chunk = 0 => Len(ring) = 0
<1>1. Len(ring) \in Nat
  BY DEF Types
<1>2. ScratchFrames * Channels \in Nat /\ ScratchFrames * Channels > 0
  BY CaptureAssumption, SMTT(30)
<1>3. (ScratchFrames * Channels) % Channels = 0
  <2>1. ScratchFrames * Channels = Channels * ScratchFrames + 0
    BY CaptureAssumption, SMTT(30)
  <2>2. 0 \in 0 .. Channels - 1 /\ ScratchFrames \in Int
    BY CaptureAssumption
  <2> QED
    BY <2>1, <2>2, QuotientIsUnique
<1> DEFINE x == ScratchFrames * Channels
           s == Smaller(x, Len(ring))
<1> HIDE DEF x
<1>4. s \in Nat /\ s <= Len(ring) /\ s % Channels = 0 /\ (s = 0 => Len(ring) = 0)
  BY <1>1, <1>2, <1>3 DEF Smaller, x
<1>5. Chunk = FrameAligned(s)
  BY DEF Chunk, x
<1> HIDE DEF s
<1>6. FrameAligned(s) = s
  BY <1>4, AlignedFacts
<1> QED
  BY <1>4, <1>5, <1>6
---------------------------------------------------------------------------
(* Sequences of samples.                                                   *)

(* What a concatenation holds, and where.                                  *)
LEMMA ConcatFacts ==
  ASSUME NEW a \in Seq(AnySample), NEW b \in Seq(AnySample)
  PROVE  /\ a \o b \in Seq(AnySample) /\ Len(a \o b) = Len(a) + Len(b)
         /\ \A i \in 1 .. Len(a) : (a \o b)[i] = a[i]
         /\ \A i \in 1 .. Len(b) : (a \o b)[Len(a) + i] = b[i]
OBVIOUS

(* What the device delivers from frame first on.                           *)
LEMMA SamplesFacts ==
  ASSUME NEW first \in Nat, NEW n \in Nat
  PROVE  /\ Samples(first, n) \in Seq(AnySample)
         /\ Len(Samples(first, n)) = n
         /\ \A i \in 1 .. n : Samples(first, n)[i] =
              <<first + ((i - 1) \div Channels), (i - 1) % Channels>>
<1>1. ASSUME NEW i \in 1 .. n
      PROVE  <<first + ((i - 1) \div Channels), (i - 1) % Channels>> \in AnySample
  <2>1. i - 1 \in Nat
    OBVIOUS
  <2>2. (i - 1) \div Channels \in Nat /\ (i - 1) % Channels \in Nat
    BY <2>1, ChannelsPositive, SMTT(30)
  <2> QED
    BY <2>2 DEF AnySample
<1> QED
  BY <1>1 DEF Samples

(* A recording goes on with what the device delivers next.                 *)
LEMMA SamplesContinue ==
  ASSUME NEW q \in Nat, NEW n \in Nat, NEW w \in 0 .. n,
         NEW s \in Seq(AnySample), s = Samples(0, Channels * q)
  PROVE  s \o SubSeq(Samples(q, n), 1, w) = Samples(0, Channels * q + w)
<1> DEFINE k == Channels * q
           t == SubSeq(Samples(q, n), 1, w)
<1>1. k \in Nat
  BY ChannelsPositive, SMTT(30)
<1>2. /\ Samples(q, n) \in Seq(AnySample) /\ Len(Samples(q, n)) = n
      /\ \A i \in 1 .. n : Samples(q, n)[i] =
           <<q + ((i - 1) \div Channels), (i - 1) % Channels>>
  BY SamplesFacts
<1>3. /\ t \in Seq(AnySample) /\ Len(t) = w
      /\ \A i \in 1 .. w : t[i] = <<q + ((i - 1) \div Channels), (i - 1) % Channels>>
  BY <1>2
<1>4. /\ Len(s) = k
      /\ \A i \in 1 .. k : s[i] = <<0 + ((i - 1) \div Channels), (i - 1) % Channels>>
  BY <1>1, SamplesFacts
<1> HIDE DEF k, t
<1>5. k + w \in Nat
  BY <1>1
<1>6. /\ Samples(0, k + w) \in Seq(AnySample)
      /\ Len(Samples(0, k + w)) = k + w
      /\ \A i \in 1 .. k + w : Samples(0, k + w)[i] =
           <<0 + ((i - 1) \div Channels), (i - 1) % Channels>>
  BY <1>5, SamplesFacts
<1>7. ASSUME NEW i \in 1 .. k + w
      PROVE  (s \o t)[i] = Samples(0, k + w)[i]
  <2>1. CASE i <= k
    <3>1. (s \o t)[i] = s[i]
      BY <1>1, <1>3, <1>4, <2>1, ConcatFacts
    <3>2. i \in 1 .. k
      BY <1>1, <2>1
    <3>3. s[i] = <<0 + ((i - 1) \div Channels), (i - 1) % Channels>>
      BY <1>4, <3>2, Zenon
    <3>4. Samples(0, k + w)[i] = <<0 + ((i - 1) \div Channels), (i - 1) % Channels>>
      BY <1>6, Zenon
    <3> QED
      BY <3>1, <3>3, <3>4, Zenon
  <2>2. CASE ~(i <= k)
    <3>1. PICK j \in 1 .. w : i = k + j
      BY <1>1, <2>2
    <3>2. (s \o t)[i] = t[j]
      BY <1>1, <1>3, <1>4, <3>1, ConcatFacts
    <3>3. j - 1 \in Nat /\ i - 1 = k + (j - 1)
      BY <1>1, <3>1
    <3>4. /\ (i - 1) \div Channels = q + ((j - 1) \div Channels)
          /\ (i - 1) % Channels = (j - 1) % Channels
      BY <3>3, FramesShift DEF k
    <3>5. q + ((j - 1) \div Channels) = 0 + ((i - 1) \div Channels)
      BY <3>3, <3>4, ChannelsPositive, SMTT(30)
    <3> QED
      BY <1>3, <1>6, <3>2, <3>4, <3>5
  <2> QED
    BY <2>1, <2>2
<1>8. s \o t \in Seq(AnySample) /\ Len(s \o t) = k + w
  BY <1>3, <1>4, ConcatFacts
<1>9. s \o t = Samples(0, k + w)
  BY <1>6, <1>7, <1>8, SeqEqual
<1> QED
  BY <1>9 DEF t, k

(* What comes first of a recording without a gap has none.                 *)
LEMMA SamplesPrefix ==
  ASSUME NEW u \in Seq(AnySample), NEW r \in Seq(AnySample),
         u \o r = Samples(0, Len(r) + Len(u))
  PROVE  u = Samples(0, Len(u))
<1>1. Len(u) \in Nat /\ Len(r) \in Nat /\ Len(r) + Len(u) \in Nat
  OBVIOUS
<1>2. /\ Samples(0, Len(u)) \in Seq(AnySample)
      /\ Len(Samples(0, Len(u))) = Len(u)
      /\ \A i \in 1 .. Len(u) : Samples(0, Len(u))[i] =
           <<0 + ((i - 1) \div Channels), (i - 1) % Channels>>
  BY <1>1, SamplesFacts
<1>3. \A i \in 1 .. Len(r) + Len(u) : Samples(0, Len(r) + Len(u))[i] =
           <<0 + ((i - 1) \div Channels), (i - 1) % Channels>>
  BY <1>1, SamplesFacts
<1>4. ASSUME NEW i \in 1 .. Len(u)
      PROVE  u[i] = Samples(0, Len(u))[i]
  <2>1. u[i] = (u \o r)[i]
    BY ConcatFacts
  <2>2. i \in 1 .. Len(r) + Len(u)
    BY <1>1
  <2>3. Samples(0, Len(u))[i] = Samples(0, Len(r) + Len(u))[i]
    BY <1>2, <1>3, <2>2, Zenon
  <2> QED
    BY <2>1, <2>3
<1> QED
  BY <1>2, <1>4, SeqEqual

(* Moving the head of one sequence to the end of another.                  *)
LEMMA MoveHead ==
  ASSUME NEW u \in Seq(AnySample), NEW r \in Seq(AnySample), NEW k \in 0 .. Len(r)
  PROVE  /\ SubSeq(r, 1, k) \in Seq(AnySample) /\ Len(SubSeq(r, 1, k)) = k
         /\ SubSeq(r, k + 1, Len(r)) \in Seq(AnySample)
         /\ Len(SubSeq(r, k + 1, Len(r))) = Len(r) - k
         /\ u \o SubSeq(r, 1, k) \in Seq(AnySample)
         /\ Len(u \o SubSeq(r, 1, k)) = Len(u) + k
         /\ (u \o SubSeq(r, 1, k)) \o SubSeq(r, k + 1, Len(r)) = u \o r
<1> DEFINE h == SubSeq(r, 1, k)
           t == SubSeq(r, k + 1, Len(r))
<1>1. /\ h \in Seq(AnySample) /\ Len(h) = k
      /\ \A i \in 1 .. k : h[i] = r[i]
  OBVIOUS
<1>2. /\ t \in Seq(AnySample) /\ Len(t) = Len(r) - k
      /\ \A i \in 1 .. Len(r) - k : t[i] = r[k + i]
  OBVIOUS
<1> HIDE DEF h, t
<1>3. u \o h \in Seq(AnySample) /\ Len(u \o h) = Len(u) + k
  BY <1>1
<1>4. /\ (u \o h) \o t \in Seq(AnySample) /\ Len((u \o h) \o t) = Len(u) + Len(r)
      /\ u \o r \in Seq(AnySample) /\ Len(u \o r) = Len(u) + Len(r)
  <2>1. /\ (u \o h) \o t \in Seq(AnySample)
        /\ Len((u \o h) \o t) = (Len(u) + k) + (Len(r) - k)
    BY <1>2, <1>3, ConcatFacts
  <2>2. (Len(u) + k) + (Len(r) - k) = Len(u) + Len(r)
    <3>1. Len(u) \in Nat /\ Len(r) \in Nat /\ k \in Nat
      OBVIOUS
    <3> QED
      BY <3>1
  <2> QED
    BY <2>1, <2>2, ConcatFacts
<1>5. ASSUME NEW i \in 1 .. Len(u) + Len(r)
      PROVE  ((u \o h) \o t)[i] = (u \o r)[i]
  <2>1. CASE i \in 1 .. Len(u)
    <3>1. i \in 1 .. Len(u \o h)
      BY <1>3, <2>1
    <3>2. ((u \o h) \o t)[i] = (u \o h)[i]
      BY <1>2, <1>3, <3>1, ConcatFacts
    <3>3. (u \o h)[i] = u[i]
      BY <1>1, <2>1, ConcatFacts
    <3>4. (u \o r)[i] = u[i]
      BY <2>1, ConcatFacts
    <3> QED
      BY <3>2, <3>3, <3>4
  <2>2. ASSUME NEW j \in 1 .. k, i = Len(u) + j
        PROVE  ((u \o h) \o t)[i] = (u \o r)[i]
    <3>1. i \in 1 .. Len(u \o h) /\ j \in 1 .. Len(r)
      BY <1>3, <2>2
    <3>2. ((u \o h) \o t)[i] = (u \o h)[i]
      BY <1>2, <1>3, <3>1, ConcatFacts
    <3>3. (u \o h)[i] = h[j]
      BY <1>1, <2>2, ConcatFacts
    <3>4. (u \o r)[i] = r[j]
      BY <2>2, <3>1, ConcatFacts
    <3> QED
      BY <1>1, <3>2, <3>3, <3>4
  <2>3. ASSUME NEW j \in 1 .. Len(r) - k, i = Len(u) + k + j
        PROVE  ((u \o h) \o t)[i] = (u \o r)[i]
    <3>1. k + j \in 1 .. Len(r) /\ i = Len(u) + (k + j) /\ i = Len(u \o h) + j
      BY <1>3, <2>3
    <3>2. ((u \o h) \o t)[i] = t[j]
      BY <1>2, <1>3, <3>1, ConcatFacts, SMTT(30)
    <3>3. (u \o r)[i] = r[k + j]
      BY <3>1, ConcatFacts
    <3> QED
      BY <1>2, <3>2, <3>3
  <2>4. \/ i \in 1 .. Len(u)
        \/ \E j \in 1 .. k : i = Len(u) + j
        \/ \E j \in 1 .. Len(r) - k : i = Len(u) + k + j
    <3>1. Len(u) \in Nat /\ Len(r) \in Nat /\ k \in Nat /\ i \in Nat
      OBVIOUS
    <3>2. CASE i <= Len(u)
      BY <3>1, <3>2
    <3>3. CASE i > Len(u) /\ i <= Len(u) + k
      <4>1. i - Len(u) \in 1 .. k /\ i = Len(u) + (i - Len(u))
        BY <3>1, <3>3
      <4> QED
        BY <4>1
    <3>4. CASE i > Len(u) + k
      <4>1. /\ i - Len(u) - k \in 1 .. Len(r) - k
            /\ i = Len(u) + k + (i - Len(u) - k)
        BY <3>1, <3>4
      <4> QED
        BY <4>1
    <3> QED
      BY <3>1, <3>2, <3>3, <3>4
  <2> QED
    BY <2>1, <2>2, <2>3, <2>4
<1>6. (u \o h) \o t = u \o r
  BY <1>4, <1>5, SeqEqual
<1> QED
  BY <1>1, <1>2, <1>3, <1>6 DEF h, t
---------------------------------------------------------------------------
(* Every step keeps the invariant.                                         *)

(* Before the first discovery.                                             *)
LEMMA InitCaptureInv == CaptureInit => CaptureInv
<1> SUFFICES ASSUME CaptureInit PROVE CaptureInv
  OBVIOUS
<1> USE DEF CaptureInit, Quiet
<1>1. Types
  BY DEF Types, CallbackType, MetricsType, CollectorType, Ends
<1>2. Samples(0, 0) = <<>>
  <2>1. Samples(0, 0) \in Seq(AnySample) /\ Len(Samples(0, 0)) = 0
    BY SamplesFacts
  <2> QED
    BY <2>1
<1>3. Held = 0 /\ Kept = <<>>
  BY DEF Held, Kept
<1>4. Channels * heard = 0
  BY ChannelsPositive, SMTT(30)
<1>5. 0 % Channels = 0
  BY ChannelsPositive, SMTT(30)
<1>6. WholeFrames
  BY <1>5 DEF WholeFrames
<1>7. RingSamples \in Nat
  BY RingSamplesNat
<1>8. ClaimFits
  BY <1>7 DEF ClaimFits
<1>9. EndIsDone /\ FinalizedGapFree
  BY DEF EndIsDone, FinalizedGapFree
<1>10. Counted /\ ReturnedIsHeld
  BY <1>3 DEF Counted, ReturnedIsHeld
<1>11. InOrder
  BY <1>2, <1>3, <1>4 DEF InOrder
<1> QED
  BY <1>1, <1>6, <1>8, <1>9, <1>10, <1>11 DEF CaptureInv

(* A step that leaves alone what the invariant is about.                   *)
LEMMA UnchangedKeepsInv ==
  ASSUME CaptureInv,
         UNCHANGED <<heard, ring, callback, metrics, utterance, collector, returned>>
  PROVE  CaptureInv'
BY DEF CaptureInv, Types, WholeFrames, ClaimFits, EndIsDone, Counted, ReturnedIsHeld,
       InOrder, FinalizedGapFree, Held, Kept

(* A step that ends the recording, but not as a finalized one.             *)
LEMMA FailureKeepsInv ==
  ASSUME CaptureInv, UNCHANGED <<heard, callback, metrics, utterance, returned>>,
         ring' \in Seq(AnySample), Len(ring') <= Len(ring), Len(ring') % Channels = 0,
         collector' \in CollectorType, collector'.pc = "done",
         collector'.end \notin {"none", "Finalized"}
  PROVE  CaptureInv'
<1>1. Types'
  BY DEF CaptureInv, Types
<1>2. WholeFrames'
  BY DEF CaptureInv, WholeFrames
<1>3. ClaimFits'
  <2>1. Len(ring) \in Nat /\ Len(ring') \in Nat /\ RingSamples \in Nat /\ callback.writable \in Nat
    BY RingSamplesNat DEF CaptureInv, Types, CallbackType
  <2> QED
    BY <2>1 DEF CaptureInv, ClaimFits, Quiet
<1>4. EndIsDone' /\ Counted' /\ ReturnedIsHeld' /\ InOrder' /\ FinalizedGapFree'
  BY DEF EndIsDone, Counted, ReturnedIsHeld, InOrder, FinalizedGapFree
<1> QED
  BY <1>1, <1>2, <1>3, <1>4 DEF CaptureInv

(* Starting, which may fail at each of its steps.                          *)
LEMMA StartKeepsInv == ASSUME CaptureInv, StartInputCapture PROVE CaptureInv'
<1>1. CASE UNCHANGED collector
  BY <1>1, UnchangedKeepsInv DEF StartInputCapture, deviceVars
<1>2. ASSUME NEW failed \in OpenSteps \cup CollectorSteps,
             collector' = [collector EXCEPT !.pc = "done", !.end = failed]
      PROVE  CaptureInv'
  <2>1. failed \in Ends /\ failed \notin {"none", "Finalized"}
    BY DEF OpenSteps, CollectorSteps, Ends
  <2>2. /\ collector' \in CollectorType /\ collector'.pc = "done"
        /\ collector'.end = failed
    BY <1>2, <2>1 DEF CaptureInv, Types, CollectorType
  <2>3. UNCHANGED <<heard, ring, callback, metrics, utterance, returned>>
    BY DEF StartInputCapture, deviceVars
  <2>4. ring \in Seq(AnySample) /\ Len(ring) \in Nat /\ Len(ring) % Channels = 0
    BY DEF CaptureInv, Types, WholeFrames
  <2> QED
    BY <2>1, <2>2, <2>3, <2>4, FailureKeepsInv
<1> QED
  BY <1>1, <1>2 DEF StartInputCapture

(* The callback claims what fits of a buffer.                              *)
LEMMA IngestTypedKeepsInv ==
  ASSUME CaptureInv, NEW n \in Nat, IngestTyped(n) PROVE CaptureInv'
<1> DEFINE w == Writable(n)
           s == Samples(heard, n)
           e == IF FrameAligned(n) = n THEN 0 ELSE 1
<1>1. /\ heard \in Nat /\ callback = Quiet /\ metrics \in MetricsType
      /\ callback.pc = "idle"
  BY DEF CaptureInv, Types, IngestTyped, Quiet
<1>2. w \in Nat /\ w <= n /\ w % Channels = 0 /\ Len(ring) + w <= RingSamples
  BY WritableFacts DEF CaptureInv, ClaimFits
<1>3. s \in Seq(AnySample) /\ Len(s) = n
  BY <1>1, SamplesFacts
<1>4. /\ heard' = heard + DivCeil(n, Channels)
      /\ callback' = [pc |-> IF w = 0 THEN "received" ELSE "commit", samples |-> s, writable |-> w]
      /\ metrics' = [metrics EXCEPT !.errors = @ + e]
      /\ UNCHANGED <<ring, utterance, collector, returned>>
  BY DEF IngestTyped, CountErrors, workerVars
<1>5. /\ DivCeil(n, Channels) \in Nat
      /\ e = 0 => Channels * DivCeil(n, Channels) = n
  BY FramesOfBuffer
<1>6. e \in {0, 1}
  OBVIOUS
<1>7. metrics' \in MetricsType /\ metrics'.received = metrics.received
      /\ metrics'.dropped = metrics.dropped /\ metrics'.errors = metrics.errors + e
  BY <1>1, <1>4, <1>6 DEF MetricsType
<1>8. /\ Len(ring) \in Nat /\ Len(utterance) \in Nat /\ RingSamples \in Nat /\ Held \in Nat
  BY RingSamplesNat DEF CaptureInv, Types, Held
<1> HIDE DEF w, s, e
<1>9. Types'
  BY <1>1, <1>2, <1>3, <1>4, <1>5, <1>7 DEF CaptureInv, Types, CallbackType
<1>10. WholeFrames'
  BY <1>2, <1>4 DEF CaptureInv, WholeFrames
<1>11. ClaimFits'
  BY <1>2, <1>3, <1>4, <1>8 DEF CaptureInv, ClaimFits, Quiet
<1>12. EndIsDone' /\ FinalizedGapFree'
  BY <1>4 DEF CaptureInv, EndIsDone, FinalizedGapFree
<1>13. Held' = Held /\ Kept' = Kept
  BY <1>4 DEF Held, Kept
<1>14. Counted'
  BY <1>1, <1>2, <1>4, <1>7, <1>8, <1>13 DEF CaptureInv, Counted, MetricsType
<1>15. ReturnedIsHeld'
  BY <1>4, <1>7, <1>13 DEF CaptureInv, ReturnedIsHeld
<1>16. InOrder'
  <2> SUFFICES ASSUME collector.end = "none", metrics.dropped = 0, metrics'.errors = 0
               PROVE  InOrder'
    BY <1>4, <1>7 DEF InOrder
  <2>1. metrics.errors = 0 /\ e = 0
    BY <1>1, <1>6, <1>7 DEF MetricsType
  <2>2. Kept = Samples(0, Held) /\ Channels * heard = Held
    BY <1>1, <2>1 DEF CaptureInv, InOrder
  <2>3. Channels * heard' = Held + n
    <3>1. Channels * heard' = Channels * heard + Channels * DivCeil(n, Channels)
      BY <1>1, <1>4, <1>5, ChannelsPositive, SMTT(30)
    <3> QED
      BY <1>5, <2>1, <2>2, <3>1
  <2>4. Held \div Channels = heard
    <3>1. Held = Channels * heard + 0 /\ heard \in Int /\ 0 \in 0 .. Channels - 1
      BY <1>1, <1>8, <2>2, ChannelsPositive
    <3> QED
      BY <3>1, QuotientIsUnique
  <2>5. s = Samples(Held \div Channels, n)
    BY <2>4 DEF s
  <2>6. callback'.pc = "received" => w = 0
    BY <1>4
  <2>7. /\ callback'.pc \in {"received", "commit"} /\ callback'.samples = s
        /\ callback'.writable = w /\ Len(callback'.samples) = n
    BY <1>3, <1>4
  <2>8. Channels * heard' \in Int
    BY <1>8, <2>3
  <2> QED
    BY <1>13, <2>2, <2>3, <2>5, <2>6, <2>7, <2>8, <1>8 DEF InOrder
<1> QED
  BY <1>9, <1>10, <1>11, <1>12, <1>14, <1>15, <1>16 DEF CaptureInv

(* The callback refuses a buffer it cannot read, and counts it.            *)
LEMMA IngestUnusableKeepsInv ==
  ASSUME CaptureInv, NEW n \in Nat, IngestUnusable(n) PROVE CaptureInv'
<1>1. /\ heard \in Nat /\ metrics \in MetricsType
      /\ DivCeil(n, Channels) \in Nat
  BY FramesOfBuffer DEF CaptureInv, Types
<1>2. /\ heard' = heard + DivCeil(n, Channels)
      /\ metrics' = [received |-> metrics.received + n, dropped |-> metrics.dropped + n,
                     errors |-> metrics.errors + 1]
      /\ UNCHANGED <<ring, callback, utterance, collector, returned>>
  BY DEF IngestUnusable, workerVars
<1>3. /\ metrics' \in MetricsType /\ metrics'.errors # 0
      /\ metrics.received \in Nat /\ metrics.dropped \in Nat
      /\ metrics'.received = metrics.received + n
      /\ metrics'.dropped = metrics.dropped + n
      /\ metrics'.received \in Nat /\ metrics'.dropped \in Nat
      /\ UNCHANGED <<ring, callback, utterance, collector, returned>>
  BY <1>1, <1>2 DEF MetricsType
<1>4. Types'
  BY <1>1, <1>2, <1>3 DEF CaptureInv, Types
<1>5. WholeFrames' /\ ClaimFits' /\ EndIsDone' /\ FinalizedGapFree'
  BY <1>2 DEF CaptureInv, WholeFrames, ClaimFits, EndIsDone, FinalizedGapFree
<1>6. Held' = Held /\ Held \in Nat /\ Len(utterance) \in Nat /\ Len(callback.samples) \in Nat
      /\ callback.writable \in Nat
  BY <1>2 DEF CaptureInv, Types, CallbackType, Held
<1>7. Counted'
  <2>1. /\ Held' \in Nat /\ Len(callback'.samples) \in Nat /\ callback'.writable \in Nat
        /\ callback' = callback /\ collector' = collector
    BY <1>2, <1>6
  <2>2. callback.pc = "idle"
    BY DEF IngestUnusable, Quiet
  <2>3. collector.end \in {"none", "Finalized"} => metrics.received = metrics.dropped + Held
    BY <2>2 DEF CaptureInv, Counted
  <2>4. metrics.received = metrics.dropped + Held => metrics'.received = metrics'.dropped + Held
    BY <1>3, <1>6
  <2> QED
    BY <1>6, <2>1, <2>2, <2>3, <2>4 DEF Counted
<1>8. ReturnedIsHeld'
  <2>1. /\ Held' \in Nat /\ Len(utterance') \in Nat /\ returned \in Int /\ returned' \in Int
        /\ returned' = returned /\ Len(utterance') = Len(utterance) /\ collector' = collector
    BY <1>2, <1>6 DEF CaptureInv, Types
  <2> QED
    <3>1. /\ metrics.dropped \in Nat /\ metrics'.dropped \in Nat /\ Held \in Nat
          /\ Len(utterance) \in Nat /\ returned \in Int
          /\ metrics.dropped <= metrics'.dropped
      BY <1>3, <1>6, <2>1
    <3>2. /\ returned <= metrics.dropped + Held => returned <= metrics'.dropped + Held
          /\ returned <= metrics.dropped + Len(utterance) =>
               returned <= metrics'.dropped + Len(utterance)
      BY ONLY <3>1
    <3>3. ReturnedIsHeld /\ Held' = Held
      BY <1>6 DEF CaptureInv
    <3> QED
      BY <2>1, <3>2, <3>3 DEF ReturnedIsHeld
<1>9. InOrder'
  BY <1>3 DEF InOrder
<1> QED
  BY <1>4, <1>5, <1>7, <1>8, <1>9 DEF CaptureInv

(* The claimed samples go on where those in the ring end.                  *)
LEMMA CommitKeepsInv == ASSUME CaptureInv, Commit PROVE CaptureInv'
<1> DEFINE w == callback.writable
           s == callback.samples
           t == SubSeq(s, 1, w)
<1>1. /\ callback \in CallbackType /\ callback.pc = "commit"
      /\ s \in Seq(AnySample) /\ w \in Nat /\ w <= Len(s) /\ Len(s) \in Nat
      /\ ring \in Seq(AnySample) /\ utterance \in Seq(AnySample)
      /\ Len(ring) \in Nat /\ Len(utterance) \in Nat
  BY DEF CaptureInv, Types, CallbackType, ClaimFits, Commit
<1>2. /\ ring' = ring \o t
      /\ callback' = [callback EXCEPT !.pc = "received"]
      /\ UNCHANGED <<heard, metrics, utterance, collector, returned>>
  BY DEF Commit, workerVars
<1>3. /\ callback' \in CallbackType /\ callback'.pc = "received"
      /\ callback'.samples = s /\ callback'.writable = w
  BY <1>1, <1>2 DEF CallbackType
<1>4. t \in Seq(AnySample) /\ Len(t) = w
  BY <1>1, MoveHead
<1> HIDE DEF t
<1>5. ring' \in Seq(AnySample) /\ Len(ring') = Len(ring) + w
  BY <1>1, <1>2, <1>4, ConcatFacts
<1>6. Types'
  BY <1>2, <1>3, <1>5 DEF CaptureInv, Types
<1>7. WholeFrames'
  <2>1. (Len(ring) + w) % Channels = 0
    <3>1. Len(ring) % Channels = 0 /\ w % Channels = 0
      BY DEF CaptureInv, WholeFrames
    <3>2. Len(ring) \in Int /\ w \in Int
      BY <1>1
    <3> QED
      BY ONLY <3>1, <3>2, WholeFramesAdd
  <2> QED
    BY <1>2, <1>3, <1>5, <2>1 DEF CaptureInv, WholeFrames
<1>8. ClaimFits'
  BY <1>1, <1>2, <1>3, <1>5 DEF CaptureInv, ClaimFits, Quiet
<1>9. EndIsDone' /\ FinalizedGapFree'
  BY <1>2 DEF CaptureInv, EndIsDone, FinalizedGapFree
<1>10. Held' = Held + w /\ Held \in Nat
  BY <1>1, <1>2, <1>5 DEF Held
<1>11. metrics \in MetricsType /\ returned \in Int /\ heard \in Nat
  BY DEF CaptureInv, Types
<1>12. Counted'
  BY <1>1, <1>2, <1>3, <1>10, <1>11 DEF CaptureInv, Counted, MetricsType
<1>13. ReturnedIsHeld'
  BY <1>1, <1>2, <1>10, <1>11 DEF CaptureInv, ReturnedIsHeld, MetricsType
<1>14. InOrder'
  <2> SUFFICES ASSUME collector.end = "none", metrics.dropped = 0, metrics.errors = 0
               PROVE  InOrder'
    BY <1>2 DEF InOrder
  <2>1. /\ Kept = Samples(0, Held)
        /\ Channels * heard = Held + Len(s)
        /\ s = Samples(Held \div Channels, Len(s))
    BY <1>1 DEF CaptureInv, InOrder
  <2>2. PICK q \in Nat : q = Held \div Channels /\ Held = Channels * q
    <3>1. Held % Channels = 0
      <4>1. Len(ring) % Channels = 0 /\ Len(utterance) % Channels = 0
        BY DEF CaptureInv, WholeFrames
      <4>2. Len(ring) \in Int /\ Len(utterance) \in Int
        BY <1>1
      <4>3. (Len(ring) + Len(utterance)) % Channels = 0
        BY ONLY <4>1, <4>2, WholeFramesAdd
      <4> QED
        BY <4>3 DEF Held
    <3>2. Held \div Channels \in Nat
      BY <1>10, ChannelsPositive, SMTT(30)
    <3>3. Held = Channels * (Held \div Channels) + (Held % Channels)
      BY <1>10, QuotientRemainder
    <3>4. Held = Channels * (Held \div Channels)
      BY <1>10, <3>1, <3>2, <3>3, ChannelsPositive, SMTT(30)
    <3> QED
      BY <3>2, <3>4
  <2>3. Kept \in Seq(AnySample)
    BY <1>1, ConcatFacts DEF Kept
  <2>4. t = SubSeq(Samples(q, Len(s)), 1, w)
    BY <2>1, <2>2 DEF t
  <2>5. w \in 0 .. Len(s)
    BY <1>1
  <2>6. Kept \o t = Samples(0, Held + w)
    <3>1. Kept = Samples(0, Channels * q)
      BY <2>1, <2>2
    <3>2. Len(s) \in Nat
      BY <1>1
    <3> HIDE DEF s, w
    <3>3. Kept \o SubSeq(Samples(q, Len(s)), 1, w) = Samples(0, Channels * q + w)
      BY ONLY <2>3, <2>5, <3>1, <3>2, SamplesContinue
    <3> QED
      BY <2>2, <2>4, <3>3
  <2>7. Kept' = Kept \o t
    <3>1. utterance' \o ring' = utterance \o (ring \o t)
      BY <1>2
    <3>2. utterance \o (ring \o t) = (utterance \o ring) \o t
      <4>1. ring \in Seq(AnySample) /\ utterance \in Seq(AnySample)
        BY <1>1
      <4>2. \A a, b, c \in Seq(AnySample) : (a \o b) \o c = a \o (b \o c)
        BY ONLY ConcatAssociative
      <4> QED
        BY ONLY <4>1, <4>2, <1>4, Zenon
    <3> QED
      BY <3>1, <3>2 DEF Kept
  <2>8. Channels * heard \in Int
    BY <1>1, <1>10, <2>1
  <2>9. Channels * heard' + w = Held' + Len(s)
    BY <1>1, <1>2, <1>10, <2>1, <2>8, SMTT(30)
  <2> QED
    BY <1>2, <1>3, <1>10, <2>6, <2>7, <2>9 DEF InOrder
<1> QED
  BY <1>6, <1>7, <1>8, <1>9, <1>12, <1>13, <1>14 DEF CaptureInv

(* The callback counts what it received.                                   *)
LEMMA RecordReceivedKeepsInv == ASSUME CaptureInv, RecordReceived PROVE CaptureInv'
<1>1. /\ callback \in CallbackType /\ callback.pc = "received" /\ metrics \in MetricsType
      /\ Len(callback.samples) \in Nat /\ callback.writable \in Nat
      /\ Len(ring) \in Nat /\ Len(utterance) \in Nat /\ Held \in Nat /\ returned \in Int
  BY DEF CaptureInv, Types, CallbackType, Held, RecordReceived
<1>2. /\ metrics' = [metrics EXCEPT !.received = @ + Len(callback.samples)]
      /\ callback' = [callback EXCEPT !.pc = "dropped"]
      /\ UNCHANGED <<heard, ring, utterance, collector, returned>>
  BY DEF RecordReceived, workerVars
<1>3. /\ callback' \in CallbackType /\ callback'.pc = "dropped"
      /\ callback'.samples = callback.samples /\ callback'.writable = callback.writable
      /\ metrics' \in MetricsType /\ metrics'.dropped = metrics.dropped
      /\ metrics'.errors = metrics.errors
      /\ metrics'.received = metrics.received + Len(callback.samples)
      /\ metrics.received \in Nat /\ metrics.dropped \in Nat
      /\ UNCHANGED collector
  BY <1>1, <1>2, SMTT(30) DEF CallbackType, MetricsType
<1>4. Held' = Held /\ Kept' = Kept
  BY <1>2 DEF Held, Kept
<1>5. Types'
  BY <1>2, <1>3 DEF CaptureInv, Types
<1>6. WholeFrames' /\ ClaimFits' /\ EndIsDone' /\ FinalizedGapFree'
  BY <1>1, <1>2, <1>3
     DEF CaptureInv, WholeFrames, ClaimFits, EndIsDone, FinalizedGapFree, Quiet
<1>7. Counted'
  BY <1>1, <1>3, <1>4 DEF CaptureInv, Counted
<1>8. ReturnedIsHeld'
  BY <1>2, <1>3, <1>4 DEF CaptureInv, ReturnedIsHeld
<1>9. InOrder'
  BY <1>1, <1>2, <1>3, <1>4 DEF CaptureInv, InOrder
<1> QED
  BY <1>5, <1>6, <1>7, <1>8, <1>9 DEF CaptureInv

(* The callback counts what did not fit.                                   *)
LEMMA RecordDroppedKeepsInv == ASSUME CaptureInv, RecordDropped PROVE CaptureInv'
<1> DEFINE lost == Len(callback.samples) - callback.writable
<1>1. /\ callback \in CallbackType /\ callback.pc = "dropped" /\ metrics \in MetricsType
      /\ Len(callback.samples) \in Nat /\ callback.writable \in Nat /\ lost \in Nat
      /\ Len(ring) \in Nat /\ Len(utterance) \in Nat /\ Held \in Nat /\ returned \in Int
      /\ heard \in Nat
  BY DEF CaptureInv, Types, CallbackType, ClaimFits, Held, RecordDropped
<1>2. /\ metrics' = [metrics EXCEPT !.dropped = @ + lost]
      /\ callback' = Quiet
      /\ UNCHANGED <<heard, ring, utterance, collector, returned>>
  BY DEF RecordDropped, workerVars
<1> HIDE DEF lost
<1>3. /\ metrics' \in MetricsType /\ metrics'.dropped = metrics.dropped + lost
      /\ metrics'.errors = metrics.errors /\ metrics'.received = metrics.received
      /\ metrics.received \in Nat /\ metrics.dropped \in Nat
      /\ metrics'.received \in Nat /\ metrics'.dropped \in Nat
      /\ UNCHANGED collector
  <2>1. metrics.received \in Nat /\ metrics.dropped \in Nat /\ metrics.dropped + lost \in Nat
    BY <1>1 DEF MetricsType
  <2> QED
    BY <1>1, <1>2, <2>1 DEF MetricsType
<1>4. /\ callback' \in CallbackType /\ callback'.pc = "idle"
      /\ Len(callback'.samples) = 0 /\ callback'.writable = 0
  BY <1>2 DEF CallbackType, Quiet
<1>5. Held' = Held /\ Held' \in Nat /\ Kept' = Kept
  BY <1>1, <1>2 DEF Held, Kept
<1>6. Types'
  BY <1>2, <1>3, <1>4 DEF CaptureInv, Types
<1>7. WholeFrames'
  <2>1. 0 % Channels = 0
    BY ChannelsPositive, SMTT(30)
  <2> QED
    BY <1>2, <1>4, <2>1 DEF CaptureInv, WholeFrames
<1>8. ClaimFits' /\ EndIsDone' /\ FinalizedGapFree'
  BY <1>2, <1>4 DEF CaptureInv, ClaimFits, EndIsDone, FinalizedGapFree
<1>9. Counted'
  <2> SUFFICES ASSUME collector.end \in {"none", "Finalized"}
               PROVE  metrics'.received = metrics'.dropped + Held'
    BY <1>3, <1>4 DEF Counted
  <2>1. metrics.received + callback.writable = metrics.dropped + Held + Len(callback.samples)
    BY <1>1 DEF CaptureInv, Counted
  <2>2. /\ metrics.received \in Nat /\ metrics.dropped \in Nat /\ Held \in Nat
        /\ Len(callback.samples) \in Nat /\ callback.writable \in Nat
        /\ metrics'.dropped \in Nat
        /\ metrics'.dropped = metrics.dropped + (Len(callback.samples) - callback.writable)
    BY <1>1, <1>3 DEF lost
  <2>3. PICK n \in Nat, w \in Nat, h \in Nat :
          n = Len(callback.samples) /\ w = callback.writable /\ h = Held
    BY ONLY <2>2, Zenon
  <2>4. PICK r \in Nat, d \in Nat, x \in Nat :
          r = metrics.received /\ d = metrics.dropped /\ x = metrics'.dropped
    BY ONLY <2>2, Zenon
  <2>5. r + w = d + h + n /\ x = d + (n - w)
    BY ONLY <2>1, <2>2, <2>3, <2>4, Zenon
  <2>6. r = x + h
    BY ONLY <2>5
  <2> QED
    BY <1>3, <1>5, <2>3, <2>4, <2>6
<1>10. ReturnedIsHeld'
  <2>1. /\ returned' = returned /\ Len(utterance') = Len(utterance)
        /\ returned' \in Int /\ Len(utterance') \in Nat
    BY <1>1, <1>2
  <2> QED
    <3>1. /\ metrics.dropped \in Nat /\ metrics'.dropped \in Nat /\ Held \in Nat
          /\ Len(utterance) \in Nat /\ returned \in Int
          /\ metrics.dropped <= metrics'.dropped
      BY <1>1, <1>3
    <3>2. /\ returned <= metrics.dropped + Held => returned <= metrics'.dropped + Held
          /\ returned <= metrics.dropped + Len(utterance) =>
               returned <= metrics'.dropped + Len(utterance)
      BY ONLY <3>1
    <3>3. ReturnedIsHeld /\ UNCHANGED collector
      BY <1>3 DEF CaptureInv
    <3> QED
      BY <1>5, <2>1, <3>2, <3>3 DEF ReturnedIsHeld
<1>11. InOrder'
  <2> SUFFICES ASSUME collector.end = "none", metrics'.dropped = 0, metrics'.errors = 0
               PROVE  InOrder'
    BY <1>2 DEF InOrder
  <2>1. metrics.dropped = 0 /\ metrics.errors = 0 /\ lost = 0
    BY <1>1, <1>3 DEF MetricsType
  <2>2. /\ Kept = Samples(0, Held)
        /\ Channels * heard + callback.writable = Held + Len(callback.samples)
    BY <1>1, <2>1 DEF CaptureInv, InOrder
  <2>3. Channels * heard \in Int
    BY <1>1, ChannelsPositive, SMTT(30)
  <2>4. Channels * heard' = Held
    <3>1. Len(callback.samples) = callback.writable
      BY <1>1, <2>1 DEF lost
    <3>2. heard' = heard
      BY <1>2
    <3> HIDE DEF Held
    <3> QED
      BY <1>1, <2>2, <2>3, <3>1, <3>2
  <2> QED
    BY <1>4, <1>5, <2>2, <2>4 DEF InOrder
<1> QED
  BY <1>6, <1>7, <1>8, <1>9, <1>10, <1>11 DEF CaptureInv

(* The backend reports an error.                                           *)
LEMMA RecordErrorKeepsInv == ASSUME CaptureInv, RecordError PROVE CaptureInv'
<1>1. /\ metrics' = [metrics EXCEPT !.errors = @ + 1]
      /\ UNCHANGED <<heard, ring, callback, utterance, collector, returned>>
  BY DEF RecordError, CountErrors, workerVars
<1>2. /\ metrics' \in MetricsType /\ metrics'.dropped = metrics.dropped
      /\ metrics'.received = metrics.received /\ metrics'.errors # 0
  BY <1>1 DEF CaptureInv, Types, MetricsType
<1>3. Types'
  BY <1>1, <1>2 DEF CaptureInv, Types
<1>4. WholeFrames' /\ ClaimFits' /\ EndIsDone' /\ FinalizedGapFree'
  BY <1>1 DEF CaptureInv, WholeFrames, ClaimFits, EndIsDone, FinalizedGapFree
<1>5. Counted' /\ ReturnedIsHeld'
  BY <1>1, <1>2 DEF CaptureInv, Counted, ReturnedIsHeld, Held
<1>6. InOrder'
  BY <1>2 DEF InOrder
<1> QED
  BY <1>3, <1>4, <1>5, <1>6 DEF CaptureInv

(* The collector begins to read.                                           *)
LEMMA PumpKeepsInv == ASSUME CaptureInv, Pump PROVE CaptureInv'
<1>1. /\ collector \in CollectorType /\ collector.pc = "idle"
      /\ collector' = [collector EXCEPT !.pc = "read"]
      /\ UNCHANGED <<heard, ring, callback, metrics, utterance, returned>>
  BY DEF CaptureInv, Types, Pump, CollectorAt, CollectorGoes, deviceVars
<1>2. /\ collector' \in CollectorType /\ collector'.pc = "read"
      /\ collector'.end = collector.end /\ collector'.finalizing = collector.finalizing
  BY <1>1 DEF CollectorType
<1>3. Types' /\ WholeFrames' /\ ClaimFits' /\ EndIsDone'
  BY <1>1, <1>2 DEF CaptureInv, Types, WholeFrames, ClaimFits, EndIsDone
<1>4. Counted' /\ ReturnedIsHeld' /\ InOrder' /\ FinalizedGapFree'
  BY <1>1, <1>2
     DEF CaptureInv, Counted, ReturnedIsHeld, InOrder, FinalizedGapFree, Held, Kept
<1> QED
  BY <1>3, <1>4 DEF CaptureInv

(* A collector that is consumed with an error.                             *)
LEMMA EndKeepsInv ==
  ASSUME CaptureInv, NEW result \in Ends \ {"none", "Finalized"}, End(result),
         UNCHANGED <<heard, ring, callback, metrics, utterance, returned>>
  PROVE  CaptureInv'
<1>1. collector' \in CollectorType /\ collector'.pc = "done" /\ collector'.end = result
  BY DEF CaptureInv, Types, CollectorType, End
<1>2. ring \in Seq(AnySample) /\ Len(ring) \in Nat /\ Len(ring) % Channels = 0
  BY DEF CaptureInv, Types, WholeFrames
<1> QED
  BY <1>1, <1>2, FailureKeepsInv

(* The pause; what had been counted by then is in ring and utterance.      *)
LEMMA FinalizeKeepsInv == ASSUME CaptureInv, Finalize PROVE CaptureInv'
<1>1. UNCHANGED <<heard, ring, callback, metrics, utterance>>
  BY DEF Finalize, deviceVars
<1>2. CASE End("Capture") /\ UNCHANGED returned
  BY <1>1, <1>2, EndKeepsInv DEF Ends
<1>3. CASE /\ collector' = [collector EXCEPT !.pc = "read", !.finalizing = TRUE]
           /\ returned' = CountedByNow
  <2>1. collector \in CollectorType /\ collector.pc = "idle" /\ collector.end = "none"
    BY DEF CaptureInv, Types, CollectorType, EndIsDone, Finalize, CollectorAt
  <2>2. /\ collector' \in CollectorType /\ collector'.pc = "read"
        /\ collector'.finalizing /\ collector'.end = "none"
    BY <1>3, <2>1 DEF CollectorType
  <2>3. /\ callback \in CallbackType /\ metrics \in MetricsType
        /\ Held \in Nat /\ callback.writable \in Nat
        /\ Len(callback.samples) \in Nat /\ callback.writable <= Len(callback.samples)
    BY DEF CaptureInv, Types, CallbackType, ClaimFits, Held
  <2>4. CountedByNow \in Int /\ CountedByNow <= metrics.dropped + Held
    <3>1. Counted /\ metrics.received \in Nat /\ metrics.dropped \in Nat
      BY <2>3 DEF CaptureInv, MetricsType
    <3>2. CASE callback.pc = "dropped"
      <4>1. metrics.received + callback.writable =
              metrics.dropped + Held + Len(callback.samples)
        BY <2>1, <3>1, <3>2 DEF Counted
      <4>2. CountedByNow = metrics.received - Len(callback.samples)
        BY <3>2 DEF CountedByNow
      <4>3. /\ Held \in Nat /\ callback.writable \in Nat /\ Len(callback.samples) \in Nat
            /\ callback.writable <= Len(callback.samples)
        BY <2>3
      <4>4. CountedByNow \in Int
        BY <3>1, <4>2, <4>3
      <4> QED
        BY <3>1, <4>1, <4>2, <4>3, <4>4
    <3>3. CASE callback.pc = "received"
      BY <2>1, <2>3, <3>1, <3>3 DEF Counted, CountedByNow
    <3>4. CASE callback.pc \in {"idle", "commit"}
      BY <2>1, <2>3, <3>1, <3>4 DEF Counted, CountedByNow
    <3> QED
      BY <2>3, <3>2, <3>3, <3>4 DEF CallbackType
  <2>5. Types'
    BY <1>1, <1>3, <2>2, <2>4 DEF CaptureInv, Types
  <2>6. WholeFrames' /\ ClaimFits' /\ EndIsDone' /\ FinalizedGapFree'
    BY <1>1, <2>2 DEF CaptureInv, WholeFrames, ClaimFits, EndIsDone, FinalizedGapFree
  <2>7. Held' = Held /\ Kept' = Kept
    BY <1>1 DEF Held, Kept
  <2>8. Counted' /\ InOrder'
    BY <1>1, <2>1, <2>2, <2>7 DEF CaptureInv, Counted, InOrder
  <2>9. ReturnedIsHeld'
    BY <1>1, <1>3, <2>2, <2>4, <2>7 DEF ReturnedIsHeld
  <2> QED
    BY <2>5, <2>6, <2>8, <2>9 DEF CaptureInv
<1> QED
  BY <1>2, <1>3 DEF Finalize

(* A chunk moves from the ring to the utterance, or ends the recording.    *)
LEMMA ReadKeepsInv == ASSUME CaptureInv, Read PROVE CaptureInv'
<1>1. /\ collector \in CollectorType /\ collector.pc = "read" /\ collector.end = "none"
      /\ UNCHANGED <<heard, callback, metrics, returned>>
  BY DEF CaptureInv, Types, CollectorType, EndIsDone, Read, CollectorAt
<1>2. /\ ring \in Seq(AnySample) /\ utterance \in Seq(AnySample)
      /\ Len(ring) \in Nat /\ Len(utterance) \in Nat /\ Held \in Nat
      /\ Len(ring) % Channels = 0 /\ Len(utterance) % Channels = 0
      /\ RingSamples \in Nat /\ Len(ring) <= RingSamples /\ callback.writable \in Nat
      /\ metrics \in MetricsType
  BY RingSamplesNat
     DEF CaptureInv, Types, WholeFrames, ClaimFits, Held, CallbackType
<1>3. /\ Chunk \in Nat /\ Chunk <= Len(ring) /\ Chunk % Channels = 0
      /\ Chunk = 0 => Len(ring) = 0
  BY <1>2, ChunkFacts DEF CaptureInv
<1>4. CASE Chunk = 0
  <2> DEFINE step == IF collector.finalizing THEN "check" ELSE "idle"
  <2>1. /\ collector' = [collector EXCEPT !.pc = step]
        /\ UNCHANGED <<ring, utterance>>
    BY <1>4 DEF Read, CollectorGoes
  <2>2. /\ collector' \in CollectorType /\ collector'.pc = step
        /\ collector'.end = "none" /\ collector'.finalizing = collector.finalizing
    BY <1>1, <2>1 DEF CollectorType
  <2>3. Held' = Held /\ Kept' = Kept /\ Held = Len(utterance)
    BY <1>2, <1>3, <1>4, <2>1 DEF Held, Kept
  <2>4. Types' /\ WholeFrames' /\ ClaimFits' /\ EndIsDone' /\ FinalizedGapFree'
    BY <1>1, <2>1, <2>2
       DEF CaptureInv, Types, WholeFrames, ClaimFits, EndIsDone, FinalizedGapFree
  <2>5. Counted' /\ InOrder'
    BY <1>1, <2>1, <2>2, <2>3 DEF CaptureInv, Counted, InOrder
  <2>6. ReturnedIsHeld'
    BY <1>1, <2>1, <2>2, <2>3 DEF CaptureInv, ReturnedIsHeld
  <2> QED
    BY <2>4, <2>5, <2>6 DEF CaptureInv
<1>5. CASE Chunk # 0
  <2> DEFINE h == SubSeq(ring, 1, Chunk)
             t == SubSeq(ring, Chunk + 1, Len(ring))
  <2>1. /\ h \in Seq(AnySample) /\ Len(h) = Chunk
        /\ t \in Seq(AnySample) /\ Len(t) = Len(ring) - Chunk
        /\ utterance \o h \in Seq(AnySample) /\ Len(utterance \o h) = Len(utterance) + Chunk
        /\ (utterance \o h) \o t = utterance \o ring
    <3>1. Chunk \in 0 .. Len(ring)
      BY <1>2, <1>3
    <3> QED
      BY <1>2, <3>1, MoveHead
  <2>2. ring' = t /\ PushInterleaved(h)
    BY <1>5 DEF Read
  <2> HIDE DEF h, t
  <2>3. (Len(ring) - Chunk) % Channels = 0 /\ (Len(utterance) + Chunk) % Channels = 0
    BY <1>2, <1>3, WholeFramesAdd
  <2>4. ring' \in Seq(AnySample) /\ Len(ring') <= Len(ring) /\ Len(ring') % Channels = 0
    BY <1>2, <1>3, <2>1, <2>2, <2>3
  <2>5. CASE End("UtteranceTooLong") /\ UNCHANGED utterance
    <3>1. /\ collector' \in CollectorType /\ collector'.pc = "done"
          /\ collector'.end = "UtteranceTooLong"
      BY <1>1, <2>5 DEF CollectorType, End, Ends
    <3> QED
      BY <1>1, <2>4, <2>5, <3>1, FailureKeepsInv
  <2>6. CASE utterance' = utterance \o h /\ UNCHANGED collector
    <3>1. /\ Held' = Held /\ Kept' = Kept
          /\ Len(utterance') = Len(utterance) + Chunk
      <4>1. Len(utterance') = Len(utterance) + Chunk /\ Len(ring') = Len(ring) - Chunk
        BY <2>1, <2>2, <2>6
      <4>2. utterance' \o ring' = utterance \o ring
        BY <2>1, <2>2, <2>6
      <4> QED
        BY <1>2, <1>3, <4>1, <4>2 DEF Held, Kept
    <3>2. Types'
      BY <1>1, <2>1, <2>4, <2>6 DEF CaptureInv, Types
    <3>3. WholeFrames'
      BY <1>1, <2>3, <2>4, <3>1 DEF CaptureInv, WholeFrames
    <3>4. ClaimFits'
      <4>1. Len(ring') \in Nat
        BY <2>4
      <4> QED
        BY <1>1, <1>2, <2>4, <4>1 DEF CaptureInv, ClaimFits, Quiet
    <3>5. EndIsDone' /\ FinalizedGapFree'
      BY <1>1, <2>6 DEF CaptureInv, EndIsDone, FinalizedGapFree
    <3>6. Counted' /\ ReturnedIsHeld' /\ InOrder'
      BY <1>1, <2>6, <3>1 DEF CaptureInv, Counted, ReturnedIsHeld, InOrder
    <3> QED
      BY <3>2, <3>3, <3>4, <3>5, <3>6 DEF CaptureInv
  <2> QED
    BY <1>3, <2>1, <2>2, <2>5, <2>6 DEF PushInterleaved
<1> QED
  BY <1>4, <1>5

(* The counters are judged when the ring was found empty.                  *)
LEMMA CheckKeepsInv == ASSUME CaptureInv, CheckIntegrity PROVE CaptureInv'
<1>1. /\ collector \in CollectorType /\ collector.pc = "check" /\ collector.end = "none"
      /\ metrics \in MetricsType /\ returned \in Int /\ Held \in Nat
      /\ ring \in Seq(AnySample) /\ utterance \in Seq(AnySample)
      /\ Len(ring) \in Nat /\ Len(utterance) \in Nat
  BY DEF CaptureInv, Types, CollectorType, EndIsDone, CheckIntegrity, CollectorAt, Held
<1>2. UNCHANGED <<heard, ring, callback, metrics, utterance, returned>>
  BY DEF CheckIntegrity, deviceVars
<1>3. CASE End("CaptureIntegrity") \/ End("EmptyUtterance")
  BY <1>2, <1>3, EndKeepsInv DEF Ends
<1>4. CASE End("Finalized") /\ metrics.dropped = 0 /\ metrics.errors = 0
  <2>1. /\ collector' \in CollectorType /\ collector'.pc = "done"
        /\ collector'.end = "Finalized"
    BY <1>1, <1>4 DEF CollectorType, End, Ends
  <2>2. Types' /\ WholeFrames' /\ ClaimFits' /\ EndIsDone'
    BY <1>2, <2>1 DEF CaptureInv, Types, WholeFrames, ClaimFits, EndIsDone
  <2>3. Counted'
    BY <1>1, <1>2, <2>1 DEF CaptureInv, Counted, Held
  <2>4. ReturnedIsHeld'
    BY <1>1, <1>2, <1>4, <2>1 DEF CaptureInv, ReturnedIsHeld
  <2>5. InOrder'
    BY <2>1 DEF InOrder
  <2>6. FinalizedGapFree'
    <3>1. utterance \o ring = Samples(0, Len(ring) + Len(utterance))
      BY <1>1, <1>4 DEF CaptureInv, InOrder, Kept, Held
    <3>2. utterance = Samples(0, Len(utterance))
      BY <1>1, <3>1, SamplesPrefix
    <3> QED
      BY <1>2, <3>2 DEF FinalizedGapFree, Samples
  <2> QED
    BY <2>2, <2>3, <2>4, <2>5, <2>6 DEF CaptureInv
<1>5. ~(metrics.dropped > 0 \/ metrics.errors > 0) => metrics.dropped = 0 /\ metrics.errors = 0
  BY <1>1 DEF MetricsType
<1> QED
  BY <1>3, <1>4, <1>5 DEF CheckIntegrity

(* The runtime drops the collector.                                        *)
LEMMA DiscardKeepsInv == ASSUME CaptureInv, Discard PROVE CaptureInv'
<1>1. End("Discarded") /\ UNCHANGED <<heard, ring, callback, metrics, utterance, returned>>
  BY DEF Discard, deviceVars
<1> QED
  BY <1>1, EndKeepsInv DEF Ends

(* Every step of the capture keeps the invariant.                          *)
LEMMA NextKeepsCaptureInv ==
  ASSUME CaptureInv, [CaptureNext]_captureVars PROVE CaptureInv'
<1>1. CASE UNCHANGED captureVars
  BY <1>1, UnchangedKeepsInv DEF captureVars
<1>2. ASSUME NEW listed, NEW usable, NEW reported, DiscoverHost(listed, usable, reported)
      PROVE  CaptureInv'
  BY <1>2, UnchangedKeepsInv DEF DiscoverHost, deviceVars, workerVars
<1>3. CASE Callback
  <2>1. ASSUME NEW n \in BufferSizes, IngestTyped(n)
        PROVE  CaptureInv'
    BY <2>1, IngestTypedKeepsInv, CaptureAssumption
  <2>2. ASSUME NEW n \in {0} \cup BufferSizes, IngestUnusable(n)
        PROVE  CaptureInv'
    BY <2>2, IngestUnusableKeepsInv, CaptureAssumption
  <2> QED
    BY <1>3, <2>1, <2>2, CommitKeepsInv, RecordReceivedKeepsInv, RecordDroppedKeepsInv
       DEF Callback
<1>4. CASE Collect
  BY <1>4, PumpKeepsInv, FinalizeKeepsInv, ReadKeepsInv, CheckKeepsInv, DiscardKeepsInv
     DEF Collect
<1> QED
  BY <1>1, <1>2, <1>3, <1>4, StartKeepsInv, RecordErrorKeepsInv DEF CaptureNext

(* The invariant holds of every recording.                                 *)
THEOREM CaptureInvariant == CaptureSpec => []CaptureInv
BY InitCaptureInv, NextKeepsCaptureInv, PTL DEF CaptureSpec

---------------------------------------------------------------------------
(* A recording that passes finalize is what the microphone delivered, from *)
(* its start on and without a gap.                                         *)
THEOREM RecordingsAreGapFree == CaptureSpec => []FinalizedGapFree
<1>1. CaptureInv => FinalizedGapFree
  BY DEF CaptureInv
<1> QED
  BY <1>1, CaptureInvariant, PTL

(* It holds everything that had been counted when the stream was paused.   *)
THEOREM RecordingsAreComplete == CaptureSpec => []NothingReturnedIsLost
<1>1. CaptureInv => NothingReturnedIsLost
  BY DEF CaptureInv, Types, ReturnedIsHeld, NothingReturnedIsLost
<1> QED
  BY <1>1, CaptureInvariant, PTL

(* Between two callbacks the counters account for every sample, and the    *)
(* ring and the utterance hold whole frames.                               *)
THEOREM CountersAccount == CaptureSpec => []LossIsCounted
<1>1. CaptureInv => LossIsCounted
  <2> SUFFICES ASSUME CaptureInv, callback = Quiet, collector.end \in {"none", "Finalized"}
               PROVE  /\ metrics.received = metrics.dropped + Len(ring) + Len(utterance)
                      /\ Len(ring) % Channels = 0 /\ Len(utterance) % Channels = 0
    BY DEF LossIsCounted
  <2>1. callback.pc = "idle" /\ metrics.received = metrics.dropped + Held
    BY DEF CaptureInv, Counted, Quiet
  <2>2. metrics.dropped \in Nat /\ Len(ring) \in Nat /\ Len(utterance) \in Nat
    BY DEF CaptureInv, Types, MetricsType
  <2> QED
    BY <2>1, <2>2 DEF CaptureInv, WholeFrames, Held
<1> QED
  BY <1>1, CaptureInvariant, PTL
=============================================================================
