----------------------------- MODULE Calibrator -----------------------------
(***************************************************************************)
(* The calibrator (src/src/c_api/model_management.cpp): it runs an         *)
(* inference session over normal images, keeps every raw image score and a *)
(* reservoir of raw pixel scores, and computes ranges and thresholds from  *)
(* them.                                                                   *)
(*                                                                         *)
(* add_batch keeps what it has taken when it fails in the middle (a        *)
(* non-finite pixel, no memory).  Samples are numbers; each is kept        *)
(* together with where it comes from, which the code forgets.              *)
(***************************************************************************)
EXTENDS InferenceSession

CONSTANTS
  CalibrationBatches,  \* the image arrays a caller may pass
  MaxPixelSamples,     \* options.max_pixel_samples
  Reserved,            \* places of the reservoir that create allocates
  RateNum, RateDen,    \* options.target_false_positive_rate, as a fraction
  MaxCalls,            \* bound: add_batch calls that reach the session
  MaxDraws             \* bound: pixels offered whose selections are enumerated

\* create refuses any other rate, and puts a default in the place of zero samples
ASSUME RateAssumption == RateNum \in Nat \ {0} /\ RateDen \in Nat /\ RateNum < RateDen
ASSUME SamplesAssumption == MaxPixelSamples \in Nat /\ Reserved \in 1 .. MaxPixelSamples
ASSUME DrawsAssumption == MaxDraws \in Nat
ASSUME CalibrationAssumption == CalibrationBatches \subseteq Seq(Images)

VARIABLES
  imageScores,  \* [value, call, image]: all image scores kept
  pixelScores,  \* [value, call, image, at]: the reservoir
  seenPixels,   \* pixels counted
  lost,         \* history: pixels counted for which there was no memory
  consumed,     \* predictions of the current call taken, and pixels of the last one
  calls,        \* history: for each call, its images, and what it returned
  result        \* what compute has returned, or NoResult

calibratorVars == <<imageScores, pixelScores, seenPixels, lost, consumed, calls, result>>

NoResult == [computed |-> FALSE]
Nothing == [image |-> 0, pixels |-> 0]

InitCalibrator ==
  /\ imageScores = <<>> /\ pixelScores = <<>> /\ seenPixels = 0 /\ lost = 0
  /\ consumed = Nothing /\ calls = <<>> /\ result = NoResult

AddBatch ==
  /\ Len(calls) < MaxCalls
  /\ \E batch \in CalibrationBatches :
       /\ \A i \in DOMAIN batch : batch[i].descriptor = "valid"
       /\ Submit(batch)
       /\ calls' = Append(calls, [images |-> batch, status |-> "running"])
  /\ consumed' = Nothing /\ result' = NoResult
  /\ UNCHANGED <<imageScores, pixelScores, seenPixels, lost>>

\* (A mutant: the bound of the distribution is off by one.)
SelectableOneMore(seen) == 0 .. seen

\* What the random engine may select when this many pixels have been seen,
\* the one at hand included
Selectable(seen) == 0 .. seen - 1

\* One pixel offered to the reservoir (Algorithm R)
Offered(reservoir, pixel, selected) ==
  IF Len(reservoir) < MaxPixelSamples THEN Append(reservoir, pixel)
  ELSE IF selected < MaxPixelSamples THEN [reservoir EXCEPT ![selected + 1] = pixel]
  ELSE reservoir

Current == results[consumed.image]
ImageTaken ==
  consumed.pixels = IF consumed.image = 0 THEN 0 ELSE Len(Current.rawMap)
AllTaken == ImageTaken /\ consumed.image = Len(results)

Return(status) ==
  /\ Finish
  /\ calls' = [calls EXCEPT ![Len(calls)].status = status]
  /\ consumed' = Nothing

\* The score of an image is taken before its pixels. (A non-finite one has
\* been refused by the postprocessor.)
TakeScore ==
  /\ phase = "done" /\ ImageTaken /\ ~AllTaken
  /\ LET next == consumed.image + 1
     IN  /\ imageScores' = Append(imageScores,
              [value |-> results[next].rawScore.value, call |-> Len(calls), image |-> next])
         /\ consumed' = [image |-> next, pixels |-> 0]
  /\ UNCHANGED <<sessionVars, pixelScores, seenPixels, lost, calls, result>>

TakePixel ==
  /\ phase = "done" /\ ~ImageTaken
  /\ LET at == consumed.pixels + 1
         pixel == [value |-> Current.rawMap[at], call |-> Len(calls),
                   image |-> consumed.image, at |-> at]
     IN  /\ pixel.value # NaN
         /\ seenPixels' = seenPixels + 1
         /\ \E selected \in Selectable(seenPixels') :
              pixelScores' = Offered(pixelScores, pixel, selected)
         /\ consumed' = [consumed EXCEPT !.pixels = at]
  /\ UNCHANGED <<sessionVars, imageScores, lost, calls, result>>

\* (A mutant: the failing image's score is taken back, its pixels are not.)
TakeFailsWithoutScore ==
  /\ phase = "done" /\ ~AllTaken
  /\ Return("error")
  /\ imageScores' = IF consumed.image = 0 THEN imageScores ELSE Front(imageScores)
  /\ UNCHANGED <<pixelScores, seenPixels, lost, result>>

\* A pixel that is not finite; no memory for the next score; or none for a
\* pixel, which has been counted by then: the reservoir grows when the places
\* reserved at first are taken
TakeFails ==
  /\ phase = "done" /\ ~AllTaken
  /\ Return("error")
  /\ LET pixel == Current.rawMap[consumed.pixels + 1]
     IN  \/ ImageTaken /\ UNCHANGED <<seenPixels, lost>>
         \/ ~ImageTaken /\ pixel = NaN /\ UNCHANGED <<seenPixels, lost>>
         \/ /\ ~ImageTaken /\ pixel # NaN
            /\ Len(pixelScores) \in Reserved .. MaxPixelSamples - 1
            /\ seenPixels' = seenPixels + 1 /\ lost' = lost + 1
  /\ UNCHANGED <<imageScores, pixelScores, result>>

BatchTaken ==
  /\ phase = "done" /\ AllTaken
  /\ Return("ok")
  /\ UNCHANGED <<imageScores, pixelScores, seenPixels, lost, result>>

PredictionFails ==
  /\ phase = "failed"
  /\ Return("error")
  /\ UNCHANGED <<imageScores, pixelScores, seenPixels, lost, result>>

-----------------------------------------------------------------------------
(* compute *)

Values(samples) == [i \in DOMAIN samples |-> samples[i].value]

\* Values in increasing order: the k-th of them is one that fewer than k are
\* below, and k or more are not above
Sorted(values) ==
  [k \in DOMAIN values |->
     CHOOSE v \in ToSet(values) : /\ Cardinality({i \in DOMAIN values : values[i] < v}) < k
                                 /\ k <= Cardinality({i \in DOMAIN values : values[i] <= v})]

\* (A mutant: the last of the first (1 - rate) * n samples, counted from 0.)
QuantileOfAll(values) ==
  Sorted(values)[((RateDen - RateNum) * Len(values)) \div RateDen + 1]

\* Sorted, the element at floor((1 - rate) * (n - 1)), counted from 0
Quantile(values) ==
  Sorted(values)[((RateDen - RateNum) * (Len(values) - 1)) \div RateDen + 1]

\* Smallest and largest, moved apart when they are the same; one is the
\* smallest difference the model can tell
ScoreRange(values) ==
  LET lowest == Min(ToSet(values))
      highest == Max(ToSet(values))
  IN  IF highest <= lowest THEN <<lowest - 1, highest + 1>> ELSE <<lowest, highest>>

Statistics(values) == [range |-> ScoreRange(values), threshold |-> Quantile(values)]
\* (The threshold is a half in the code; has_pixel_statistics is zero then, and
\* nobody reads it.)
NoPixelStatistics == [range |-> <<0, 1>>, threshold |-> 0]

Compute ==
  /\ phase = "idle" /\ imageScores # <<>> /\ ~result.computed
  /\ result' = [computed |-> TRUE,
                samples |-> Len(imageScores),
                image |-> Statistics(Values(imageScores)),
                hasPixels |-> pixelScores # <<>>,
                pixel |-> IF pixelScores = <<>> THEN NoPixelStatistics
                          ELSE Statistics(Values(pixelScores))]
  /\ UNCHANGED <<sessionVars, imageScores, pixelScores, seenPixels, lost, consumed, calls>>

CalibratorStep == AddBatch \/ TakeScore \/ TakePixel \/ TakeFails \/ BatchTaken
                  \/ PredictionFails \/ Compute

-----------------------------------------------------------------------------
(* Properties *)

\* The finite pixels of an image, as far as add_batch reads them
Readable(features) ==
  {at \in DOMAIN features : \A o \in 1 .. at : features[o] # NaN}

\* The image scores kept are, for every call, those of a beginning of its
\* batch, in order and each once: all of it when the call returned OK, and
\* possibly some of it when it failed.  No pixel in the reservoir comes from an
\* image whose score is not counted.
SamplesArePrefixes ==
  /\ \A c \in DOMAIN calls :
       LET batch == calls[c].images
           kept == {i \in DOMAIN imageScores : imageScores[i].call = c}
           taken == {imageScores[i].image : i \in kept}
       IN  /\ taken \subseteq DOMAIN batch
           /\ \A i \in kept : imageScores[i].value = batch[imageScores[i].image].features[1]
           /\ \A i, j \in kept : i < j => imageScores[i].image < imageScores[j].image
           /\ \A n \in taken : 1 .. n \subseteq taken
           /\ calls[c].status = "ok" => taken = DOMAIN batch
  /\ \A p \in ToSet(pixelScores) :
       /\ \E s \in ToSet(imageScores) : s.call = p.call /\ s.image = p.image
       /\ LET features == calls[p.call].images[p.image].features
          IN  p.at \in Readable(features) /\ p.value = features[p.at]

\* What the random engine may select for the first n pixels offered, one index
\* for each, and the reservoir that this leaves of the pixels 1 .. n
Draws[n \in 0 .. MaxDraws] ==
  IF n = 0 THEN {[selected |-> <<>>, kept |-> <<>>]}
  ELSE {[selected |-> Append(d.selected, c), kept |-> Offered(d.kept, n, c)] :
          d \in Draws[n - 1], c \in Selectable(n)}

\* All draws are equally likely, so a pixel's chance is the number of draws
\* that keep it.
Keeping(p, draws) == {d \in draws : p \in ToSet(d.kept)}
Fair == [n \in 0 .. MaxDraws |->
           LET draws == Draws[n]
               times == [p \in 1 .. n |-> Cardinality(Keeping(p, draws))]
           IN  \A p, q \in 1 .. n : times[p] = times[q]]

\* As many pixels as there have been, up to the limit, and no two the same; a
\* pixel is lost to want of memory only when the reserved places are taken.
ReservoirDistinct ==
  /\ Len(pixelScores) =
       IF seenPixels - lost < MaxPixelSamples THEN seenPixels - lost ELSE MaxPixelSamples
  /\ lost > 0 => Len(pixelScores) >= Reserved
  /\ \A i, j \in DOMAIN pixelScores :
       /\ pixelScores[i].call = pixelScores[j].call
       /\ pixelScores[i].image = pixelScores[j].image
       /\ pixelScores[i].at = pixelScores[j].at
       => i = j

\* The reservoir is a sample of the pixels seen by all calls together, the failed
\* ones included: different pixels, as many as have been seen up to
\* max_pixel_samples, but for those lost to want of memory.  As long as none is
\* lost it is a fair one: every pixel seen has the same chance to be in it.
ReservoirFair ==
  ReservoirDistinct /\ (lost = 0 /\ seenPixels <= MaxDraws => Fair[seenPixels])

\* The same for a reservoir that has filled up when l of the pixels counted had
\* been lost: it holds the others, numbered 1 .. MaxPixelSamples here.
LossyDraws[l \in 0 .. MaxDraws, n \in 0 .. MaxDraws] ==
  IF n <= MaxPixelSamples + l
    THEN {[selected |-> <<>>, kept |-> [i \in 1 .. MaxPixelSamples |-> i]]}
  ELSE {[selected |-> Append(d.selected, c), kept |-> Offered(d.kept, n, c)] :
          d \in LossyDraws[l, n - 1], c \in Selectable(n)}

\* "Pixel scores use deterministic reservoir sampling bounded by max_pixel_samples"
\* (src/docs/cabi-model-lifecycle.md:132): whatever was lost before, every pixel
\* offered to the reservoir has the same chance to be in it.  The code counts the
\* lost pixels, and selects among too many from then on.
ReservoirSampling ==
  Len(pixelScores) = MaxPixelSamples /\ seenPixels <= MaxDraws =>
    LET draws == LossyDraws[lost, seenPixels]
        offered == 1 .. MaxPixelSamples \cup MaxPixelSamples + lost + 1 .. seenPixels
    IN  \A p, q \in offered : Cardinality(Keeping(p, draws)) = Cardinality(Keeping(q, draws))

\* What compute returns can be put in a package (apply_calibration demands a
\* minimum below the maximum), and its thresholds are those of the target rate:
\* of n samples at most ceil(rate * (n - 1)) lie above the threshold, and with
\* those equal to it they are more than that.
ThresholdsUsable ==
  LET Usable(values, statistics) ==
        LET n == Len(values)
            allowed == (RateNum * (n - 1) + RateDen - 1) \div RateDen
        IN  /\ statistics.range[1] < statistics.range[2]
            /\ statistics.range[1] <= statistics.threshold
            /\ statistics.threshold <= statistics.range[2]
            /\ Cardinality({i \in 1 .. n : values[i] > statistics.threshold}) <= allowed
            /\ Cardinality({i \in 1 .. n : values[i] >= statistics.threshold}) > allowed
  IN  result.computed =>
        /\ result.samples = Len(imageScores)
        /\ Usable(Values(imageScores), result.image)
        /\ result.hasPixels <=> seenPixels > 0
        /\ result.hasPixels => Usable(Values(pixelScores), result.pixel)
=============================================================================
