-------------------------- MODULE PredictionExport --------------------------
(***************************************************************************)
(* anom_session_predict_batch and anom_prediction_release                  *)
(* (src/src/c_api/anom_engine.cpp): predictions are handed to the caller   *)
(* in an array of anom_prediction_t structures of the caller's own.  Each  *)
(* one filled owns a PredictionStorage through its field "internal", which *)
(* the caller gives back with anom_prediction_release.  A call fills all   *)
(* the structures it was given or none.                                    *)
(***************************************************************************)
EXTENDS InferenceSession

CONSTANTS
  Batches,  \* the image arrays a caller may pass
  Slots     \* bound: structures in the caller's array

\* A caller has a structure for every image it passes.
ASSUME CallerAssumption ==
  /\ Slots \in Nat
  /\ \A batch \in Batches : batch \in Seq(Images) /\ Len(batch) <= Slots

VARIABLES
  slots,     \* the caller's structures
  heap,      \* the live PredictionStorage objects, by address
  request,   \* the images of the call in progress, or of the last one
  exported,  \* structures filled by the call in progress
  answer,    \* what the last call returned; "none" during a call
  before     \* history: slots when the call was made

exportVars == <<slots, heap, request, exported, answer, before>>

Null == 0
Addresses == 1 .. 2 * Slots
Unused == [sized |-> TRUE, internal |-> Null]

InitExport ==
  /\ slots \in [1 .. Slots -> {Unused, [Unused EXCEPT !.sized = FALSE]}]
  /\ heap = <<>> /\ request = <<>> /\ exported = 0 /\ answer = "none" /\ before = slots

\* The checks of the whole array before anything is done
Compatible(batch) ==
  \A i \in DOMAIN batch :
    batch[i].descriptor # "undersized" /\ slots[i].sized /\ slots[i].internal = Null

\* convertImage of every image
Convertible(batch) == \A i \in DOMAIN batch : batch[i].descriptor # "invalid"

CallRefused ==
  /\ phase = "idle"
  /\ \E batch \in Batches :
       /\ ~Compatible(batch) \/ ~Convertible(batch)
       /\ request' = batch
  /\ answer' = "error" /\ before' = slots /\ exported' = 0
  /\ UNCHANGED <<sessionVars, slots, heap>>

CallPredict ==
  /\ \E batch \in Batches :
       /\ Compatible(batch) /\ Convertible(batch)
       /\ Submit(batch) /\ request' = batch
  /\ answer' = "none" /\ before' = slots /\ exported' = 0
  /\ UNCHANGED <<slots, heap>>

Released(slot) == [sized |-> slot.sized, internal |-> Null]

\* (A mutant: the storage is deleted and the pointer to it left.)
DeleteAll(indices) ==
  /\ slots' = slots
  /\ heap' = [a \in DOMAIN heap \ {slots[i].internal : i \in indices} |-> heap[a]]

\* delete internal, and zero everything but struct_size
ReleaseAll(indices) ==
  /\ slots' = [i \in DOMAIN slots |-> IF i \in indices THEN Released(slots[i]) ELSE slots[i]]
  /\ heap' = [a \in DOMAIN heap \ {slots[i].internal : i \in indices} |-> heap[a]]

Answer(status) == answer' = status /\ UNCHANGED <<request, exported, before>>

\* exportPrediction of the next one: the storage is complete before the
\* structure is touched
ExportNext ==
  /\ phase = "done" /\ exported < Len(request) /\ Len(results) = Len(request)
  /\ LET next == exported + 1
         address == CHOOSE a \in Addresses \ DOMAIN heap : TRUE
     IN  /\ slots[next].sized /\ slots[next].internal = Null
         /\ heap' = [a \in DOMAIN heap \union {address} |->
                       IF a = address THEN results[next] ELSE heap[a]]
         /\ slots' = [slots EXCEPT ![next].internal = address]
         /\ exported' = next
  /\ UNCHANGED <<sessionVars, request, answer, before>>

\* One export fails: out of memory, or a structure that is in use after all
ExportFails ==
  /\ phase = "done" /\ exported < Len(request)
  /\ ReleaseAll(1 .. exported)
  /\ Answer("error") /\ Finish

CallSucceeds ==
  /\ phase = "done" /\ exported = Len(request)
  /\ Answer("ok") /\ Finish
  /\ UNCHANGED <<slots, heap>>

CallFails ==
  /\ phase = "failed"
  /\ Answer("error") /\ Finish
  /\ UNCHANGED <<slots, heap>>

\* The caller may release a structure whether or not it holds a prediction
Release ==
  /\ phase = "idle"
  /\ \E i \in DOMAIN slots : ReleaseAll({i})
  /\ request' = <<>> /\ exported' = 0 /\ answer' = "none" /\ before' = slots'
  /\ UNCHANGED sessionVars

ExportStep == CallRefused \/ CallPredict \/ ExportNext \/ ExportFails
              \/ CallSucceeds \/ CallFails \/ Release

-----------------------------------------------------------------------------
(* What one image deserves, computed from that image alone. *)

Nearest(x) == Distance(x, Bank[Search(x)[1]])

PatchCoreReference(features) ==
  LET map == [l \in DOMAIN features |-> Nearest(features[l])]
      worst == CHOOSE l \in DOMAIN map :
                 /\ \A o \in DOMAIN map : map[o] <= map[l]
                 /\ \A o \in 1 .. l - 1 : map[o] < map[l]
      matched == Bank[Search(features[worst])[1]]
      support == [k \in 1 .. Neighbors |-> Distance(matched, Bank[Search(matched)[k]])]
  IN  [score |-> Weighted(map[worst], support), map |-> map]

RawReference(algorithm, features) ==
  CASE algorithm = "direct" -> [score |-> [value |-> features[1], weight |-> <<>>],
                                map |-> features]
    [] algorithm = "padim" -> Padim(features)
    [] algorithm = "patchcore" -> PatchCoreReference(features)

Reference(image) == Postprocessed(RawReference(session.algorithm, image.features))

\* A call that returned OK has put in the i-th structure the prediction of the
\* i-th image, the one that image alone would get, however the images were cut
\* into chunks and on whichever device it was computed; a call that returned
\* an error has left every structure as it found it.
AllOrNothing ==
  /\ answer = "ok" => \A i \in DOMAIN request :
       /\ slots[i].internal \in DOMAIN heap
       /\ heap[slots[i].internal] = Reference(request[i])
  /\ answer = "error" => slots = before

\* Every PredictionStorage belongs to exactly one structure, so that the
\* caller's releases free each of them once: nothing leaks, not even when the
\* n-th export fails, and no structure points at storage already deleted.
StorageOwnedOnce ==
  /\ \A a \in DOMAIN heap : Cardinality({i \in DOMAIN slots : slots[i].internal = a}) = 1
  /\ \A i \in DOMAIN slots : slots[i].internal = Null \/ slots[i].internal \in DOMAIN heap
=============================================================================
