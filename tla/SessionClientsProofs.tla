------------------------ MODULE SessionClientsProofs ------------------------
(***************************************************************************)
(* Proofs about the clients of a session (SessionClients), for any images, *)
(* networks, chunk sizes, numbers of structures, batches, rates and        *)
(* reservoirs:                                                             *)
(*   - who owns the storage of a prediction, and what a failed call leaves *)
(*     behind (IInv);                                                      *)
(*   - what a prediction is: that of its image alone, whatever chunk it    *)
(*     was computed in and on whatever device (SInv), and so what a call   *)
(*     that succeeds delivers;                                             *)
(*   - what the calibrator keeps of the calls it made (KInv), the chance   *)
(*     of a pixel to be kept, and what is computed from that.              *)
(***************************************************************************)
EXTENDS SessionClients, FiniteSetTheorems, SequenceTheorems, TLAPS

Indices == 1 .. Slots
SlotType == [sized : BOOLEAN, internal : Addresses \union {Null}]

ExportTypes ==
  /\ slots \in [Indices -> SlotType] /\ before \in [Indices -> SlotType]
  /\ DOMAIN heap \subseteq Addresses
  /\ request \in Seq(Images) /\ Len(request) <= Slots
  /\ exported \in 0 .. Len(request)

(* Pointers and storage objects match one to one.                          *)
Matched ==
  /\ \A i \in Indices : slots[i].internal # Null => slots[i].internal \in DOMAIN heap
  /\ \A i, j \in Indices :
       slots[i].internal = slots[j].internal /\ slots[i].internal # Null => i = j
  /\ \A a \in DOMAIN heap : \E i \in Indices : slots[i].internal = a

(* A call in progress has touched only the structures it has filled, and   *)
(* these were empty.                                                       *)
Untouched(i) == slots[i] = before[i]
Filled(i) == slots[i].sized = before[i].sized /\ before[i].internal = Null
CallLocal ==
  /\ phase # "idle" => /\ answer # "error"
                       /\ \A i \in Indices : IF i <= exported THEN Filled(i) ELSE Untouched(i)
  /\ phase \notin {"idle", "done"} => exported = 0
  /\ client = "calibrate" => answer # "error" /\ exported = 0 /\ slots = before
  /\ answer = "error" => slots = before

IInv == ExportTypes /\ Matched /\ CallLocal

-----------------------------------------------------------------------------
(* Operators. *)

LEMMA SlotFields ==
  /\ \A s \in SlotType : /\ s.sized \in BOOLEAN /\ s.internal \in Addresses \union {Null}
                         /\ s = [sized |-> s.sized, internal |-> s.internal]
  /\ \A s \in SlotType : /\ Released(s) \in SlotType
                         /\ Released(s).sized = s.sized /\ Released(s).internal = Null
  /\ \A s \in SlotType, a \in Addresses :
       LET t == [s EXCEPT !.internal = a]
       IN  t \in SlotType /\ t.sized = s.sized /\ t.internal = a
  BY DEF SlotType, Released

LEMMA AddressFacts == Null \notin Addresses /\ IsFiniteSet(Addresses) /\ Cardinality(Addresses) = 2 * Slots
<1>1. Slots \in Nat /\ 2 * Slots \in Int /\ (1 > 2 * Slots => Slots = 0)
  BY CallerAssumption
<1>2. IsFiniteSet(1 .. 2 * Slots) /\ Cardinality(1 .. 2 * Slots) = IF 1 > 2 * Slots THEN 0 ELSE 2 * Slots - 1 + 1
  BY <1>1, FS_Interval
<1> QED
  BY <1>1, <1>2 DEF Addresses, Null

(* There is an address left as long as a structure is empty.               *)
LEMMA AddressLeft ==
  ASSUME ExportTypes, Matched, NEW next \in Indices
  PROVE  (CHOOSE a \in Addresses \ DOMAIN heap : TRUE) \in Addresses \ DOMAIN heap
<1>1. Slots \in Nat /\ Slots >= 1
  BY CallerAssumption DEF Indices
<1>2. IsFiniteSet(Indices) /\ Cardinality(Indices) = Slots
  BY <1>1, FS_Interval DEF Indices
<1> DEFINE held == {i \in Indices : slots[i].internal \in DOMAIN heap}
           owner == [i \in held |-> slots[i].internal]
<1>3. IsFiniteSet(held) /\ Cardinality(held) <= Slots
  BY <1>2, FS_Subset
<1>4. owner \in Surjection(held, DOMAIN heap)
  BY DEF Matched, Surjection
<1>5. IsFiniteSet(DOMAIN heap) /\ Cardinality(DOMAIN heap) <= Cardinality(held)
  BY <1>3, <1>4, FS_Surjection
<1>6. Cardinality(held) \in Nat /\ Cardinality(DOMAIN heap) \in Nat
  BY <1>3, <1>5, FS_CardinalityType
<1>7. DOMAIN heap # Addresses
  BY <1>1, <1>3, <1>5, <1>6, AddressFacts
<1>8. \E a : a \in Addresses \ DOMAIN heap
  BY <1>7 DEF ExportTypes
<1> QED
  BY <1>8

(* The structures released lose their storage, the others keep theirs.     *)
LEMMA ReleaseMatched ==
  ASSUME ExportTypes, Matched, NEW indices, indices \subseteq Indices, ReleaseAll(indices)
  PROVE  /\ slots' \in [Indices -> SlotType]
         /\ DOMAIN heap' \subseteq Addresses
         /\ Matched'
         /\ \A i \in Indices :
              slots'[i] = IF i \in indices THEN Released(slots[i]) ELSE slots[i]
<1>1. \A i \in Indices : slots'[i] = IF i \in indices THEN Released(slots[i]) ELSE slots[i]
  BY DEF ReleaseAll, ExportTypes
<1>2. DOMAIN heap' = DOMAIN heap \ {slots[i].internal : i \in indices}
  BY DEF ReleaseAll
<1>3. slots' \in [Indices -> SlotType]
  BY <1>1, SlotFields DEF ReleaseAll, ExportTypes
<1>4. \A i \in Indices : slots'[i].internal = IF i \in indices THEN Null ELSE slots[i].internal
  BY <1>1, SlotFields DEF ExportTypes
<1>5. \A i \in Indices : slots'[i].internal # Null => slots'[i].internal \in DOMAIN heap'
  BY <1>2, <1>4 DEF Matched
<1>6. \A i, j \in Indices :
        slots'[i].internal = slots'[j].internal /\ slots'[i].internal # Null => i = j
  BY <1>4 DEF Matched
<1>7. ASSUME NEW a \in DOMAIN heap'
      PROVE  \E i \in Indices : slots'[i].internal = a
  <2>1. PICK i \in Indices : slots[i].internal = a
    BY <1>2 DEF Matched
  <2>2. i \notin indices
    BY <1>2, <2>1
  <2> QED
    BY <1>4, <2>1, <2>2
<1> QED
  BY <1>1, <1>2, <1>3, <1>5, <1>6, <1>7 DEF ExportTypes, Matched

-----------------------------------------------------------------------------
(* The steps of a call. *)

(* Where predictBatch goes.                                                *)
LEMMA SessionPhases ==
  ASSUME SessionStep
  PROVE  phase \notin {"idle", "done"} /\ phase' # "idle"
  BY DEF SessionStep, Preprocess, Infer, StageFails, Adapt, Postprocess

LEMMA SessionKeeps ==
  ASSUME IInv, SessionStep, UNCHANGED <<client, exportVars>>
  PROVE  IInv'
  BY SessionPhases
     DEF IInv, ExportTypes, Matched, CallLocal, Filled, Untouched, exportVars

LEMMA CalibratorKeeps ==
  ASSUME IInv, client = "calibrate", CalibratorStep, UNCHANGED <<client, exportVars>>
  PROVE  IInv'
<1>1. UNCHANGED <<client, slots, heap, request, exported, answer, before>>
  BY DEF exportVars
<1>2. ExportTypes' /\ Matched'
  BY <1>1 DEF IInv, ExportTypes, Matched
<1>3. answer # "error" /\ exported = 0 /\ slots = before
  BY DEF IInv, CallLocal
<1>4. \A i \in Indices : ~(i <= 0)
  BY CallerAssumption DEF Indices
<1>5. CallLocal'
  BY <1>1, <1>3, <1>4 DEF CallLocal, Filled, Untouched
<1> QED
  BY <1>2, <1>5 DEF IInv

(* A call that is refused, and one that begins.                            *)
LEMMA CallKeeps ==
  ASSUME IInv, client = "predict", CallRefused \/ CallPredict, UNCHANGED client
  PROVE  IInv'
<1>1. /\ phase = "idle" /\ UNCHANGED <<slots, heap>> /\ before' = slots /\ exported' = 0
      /\ request' \in Batches
  BY DEF CallRefused, CallPredict, Submit
<1>2. \/ answer' = "none" /\ phase' = "chunk"
      \/ answer' = "error" /\ phase' = "idle"
  BY <1>1 DEF CallRefused, CallPredict, Submit, sessionVars
<1>3. 0 \in 0 .. Len(request')
  BY <1>1, CallerAssumption
<1>4. ExportTypes' /\ Matched'
  BY <1>1, <1>3, CallerAssumption DEF IInv, ExportTypes, Matched
<1>5. \A i \in Indices : ~(i <= 0)
  BY CallerAssumption DEF Indices
<1>6. CallLocal'
  BY <1>1, <1>2, <1>5 DEF CallLocal, Filled, Untouched
<1> QED
  BY <1>4, <1>6 DEF IInv

(* One more structure is filled.                                           *)
LEMMA ExportKeeps ==
  ASSUME IInv, client = "predict", ExportNext, UNCHANGED client
  PROVE  IInv'
<1> DEFINE next == exported + 1
           address == CHOOSE a \in Addresses \ DOMAIN heap : TRUE
<1>1. /\ phase = "done" /\ phase' = "done" /\ exported < Len(request) /\ exported' = next
      /\ slots[next].internal = Null
      /\ slots' = [slots EXCEPT ![next].internal = address]
      /\ DOMAIN heap' = DOMAIN heap \union {address}
      /\ UNCHANGED <<request, answer, before, client>>
  BY DEF ExportNext, sessionVars
<1>2. next \in Indices /\ next \in 0 .. Len(request) /\ exported \in Nat
  BY <1>1, CallerAssumption DEF IInv, ExportTypes, Indices
<1>3. address \in Addresses /\ address \notin DOMAIN heap /\ address # Null
  BY <1>2, AddressLeft, AddressFacts DEF IInv
<1> HIDE DEF address
<1>4. \A i \in Indices :
        slots'[i] = IF i = next THEN [slots[i] EXCEPT !.internal = address] ELSE slots[i]
  BY <1>1, <1>2 DEF IInv, ExportTypes
<1>5. /\ slots'[next].sized = slots[next].sized /\ slots'[next].internal = address
      /\ slots'[next] \in SlotType
  <2>1. slots[next] \in SlotType
    BY <1>2 DEF IInv, ExportTypes
  <2>2. slots'[next] = [slots[next] EXCEPT !.internal = address]
    BY <1>2, <1>4
  <2> QED
    BY <1>3, <2>1, <2>2, SlotFields
<1> HIDE DEF next
<1>6. ExportTypes'
  <2>1. slots' \in [Indices -> SlotType]
    BY <1>1, <1>2, <1>4, <1>5 DEF IInv, ExportTypes
  <2> QED
    BY <1>1, <1>2, <1>3, <2>1 DEF IInv, ExportTypes
<1>7. Matched'
  <2>1. \A i \in Indices : slots'[i].internal # Null => slots'[i].internal \in DOMAIN heap'
    BY <1>1, <1>4, <1>5 DEF IInv, Matched
  <2>2. \A i, j \in Indices :
          slots'[i].internal = slots'[j].internal /\ slots'[i].internal # Null => i = j
    <3>1. \A i \in Indices : i # next => slots'[i].internal = slots[i].internal
      BY <1>4
    <3>2. \A i \in Indices : slots[i].internal # address
      BY <1>3 DEF IInv, Matched
    <3> QED
      BY <3>1, <3>2, <1>5 DEF IInv, Matched
  <2>3. \A a \in DOMAIN heap' : \E i \in Indices : slots'[i].internal = a
    <3> SUFFICES ASSUME NEW a \in DOMAIN heap'
                 PROVE  \E i \in Indices : slots'[i].internal = a
      OBVIOUS
    <3>1. CASE a = address
      BY <3>1, <1>2, <1>5
    <3>2. CASE a \in DOMAIN heap
      <4>1. PICK i \in Indices : slots[i].internal = a
        BY <3>2 DEF IInv, Matched
      <4>2. a # Null
        BY <3>2, AddressFacts DEF IInv, ExportTypes
      <4>3. i # next
        BY <4>1, <4>2, <1>1
      <4> QED
        BY <4>1, <4>3, <1>4
    <3> QED
      BY <3>1, <3>2, <1>1
  <2> QED
    BY <2>1, <2>2, <2>3 DEF Matched
<1>8. CallLocal'
  <2>1. client # "calibrate" /\ answer # "error"
    BY <1>1 DEF IInv, CallLocal
  <2>2. Untouched(next)
    BY <1>1, <1>2 DEF IInv, CallLocal, next
  <2>3. slots'[next].sized = before'[next].sized /\ before'[next].internal = Null
    BY <1>1, <1>5, <2>2 DEF Untouched
  <2>4. \A i \in Indices : i # next => (i <= next <=> i <= exported)
    BY <1>2 DEF next, Indices
  <2>5. \A i \in Indices : IF i <= next THEN Filled(i)' ELSE Untouched(i)'
    BY <1>1, <1>2, <1>4, <2>3, <2>4 DEF IInv, CallLocal, Filled, Untouched
  <2> QED
    BY <1>1, <2>1, <2>5 DEF CallLocal
<1> QED
  BY <1>6, <1>7, <1>8 DEF IInv

(* A failed export undoes the call: every structure is as it was.          *)
LEMMA RollbackKeeps ==
  ASSUME IInv, client = "predict", ExportFails, UNCHANGED client
  PROVE  IInv'
<1>1. /\ phase = "done" /\ phase' = "idle" /\ answer' = "error"
      /\ ReleaseAll(1 .. exported) /\ UNCHANGED <<request, exported, before>>
  BY DEF ExportFails, Answer, Finish
<1>2. 1 .. exported \subseteq Indices
  BY CallerAssumption DEF IInv, ExportTypes, Indices
<1>3. /\ slots' \in [Indices -> SlotType] /\ DOMAIN heap' \subseteq Addresses /\ Matched'
      /\ \A i \in Indices :
           slots'[i] = IF i \in 1 .. exported THEN Released(slots[i]) ELSE slots[i]
  BY <1>1, <1>2, ReleaseMatched DEF IInv
<1>4. ExportTypes'
  BY <1>1, <1>3 DEF IInv, ExportTypes
<1>5. ASSUME NEW i \in Indices PROVE slots'[i] = before[i]
  <2>1. CASE i \in 1 .. exported
    <3>1. Filled(i)
      BY <1>1, <2>1 DEF IInv, CallLocal
    <3>2. /\ before[i] \in SlotType
          /\ before[i] = [sized |-> before[i].sized, internal |-> before[i].internal]
      BY SlotFields DEF IInv, ExportTypes
    <3> QED
      BY <1>3, <2>1, <3>1, <3>2 DEF Filled, Released
  <2>2. CASE i \notin 1 .. exported
    <3>1. ~(i <= exported)
      BY <2>2 DEF IInv, ExportTypes, Indices
    <3> QED
      BY <1>1, <1>3, <2>2, <3>1 DEF IInv, CallLocal, Untouched
  <2> QED
    BY <2>1, <2>2
<1>6. slots' = before
  BY <1>3, <1>5 DEF IInv, ExportTypes
<1>7. CallLocal'
  BY <1>1, <1>6 DEF CallLocal
<1> QED
  BY <1>3, <1>4, <1>7 DEF IInv

(* The other ends of a call.                                               *)
LEMMA EndKeeps ==
  ASSUME IInv, client = "predict", CallSucceeds \/ CallFails, UNCHANGED client
  PROVE  IInv'
<1>1. /\ phase' = "idle" /\ UNCHANGED <<slots, heap, request, exported, before>>
      /\ answer' = "ok" \/ (answer' = "error" /\ phase = "failed")
  BY DEF CallSucceeds, CallFails, Answer, Finish
<1>2. ExportTypes' /\ Matched'
  BY <1>1 DEF IInv, ExportTypes, Matched
<1>3. \A i \in Indices : ~(i <= 0)
  BY CallerAssumption DEF Indices
<1>4. phase = "failed" => slots = before
  BY <1>3 DEF IInv, CallLocal, ExportTypes, Untouched
<1>5. CallLocal'
  BY <1>1, <1>4 DEF CallLocal
<1> QED
  BY <1>2, <1>5 DEF IInv

LEMMA ReleaseKeeps ==
  ASSUME IInv, client = "predict", Release, UNCHANGED client
  PROVE  IInv'
<1>1. /\ phase = "idle" /\ phase' = "idle" /\ request' = <<>> /\ exported' = 0
      /\ answer' = "none" /\ before' = slots'
  BY DEF Release, sessionVars
<1>2. DOMAIN slots = Indices
  BY DEF IInv, ExportTypes
<1>3. PICK i \in Indices : ReleaseAll({i})
  BY <1>2 DEF Release
<1>4. slots' \in [Indices -> SlotType] /\ DOMAIN heap' \subseteq Addresses /\ Matched'
  BY <1>3, ReleaseMatched DEF IInv
<1>5. /\ <<>> \in Seq(Images) /\ Len(<<>>) <= Slots /\ 0 \in 0 .. Len(<<>>)
  BY CallerAssumption
<1>6. ExportTypes'
  BY <1>1, <1>4, <1>5 DEF ExportTypes
<1>7. CallLocal'
  BY <1>1 DEF CallLocal
<1> QED
  BY <1>4, <1>6, <1>7 DEF IInv

LEMMA InitHolds == Init => IInv
<1> SUFFICES ASSUME Init PROVE IInv
  OBVIOUS
<1>1. /\ slots \in [Indices -> {Unused, [Unused EXCEPT !.sized = FALSE]}] /\ before = slots
      /\ heap = <<>> /\ request = <<>> /\ exported = 0 /\ answer = "none" /\ phase = "idle"
  BY DEF Init, InitExport, InitSession, Indices
<1>2. \A s \in {Unused, [Unused EXCEPT !.sized = FALSE]} : s \in SlotType /\ s.internal = Null
  <2>1. Unused \in SlotType /\ Unused.internal = Null
    BY DEF Unused, SlotType
  <2>2. \A s \in SlotType :
          LET t == [s EXCEPT !.sized = FALSE] IN t \in SlotType /\ t.internal = s.internal
    BY DEF SlotType
  <2> QED
    BY <2>1, <2>2
<1>3. slots \in [Indices -> SlotType] /\ \A i \in Indices : slots[i].internal = Null
  BY <1>1, <1>2
<1>4. DOMAIN heap = {}
  BY <1>1
<1>5. /\ <<>> \in Seq(Images) /\ Len(<<>>) <= Slots /\ 0 \in 0 .. Len(<<>>)
  BY CallerAssumption
<1> QED
  BY <1>1, <1>3, <1>4, <1>5 DEF IInv, ExportTypes, Matched, CallLocal

-----------------------------------------------------------------------------
(* The inductive invariant: pointers and storage match one to one, and a   *)
(* call in progress has touched only what it can give back.                *)
THEOREM Safety == Spec => []IInv
<1>1. IInv /\ [Next]_vars => IInv'
  <2> SUFFICES ASSUME IInv, [Next]_vars PROVE IInv'
    OBVIOUS
  <2>1. CASE SessionStep /\ UNCHANGED <<client, exportVars, calibratorVars>>
    BY <2>1, SessionKeeps
  <2>2. CASE client = "predict" /\ ExportStep /\ UNCHANGED <<client, calibratorVars>>
    BY <2>2, CallKeeps, ExportKeeps, RollbackKeeps, EndKeeps, ReleaseKeeps DEF ExportStep
  <2>3. CASE client = "calibrate" /\ CalibratorStep /\ UNCHANGED <<client, exportVars>>
    BY <2>3, CalibratorKeeps
  <2>4. CASE UNCHANGED vars
    BY <2>4 DEF vars, exportVars, sessionVars, IInv, ExportTypes, Matched, CallLocal, Filled,
                Untouched
  <2> QED
    BY <2>1, <2>2, <2>3, <2>4 DEF Next
<1> QED
  BY <1>1, InitHolds, PTL DEF Spec

(* Every storage object belongs to exactly one structure, after any        *)
(* failures and releases: the caller's releases free each of them once.    *)
THEOREM OwnedOnce == Spec => []StorageOwnedOnce
<1>1. IInv => StorageOwnedOnce
  <2> SUFFICES ASSUME IInv PROVE StorageOwnedOnce
    OBVIOUS
  <2>1. DOMAIN slots = Indices
    BY DEF IInv, ExportTypes
  <2>2. ASSUME NEW a \in DOMAIN heap
        PROVE  Cardinality({i \in DOMAIN slots : slots[i].internal = a}) = 1
    <3>1. PICK i \in Indices : slots[i].internal = a
      BY DEF IInv, Matched
    <3>2. a # Null
      BY AddressFacts DEF IInv, ExportTypes
    <3>3. {j \in DOMAIN slots : slots[j].internal = a} = {i}
      BY <2>1, <3>1, <3>2 DEF IInv, Matched
    <3> QED
      BY <3>3, FS_Singleton
  <2> QED
    BY <2>1, <2>2 DEF StorageOwnedOnce, IInv, Matched
<1> QED
  BY <1>1, Safety, PTL

(* A call that returned an error has left every structure as it found it,  *)
(* whichever export failed.                                                *)
THEOREM ErrorsChangeNothing == Spec => [](answer = "error" => slots = before)
<1>1. IInv => (answer = "error" => slots = before)
  BY DEF IInv, CallLocal
<1> QED
  BY <1>1, Safety, PTL

-----------------------------------------------------------------------------
(* Arrays and maxima. *)

LEMMA SetInduction ==
  ASSUME NEW T, 0 \in T, \A n \in Nat : n \in T => n + 1 \in T
  PROVE  \A n \in Nat : n \in T
<1> SUFFICES ASSUME NEW m \in Nat, m \notin T PROVE FALSE
  OBVIOUS
<1> DEFINE V == {n \in 0 .. m : n \notin T}
           down == [n \in V |-> n - 1]
<1>1. IsFiniteSet(V)
  <2>1. IsFiniteSet(0 .. m)
    BY FS_Interval
  <2> QED
    BY <2>1, FS_Subset
<1>2. m \in V
  OBVIOUS
<1>3. ASSUME NEW n \in V PROVE n - 1 \in V \ {m}
  <2>1. n # 0 /\ n \in Nat /\ n <= m /\ n \notin T
    OBVIOUS
  <2>2. n - 1 \in Nat /\ (n - 1) + 1 = n
    BY <2>1
  <2>3. n - 1 \notin T
    BY <2>1, <2>2
  <2> QED
    BY <2>1, <2>2, <2>3
<1>4. down \in [V -> V \ {m}]
  BY <1>3
<1>5. IsFiniteSet(V \ {m}) /\ Cardinality(V \ {m}) = Cardinality(V) - 1
  BY <1>1, <1>2, FS_RemoveElement
<1>6. Cardinality(V) \in Nat
  BY <1>1, FS_CardinalityType
<1> HIDE DEF down
<1>7. PICK x, y \in V : x # y /\ down[x] = down[y]
  <2> HIDE DEF V
  <2>1. Cardinality(V \ {m}) < Cardinality(V)
    BY <1>5, <1>6
  <2> QED
    BY <1>1, <1>4, <1>5, <2>1, FS_PigeonHole
<1> QED
  BY <1>7 DEF down

LEMMA RowColumn ==
  ASSUME NEW w \in Nat \ {0}, NEW n \in Nat, NEW c \in 1 .. w
  PROVE  Row(n * w + c, w) = n + 1 /\ Column(n * w + c, w) = c
<1> DEFINE x == n * w + c - 1
           d == x \div w
           r == x % w
<1>1. x \in Nat /\ d \in Int /\ r \in 0 .. w - 1 /\ x = w * d + r
  OBVIOUS
<1>2. n * w = w * n
  OBVIOUS
<1> HIDE DEF d, r
<1>3. w * (d - n) = w * d - w * n
  BY <1>1
<1>4. w * (d - n) = c - 1 - r
  BY <1>1, <1>2, <1>3
<1>5. ~(d - n >= 1)
  <2> SUFFICES ASSUME d - n >= 1 PROVE FALSE
    OBVIOUS
  <2>1. w * (d - n) >= w
    BY <1>1
  <2> QED
    BY <1>1, <1>4, <2>1
<1>6. ~(d - n <= -1)
  <2> SUFFICES ASSUME d - n <= -1 PROVE FALSE
    OBVIOUS
  <2>1. w * (d - n) <= -w
    BY <1>1
  <2> QED
    BY <1>1, <1>4, <2>1
<1>7. d = n
  BY <1>1, <1>5, <1>6
<1>8. r = c - 1
  BY <1>1, <1>2, <1>7
<1> QED
  BY <1>7, <1>8 DEF Row, Column, d, r

LEMMA Position ==
  ASSUME NEW w \in Nat \ {0}, NEW len \in Nat, NEW n \in 1 .. len, NEW c \in 1 .. w
  PROVE  /\ (n - 1) * w \in Nat /\ n * w = (n - 1) * w + w
         /\ (n - 1) * w + c \in 1 .. len * w
<1>1. (n - 1) * w \in Nat /\ n * w = (n - 1) * w + w
  OBVIOUS
<1>2. len * w - n * w = (len - n) * w /\ (len - n) * w >= 0
  OBVIOUS
<1> QED
  BY <1>1, <1>2

LEMMA IsSeq ==
  ASSUME NEW S, NEW n \in Nat, NEW f \in [1 .. n -> S]
  PROVE  f \in Seq(S) /\ Len(f) = n /\ DOMAIN f = 1 .. n
<1>1. f \in Seq(S)
  BY SeqDef
<1>2. Len(f) \in Nat /\ DOMAIN f = 1 .. Len(f)
  BY <1>1, LenProperties
<1> QED
  BY <1>1, <1>2

LEMMA SubSeqAt ==
  ASSUME NEW f, NEW o \in Nat, NEW w \in Nat
  PROVE  SubSeq(f, o + 1, o + w) = [i \in 1 .. w |-> f[o + i]]
<1>1. 1 + (o + w) - (o + 1) = w
  OBVIOUS
<1>2. SubSeq(f, o + 1, o + w) = [i \in 1 .. 1 + (o + w) - (o + 1) |-> f[i + (o + 1) - 1]]
  OBVIOUS
<1>3. \A i \in 1 .. w : i + (o + 1) - 1 = o + i
  OBVIOUS
<1> QED
  BY <1>1, <1>2, <1>3

(* Distances are whole numbers, and one of two is not greater.             *)
LEMMA DistanceType ==
  ASSUME NEW a \in Int, NEW b \in Int
  PROVE  Distance(a, b) \in Nat
  BY DEF Distance

(* A map of numbers has a first maximum, and no other location is one.     *)
IsFirstMaximum(map, n, l) ==
  \A o \in 1 .. n : map[o] < map[l] \/ (map[o] = map[l] /\ l <= o)

LEMMA FirstMaximumExists ==
  ASSUME NEW map, NEW w \in Nat \ {0}, \A l \in 1 .. w : map[l] \in Int
  PROVE  \E l \in 1 .. w : IsFirstMaximum(map, w, l)
<1> DEFINE T == {n \in Nat : n + 1 <= w => \E l \in 1 .. n + 1 : IsFirstMaximum(map, n + 1, l)}
<1>1. 0 \in T
  <2>1. IsFirstMaximum(map, 1, 1)
    BY DEF IsFirstMaximum
  <2> QED
    BY <2>1
<1>2. ASSUME NEW n \in Nat, n \in T PROVE n + 1 \in T
  <2> DEFINE k == n + 2
  <2> SUFFICES ASSUME k <= w PROVE \E l \in 1 .. k : IsFirstMaximum(map, k, l)
    OBVIOUS
  <2>1. PICK l \in 1 .. n + 1 : IsFirstMaximum(map, n + 1, l)
    BY <1>2
  <2>2. map[k] \in Int /\ map[l] \in Int /\ \A o \in 1 .. n + 1 : map[o] \in Int
    OBVIOUS
  <2>3. \A o \in 1 .. k : o \in 1 .. n + 1 \/ o = k
    OBVIOUS
  <2>4. CASE map[l] >= map[k]
    <3>1. IsFirstMaximum(map, k, l)
      BY <2>1, <2>2, <2>3, <2>4 DEF IsFirstMaximum
    <3> QED
      BY <3>1
  <2>5. CASE map[l] < map[k]
    <3>1. \A o \in 1 .. n + 1 : map[o] <= map[l]
      BY <2>1, <2>2 DEF IsFirstMaximum
    <3>2. IsFirstMaximum(map, k, k)
      BY <2>2, <2>3, <2>5, <3>1 DEF IsFirstMaximum
    <3> QED
      BY <3>2
  <2> QED
    BY <2>2, <2>4, <2>5
<1> HIDE DEF T
<1>3. \A n \in Nat : n \in T
  BY <1>1, <1>2, SetInduction
<1>4. w - 1 \in Nat /\ (w - 1) + 1 = w
  OBVIOUS
<1>5. w - 1 \in T
  BY <1>3, <1>4
<1> QED
  BY <1>4, <1>5 DEF T

LEMMA FirstMaximumIs ==
  ASSUME NEW map, \A l \in 1 .. Locations : map[l] \in Int
  PROVE  /\ FirstMaximum(map) \in 1 .. Locations
         /\ IsFirstMaximum(map, Locations, FirstMaximum(map))
<1>1. \E l \in 1 .. Locations : IsFirstMaximum(map, Locations, l)
  BY ImagesAssumption, FirstMaximumExists
<1> QED
  BY <1>1 DEF FirstMaximum, IsFirstMaximum

(* The reference's worst location is the same one.                         *)
LEMMA WorstIsFirstMaximum ==
  ASSUME NEW map \in [1 .. Locations -> Int]
  PROVE  (CHOOSE l \in DOMAIN map : /\ \A o \in DOMAIN map : map[o] <= map[l]
                                    /\ \A o \in 1 .. l - 1 : map[o] < map[l])
           = FirstMaximum(map)
<1> DEFINE Worst(l) == /\ \A o \in DOMAIN map : map[o] <= map[l]
                       /\ \A o \in 1 .. l - 1 : map[o] < map[l]
           first == FirstMaximum(map)
<1>1. Locations \in Nat /\ DOMAIN map = 1 .. Locations
  BY ImagesAssumption
<1>2. first \in 1 .. Locations /\ IsFirstMaximum(map, Locations, first)
  BY FirstMaximumIs
<1> HIDE DEF first
<1>3. Worst(first)
  BY <1>1, <1>2 DEF IsFirstMaximum
<1>4. ASSUME NEW l \in 1 .. Locations, Worst(l) PROVE l = first
  <2>1. map[first] = map[l]
    <3>1. map[first] <= map[l] /\ map[l] <= map[first]
      BY <1>1, <1>2, <1>3, <1>4
    <3> QED
      BY <1>1, <1>2, <3>1
  <2>2. ~(first < l)
    <3>1. first < l => first \in 1 .. l - 1
      BY <1>1, <1>2
    <3> QED
      BY <1>1, <1>2, <1>4, <2>1, <3>1
  <2>3. ~(l < first)
    <3>1. l < first => l \in 1 .. first - 1
      BY <1>1, <1>2
    <3> QED
      BY <1>1, <1>2, <1>3, <2>1, <3>1
  <2> QED
    BY <1>1, <1>2, <2>2, <2>3
<1> HIDE DEF Worst
<1>5. (CHOOSE l \in DOMAIN map : Worst(l)) = first
  BY <1>1, <1>2, <1>3, <1>4
<1> QED
  BY <1>5 DEF Worst, first

(* The nearest row of the index exists.                                    *)
LEMMA NearestExists ==
  ASSUME NEW query \in Int
  PROVE  \E j \in DOMAIN Bank : \A i \in DOMAIN Bank : ~Nearer(query, i, j)
<1> DEFINE w == Len(Bank)
           d == [j \in 1 .. w |-> 0 - Distance(query, Bank[j])]
<1>1. w \in Nat \ {0} /\ DOMAIN Bank = 1 .. w /\ \A j \in 1 .. w : Bank[j] \in Int
  BY BankAssumption
<1>2. \A j \in 1 .. w : Distance(query, Bank[j]) \in Nat
  BY <1>1, DistanceType
<1> HIDE DEF w
<1>3. \A j \in 1 .. w : d[j] \in Int /\ d[j] = 0 - Distance(query, Bank[j])
  BY <1>2
<1> HIDE DEF d
<1>4. PICK j \in 1 .. w : IsFirstMaximum(d, w, j)
  <2>1. w \in Nat \ {0} /\ \A j \in 1 .. w : d[j] \in Int
    BY <1>1, <1>3
  <2> QED
    BY <2>1, FirstMaximumExists
<1>5. ASSUME NEW i \in 1 .. w PROVE ~Nearer(query, i, j)
  <2> DEFINE di == Distance(query, Bank[i])
             dj == Distance(query, Bank[j])
  <2>1. d[i] < d[j] \/ (d[i] = d[j] /\ j <= i)
    BY <1>4 DEF IsFirstMaximum
  <2>2. d[i] = 0 - di /\ d[j] = 0 - dj /\ di \in Nat /\ dj \in Nat
    BY <1>2, <1>3
  <2>3. Nearer(query, i, j) <=> di < dj \/ (di = dj /\ i < j)
    BY DEF Nearer
  <2> HIDE DEF di, dj
  <2> QED
    BY <1>1, <2>1, <2>2, <2>3
<1> QED
  BY <1>1, <1>5

LEMMA SearchFinds ==
  ASSUME NEW query \in Int
  PROVE  Search(query)[1] \in DOMAIN Bank
<1> DEFINE Before(j) == {i \in DOMAIN Bank : Nearer(query, i, j)}
<1>1. PICK j \in DOMAIN Bank : \A i \in DOMAIN Bank : ~Nearer(query, i, j)
  BY NearestExists
<1>2. Before(j) = {}
  BY <1>1
<1>3. Cardinality(Before(j)) = 0
  BY <1>2, FS_EmptySet
<1> HIDE DEF Before
<1>4. (CHOOSE k \in DOMAIN Bank : Cardinality(Before(k)) = 0) \in DOMAIN Bank
  BY <1>3
<1>5. 1 \in 1 .. Neighbors /\ 1 - 1 = 0
  BY BankAssumption
<1>6. Search(query)[1] = CHOOSE k \in DOMAIN Bank : Cardinality(Before(k)) = 1 - 1
  BY <1>5 DEF Search, Before
<1> QED
  BY <1>4, <1>5, <1>6

LEMMA NearestType ==
  ASSUME NEW query \in Int
  PROVE  Bank[Search(query)[1]] \in Int /\ Nearest(query) \in Nat
<1>1. Bank[Search(query)[1]] \in Int
  <2>1. DOMAIN Bank = 1 .. Len(Bank) /\ \A j \in 1 .. Len(Bank) : Bank[j] \in Int
    BY BankAssumption
  <2> QED
    BY <2>1, SearchFinds
<1> QED
  BY <1>1, DistanceType DEF Nearest

-----------------------------------------------------------------------------
(* The arrays of a chunk. *)

FiniteRows(rows) ==
  /\ rows \in Seq([1 .. Locations -> Int])
  /\ Len(rows) \in Nat /\ DOMAIN rows = 1 .. Len(rows)

LEMMA RowInRange ==
  ASSUME NEW w \in Nat \ {0}, NEW len \in Nat, NEW x \in 1 .. len * w
  PROVE  Row(x, w) \in 1 .. len /\ Column(x, w) \in 1 .. w
<1> DEFINE y == x - 1
           d == y \div w
           r == y % w
<1>1. len * w \in Nat /\ x \in Nat /\ x >= 1 /\ x <= len * w
  OBVIOUS
<1>2. y \in Nat /\ y < len * w
  BY <1>1
<1> HIDE DEF y
<1>3. d \in Int /\ r \in 0 .. w - 1 /\ y = w * d + r
  BY <1>2
<1> HIDE DEF d, r
<1>4. ~(d >= len)
  <2> SUFFICES ASSUME d >= len PROVE FALSE
    OBVIOUS
  <2>1. w * (d - len) >= 0 /\ w * (d - len) = w * d - w * len /\ w * len = len * w
    BY <1>3
  <2> QED
    BY <1>2, <1>3, <2>1
<1>5. ~(d <= -1)
  <2> SUFFICES ASSUME d <= -1 PROVE FALSE
    OBVIOUS
  <2>1. w * d <= -w
    BY <1>3
  <2> QED
    BY <1>2, <1>3, <2>1
<1>6. d + 1 \in 1 .. len /\ r + 1 \in 1 .. w
  BY <1>3, <1>4, <1>5
<1> QED
  BY <1>6 DEF Row, Column, d, r, y

LEMMA FlattenAt ==
  ASSUME NEW rows, FiniteRows(rows)
  PROVE  /\ Flatten(rows) \in Seq(Int) /\ Len(Flatten(rows)) = Len(rows) * Locations
         /\ \A n \in 1 .. Len(rows), l \in 1 .. Locations :
              Flatten(rows)[(n - 1) * Locations + l] = rows[n][l]
<1> DEFINE w == Locations
           len == Len(rows)
           flat == Flatten(rows)
<1>1. w \in Nat \ {0} /\ len \in Nat /\ len * w \in Nat
  BY ImagesAssumption DEF FiniteRows
<1>2. flat = [x \in 1 .. len * w |-> rows[Row(x, w)][Column(x, w)]]
  BY DEF Flatten
<1>3. \A n \in 1 .. len, l \in 1 .. w : rows[n][l] \in Int
  <2>1. \A n \in 1 .. len : rows[n] \in [1 .. w -> Int]
    BY DEF FiniteRows
  <2> QED
    BY <2>1
<1> HIDE DEF w, len, flat
<1>4. \A x \in 1 .. len * w : rows[Row(x, w)][Column(x, w)] \in Int
  BY <1>1, <1>3, RowInRange
<1>5. flat \in [1 .. len * w -> Int]
  BY <1>2, <1>4
<1>6. flat \in Seq(Int) /\ Len(flat) = len * w
  BY <1>1, <1>5, IsSeq
<1>7. ASSUME NEW n \in 1 .. len, NEW l \in 1 .. w
      PROVE  flat[(n - 1) * w + l] = rows[n][l]
  <2>1. (n - 1) * w + l \in 1 .. len * w
    BY <1>1, Position
  <2>2. n - 1 \in Nat /\ (n - 1) + 1 = n
    BY <1>1
  <2>3. Row((n - 1) * w + l, w) = n /\ Column((n - 1) * w + l, w) = l
    BY <1>1, <2>2, RowColumn
  <2> QED
    BY <1>2, <2>1, <2>3
<1> QED
  BY <1>6, <1>7 DEF w, len, flat

LEMMA LabelsAt ==
  ASSUME NEW queries \in Seq(Int), NEW n \in 1 .. Len(queries), NEW k \in 1 .. Neighbors
  PROVE  /\ (n - 1) * Neighbors + k \in 1 .. Len(queries) * Neighbors
         /\ Labels(queries)[(n - 1) * Neighbors + k] = Search(queries[n])[k]
         /\ Distances(queries)[(n - 1) * Neighbors + k] =
              Distance(queries[n], Bank[Search(queries[n])[k]])
<1> DEFINE x == (n - 1) * Neighbors + k
<1>1. Neighbors \in Nat \ {0} /\ Len(queries) \in Nat /\ n - 1 \in Nat /\ (n - 1) + 1 = n
  BY BankAssumption
<1>2. x \in 1 .. Len(queries) * Neighbors
  BY <1>1, Position
<1>3. Row(x, Neighbors) = n /\ Column(x, Neighbors) = k
  BY <1>1, RowColumn
<1> HIDE DEF x
<1>4. Labels(queries)[x] = Search(queries[n])[k] /\ x \in DOMAIN Labels(queries)
  BY <1>2, <1>3 DEF Labels
<1>5. Distances(queries)[x] = Distance(queries[n], Bank[Search(queries[n])[k]])
  BY <1>3, <1>4 DEF Distances
<1> QED
  BY <1>2, <1>4, <1>5 DEF x
-----------------------------------------------------------------------------
(* The adapters give every image what it alone deserves. *)

LEMMA OfImageIs ==
  ASSUME NEW scores, NEW map \in [1 .. Locations -> Int], NEW n \in Nat,
         \A l \in 1 .. Locations : scores[(n - 1) * Locations + l] = map[l]
  PROVE  OfImage(scores, n) = map
  BY DEF OfImage

(* The map of an image of finite features, and the row matched at its      *)
(* worst location.                                                         *)
NearestMap(features) == [l \in 1 .. Locations |-> Nearest(features[l])]
WorstMatch(features) == Bank[Search(features[FirstMaximum(NearestMap(features))])[1]]
SupportOf(matched) == [k \in 1 .. Neighbors |-> Distance(matched, Bank[Search(matched)[k]])]

LEMMA PatchCoreIs ==
  ASSUME NEW features \in [1 .. Locations -> Int]
  PROVE  /\ NearestMap(features) \in [1 .. Locations -> Int]
         /\ FirstMaximum(NearestMap(features)) \in 1 .. Locations
         /\ WorstMatch(features) \in Int
         /\ PatchCoreReference(features) =
              [score |-> Weighted(NearestMap(features)[FirstMaximum(NearestMap(features))],
                                  SupportOf(WorstMatch(features))),
               map |-> NearestMap(features)]
<1> DEFINE map == NearestMap(features)
<1>1. map \in [1 .. Locations -> Int]
  BY NearestType DEF NearestMap
<1>2. FirstMaximum(map) \in 1 .. Locations
  BY <1>1, FirstMaximumIs
<1>3. WorstMatch(features) \in Int
  BY <1>2, NearestType DEF WorstMatch
<1>4. map = [l \in DOMAIN features |-> Nearest(features[l])]
  BY DEF NearestMap
<1> HIDE DEF map
<1> DEFINE worst == CHOOSE l \in DOMAIN map : /\ \A o \in DOMAIN map : map[o] <= map[l]
                                              /\ \A o \in 1 .. l - 1 : map[o] < map[l]
<1>5. worst = FirstMaximum(map)
  BY <1>1, WorstIsFirstMaximum
<1> HIDE DEF worst
<1>6. PatchCoreReference(features) =
        [score |-> Weighted(map[worst], SupportOf(Bank[Search(features[worst])[1]])),
         map |-> map]
  BY <1>4 DEF PatchCoreReference, SupportOf, worst
<1>7. WorstMatch(features) = Bank[Search(features[worst])[1]]
  BY <1>5 DEF WorstMatch, map
<1> QED
  BY <1>1, <1>2, <1>3, <1>5, <1>6, <1>7 DEF map
(* Where a chunk's arrays hold what the search found for location l of     *)
(* image n, nearest row first.                                             *)
Place(n, l) == (n - 1) * Locations + l
FirstOf(q) == (q - 1) * Neighbors + 1

LEMMA QueryAt ==
  ASSUME NEW rows, FiniteRows(rows), NEW n \in 1 .. Len(rows), NEW l \in 1 .. Locations
  PROVE  /\ Place(n, l) \in DOMAIN Flatten(rows)
         /\ Place(n, l) \in 1 .. Len(rows) * Locations
         /\ Distances(Flatten(rows))[FirstOf(Place(n, l))] = Nearest(rows[n][l])
         /\ Labels(Flatten(rows))[FirstOf(Place(n, l))] = Search(rows[n][l])[1]
<1> DEFINE q == Place(n, l)
           queries == Flatten(rows)
<1>1. /\ queries \in Seq(Int) /\ Len(queries) = Len(rows) * Locations
      /\ queries[q] = rows[n][l] /\ DOMAIN queries = 1 .. Len(queries)
  BY FlattenAt, LenProperties DEF Place
<1>2. q \in 1 .. Len(rows) * Locations
  BY ImagesAssumption, Position DEF FiniteRows, Place
<1> HIDE DEF q, queries
<1>3. q \in 1 .. Len(queries) /\ 1 \in 1 .. Neighbors
  BY <1>1, <1>2, BankAssumption
<1>4. /\ Labels(queries)[FirstOf(q)] = Search(queries[q])[1]
      /\ Distances(queries)[FirstOf(q)] = Distance(queries[q], Bank[Search(queries[q])[1]])
  BY <1>1, <1>3, LabelsAt DEF FirstOf
<1> QED
  BY <1>1, <1>2, <1>3, <1>4 DEF Nearest, q, queries

(* A search with one query.                                                *)
LEMMA OneQuery ==
  ASSUME NEW query \in Int
  PROVE  Distances(<<query>>) = SupportOf(query)
<1>1. <<query>> \in Seq(Int) /\ Len(<<query>>) = 1 /\ <<query>>[1] = query
  OBVIOUS
<1>2. Neighbors \in Nat /\ 1 * Neighbors = Neighbors
  BY BankAssumption
<1>3. Distances(<<query>>) \in [1 .. Neighbors -> {Distances(<<query>>)[k] : k \in 1 .. Neighbors}]
  BY <1>1, <1>2 DEF Distances, Labels
<1>4. ASSUME NEW k \in 1 .. Neighbors
      PROVE  Distances(<<query>>)[k] = Distance(query, Bank[Search(query)[k]])
  <2>1. (1 - 1) * Neighbors + k = k /\ 1 \in 1 .. Len(<<query>>)
    BY <1>1, <1>2
  <2> QED
    BY <1>1, <2>1, LabelsAt
<1> QED
  BY <1>3, <1>4 DEF SupportOf

LEMMA HostPatchCoreIs ==
  ASSUME NEW rows, FiniteRows(rows)
  PROVE  HostPatchCore(rows) = [n \in DOMAIN rows |-> PatchCoreReference(rows[n])]
<1> DEFINE queries == Flatten(rows)
           distances == Distances(queries)
           labels == Labels(queries)
           scores == [q \in DOMAIN queries |-> distances[FirstOf(q)]]
           Result(n, at) == [score |-> Weighted(scores[at], Distances(<<Bank[labels[FirstOf(at)]]>>)),
                             map |-> OfImage(scores, n)]
           Worst(n) == Place(n, FirstMaximum(OfImage(scores, n)))
<1>1. HostPatchCore(rows) = [n \in DOMAIN rows |-> Result(n, Worst(n))]
  BY DEF HostPatchCore, Place, FirstOf
<1>2. ASSUME NEW n \in DOMAIN rows
      PROVE  Result(n, Worst(n)) = PatchCoreReference(rows[n])
  <2> DEFINE map == NearestMap(rows[n])
             first == FirstMaximum(map)
             matched == WorstMatch(rows[n])
  <2>1. n \in 1 .. Len(rows) /\ rows[n] \in [1 .. Locations -> Int] /\ n \in Nat
    BY DEF FiniteRows
  <2>2. /\ map \in [1 .. Locations -> Int] /\ first \in 1 .. Locations /\ matched \in Int
        /\ PatchCoreReference(rows[n]) =
             [score |-> Weighted(map[first], SupportOf(matched)), map |-> map]
    BY <2>1, PatchCoreIs
  <2>3. ASSUME NEW l \in 1 .. Locations
        PROVE  /\ scores[Place(n, l)] = map[l]
               /\ labels[FirstOf(Place(n, l))] = Search(rows[n][l])[1]
    <3>1. /\ Place(n, l) \in DOMAIN queries
          /\ distances[FirstOf(Place(n, l))] = Nearest(rows[n][l])
          /\ labels[FirstOf(Place(n, l))] = Search(rows[n][l])[1]
      BY <2>1, QueryAt
    <3>2. map[l] = Nearest(rows[n][l])
      BY DEF NearestMap
    <3> HIDE DEF queries, distances, labels, map
    <3> QED
      BY <3>1, <3>2
  <2> HIDE DEF map, first, matched, scores, labels
  <2>4. OfImage(scores, n) = map
    <3>1. \A l \in 1 .. Locations : scores[(n - 1) * Locations + l] = map[l]
      BY <2>3 DEF Place
    <3> QED
      BY <2>1, <2>2, <3>1, OfImageIs
  <2>5. Worst(n) = Place(n, first)
    BY <2>4 DEF first
  <2>6. Bank[labels[FirstOf(Place(n, first))]] = matched
    BY <2>2, <2>3 DEF matched, WorstMatch, first, map
  <2>7. Distances(<<matched>>) = SupportOf(matched)
    BY <2>2, OneQuery
  <2>8. scores[Place(n, first)] = map[first]
    BY <2>2, <2>3
  <2> QED
    BY <2>2, <2>4, <2>5, <2>6, <2>7, <2>8
<1> HIDE DEF Result, Worst
<1> QED
  BY <1>1, <1>2

(* The distances of the second search of a chunk on the device, for the    *)
(* image at hand.                                                          *)
LEMMA SupportPart ==
  ASSUME NEW supports \in Seq(Int), NEW n \in 1 .. Len(supports)
  PROVE  SubSeq(Distances(supports), (n - 1) * Neighbors + 1, n * Neighbors)
           = SupportOf(supports[n])
<1> DEFINE o == (n - 1) * Neighbors
           d == Distances(supports)
<1>1. /\ Neighbors \in Nat \ {0} /\ Len(supports) \in Nat
      /\ o \in Nat /\ n * Neighbors = o + Neighbors
  BY BankAssumption, Position
<1>2. \A k \in 1 .. Neighbors : d[o + k] = Distance(supports[n], Bank[Search(supports[n])[k]])
  BY LabelsAt
<1> HIDE DEF o, d
<1>3. SubSeq(d, o + 1, o + Neighbors) = [k \in 1 .. Neighbors |-> d[o + k]]
  BY <1>1, SubSeqAt
<1> QED
  BY <1>1, <1>2, <1>3 DEF SupportOf, o, d

PartOf(array, n) ==
  SubSeq(array, (n - 1) * Locations + 1, (n - 1) * Locations + Locations)

LEMMA MapPart ==
  ASSUME NEW array, NEW n \in Nat \ {0}
  PROVE  PartOf(array, n) = [l \in 1 .. Locations |-> array[Place(n, l)]]
<1> DEFINE o == (n - 1) * Locations
<1>1. o \in Nat /\ Locations \in Nat
  <2>1. n \in 1 .. n
    OBVIOUS
  <2> QED
    BY <2>1, ImagesAssumption, Position
<1>2. \A l \in 1 .. Locations : Place(n, l) = o + l
  BY DEF Place
<1> HIDE DEF o
<1>3. SubSeq(array, o + 1, o + Locations) = [l \in 1 .. Locations |-> array[o + l]]
  BY <1>1, SubSeqAt
<1> QED
  BY <1>2, <1>3 DEF o, PartOf

LEMMA SupportsIs ==
  ASSUME NEW labels, NEW maxima, NEW len \in Nat, maxima \in [1 .. len -> 1 .. Locations]
  PROVE  Supports(labels, maxima)
           = [n \in 1 .. len |-> Bank[labels[FirstOf(Place(n, maxima[n]))]]]
<1>1. ASSUME NEW n \in 1 .. len
      PROVE  (n - 1) * Locations + maxima[n] - 1 = Place(n, maxima[n]) - 1
  <2>1. (n - 1) * Locations \in Int /\ maxima[n] \in Int
    BY ImagesAssumption
  <2> QED
    BY <2>1 DEF Place
<1>2. Supports(labels, maxima) =
        [n \in 1 .. len |->
           Bank[labels[((n - 1) * Locations + maxima[n] - 1) * Neighbors + 1]]]
  BY DEF Supports
<1> QED
  BY <1>1, <1>2 DEF FirstOf

LEMMA DevicePatchCoreIs ==
  ASSUME NEW rows, FiniteRows(rows)
  PROVE  DevicePatchCore(rows) = [n \in DOMAIN rows |-> PatchCoreReference(rows[n])]
<1> DEFINE queries == Flatten(rows)
           distances == Distances(queries)
           labels == Labels(queries)
           nearest == [q \in 1 .. Len(rows) * Locations |-> distances[FirstOf(q)]]
           maxima == [n \in 1 .. Len(rows) |-> FirstMaximum(OfImage(nearest, n))]
           supports == Supports(labels, maxima)
           Result(n) ==
             [score |-> Weighted(nearest[Place(n, maxima[n])],
                          SubSeq(Distances(supports), (n - 1) * Neighbors + 1, n * Neighbors)),
              map |-> SubSeq(nearest, (n - 1) * Locations + 1, (n - 1) * Locations + Locations)]
<1>1. DevicePatchCore(rows) = [n \in DOMAIN rows |-> Result(n)]
  <2>1. DeviceScores(distances, Len(rows)) = [nearest |-> nearest, maxima |-> maxima]
    BY DEF DeviceScores, FirstOf
  <2> HIDE DEF nearest, maxima
  <2> QED
    BY <2>1 DEF DevicePatchCore, Place
<1>2. Len(rows) \in Nat /\ DOMAIN rows = 1 .. Len(rows)
  BY DEF FiniteRows
<1>3. ASSUME NEW n \in 1 .. Len(rows)
      PROVE  /\ rows[n] \in [1 .. Locations -> Int]
             /\ \A l \in 1 .. Locations : nearest[Place(n, l)] = NearestMap(rows[n])[l]
             /\ maxima[n] = FirstMaximum(NearestMap(rows[n])) /\ maxima[n] \in 1 .. Locations
             /\ Bank[labels[FirstOf(Place(n, maxima[n]))]] = WorstMatch(rows[n])
  <2> DEFINE map == NearestMap(rows[n])
             first == FirstMaximum(map)
  <2>1. rows[n] \in [1 .. Locations -> Int] /\ n \in Nat
    BY DEF FiniteRows
  <2>2. map \in [1 .. Locations -> Int] /\ first \in 1 .. Locations
    BY <2>1, PatchCoreIs
  <2>3. ASSUME NEW l \in 1 .. Locations
        PROVE  /\ nearest[Place(n, l)] = map[l]
               /\ labels[FirstOf(Place(n, l))] = Search(rows[n][l])[1]
    <3>1. /\ Place(n, l) \in 1 .. Len(rows) * Locations
          /\ distances[FirstOf(Place(n, l))] = Nearest(rows[n][l])
          /\ labels[FirstOf(Place(n, l))] = Search(rows[n][l])[1]
      BY QueryAt
    <3>2. map[l] = Nearest(rows[n][l])
      BY DEF NearestMap
    <3> HIDE DEF queries, distances, labels, map
    <3> QED
      BY <3>1, <3>2
  <2> HIDE DEF map, first, nearest, labels
  <2>4. OfImage(nearest, n) = map
    <3>1. \A l \in 1 .. Locations : nearest[(n - 1) * Locations + l] = map[l]
      BY <2>3 DEF Place
    <3> QED
      BY <2>1, <2>2, <3>1, OfImageIs
  <2>5. maxima[n] = first
    BY <2>4 DEF first
  <2>6. Bank[labels[FirstOf(Place(n, first))]] = WorstMatch(rows[n])
    BY <2>2, <2>3 DEF WorstMatch, first, map
  <2> QED
    BY <2>1, <2>2, <2>3, <2>5, <2>6 DEF first, map
<1> HIDE DEF nearest, labels
<1>4. /\ supports = [n \in 1 .. Len(rows) |-> WorstMatch(rows[n])]
      /\ \A n \in 1 .. Len(rows) : WorstMatch(rows[n]) \in Int
  <2>1. supports = [n \in 1 .. Len(rows) |-> Bank[labels[FirstOf(Place(n, maxima[n]))]]]
    <3>1. maxima \in [1 .. Len(rows) -> 1 .. Locations]
      BY <1>3
    <3> HIDE DEF maxima
    <3> QED
      BY <1>2, <3>1, SupportsIs
  <2> HIDE DEF maxima
  <2> HIDE DEF supports
  <2>2. \A n \in 1 .. Len(rows) : WorstMatch(rows[n]) \in Int
    BY <1>3, PatchCoreIs
  <2> QED
    BY <1>3, <2>1, <2>2
<1> HIDE DEF maxima, supports
<1>5. /\ supports \in Seq(Int) /\ Len(supports) = Len(rows)
      /\ \A n \in 1 .. Len(rows) : supports[n] = WorstMatch(rows[n])
  <2>1. supports \in [1 .. Len(rows) -> Int]
    BY <1>4
  <2> QED
    BY <1>2, <1>4, <2>1, IsSeq
<1>6. ASSUME NEW n \in DOMAIN rows PROVE Result(n) = PatchCoreReference(rows[n])
  <2> DEFINE map == NearestMap(rows[n])
             first == FirstMaximum(map)
             matched == WorstMatch(rows[n])
  <2>1. n \in 1 .. Len(rows) /\ n \in 1 .. Len(supports)
    BY <1>2, <1>5
  <2>2. /\ map \in [1 .. Locations -> Int] /\ first \in 1 .. Locations
        /\ PatchCoreReference(rows[n]) =
             [score |-> Weighted(map[first], SupportOf(matched)), map |-> map]
    BY <1>3, <2>1, PatchCoreIs
  <2>3. SubSeq(Distances(supports), (n - 1) * Neighbors + 1, n * Neighbors) = SupportOf(matched)
    BY <1>5, <2>1, SupportPart
  <2> HIDE DEF map, matched
  <2>4. PartOf(nearest, n) = map
    <3>1. \A l \in 1 .. Locations : nearest[Place(n, l)] = map[l]
      BY <1>3, <2>1 DEF map
    <3>2. map \in [1 .. Locations -> Int] /\ n \in Nat \ {0}
      BY <1>2, <2>1, <2>2
    <3> HIDE DEF nearest
    <3>3. PartOf(nearest, n) = [l \in 1 .. Locations |-> nearest[Place(n, l)]]
      BY <3>2, MapPart
    <3> QED
      BY <3>1, <3>2, <3>3
  <2>5. nearest[Place(n, maxima[n])] = map[first]
    BY <1>3, <2>1, <2>2 DEF map
  <2> QED
    BY <2>2, <2>3, <2>4, <2>5 DEF PartOf
<1> HIDE DEF Result
<1> QED
  BY <1>1, <1>6

LEMMA DevicePadimIs ==
  ASSUME NEW rows, FiniteRows(rows)
  PROVE  DevicePadim(rows) = [n \in DOMAIN rows |-> Padim(rows[n])]
<1> DEFINE patches == Flatten(rows)
           distances == [q \in DOMAIN patches |->
                           Distance(patches[q], Mean[Column(q, Locations)])]
           Part(n) == SubSeq(distances, (n - 1) * Locations + 1, n * Locations)
           Result(n) == [score |-> [value |-> Max(ToSet(Part(n))), weight |-> <<>>],
                         map |-> Part(n)]
<1>1. DevicePadim(rows) = [n \in DOMAIN rows |-> Result(n)]
  BY DEF DevicePadim
<1>2. ASSUME NEW n \in DOMAIN rows PROVE Result(n) = Padim(rows[n])
  <2> DEFINE map == [l \in 1 .. Locations |-> Distance(rows[n][l], Mean[l])]
  <2>1. n \in 1 .. Len(rows) /\ Len(rows) \in Nat /\ n \in Nat
    BY DEF FiniteRows
  <2>2. ASSUME NEW l \in 1 .. Locations PROVE distances[Place(n, l)] = map[l]
    <3>1. patches[Place(n, l)] = rows[n][l]
      BY <2>1, FlattenAt DEF Place
    <3>2. Place(n, l) \in DOMAIN patches
      BY <2>1, QueryAt
    <3>3. Column(Place(n, l), Locations) = l
      <4>1. n - 1 \in Nat
        BY <2>1
      <4> QED
        BY <4>1, ImagesAssumption, RowColumn DEF Place
    <3> HIDE DEF patches
    <3> QED
      BY <3>1, <3>2, <3>3
  <2>3. map \in [1 .. Locations -> {map[l] : l \in 1 .. Locations}]
    OBVIOUS
  <2>4. n * Locations = (n - 1) * Locations + Locations
    BY <2>1, ImagesAssumption, Position
  <2>5. Padim(rows[n]) = [score |-> [value |-> Max(ToSet(map)), weight |-> <<>>], map |-> map]
    BY DEF Padim
  <2> HIDE DEF map, distances
  <2>6. Part(n) = map
    <3>1. PartOf(distances, n) = [l \in 1 .. Locations |-> distances[Place(n, l)]]
      BY <2>1, MapPart
    <3>2. PartOf(distances, n) = map
      BY <2>2, <2>3, <3>1
    <3> QED
      BY <2>4, <3>2 DEF PartOf
  <2> QED
    BY <2>5, <2>6
<1> HIDE DEF Result
<1> QED
  BY <1>1, <1>2

(* A chunk of any algorithm on any device: every image gets what it alone  *)
(* deserves.                                                               *)
Rows(rows) ==
  /\ rows \in Seq([1 .. Locations -> Int \union {NaN}])
  /\ Len(rows) \in Nat /\ DOMAIN rows = 1 .. Len(rows)

LEMMA AcceptedRows ==
  ASSUME NEW rows, Rows(rows), \A n \in DOMAIN rows : ~HasNaN(rows[n])
  PROVE  FiniteRows(rows)
<1>1. ASSUME NEW n \in 1 .. Len(rows) PROVE rows[n] \in [1 .. Locations -> Int]
  <2>1. rows[n] \in [1 .. Locations -> Int \union {NaN}]
    BY DEF Rows
  <2>2. \A l \in 1 .. Locations : rows[n][l] # NaN
    BY <2>1 DEF Rows, HasNaN
  <2>3. \A l \in 1 .. Locations : rows[n][l] \in Int
    BY <2>1, <2>2
  <2> QED
    BY <2>1, <2>3
<1>2. rows = [n \in 1 .. Len(rows) |-> rows[n]]
  BY DEF Rows
<1>3. rows \in [1 .. Len(rows) -> [1 .. Locations -> Int]]
  BY <1>1, <1>2
<1> QED
  BY <1>3, IsSeq DEF Rows, FiniteRows

LEMMA DirectIs ==
  ASSUME NEW rows
  PROVE  Direct(rows) = [n \in DOMAIN rows |-> RawReference("direct", rows[n])]
  BY DEF Direct, RawReference

LEMMA ChunkIs ==
  ASSUME session \in Sessions, NEW rows, Rows(rows), ~Rejects(rows)
  PROVE  (IF ComputeEnabled THEN PluginPredictDevice(rows) ELSE PluginPredict(rows))
           = [n \in DOMAIN rows |-> RawReference(session.algorithm, rows[n])]
<1>1. /\ session.algorithm \in {"direct", "patchcore", "padim"}
      /\ session.algorithm = "direct" => ~ComputeEnabled
  BY DEF Sessions, ComputeEnabled
<1>2. CASE session.algorithm = "direct"
  BY <1>1, <1>2, DirectIs DEF PluginPredict
<1>3. CASE session.algorithm # "direct"
  <2>1. FiniteRows(rows)
    BY <1>3, AcceptedRows DEF Rejects
  <2>2. CASE session.algorithm = "patchcore"
    <3>1. \A f : RawReference("patchcore", f) = PatchCoreReference(f)
      BY DEF RawReference
    <3>2. HostPatchCore(rows) = [n \in DOMAIN rows |-> PatchCoreReference(rows[n])]
      BY <2>1, HostPatchCoreIs
    <3>3. DevicePatchCore(rows) = [n \in DOMAIN rows |-> PatchCoreReference(rows[n])]
      BY <2>1, DevicePatchCoreIs
    <3>4. PluginPredictDevice(rows) = DevicePatchCore(rows) /\ PluginPredict(rows) = HostPatchCore(rows)
      BY <2>2 DEF PluginPredictDevice, PluginPredict
    <3> QED
      BY <2>2, <3>1, <3>2, <3>3, <3>4
  <2>3. CASE session.algorithm = "padim"
    <3>1. \A f : RawReference("padim", f) = Padim(f)
      BY DEF RawReference
    <3>2. DevicePadim(rows) = [n \in DOMAIN rows |-> Padim(rows[n])]
      BY <2>1, DevicePadimIs
    <3>3. PluginPredictDevice(rows) = DevicePadim(rows) /\ PluginPredict(rows) = HostPadim(rows)
      BY <2>3 DEF PluginPredictDevice, PluginPredict
    <3> QED
      BY <2>3, <3>1, <3>2, <3>3 DEF HostPadim
  <2> QED
    BY <1>1, <1>3, <2>2, <2>3
<1> QED
  BY <1>2, <1>3

-----------------------------------------------------------------------------
(* The values of a call of predictBatch. *)

Features(batch) == [n \in DOMAIN batch |-> batch[n].features]
Predictions(batch) == [n \in DOMAIN batch |-> RawReference(session.algorithm, batch[n].features)]
Active == {"chunk", "preprocessed", "inferred", "adapted"}

SessionTypes ==
  /\ session \in Sessions /\ images \in Seq(Images) /\ begin \in Nat \ {0}
  /\ phase \in Active \union {"idle", "done", "failed"}

(* The predictions collected are those of the images before the chunk, and *)
(* their scores are numbers.                                               *)
CollectedUpTo(n) ==
  /\ results = [i \in 1 .. n |-> Reference(images[i])]
  /\ \A i \in 1 .. n : Reference(images[i]).rawScore.value # NaN
Collected ==
  /\ phase \in Active => CollectedUpTo(begin - 1) /\ begin <= Len(images)
  /\ phase = "done" => CollectedUpTo(Len(images))

(* Tensors and raw predictions are those of the chunk, or of a beginning   *)
(* of it when the network answered with fewer rows.                        *)
InProgress ==
  /\ phase = "preprocessed" => tensors.rows = Features(Chunk)
  /\ phase = "inferred" =>
       \E count \in 1 .. Len(Chunk) : tensors.rows = SubSeq(Features(Chunk), 1, count)
  /\ phase = "adapted" =>
       \E count \in 1 .. Len(Chunk) : raw = SubSeq(Predictions(Chunk), 1, count)

SInv == SessionTypes /\ Collected /\ InProgress

LEMMA ChunkSizeFacts ==
  ASSUME session \in Sessions
  PROVE  ChunkSize \in Nat \ {0}
<1>1. session.maxBatchSize \in Int
  BY ChunkSizesAssumption DEF Sessions
<1> QED
  BY <1>1 DEF ChunkSize

LEMMA ChunkFacts ==
  ASSUME SessionTypes, begin <= Len(images)
  PROVE  /\ ChunkEnd \in begin .. Len(images) /\ ChunkEnd - (begin - 1) \in Nat \ {0}
         /\ Chunk = [n \in 1 .. ChunkEnd - (begin - 1) |-> images[begin - 1 + n]]
         /\ Chunk \in Seq(Images) /\ Len(Chunk) = ChunkEnd - (begin - 1)
<1>1. begin \in Nat \ {0} /\ Len(images) \in Nat /\ ChunkSize \in Nat \ {0}
  BY ChunkSizeFacts DEF SessionTypes
<1>2. ChunkEnd \in begin .. Len(images)
  BY <1>1 DEF ChunkEnd
<1> DEFINE o == begin - 1
           w == ChunkEnd - (begin - 1)
<1>3. o \in Nat /\ w \in Nat \ {0} /\ o + 1 = begin /\ o + w = ChunkEnd
  BY <1>1, <1>2
<1> HIDE DEF o, w
<1>4. Chunk = [n \in 1 .. w |-> images[o + n]]
  <2>1. SubSeq(images, o + 1, o + w) = [n \in 1 .. w |-> images[o + n]]
    BY <1>3, SubSeqAt
  <2> QED
    BY <1>3, <2>1 DEF Chunk
<1>5. \A n \in 1 .. w : images[o + n] \in Images
  <2>1. \A n \in 1 .. w : o + n \in 1 .. Len(images)
    BY <1>1, <1>2, <1>3
  <2> QED
    BY <2>1 DEF SessionTypes
<1>6. Chunk \in [1 .. w -> Images]
  BY <1>4, <1>5
<1>7. Chunk \in Seq(Images) /\ Len(Chunk) = w
  BY <1>3, <1>6, IsSeq
<1> QED
  BY <1>2, <1>3, <1>4, <1>7 DEF o, w

LEMMA Beginning ==
  ASSUME NEW len \in Nat, NEW S, NEW s \in [1 .. len -> S], NEW count \in 1 .. len
  PROVE  /\ SubSeq(s, 1, count) = [n \in 1 .. count |-> s[n]]
         /\ SubSeq(s, 1, count) \in Seq(S) /\ Len(SubSeq(s, 1, count)) = count
<1>1. SubSeq(s, 1, count) = [n \in 1 .. count |-> s[n]]
  <2>1. SubSeq(s, 0 + 1, 0 + count) = [i \in 1 .. count |-> s[0 + i]]
    BY SubSeqAt
  <2> QED
    BY <2>1
<1>2. \A n \in 1 .. count : s[n] \in S
  OBVIOUS
<1>3. SubSeq(s, 1, count) \in [1 .. count -> S]
  BY <1>1, <1>2
<1> QED
  BY <1>1, <1>3, IsSeq

LEMMA Concatenated ==
  ASSUME NEW S, NEW a \in Nat, NEW b \in Nat, NEW f \in [1 .. a + b -> S]
  PROVE  [i \in 1 .. a |-> f[i]] \o [n \in 1 .. b |-> f[a + n]] = f
<1> DEFINE first == [i \in 1 .. a |-> f[i]]
           rest == [n \in 1 .. b |-> f[a + n]]
<1>1. first \in [1 .. a -> S]
  OBVIOUS
<1>2. rest \in [1 .. b -> S]
  <2>1. \A n \in 1 .. b : a + n \in 1 .. a + b
    OBVIOUS
  <2> QED
    BY <2>1
<1>3. ASSUME NEW i \in 1 .. a + b
      PROVE  (IF i <= a THEN first[i] ELSE rest[i - a]) = f[i]
  <2>1. CASE i <= a
    BY <2>1
  <2>2. CASE ~(i <= a)
    <3>1. i - a \in 1 .. b /\ a + (i - a) = i
      BY <2>2
    <3> QED
      BY <2>2, <3>1
  <2> QED
    BY <2>1, <2>2
<1> HIDE DEF first, rest
<1>4. first \in Seq(S) /\ Len(first) = a /\ rest \in Seq(S) /\ Len(rest) = b
  BY <1>1, <1>2, IsSeq
<1>5. /\ first \o rest \in Seq(S) /\ Len(first \o rest) = a + b
      /\ \A i \in 1 .. a + b : (first \o rest)[i] = IF i <= a THEN first[i] ELSE rest[i - a]
  BY <1>4, ConcatProperties
<1>6. first \o rest = [i \in 1 .. a + b |-> (first \o rest)[i]]
  BY <1>5, LenProperties
<1> QED
  BY <1>3, <1>5, <1>6 DEF first, rest

(* The features of a batch are rows of numbers.                            *)
LEMMA FeatureRows ==
  ASSUME NEW batch \in Seq(Images)
  PROVE  Features(batch) \in [1 .. Len(batch) -> [1 .. Locations -> Int \union {NaN}]]
<1>1. \A n \in 1 .. Len(batch) : batch[n].features \in [1 .. Locations -> Int \union {NaN}]
  BY ImagesAssumption
<1>2. DOMAIN batch = 1 .. Len(batch)
  BY LenProperties
<1> QED
  BY <1>1, <1>2 DEF Features

LEMMA SubmitValues ==
  ASSUME SInv, NEW batch \in Seq(Images), Submit(batch)
  PROVE  SInv'
<1>1. /\ phase' = "chunk" /\ images' = batch /\ begin' = 1 /\ results' = <<>>
      /\ session' = session /\ batch # <<>>
  BY DEF Submit
<1>2. SessionTypes'
  BY <1>1 DEF SInv, SessionTypes, Active
<1>3. 1 <= Len(batch)
  BY <1>1, EmptySeq
<1>4. Collected'
  <2>1. <<>> = [i \in 1 .. 0 |-> Reference(images[i])']
    OBVIOUS
  <2>2. begin' - 1 = 0
    BY <1>1
  <2>3. CollectedUpTo(0)'
    BY <1>1, <2>1 DEF CollectedUpTo
  <2> QED
    BY <1>1, <1>3, <2>2, <2>3 DEF Collected
<1>5. InProgress'
  BY <1>1 DEF InProgress
<1> QED
  BY <1>2, <1>4, <1>5 DEF SInv

(* A step that keeps the session and its images keeps what an image        *)
(* deserves.                                                               *)
LEMMA SameReference ==
  ASSUME session' = session, images' = images
  PROVE  /\ \A n : CollectedUpTo(n) /\ results' = results => CollectedUpTo(n)'
         /\ begin' = begin => Chunk' = Chunk
  BY DEF CollectedUpTo, Reference, Chunk, ChunkEnd, ChunkSize

LEMMA PreprocessValues ==
  ASSUME SInv, Preprocess
  PROVE  SInv'
<1>1. /\ phase = "chunk" /\ phase' = "preprocessed"
      /\ UNCHANGED <<session, images, begin, raw, results>>
      /\ tensors'.rows = Features(Chunk)
  BY DEF Preprocess, HostTensor, DeviceTensor, Features
<1>2. SessionTypes'
  BY <1>1 DEF SInv, SessionTypes, Active
<1>3. Collected'
  BY <1>1, SameReference DEF SInv, Collected, Active
<1>4. Chunk' = Chunk
  BY <1>1, SameReference
<1>5. InProgress'
  BY <1>1, <1>4 DEF InProgress, Features
<1> QED
  BY <1>2, <1>3, <1>5 DEF SInv

LEMMA InferValues ==
  ASSUME SInv, Infer
  PROVE  SInv'
<1> DEFINE inputs == IF session.compute = "staged" THEN Download(tensors) ELSE tensors
<1>1. /\ phase = "preprocessed" /\ phase' = "inferred"
      /\ UNCHANGED <<session, images, begin, raw, results>>
  BY DEF Infer
<1>2. inputs.rows = Features(Chunk)
  BY <1>1 DEF Download, SInv, InProgress
<1>3. Chunk' = Chunk
  BY <1>1, SameReference
<1>4. \E count \in 1 .. Len(Chunk) : tensors'.rows = SubSeq(Features(Chunk), 1, count)
  <2>1. PICK count \in {Len(inputs.rows), Len(inputs.rows) - 1} \ {0} :
          tensors' = [inputs EXCEPT !.rows = SubSeq(inputs.rows, 1, count)]
    BY DEF Infer
  <2>2. Chunk \in Seq(Images) /\ Len(Chunk) \in Nat \ {0}
    BY <1>1, ChunkFacts DEF SInv, Collected, Active
  <2>3. Len(Features(Chunk)) = Len(Chunk)
    BY <2>2, FeatureRows, IsSeq
  <2>4. count \in 1 .. Len(Chunk)
    BY <1>2, <2>1, <2>2, <2>3
  <2>5. tensors'.rows = SubSeq(Features(Chunk), 1, count)
    BY <1>2, <2>1 DEF Download
  <2> QED
    BY <2>4, <2>5
<1>5. SessionTypes'
  BY <1>1 DEF SInv, SessionTypes, Active
<1>6. Collected'
  BY <1>1, SameReference DEF SInv, Collected, Active
<1>7. InProgress'
  BY <1>1, <1>3, <1>4 DEF InProgress, Features
<1> QED
  BY <1>5, <1>6, <1>7 DEF SInv

LEMMA AdaptValues ==
  ASSUME SInv, Adapt
  PROVE  SInv'
<1>1. phase = "inferred" /\ UNCHANGED <<session, images, begin>>
  BY DEF Adapt
<1>2. CASE phase' = "failed"
  BY <1>1, <1>2 DEF SInv, SessionTypes, Collected, InProgress, Active
<1>3. CASE phase' # "failed"
  <2>1. /\ phase' = "adapted" /\ UNCHANGED results /\ ~Rejects(tensors.rows)
        /\ raw' = IF ComputeEnabled THEN PluginPredictDevice(tensors.rows)
                  ELSE PluginPredict(tensors.rows)
    BY <1>3 DEF Adapt
  <2>2. Chunk \in Seq(Images) /\ Len(Chunk) \in Nat \ {0} /\ DOMAIN Chunk = 1 .. Len(Chunk)
    BY <1>1, ChunkFacts, LenProperties DEF SInv, Collected, Active
  <2>3. PICK count \in 1 .. Len(Chunk) : tensors.rows = SubSeq(Features(Chunk), 1, count)
    BY <1>1 DEF SInv, InProgress
  <2>4. /\ tensors.rows = [n \in 1 .. count |-> Features(Chunk)[n]]
        /\ tensors.rows \in Seq([1 .. Locations -> Int \union {NaN}])
        /\ Len(tensors.rows) = count
    <3> DEFINE rows == Features(Chunk)
    <3>1. rows \in [1 .. Len(Chunk) -> [1 .. Locations -> Int \union {NaN}]]
      BY <2>2, FeatureRows
    <3> HIDE DEF rows
    <3> QED
      BY <2>2, <2>3, <3>1, Beginning DEF rows
  <2>5. Rows(tensors.rows) /\ DOMAIN tensors.rows = 1 .. count
    BY <2>4, LenProperties DEF Rows
  <2>6. raw' = [n \in 1 .. count |-> RawReference(session.algorithm, tensors.rows[n])]
    BY <2>1, <2>5, ChunkIs DEF SInv, SessionTypes
  <2>7. \A n \in 1 .. count : n \in DOMAIN Chunk /\ tensors.rows[n] = Chunk[n].features
    BY <2>2, <2>4 DEF Features
  <2>8. raw' = [n \in 1 .. count |-> Predictions(Chunk)[n]]
    BY <2>6, <2>7 DEF Predictions
  <2>9. Predictions(Chunk) \in
          [1 .. Len(Chunk) -> {Predictions(Chunk)[n] : n \in 1 .. Len(Chunk)}]
    BY <2>2 DEF Predictions
  <2>10. raw' = SubSeq(Predictions(Chunk), 1, count)
    BY <2>2, <2>8, <2>9, Beginning
  <2>11. Chunk' = Chunk
    BY <1>1, SameReference
  <2>12. Predictions(Chunk)' = Predictions(Chunk)
    BY <1>1, <2>11 DEF Predictions
  <2>13. InProgress'
    BY <2>1, <2>10, <2>11, <2>12 DEF InProgress
  <2>14. SessionTypes'
    BY <1>1, <2>1 DEF SInv, SessionTypes, Active
  <2>15. Collected'
    BY <1>1, <2>1, SameReference DEF SInv, Collected, Active
  <2> QED
    BY <2>13, <2>14, <2>15 DEF SInv
<1> QED
  BY <1>2, <1>3

LEMMA PostprocessValues ==
  ASSUME SInv, Postprocess
  PROVE  SInv'
<1>1. phase = "adapted" /\ UNCHANGED <<session, images>>
  BY DEF Postprocess
<1>2. CASE phase' = "failed"
  <2>1. begin' = begin
    BY <1>2 DEF Postprocess
  <2> QED
    BY <1>1, <1>2, <2>1 DEF SInv, SessionTypes, Collected, InProgress, Active
<1>3. CASE phase' # "failed"
  <2>1. /\ Len(raw) = Len(Chunk)
        /\ results' = results \o [n \in DOMAIN raw |-> Postprocessed(raw[n])]
        /\ begin' = begin + ChunkSize
        /\ phase' = IF begin' > Len(images) THEN "done" ELSE "chunk"
    BY <1>3 DEF Postprocess
  <2>2. /\ ChunkEnd \in begin .. Len(images) /\ Len(Chunk) = ChunkEnd - (begin - 1)
        /\ Len(Chunk) \in Nat \ {0} /\ Chunk \in Seq(Images) /\ DOMAIN Chunk = 1 .. Len(Chunk)
        /\ Chunk = [n \in 1 .. ChunkEnd - (begin - 1) |-> images[begin - 1 + n]]
    BY <1>1, ChunkFacts, LenProperties DEF SInv, Collected, Active
  <2>3. begin \in Nat \ {0} /\ Len(images) \in Nat /\ ChunkSize \in Nat \ {0}
    BY ChunkSizeFacts DEF SInv, SessionTypes
  <2>4. PICK count \in 1 .. Len(Chunk) : raw = SubSeq(Predictions(Chunk), 1, count)
    BY <1>1 DEF SInv, InProgress
  <2>5. Predictions(Chunk) \in
          [1 .. Len(Chunk) -> {Predictions(Chunk)[n] : n \in 1 .. Len(Chunk)}]
    BY <2>2 DEF Predictions
  <2>6. raw = [n \in 1 .. count |-> Predictions(Chunk)[n]] /\ Len(raw) = count
    BY <2>2, <2>4, <2>5, Beginning
  <2>7. count = Len(Chunk)
    BY <2>1, <2>6
  <2>8. [n \in DOMAIN raw |-> Postprocessed(raw[n])]
          = [n \in 1 .. Len(Chunk) |-> Reference(images[begin - 1 + n])]
    <3>1. \A n \in 1 .. Len(Chunk) : Postprocessed(raw[n]) = Reference(images[begin - 1 + n])
      BY <2>2, <2>6, <2>7 DEF Predictions, Reference
    <3> QED
      BY <2>6, <2>7, <3>1
  <2>9. CollectedUpTo(begin - 1)
    BY <1>1 DEF SInv, Collected, Active
  <2>0. \A i \in 1 .. ChunkEnd : Reference(images[i]).rawScore.value # NaN
    <3>1. ASSUME NEW i \in 1 .. ChunkEnd, ~(i <= begin - 1)
          PROVE  Reference(images[i]).rawScore.value # NaN
      <4>1. i - (begin - 1) \in 1 .. Len(Chunk) /\ begin - 1 + (i - (begin - 1)) = i
        BY <2>2, <2>3, <3>1
      <4> DEFINE n == i - (begin - 1)
      <4>2. raw[n].score.value # NaN
        BY <1>3, <2>6, <2>7, <4>1 DEF Postprocess
      <4>3. n \in DOMAIN Chunk /\ Chunk[n] = images[i]
        BY <2>2, <4>1
      <4>4. raw[n] = RawReference(session.algorithm, images[i].features)
        <5> HIDE DEF n
        <5>1. raw[n] = Predictions(Chunk)[n]
          BY <2>6, <2>7, <4>1 DEF n
        <5> QED
          BY <4>3, <5>1 DEF Predictions
      <4> HIDE DEF n
      <4> QED
        BY <4>2, <4>4 DEF Reference, Postprocessed
    <3>2. ASSUME NEW i \in 1 .. ChunkEnd, i <= begin - 1
          PROVE  Reference(images[i]).rawScore.value # NaN
      BY <2>2, <2>3, <2>9, <3>2 DEF CollectedUpTo
    <3> QED
      BY <3>1, <3>2
  <2>10. results' = [i \in 1 .. ChunkEnd |-> Reference(images[i])]
    <3> DEFINE R(i) == Reference(images[i])
               all == [i \in 1 .. (begin - 1) + Len(Chunk) |-> R(i)]
    <3>1. results' = [i \in 1 .. begin - 1 |-> R(i)]
                     \o [n \in 1 .. Len(Chunk) |-> R(begin - 1 + n)]
      BY <2>1, <2>8, <2>9 DEF CollectedUpTo
    <3> HIDE DEF R
    <3>2. begin - 1 \in Nat /\ Len(Chunk) \in Nat /\ (begin - 1) + Len(Chunk) = ChunkEnd
      BY <2>2, <2>3
    <3>3. all \in [1 .. (begin - 1) + Len(Chunk) -> {R(i) : i \in 1 .. (begin - 1) + Len(Chunk)}]
      OBVIOUS
    <3>4. /\ \A i \in 1 .. begin - 1 : all[i] = R(i)
          /\ \A n \in 1 .. Len(Chunk) : all[(begin - 1) + n] = R(begin - 1 + n)
      BY <3>2
    <3> HIDE DEF all
    <3>5. [i \in 1 .. begin - 1 |-> all[i]] \o [n \in 1 .. Len(Chunk) |-> all[(begin - 1) + n]]
            = all
      BY <3>2, <3>3, Concatenated
    <3>6. results' = all
      BY <3>1, <3>4, <3>5
    <3> QED
      BY <3>2, <3>6 DEF R, all
  <2>11. CASE begin + ChunkSize > Len(images)
    <3>1. ChunkEnd = Len(images)
      BY <2>2, <2>3, <2>11 DEF ChunkEnd
    <3>2. CollectedUpTo(Len(images))'
      BY <1>1, <2>0, <2>10, <3>1 DEF CollectedUpTo, Reference
    <3>3. phase' = "done" /\ begin' \in Nat \ {0}
      BY <2>1, <2>3, <2>11
    <3> QED
      BY <1>1, <3>2, <3>3 DEF SInv, SessionTypes, Collected, InProgress, Active
  <2>12. CASE ~(begin + ChunkSize > Len(images))
    <3>1. ChunkEnd = begin' - 1 /\ begin' <= Len(images) /\ begin' \in Nat \ {0}
      BY <2>1, <2>2, <2>3, <2>12 DEF ChunkEnd
    <3>2. CollectedUpTo(begin - 1)'
      BY <1>1, <2>0, <2>10, <3>1 DEF CollectedUpTo, Reference
    <3>3. phase' = "chunk"
      BY <2>1, <2>12
    <3> QED
      BY <1>1, <3>1, <3>2, <3>3 DEF SInv, SessionTypes, Collected, InProgress, Active
  <2> QED
    BY <2>11, <2>12
<1> QED
  BY <1>2, <1>3

LEMMA SessionValues ==
  ASSUME SInv, SessionStep
  PROVE  SInv'
<1>1. CASE StageFails
  BY <1>1 DEF StageFails, SInv, SessionTypes, Collected, InProgress, Active
<1> QED
  BY <1>1, PreprocessValues, InferValues, AdaptValues, PostprocessValues DEF SessionStep

LEMMA FinishValues ==
  ASSUME SInv, Finish
  PROVE  SInv'
<1>1. <<>> \in Seq(Images) /\ 1 \in Nat \ {0}
  OBVIOUS
<1> QED
  BY <1>1 DEF Finish, SInv, SessionTypes, Collected, InProgress, Active

LEMMA IdleValues ==
  ASSUME SInv, UNCHANGED sessionVars
  PROVE  SInv'
<1>1. UNCHANGED <<session, phase, images, begin, tensors, raw, results>>
  BY DEF sessionVars
<1>2. Chunk' = Chunk /\ \A n : CollectedUpTo(n) => CollectedUpTo(n)'
  BY <1>1, SameReference
<1>3. Features(Chunk)' = Features(Chunk) /\ Predictions(Chunk)' = Predictions(Chunk)
  BY <1>1, <1>2 DEF Features, Predictions
<1> QED
  BY <1>1, <1>2, <1>3 DEF SInv, SessionTypes, Collected, InProgress, Active

LEMMA StepValues ==
  ASSUME SInv, [Next]_vars
  PROVE  SInv'
<1>1. CASE SessionStep
  BY <1>1, SessionValues
<1>2. CASE ExportStep
  <2>1. CASE CallRefused
    BY <2>1, IdleValues DEF CallRefused
  <2>2. CASE CallPredict
    BY <2>2, SubmitValues, CallerAssumption DEF CallPredict
  <2>3. CASE ExportNext
    BY <2>3, IdleValues DEF ExportNext
  <2>4. CASE ExportFails
    BY <2>4, FinishValues DEF ExportFails
  <2>5. CASE CallSucceeds \/ CallFails
    BY <2>5, FinishValues DEF CallSucceeds, CallFails
  <2>6. CASE Release
    BY <2>6, IdleValues DEF Release
  <2> QED
    BY <1>2, <2>1, <2>2, <2>3, <2>4, <2>5, <2>6 DEF ExportStep
<1>3. CASE CalibratorStep
  <2>1. CASE AddBatch
    BY <2>1, SubmitValues, CalibrationAssumption DEF AddBatch
  <2>2. CASE TakeScore \/ TakePixel \/ Compute
    BY <2>2, IdleValues DEF TakeScore, TakePixel, Compute
  <2>3. CASE TakeFails \/ BatchTaken \/ PredictionFails
    BY <2>3, FinishValues DEF TakeFails, BatchTaken, PredictionFails, Return
  <2> QED
    BY <1>3, <2>1, <2>2, <2>3 DEF CalibratorStep
<1>4. CASE UNCHANGED vars
  BY <1>4, IdleValues DEF vars
<1> QED
  BY <1>1, <1>2, <1>3, <1>4 DEF Next

LEMMA InitValues == Init => SInv
<1>1. <<>> \in Seq(Images) /\ 1 \in Nat \ {0}
  OBVIOUS
<1> QED
  BY <1>1 DEF Init, InitSession, SInv, SessionTypes, Collected, InProgress, Active

(* What predictBatch has collected is, image by image, what the image      *)
(* alone deserves: any algorithm, on the host or on a device, any chunks.  *)
THEOREM EachImageAlone == Spec => []SInv
<1>1. SInv /\ [Next]_vars => SInv'
  BY StepValues
<1> QED
  BY <1>1, InitValues, PTL DEF Spec

-----------------------------------------------------------------------------
(* What the caller is given. *)

Delivered(i) ==
  slots[i].internal \in DOMAIN heap /\ heap[slots[i].internal] = Reference(request[i])

EInv ==
  /\ client = "predict" /\ phase # "idle" => answer = "none" /\ images = request
  /\ client = "calibrate" => answer = "none" /\ exported = 0
  /\ phase = "done" => \A i \in 1 .. exported : Delivered(i)
  /\ answer = "ok" => \A i \in DOMAIN request : Delivered(i)

LEMMA SameSession ==
  ASSUME [Next]_vars
  PROVE  session' = session
  BY DEF Next, vars, SessionStep, Preprocess, Infer, StageFails, Adapt, Postprocess,
         ExportStep, CallRefused, CallPredict, Submit, ExportNext, ExportFails, Finish,
         CallSucceeds, CallFails, Release, CalibratorStep, AddBatch, TakeScore, TakePixel,
         TakeFails, BatchTaken, PredictionFails, Return, Compute, sessionVars

(* The predictions delivered stay as long as nobody touches them.          *)
LEMMA StillDelivered ==
  ASSUME session' = session, UNCHANGED <<slots, heap, request>>
  PROVE  \A i : Delivered(i) => Delivered(i)'
  BY DEF Delivered, Reference

LEMMA ExportDelivers ==
  ASSUME IInv, SInv, EInv, client = "predict", ExportNext, UNCHANGED client
  PROVE  EInv'
<1> DEFINE next == exported + 1
           address == CHOOSE a \in Addresses \ DOMAIN heap : TRUE
<1>1. /\ phase = "done" /\ phase' = "done" /\ exported < Len(request) /\ exported' = next
      /\ slots' = [slots EXCEPT ![next].internal = address]
      /\ heap' = [a \in DOMAIN heap \union {address} |->
                    IF a = address THEN results[next] ELSE heap[a]]
      /\ UNCHANGED <<session, images, request, answer, before, client>>
  BY DEF ExportNext, sessionVars
<1>2. /\ next \in Indices /\ next \in 1 .. Len(request) /\ exported \in Nat
      /\ \A i \in 1 .. next : i \in Indices /\ (i # next => i \in 1 .. exported)
  BY <1>1, CallerAssumption DEF IInv, ExportTypes, Indices
<1>3. address \in Addresses /\ address \notin DOMAIN heap
  BY <1>2, AddressLeft DEF IInv
<1> HIDE DEF address
<1>4. /\ slots \in [Indices -> SlotType]
      /\ \A i \in Indices :
           slots'[i] = IF i = next THEN [slots[i] EXCEPT !.internal = address] ELSE slots[i]
  BY <1>1, <1>2 DEF IInv, ExportTypes
<1>5. slots'[next].internal = address
  <2>1. slots[next] \in SlotType /\ slots'[next] = [slots[next] EXCEPT !.internal = address]
    BY <1>2, <1>4
  <2> HIDE DEF next
  <2> QED
    BY <1>3, <2>1, SlotFields
<1>6. images = request /\ results = [i \in 1 .. Len(images) |-> Reference(images[i])]
  BY <1>1 DEF EInv, SInv, Collected, CollectedUpTo
<1>7. results[next] = Reference(request[next])
  BY <1>2, <1>6
<1>8. \A i : Reference(request[i])' = Reference(request[i])
  BY <1>1 DEF Reference
<1> HIDE DEF next
<1>9. ASSUME NEW i \in 1 .. next PROVE Delivered(i)'
  <2>1. CASE i = next
    BY <1>1, <1>5, <1>7, <1>8, <2>1 DEF Delivered
  <2>2. CASE i # next
    <3>1. Delivered(i) /\ slots'[i] = slots[i]
      BY <1>1, <1>2, <1>4, <2>2 DEF EInv
    <3> DEFINE a == slots[i].internal
    <3>2. a \in DOMAIN heap /\ heap[a] = Reference(request[i]) /\ slots'[i].internal = a
      BY <3>1 DEF Delivered
    <3> HIDE DEF a
    <3>3. a \in DOMAIN heap' /\ heap'[a] = heap[a]
      BY <1>1, <1>3, <3>2
    <3> QED
      BY <1>8, <3>2, <3>3 DEF Delivered
  <2> QED
    BY <2>1, <2>2
<1> QED
  BY <1>1, <1>9 DEF EInv

LEMMA StepDelivers ==
  ASSUME IInv, SInv, EInv, [Next]_vars
  PROVE  EInv'
<1>0. session' = session
  BY SameSession
<1>1. CASE SessionStep /\ UNCHANGED <<client, exportVars, calibratorVars>>
  <2>1. /\ phase \notin {"idle", "done"}
        /\ UNCHANGED <<client, slots, heap, request, exported, answer, before>>
    BY <1>1, SessionPhases DEF exportVars
  <2>2. images' = images
    BY <1>1 DEF SessionStep, Preprocess, Infer, StageFails, Adapt, Postprocess
  <2>3. exported = 0
    BY <2>1 DEF IInv, CallLocal
  <2> QED
    BY <1>0, <2>1, <2>2, <2>3, StillDelivered DEF EInv
<1>2. CASE client = "predict" /\ ExportStep /\ UNCHANGED <<client, calibratorVars>>
  <2>1. CASE CallRefused
    <3>1. phase' = "idle" /\ answer' = "error"
      BY <2>1 DEF CallRefused, sessionVars
    <3> QED
      BY <1>2, <3>1 DEF EInv
  <2>2. CASE CallPredict
    <3>1. phase' = "chunk" /\ answer' = "none" /\ images' = request'
      BY <2>2 DEF CallPredict, Submit
    <3> QED
      BY <1>2, <3>1 DEF EInv
  <2>3. CASE ExportNext
    BY <1>2, <2>3, ExportDelivers
  <2>4. CASE ExportFails \/ CallFails
    <3>1. phase' = "idle" /\ answer' = "error"
      BY <2>4 DEF ExportFails, CallFails, Answer, Finish
    <3> QED
      BY <1>2, <3>1 DEF EInv
  <2>5. CASE CallSucceeds
    <3>1. /\ phase = "done" /\ phase' = "idle" /\ exported = Len(request)
          /\ UNCHANGED <<slots, heap, request>>
      BY <2>5 DEF CallSucceeds, Answer, Finish
    <3>2. DOMAIN request = 1 .. Len(request)
      BY LenProperties DEF IInv, ExportTypes
    <3>3. \A i \in DOMAIN request : Delivered(i)'
      BY <1>0, <3>1, <3>2, StillDelivered DEF EInv
    <3> QED
      BY <1>2, <3>1, <3>3 DEF EInv
  <2>6. CASE Release
    <3>1. phase' = "idle" /\ answer' = "none"
      BY <2>6 DEF Release, sessionVars
    <3> QED
      BY <1>2, <3>1 DEF EInv
  <2> QED
    BY <1>2, <2>1, <2>2, <2>3, <2>4, <2>5, <2>6 DEF ExportStep
<1>3. CASE client = "calibrate" /\ CalibratorStep /\ UNCHANGED <<client, exportVars>>
  BY <1>3 DEF EInv, exportVars
<1>4. CASE UNCHANGED vars
  <2>1. UNCHANGED <<client, phase, images, slots, heap, request, exported, answer>>
    BY <1>4 DEF vars, sessionVars, exportVars
  <2> QED
    BY <1>0, <2>1, StillDelivered DEF EInv
<1> QED
  BY <1>1, <1>2, <1>3, <1>4 DEF Next

(* A call that returned OK has delivered, structure by structure, what the *)
(* image alone deserves; a call that failed has changed no structure.      *)
THEOREM DeliveredOrUntouched == Spec => []AllOrNothing
<1>1. Init => EInv
  BY DEF Init, InitExport, InitSession, EInv
<1>2. IInv /\ SInv /\ EInv /\ [Next]_vars => EInv'
  BY StepDelivers
<1>3. IInv /\ EInv => AllOrNothing
  BY DEF IInv, CallLocal, EInv, Delivered, AllOrNothing
<1> QED
  BY <1>1, <1>2, <1>3, Safety, EachImageAlone, PTL DEF Spec

-----------------------------------------------------------------------------
(* The samples of the calibrator. *)

CallType == [images : Seq(Images), status : {"running", "ok", "error"}]
SampleType == [value : Int, call : Nat, image : Nat]
PixelType == [value : Int, call : Nat, image : Nat, at : Nat]

CalibratorTypes ==
  /\ calls \in Seq(CallType) /\ consumed \in [image : Nat, pixels : Nat]
  /\ imageScores \in Seq(SampleType) /\ pixelScores \in Seq(PixelType)
  /\ seenPixels \in Nat /\ lost \in 0 .. seenPixels

(* Scores and pixels kept, related to the calls they come from.  The score *)
(* of image n of call c is kept:                                           *)
Taken(scores, c, n) == \E i \in DOMAIN scores : scores[i].call = c /\ scores[i].image = n

ScoreFrom(s, scores, batches) ==
  /\ s.call \in DOMAIN batches /\ s.image \in DOMAIN batches[s.call].images
  /\ s.value = batches[s.call].images[s.image].features[1]
  /\ \A n \in 1 .. s.image : Taken(scores, s.call, n)

PixelFrom(p, scores, batches) ==
  /\ p.call \in DOMAIN batches /\ p.image \in DOMAIN batches[p.call].images
  /\ Taken(scores, p.call, p.image)
  /\ p.at \in Readable(batches[p.call].images[p.image].features)
  /\ p.value = batches[p.call].images[p.image].features[p.at]

InOrder(scores) ==
  \A i, j \in DOMAIN scores :
    i < j /\ scores[i].call = scores[j].call => scores[i].image < scores[j].image

Kept(scores, pixels, batches) ==
  /\ \A i \in DOMAIN scores : ScoreFrom(scores[i], scores, batches)
  /\ InOrder(scores)
  /\ \A i \in DOMAIN pixels : PixelFrom(pixels[i], scores, batches)
  /\ \A c \in DOMAIN batches :
       batches[c].status = "ok" => \A n \in DOMAIN batches[c].images : Taken(scores, c, n)

(* The call in progress has taken the scores of the images up to the       *)
(* current one, and of that the pixels up to the current one.              *)
NotAfter(p, reached) ==
  p.image < reached.image \/ (p.image = reached.image /\ p.at <= reached.pixels)

Reached(scores, pixels, last, reached) ==
  /\ \A n \in 1 .. reached.image : Taken(scores, last, n)
  /\ \A i \in DOMAIN scores : scores[i].call = last => scores[i].image <= reached.image
  /\ \A i \in DOMAIN pixels : pixels[i].call = last => NotAfter(pixels[i], reached)

InCall ==
  /\ calls # <<>>
  /\ calls[Len(calls)] = [images |-> images, status |-> "running"]
  /\ Reached(imageScores, pixelScores, Len(calls), consumed)
  /\ consumed.image <= Len(images)
  /\ consumed.image = 0 => consumed.pixels = 0
  /\ consumed.image # 0 =>
       /\ consumed.pixels <= Locations
       /\ \A o \in 1 .. consumed.pixels : images[consumed.image].features[o] # NaN

ResultOf ==
  [computed |-> TRUE,
   samples |-> Len(imageScores),
   image |-> Statistics(Values(imageScores)),
   hasPixels |-> pixelScores # <<>>,
   pixel |-> IF pixelScores = <<>> THEN NoPixelStatistics ELSE Statistics(Values(pixelScores))]

CInv ==
  /\ session.algorithm = "direct" /\ CalibratorTypes /\ ReservoirDistinct
  /\ Kept(imageScores, pixelScores, calls)
  /\ phase # "idle" => InCall
  /\ phase # "done" => consumed = Nothing
  /\ result = NoResult \/ (phase = "idle" /\ imageScores # <<>> /\ result = ResultOf)

KInv ==
  /\ client = "calibrate" => CInv
  /\ client = "predict" => /\ calls = <<>> /\ imageScores = <<>> /\ pixelScores = <<>>
                           /\ seenPixels = 0 /\ lost = 0 /\ result = NoResult

(* What the calibrator reads of a prediction of the direct adapter.        *)
LEMMA DirectReference ==
  ASSUME session.algorithm = "direct", NEW image \in Images
  PROVE  /\ Reference(image).rawMap = image.features
         /\ Reference(image).rawScore.value = image.features[1]
         /\ Len(image.features) = Locations /\ DOMAIN image.features = 1 .. Locations
         /\ \A at \in 1 .. Locations :
              image.features[at] # NaN => image.features[at] \in Int
<1>1. image.features \in [1 .. Locations -> Int \union {NaN}] /\ Locations \in Nat
  BY ImagesAssumption
<1>2. /\ Reference(image).rawMap = image.features
      /\ Reference(image).rawScore.value = image.features[1]
  BY DEF Reference, RawReference, Postprocessed
<1>3. Len(image.features) = Locations
  BY <1>1, IsSeq
<1> QED
  BY <1>1, <1>2, <1>3

(* The state of a call whose predictions are there.                        *)
LEMMA TakingFacts ==
  ASSUME SInv, CInv, phase = "done"
  PROVE  /\ InCall /\ images \in Seq(Images) /\ Len(images) \in Nat
         /\ Len(results) = Len(images) /\ consumed.image \in 0 .. Len(images)
         /\ consumed.pixels \in Nat
         /\ \A n \in 1 .. Len(images) : /\ images[n] \in Images
                                        /\ results[n] = Reference(images[n])
                                        /\ images[n].features[1] \in Int
         /\ consumed.image # 0 => Len(Current.rawMap) = Locations
<1>1. /\ InCall /\ images \in Seq(Images) /\ Len(images) \in Nat /\ Locations \in Nat \ {0}
      /\ consumed \in [image : Nat, pixels : Nat]
  BY ImagesAssumption DEF SInv, SessionTypes, CInv, CalibratorTypes
<1>2. /\ results = [i \in 1 .. Len(images) |-> Reference(images[i])]
      /\ \A i \in 1 .. Len(images) : Reference(images[i]).rawScore.value # NaN
  BY DEF SInv, Collected, CollectedUpTo
<1>3. Len(results) = Len(images)
  <2>1. results \in [1 .. Len(images) -> {Reference(images[i]) : i \in 1 .. Len(images)}]
    BY <1>2
  <2> QED
    BY <1>1, <2>1, IsSeq
<1>4. consumed.image \in 0 .. Len(images) /\ consumed.pixels \in Nat
  BY <1>1 DEF InCall
<1>5. ASSUME NEW n \in 1 .. Len(images)
      PROVE  /\ images[n] \in Images /\ results[n] = Reference(images[n])
             /\ images[n].features[1] \in Int /\ Len(results[n].rawMap) = Locations
  <2>1. images[n] \in Images /\ results[n] = Reference(images[n])
    BY <1>1, <1>2
  <2>2. 1 \in 1 .. Locations
    BY <1>1
  <2>3. images[n].features[1] # NaN
    BY <1>2, <2>1, DirectReference DEF CInv
  <2> QED
    BY <2>1, <2>2, <2>3, DirectReference DEF CInv
<1>6. consumed.image # 0 => consumed.image \in 1 .. Len(images)
  BY <1>4
<1> QED
  BY <1>1, <1>3, <1>4, <1>5, <1>6 DEF Current

(* A step of the session leaves the samples alone.                         *)
LEMMA SessionKeepsSamples ==
  ASSUME SInv, CInv, SessionStep, UNCHANGED calibratorVars, session' = session
  PROVE  CInv'
<1>1. phase \notin {"idle", "done"} /\ images' = images
  BY SessionPhases DEF SessionStep, Preprocess, Infer, StageFails, Adapt, Postprocess
<1>2. UNCHANGED <<imageScores, pixelScores, seenPixels, lost, consumed, calls, result>>
  BY DEF calibratorVars
<1>3. CalibratorTypes' /\ ReservoirDistinct' /\ Kept(imageScores, pixelScores, calls)'
  BY <1>2 DEF CInv, CalibratorTypes, ReservoirDistinct
<1>4. InCall'
  BY <1>1, <1>2 DEF CInv, InCall
<1>5. consumed' = Nothing /\ result' = NoResult
  BY <1>1, <1>2 DEF CInv
<1> QED
  BY <1>3, <1>4, <1>5 DEF CInv

(* What an element added at the end changes.                               *)
LEMMA AppendFacts ==
  ASSUME NEW S, NEW s \in Seq(S), NEW e \in S
  PROVE  LET t == Append(s, e)
         IN  /\ t \in Seq(S) /\ t # <<>> /\ Len(s) \in Nat /\ Len(t) = Len(s) + 1
             /\ DOMAIN s = 1 .. Len(s) /\ DOMAIN t = DOMAIN s \union {Len(s) + 1}
             /\ \A i \in DOMAIN s : i \in Nat /\ i < Len(s) + 1 /\ t[i] = s[i]
             /\ t[Len(s) + 1] = e
<1> DEFINE t == Append(s, e)
<1>1. Len(s) \in Nat /\ DOMAIN s = 1 .. Len(s)
  BY LenProperties
<1>2. /\ t \in Seq(S) /\ t # <<>> /\ Len(t) = Len(s) + 1
      /\ \A i \in 1 .. Len(s) : t[i] = s[i]
      /\ t[Len(s) + 1] = e
  BY AppendProperties
<1>3. DOMAIN t = 1 .. Len(s) + 1
  BY <1>2, LenProperties
<1> HIDE DEF t
<1> QED
  BY <1>1, <1>2, <1>3 DEF t

LEMMA AddBatchKeeps ==
  ASSUME SInv, CInv, AddBatch, session' = session
  PROVE  CInv'
<1>1. PICK batch \in CalibrationBatches :
        Submit(batch) /\ calls' = Append(calls, [images |-> batch, status |-> "running"])
  BY DEF AddBatch
<1> DEFINE new == [images |-> batch, status |-> "running"]
           last == Len(calls) + 1
<1>2. /\ phase = "idle" /\ phase' = "chunk" /\ images' = batch
      /\ UNCHANGED <<imageScores, pixelScores, seenPixels, lost>>
      /\ consumed' = Nothing /\ result' = NoResult
  BY <1>1 DEF AddBatch, Submit
<1>3. new \in CallType /\ new.status # "ok"
  BY CalibrationAssumption DEF CallType
<1>4. /\ calls' \in Seq(CallType) /\ calls' # <<>> /\ Len(calls') = last
      /\ DOMAIN calls' = DOMAIN calls \union {last} /\ last \notin DOMAIN calls
      /\ \A c \in DOMAIN calls : calls'[c] = calls[c]
      /\ calls'[last] = new
  <2>1. calls \in Seq(CallType) /\ calls' = Append(calls, new)
    BY <1>1 DEF CInv, CalibratorTypes
  <2> HIDE DEF new
  <2> QED
    BY <1>3, <2>1, AppendFacts
<1> HIDE DEF new, last
<1>5. Kept(imageScores, pixelScores, calls)
  BY DEF CInv
<1>6. CalibratorTypes'
  <2>1. Nothing \in [image : Nat, pixels : Nat]
    BY DEF Nothing
  <2> QED
    BY <1>2, <1>4, <2>1 DEF CInv, CalibratorTypes
<1>7. Kept(imageScores, pixelScores, calls')
  <2>1. \A i \in DOMAIN imageScores : ScoreFrom(imageScores[i], imageScores, calls')
    BY <1>4, <1>5 DEF Kept, ScoreFrom
  <2>2. \A i \in DOMAIN pixelScores : PixelFrom(pixelScores[i], imageScores, calls')
    BY <1>4, <1>5 DEF Kept, PixelFrom
  <2>3. \A c \in DOMAIN calls' :
          calls'[c].status = "ok" => \A n \in DOMAIN calls'[c].images : Taken(imageScores, c, n)
    BY <1>3, <1>4, <1>5 DEF Kept
  <2> QED
    BY <1>5, <2>1, <2>2, <2>3 DEF Kept
<1>8. InCall'
  <2>1. consumed'.image = 0 /\ consumed'.pixels = 0
    BY <1>2 DEF Nothing
  <2>2. 0 <= Len(batch)
    BY CalibrationAssumption
  <2>3. /\ \A i \in DOMAIN imageScores : imageScores[i].call # last
        /\ \A i \in DOMAIN pixelScores : pixelScores[i].call # last
    BY <1>4, <1>5 DEF Kept, ScoreFrom, PixelFrom
  <2>4. Reached(imageScores, pixelScores, last, consumed')
    BY <2>1, <2>3 DEF Reached
  <2> QED
    BY <1>2, <1>4, <2>1, <2>2, <2>4 DEF InCall, new
<1> QED
  BY <1>2, <1>6, <1>7, <1>8 DEF CInv, ReservoirDistinct

(* One more score.                                                         *)
LEMMA KeepScore ==
  ASSUME NEW scores \in Seq(SampleType), NEW pixels \in Seq(PixelType), NEW batches,
         NEW last, NEW reached \in [image : Nat, pixels : Nat], NEW new \in SampleType,
         Kept(scores, pixels, batches), Reached(scores, pixels, last, reached),
         new.call = last, new.image = reached.image + 1,
         last \in DOMAIN batches, new.image \in DOMAIN batches[last].images,
         new.value = batches[last].images[new.image].features[1]
  PROVE  /\ Append(scores, new) \in Seq(SampleType)
         /\ Kept(Append(scores, new), pixels, batches)
         /\ Reached(Append(scores, new), pixels, last, [image |-> new.image, pixels |-> 0])
<1> DEFINE t == Append(scores, new)
           k == Len(scores) + 1
           next == [image |-> new.image, pixels |-> 0]
<1>1. /\ t \in Seq(SampleType) /\ k \in Nat
      /\ DOMAIN t = DOMAIN scores \union {k}
      /\ \A i \in DOMAIN scores : i \in Nat /\ i < k /\ t[i] = scores[i]
      /\ t[k] = new
  BY AppendFacts
<1> HIDE DEF t, k
<1>2. /\ \A c, n : Taken(scores, c, n) => Taken(t, c, n)
      /\ Taken(t, last, new.image)
  BY <1>1 DEF Taken
<1>3. reached.image \in Nat /\ new.image \in Nat
  BY DEF SampleType
<1>4. \A i \in DOMAIN scores : scores[i].image \in Nat
  <2>1. \A i \in DOMAIN scores : scores[i] \in SampleType
    BY LenProperties
  <2> QED
    BY <2>1 DEF SampleType
<1>5. \A i \in DOMAIN pixels : pixels[i].image \in Nat
  <2>1. \A i \in DOMAIN pixels : pixels[i] \in PixelType
    BY LenProperties
  <2> QED
    BY <2>1 DEF PixelType
<1>6. \A n \in 1 .. new.image : Taken(t, last, n)
  <2>1. \A n \in 1 .. new.image : n \in 1 .. reached.image \/ n = new.image
    BY <1>3
  <2> QED
    BY <1>2, <2>1 DEF Reached
<1>7. \A i \in DOMAIN t : ScoreFrom(t[i], t, batches)
  <2>1. ScoreFrom(new, t, batches)
    BY <1>6 DEF ScoreFrom
  <2>2. \A i \in DOMAIN scores : ScoreFrom(scores[i], t, batches)
    BY <1>2 DEF Kept, ScoreFrom
  <2> QED
    BY <1>1, <2>1, <2>2
<1>8. \A i \in DOMAIN scores : scores[i].call = last => scores[i].image < new.image
  <2>1. \A i \in DOMAIN scores : scores[i].call = last => scores[i].image <= reached.image
    BY DEF Reached
  <2> QED
    BY <1>3, <1>4, <2>1
<1>9. InOrder(t)
  <2> SUFFICES ASSUME NEW i \in DOMAIN t, NEW j \in DOMAIN t, i < j, t[i].call = t[j].call
               PROVE  t[i].image < t[j].image
    BY DEF InOrder
  <2>1. i \in DOMAIN scores
    BY <1>1
  <2>2. CASE j \in DOMAIN scores
    BY <1>1, <2>1, <2>2 DEF Kept, InOrder
  <2>3. CASE j = k
    BY <1>1, <1>8, <2>1, <2>3
  <2> QED
    BY <1>1, <2>2, <2>3
<1>10. \A i \in DOMAIN pixels : PixelFrom(pixels[i], t, batches)
  BY <1>2 DEF Kept, PixelFrom
<1>11. \A c \in DOMAIN batches :
         batches[c].status = "ok" => \A n \in DOMAIN batches[c].images : Taken(t, c, n)
  BY <1>2 DEF Kept
<1>12. Reached(t, pixels, last, next)
  <2>1. \A i \in DOMAIN t : t[i].call = last => t[i].image <= new.image
    <3>1. \A i \in DOMAIN scores : scores[i].call = last => scores[i].image <= new.image
      BY <1>3, <1>4, <1>8
    <3> QED
      BY <1>1, <1>3, <3>1
  <2>2. \A i \in DOMAIN pixels : pixels[i].call = last => pixels[i].image < new.image
    <3>1. \A i \in DOMAIN pixels : pixels[i].call = last => pixels[i].image <= reached.image
      BY <1>3, <1>5 DEF Reached, NotAfter
    <3> QED
      BY <1>3, <1>5, <3>1
  <2> QED
    BY <1>6, <2>1, <2>2 DEF Reached, NotAfter
<1> QED
  BY <1>1, <1>7, <1>9, <1>10, <1>11, <1>12 DEF Kept, t

LEMMA TakeScoreKeeps ==
  ASSUME SInv, CInv, TakeScore, session' = session
  PROVE  CInv'
<1> DEFINE next == consumed.image + 1
           last == Len(calls)
           new == [value |-> results[next].rawScore.value, call |-> last, image |-> next]
<1>1. /\ phase = "done" /\ ImageTaken /\ ~AllTaken
      /\ imageScores' = Append(imageScores, new)
      /\ consumed' = [image |-> next, pixels |-> 0]
      /\ UNCHANGED <<phase, images, pixelScores, seenPixels, lost, calls, result>>
  BY DEF TakeScore, sessionVars
<1>2. /\ InCall /\ consumed.image \in 0 .. Len(images) /\ Len(images) \in Nat
      /\ Len(results) = Len(images) /\ images \in Seq(Images)
      /\ \A n \in 1 .. Len(images) : /\ images[n] \in Images
                                     /\ results[n] = Reference(images[n])
                                     /\ images[n].features[1] \in Int
  BY <1>1, TakingFacts
<1>3. next \in 1 .. Len(images) /\ next \in Nat /\ next \in DOMAIN images
  BY <1>1, <1>2, LenProperties DEF AllTaken
<1>4. /\ calls \in Seq(CallType) /\ last \in Nat /\ last \in DOMAIN calls
      /\ calls[last] = [images |-> images, status |-> "running"]
  BY <1>2, EmptySeq, LenProperties DEF CInv, CalibratorTypes, InCall
<1>5. new.value = images[next].features[1] /\ new.call = last /\ new.image = next
  BY <1>2, <1>3, DirectReference DEF CInv
<1>6. new \in SampleType
  <2>1. results[next].rawScore.value \in Int
    BY <1>2, <1>3, <1>5
  <2> QED
    BY <1>3, <1>4, <2>1 DEF SampleType
<1>7. /\ consumed \in [image : Nat, pixels : Nat] /\ imageScores \in Seq(SampleType)
      /\ pixelScores \in Seq(PixelType) /\ Kept(imageScores, pixelScores, calls)
      /\ Reached(imageScores, pixelScores, last, consumed)
  BY <1>2 DEF CInv, CalibratorTypes, InCall
<1> HIDE DEF new, last
<1>8. new.image = consumed.image + 1 /\ consumed' = [image |-> new.image, pixels |-> 0]
  BY <1>1, <1>5
<1> HIDE DEF next
<1>9. /\ imageScores' \in Seq(SampleType) /\ Kept(imageScores', pixelScores, calls)
      /\ Reached(imageScores', pixelScores, last, consumed')
  <2>1. /\ last \in DOMAIN calls /\ new.image \in DOMAIN calls[last].images
        /\ new.value = calls[last].images[new.image].features[1]
    BY <1>3, <1>4, <1>5
  <2>2. /\ Append(imageScores, new) \in Seq(SampleType)
        /\ Kept(Append(imageScores, new), pixelScores, calls)
        /\ Reached(Append(imageScores, new), pixelScores, last, [image |-> new.image, pixels |-> 0])
    BY <1>5, <1>6, <1>7, <1>8, <2>1, KeepScore
  <2> QED
    BY <1>1, <1>8, <2>2
<1>10. consumed'.image = next /\ consumed'.pixels = 0
  BY <1>1
<1>11. CalibratorTypes'
  <2>1. consumed' \in [image : Nat, pixels : Nat]
    BY <1>1, <1>3
  <2> QED
    BY <1>1, <1>9, <2>1 DEF CInv, CalibratorTypes
<1>12. InCall'
  <2>1. Locations \in Nat /\ next # 0 /\ next <= Len(images) /\ \A o \in 1 .. 0 : FALSE
    BY <1>2, <1>3, ImagesAssumption
  <2> QED
    BY <1>1, <1>2, <1>4, <1>9, <1>10, <2>1 DEF InCall, last
<1>13. result' = NoResult
  BY <1>1 DEF CInv
<1> QED
  BY <1>1, <1>9, <1>11, <1>12, <1>13 DEF CInv, ReservoirDistinct

(* A pixel offered takes one place at most.                                *)
SameSource(p, q) == p.call = q.call /\ p.image = q.image /\ p.at = q.at
Distinct(pixels, seen) ==
  /\ Len(pixels) = IF seen < MaxPixelSamples THEN seen ELSE MaxPixelSamples
  /\ \A i, j \in DOMAIN pixels : SameSource(pixels[i], pixels[j]) => i = j

LEMMA DistinctIs ==
  ReservoirDistinct <=> /\ Distinct(pixelScores, seenPixels - lost)
                        /\ lost > 0 => Len(pixelScores) >= Reserved
  BY DEF ReservoirDistinct, Distinct, SameSource

TakesOnePlace(new, pixels, kept) ==
  \E k \in Nat : \A i \in DOMAIN kept :
    IF i = k THEN kept[i] = new ELSE i \in DOMAIN pixels /\ kept[i] = pixels[i]

LEMMA OfferedFacts ==
  ASSUME NEW pixels \in Seq(PixelType), NEW new \in PixelType, NEW seen \in Nat,
         Distinct(pixels, seen), NEW selected \in Nat
  PROVE  /\ Offered(pixels, new, selected) \in Seq(PixelType)
         /\ Len(Offered(pixels, new, selected)) =
              IF seen + 1 < MaxPixelSamples THEN seen + 1 ELSE MaxPixelSamples
         /\ TakesOnePlace(new, pixels, Offered(pixels, new, selected))
<1> DEFINE t == Offered(pixels, new, selected)
<1>1. /\ MaxPixelSamples \in Nat \ {0} /\ Len(pixels) \in Nat
      /\ DOMAIN pixels = 1 .. Len(pixels)
  BY SamplesAssumption, LenProperties
<1>2. Len(pixels) = IF seen < MaxPixelSamples THEN seen ELSE MaxPixelSamples
  BY DEF Distinct
<1>3. CASE Len(pixels) < MaxPixelSamples
  <2>1. t = Append(pixels, new)
    BY <1>3 DEF Offered
  <2>2. /\ t \in Seq(PixelType) /\ Len(t) = Len(pixels) + 1
        /\ DOMAIN t = DOMAIN pixels \union {Len(pixels) + 1}
        /\ \A i \in DOMAIN pixels : i < Len(pixels) + 1 /\ t[i] = pixels[i]
        /\ t[Len(pixels) + 1] = new
    BY <2>1, AppendFacts
  <2> HIDE DEF t
  <2>3. Len(t) = IF seen + 1 < MaxPixelSamples THEN seen + 1 ELSE MaxPixelSamples
    BY <1>1, <1>2, <1>3, <2>2
  <2>4. \A i \in DOMAIN t : IF i = Len(pixels) + 1 THEN t[i] = new
                            ELSE i \in DOMAIN pixels /\ t[i] = pixels[i]
    BY <2>2
  <2>5. Len(pixels) + 1 \in Nat
    BY <1>1
  <2>6. TakesOnePlace(new, pixels, t)
    BY <2>4, <2>5 DEF TakesOnePlace
  <2> QED
    BY <2>2, <2>3, <2>6 DEF t
<1>4. CASE ~(Len(pixels) < MaxPixelSamples)
  <2>1. Len(pixels) = MaxPixelSamples /\ ~(seen < MaxPixelSamples)
    BY <1>1, <1>2, <1>4
  <2>2. Len(pixels) = IF seen + 1 < MaxPixelSamples THEN seen + 1 ELSE MaxPixelSamples
    BY <1>1, <2>1
  <2>3. CASE selected < MaxPixelSamples
    <3>1. t = [pixels EXCEPT ![selected + 1] = new]
      BY <1>4, <2>3 DEF Offered
    <3>2. selected + 1 \in 1 .. Len(pixels) /\ selected + 1 \in Nat
      BY <1>1, <2>1, <2>3
    <3>3. t \in [1 .. Len(pixels) -> PixelType]
      <4>1. pixels \in [1 .. Len(pixels) -> PixelType]
        BY <1>1, LenProperties
      <4> HIDE DEF t
      <4> QED
        BY <3>1, <4>1
    <3>4. \A i \in 1 .. Len(pixels) : t[i] = IF i = selected + 1 THEN new ELSE pixels[i]
      BY <1>1, <3>1, <3>2
    <3> HIDE DEF t
    <3>5. t \in Seq(PixelType) /\ Len(t) = Len(pixels) /\ DOMAIN t = DOMAIN pixels
      BY <1>1, <3>3, IsSeq
    <3>6. TakesOnePlace(new, pixels, t)
      <4>1. \A i \in DOMAIN t : IF i = selected + 1 THEN t[i] = new
                                ELSE i \in DOMAIN pixels /\ t[i] = pixels[i]
        BY <1>1, <3>4, <3>5
      <4> QED
        BY <3>2, <4>1, Zenon DEF TakesOnePlace
    <3> QED
      BY <2>2, <3>5, <3>6 DEF t
  <2>4. CASE ~(selected < MaxPixelSamples)
    <3>1. t = pixels
      BY <1>4, <2>4 DEF Offered
    <3>2. \A i \in DOMAIN pixels : i # 0
      BY <1>1
    <3> HIDE DEF t
    <3>3. \A i \in DOMAIN t : IF i = 0 THEN t[i] = new ELSE i \in DOMAIN pixels /\ t[i] = pixels[i]
      BY <3>1, <3>2
    <3>4. t \in Seq(PixelType) /\ 0 \in Nat
      BY <3>1
    <3>5. TakesOnePlace(new, pixels, t)
      BY <3>3, <3>4 DEF TakesOnePlace
    <3> QED
      BY <2>2, <3>1, <3>4, <3>5 DEF t
  <2> QED
    BY <2>3, <2>4
<1> QED
  BY <1>3, <1>4

LEMMA KeepPixel ==
  ASSUME NEW scores, NEW pixels \in Seq(PixelType), NEW batches, NEW last,
         NEW reached \in [image : Nat, pixels : Nat], NEW new \in PixelType,
         Kept(scores, pixels, batches), Reached(scores, pixels, last, reached),
         PixelFrom(new, scores, batches),
         new.call = last, new.image = reached.image, new.at = reached.pixels + 1,
         NEW seen \in Nat, Distinct(pixels, seen), NEW selected \in Nat
  PROVE  LET t == Offered(pixels, new, selected)
         IN  /\ t \in Seq(PixelType) /\ Kept(scores, t, batches) /\ Distinct(t, seen + 1)
             /\ Reached(scores, t, last, [image |-> reached.image, pixels |-> new.at])
<1> DEFINE t == Offered(pixels, new, selected)
           next == [image |-> reached.image, pixels |-> new.at]
<1>1. /\ t \in Seq(PixelType)
      /\ Len(t) = IF seen + 1 < MaxPixelSamples THEN seen + 1 ELSE MaxPixelSamples
  BY OfferedFacts
<1>0. TakesOnePlace(new, pixels, t)
  BY OfferedFacts
<1> HIDE DEF t
<1>2. PICK k \in Nat : \A i \in DOMAIN t : IF i = k THEN t[i] = new
                                           ELSE i \in DOMAIN pixels /\ t[i] = pixels[i]
  BY <1>0 DEF TakesOnePlace
<1>3. \A i \in DOMAIN pixels : PixelFrom(pixels[i], scores, batches)
  BY DEF Kept
<1>4. \A i \in DOMAIN t : PixelFrom(t[i], scores, batches)
  BY <1>2, <1>3
<1>5. Kept(scores, t, batches)
  BY <1>4 DEF Kept
<1>6. \A i \in DOMAIN pixels : pixels[i].image \in Nat /\ pixels[i].at \in Nat
  <2>1. \A i \in DOMAIN pixels : pixels[i] \in PixelType
    BY LenProperties
  <2> QED
    BY <2>1 DEF PixelType
<1>7. reached.image \in Nat /\ reached.pixels \in Nat
  OBVIOUS
<1>8. \A i \in DOMAIN pixels : pixels[i].call = last => NotAfter(pixels[i], reached)
  BY DEF Reached
<1>9. \A i \in DOMAIN pixels : ~SameSource(pixels[i], new)
  BY <1>6, <1>7, <1>8 DEF SameSource, NotAfter
<1>10. ASSUME NEW i \in DOMAIN t, NEW j \in DOMAIN t, SameSource(t[i], t[j])
       PROVE  i = j
  <2>1. CASE i = k /\ j # k
    BY <1>2, <1>9, <1>10, <2>1 DEF SameSource
  <2>2. CASE i # k /\ j = k
    BY <1>2, <1>9, <1>10, <2>2
  <2>3. CASE i # k /\ j # k
    <3>1. SameSource(pixels[i], pixels[j]) /\ i \in DOMAIN pixels /\ j \in DOMAIN pixels
      BY <1>2, <1>10, <2>3
    <3> QED
      BY <3>1 DEF Distinct
  <2> QED
    BY <2>1, <2>2, <2>3
<1>11. Distinct(t, seen + 1)
  BY <1>1, <1>10 DEF Distinct
<1>12. \A i \in DOMAIN t : t[i].call = last => NotAfter(t[i], next)
  <2>1. NotAfter(new, next)
    BY <1>7 DEF NotAfter
  <2>2. \A i \in DOMAIN pixels : pixels[i].call = last => NotAfter(pixels[i], next)
    BY <1>6, <1>7, <1>8 DEF NotAfter
  <2> QED
    BY <1>2, <2>1, <2>2
<1>13. Reached(scores, t, last, next)
  BY <1>12 DEF Reached
<1> QED
  BY <1>1, <1>5, <1>11, <1>13 DEF t

LEMMA TakePixelKeeps ==
  ASSUME SInv, CInv, TakePixel, session' = session
  PROVE  CInv'
<1> DEFINE at == consumed.pixels + 1
           last == Len(calls)
           image == consumed.image
           features == images[image].features
           pixel == [value |-> Current.rawMap[at], call |-> last, image |-> image, at |-> at]
<1>1. /\ phase = "done" /\ ~ImageTaken /\ pixel.value # NaN
      /\ seenPixels' = seenPixels + 1
      /\ \E selected \in Selectable(seenPixels') :
           pixelScores' = Offered(pixelScores, pixel, selected)
      /\ consumed' = [consumed EXCEPT !.pixels = at]
      /\ UNCHANGED <<phase, images, imageScores, lost, calls, result>>
  BY DEF TakePixel, sessionVars
<1>2. /\ InCall /\ images \in Seq(Images) /\ Len(images) \in Nat
      /\ image \in 0 .. Len(images) /\ consumed.pixels \in Nat
      /\ \A n \in 1 .. Len(images) : images[n] \in Images /\ results[n] = Reference(images[n])
      /\ image # 0 => Len(Current.rawMap) = Locations
  BY <1>1, TakingFacts
<1>3. /\ image \in 1 .. Len(images) /\ image \in DOMAIN images
      /\ at \in 1 .. Locations
  <2>1. image # 0
    BY <1>1, <1>2 DEF ImageTaken, InCall
  <2>2. consumed.pixels <= Locations /\ consumed.pixels # Locations /\ Locations \in Nat
    BY <1>1, <1>2, <2>1, ImagesAssumption DEF ImageTaken, InCall
  <2> QED
    BY <1>2, <2>1, <2>2, LenProperties
<1>4. /\ calls \in Seq(CallType) /\ last \in Nat /\ last \in DOMAIN calls
      /\ calls[last] = [images |-> images, status |-> "running"]
  BY <1>2, EmptySeq, LenProperties DEF CInv, CalibratorTypes, InCall
<1>5. /\ Current.rawMap[at] = features[at] /\ DOMAIN features = 1 .. Locations
      /\ features[at] # NaN /\ features[at] \in Int
  <2>1. Current = Reference(images[image]) /\ images[image] \in Images
    BY <1>2, <1>3 DEF Current
  <2> HIDE DEF at
  <2>2. Current.rawMap = features /\ DOMAIN features = 1 .. Locations
    BY <2>1, DirectReference DEF CInv
  <2>3. features[at] # NaN
    BY <1>1, <2>2
  <2> QED
    BY <1>3, <2>1, <2>2, <2>3, DirectReference DEF CInv
<1>6. \A o \in 1 .. at : features[o] # NaN
  <2>1. \A o \in 1 .. at : o \in 1 .. consumed.pixels \/ o = at
    BY <1>2
  <2> QED
    BY <1>2, <1>3, <1>5, <2>1 DEF InCall
<1>7. /\ consumed \in [image : Nat, pixels : Nat] /\ pixelScores \in Seq(PixelType)
      /\ Kept(imageScores, pixelScores, calls) /\ seenPixels \in Nat /\ lost \in 0 .. seenPixels
      /\ Reached(imageScores, pixelScores, last, consumed)
      /\ Distinct(pixelScores, seenPixels - lost) /\ (lost > 0 => Len(pixelScores) >= Reserved)
  BY <1>2, DistinctIs DEF CInv, CalibratorTypes, InCall
<1>8. pixel \in PixelType
  BY <1>2, <1>3, <1>4, <1>5 DEF PixelType
<1>9. PixelFrom(pixel, imageScores, calls)
  <2>1. Taken(imageScores, last, image)
    BY <1>3, <1>7 DEF Reached
  <2>2. at \in Readable(features)
    BY <1>3, <1>5, <1>6 DEF Readable
  <2> HIDE DEF at
  <2> QED
    BY <1>3, <1>4, <1>5, <2>1, <2>2 DEF PixelFrom
<1>10. PICK selected \in Nat : pixelScores' = Offered(pixelScores, pixel, selected)
  <2>1. \A selected \in Selectable(seenPixels') : selected \in Nat
    BY <1>1, <1>7 DEF Selectable
  <2> HIDE DEF pixel
  <2> QED
    BY <1>1, <2>1
<1>11. pixel.call = last /\ pixel.image = consumed.image /\ pixel.at = consumed.pixels + 1
  OBVIOUS
<1>12. consumed' = [image |-> consumed.image, pixels |-> pixel.at]
  BY <1>1, <1>7
<1> HIDE DEF pixel, last, at
<1>13. /\ pixelScores' \in Seq(PixelType) /\ Kept(imageScores, pixelScores', calls)
       /\ Distinct(pixelScores', (seenPixels - lost) + 1)
       /\ Reached(imageScores, pixelScores', last, consumed')
  <2> DEFINE held == seenPixels - lost
  <2>1. held \in Nat /\ Distinct(pixelScores, held)
    BY <1>7
  <2> HIDE DEF held
  <2>2. /\ pixelScores' \in Seq(PixelType) /\ Kept(imageScores, pixelScores', calls)
        /\ Distinct(pixelScores', held + 1)
        /\ Reached(imageScores, pixelScores', last, consumed')
    BY <1>7, <1>8, <1>9, <1>10, <1>11, <1>12, <2>1, KeepPixel
  <2> QED
    BY <2>2 DEF held
<1>14. /\ consumed'.image = image /\ consumed'.pixels = at
       /\ consumed' \in [image : Nat, pixels : Nat]
  <2>1. pixel.at = at /\ at \in Nat
    BY <1>2, <1>11 DEF at
  <2> QED
    BY <1>7, <1>12, <2>1
<1>15. CalibratorTypes'
  BY <1>1, <1>7, <1>13, <1>14 DEF CInv, CalibratorTypes
<1>16. ReservoirDistinct'
  <2>1. seenPixels' - lost' = (seenPixels - lost) + 1
    BY <1>1, <1>7
  <2>2. lost' > 0 => Len(pixelScores') >= Reserved
    <3>1. Len(pixelScores') >= Len(pixelScores)
      BY <1>7, <1>13, SamplesAssumption DEF Distinct
    <3> QED
      BY <1>1, <1>7, <1>13, <3>1, SamplesAssumption, LenProperties
  <2> QED
    BY <1>13, <2>1, <2>2 DEF ReservoirDistinct, Distinct, SameSource
<1>17. InCall'
  <2>1. image <= Len(images) /\ at <= Locations /\ image # 0
    BY <1>2, <1>3, ImagesAssumption
  <2> QED
    BY <1>1, <1>2, <1>4, <1>6, <1>13, <1>14, <2>1 DEF InCall, last
<1>18. result' = NoResult
  BY <1>1 DEF CInv
<1> QED
  BY <1>1, <1>13, <1>15, <1>16, <1>17, <1>18 DEF CInv

(* A call that ends, with all of it taken or in the middle.                *)
LEMMA ReturnKeeps ==
  ASSUME SInv, CInv, NEW status \in {"ok", "error"}, Return(status), phase # "idle",
         status = "ok" => phase = "done" /\ AllTaken,
         UNCHANGED <<imageScores, pixelScores, result>>, session' = session,
         seenPixels' \in Nat, lost' \in 0 .. seenPixels', ReservoirDistinct'
  PROVE  CInv'
<1> DEFINE last == Len(calls)
<1>1. /\ phase' = "idle" /\ consumed' = Nothing
      /\ calls' = [calls EXCEPT ![last].status = status]
  BY DEF Return, Finish
<1>2. /\ calls \in Seq(CallType) /\ last \in Nat /\ last \in DOMAIN calls
      /\ DOMAIN calls = 1 .. last
      /\ calls[last] = [images |-> images, status |-> "running"] /\ InCall
  BY EmptySeq, LenProperties DEF CInv, CalibratorTypes, InCall
<1>3. /\ \A c \in DOMAIN calls : /\ calls'[c].images = calls[c].images
                                 /\ c # last => calls'[c] = calls[c]
      /\ calls'[last] = [images |-> images, status |-> status]
      /\ DOMAIN calls' = 1 .. last
  BY <1>1, <1>2
<1>4. calls' \in Seq(CallType)
  <2>1. \A c \in 1 .. last : calls[c] \in CallType
    BY <1>2
  <2>2. calls'[last] \in CallType
    BY <1>2, <1>3, <2>1 DEF CallType
  <2>3. \A c \in 1 .. last : calls'[c] \in CallType
    BY <1>2, <1>3, <2>1, <2>2
  <2>4. calls' \in [1 .. last -> CallType]
    <3>1. calls' = [c \in 1 .. last |-> calls'[c]]
      BY <1>1, <1>2
    <3> QED
      BY <2>3, <3>1
  <2> QED
    BY <1>2, <2>4, IsSeq
<1> HIDE DEF last
<1>5. Kept(imageScores, pixelScores, calls)
  BY DEF CInv
<1>6. Kept(imageScores, pixelScores, calls')
  <2>1. \A i \in DOMAIN imageScores : ScoreFrom(imageScores[i], imageScores, calls')
    BY <1>2, <1>3, <1>5 DEF Kept, ScoreFrom
  <2>2. \A i \in DOMAIN pixelScores : PixelFrom(pixelScores[i], imageScores, calls')
    BY <1>2, <1>3, <1>5 DEF Kept, PixelFrom
  <2>3. ASSUME status = "ok" PROVE \A n \in DOMAIN images : Taken(imageScores, last, n)
    <3>1. phase = "done" /\ AllTaken
      BY <2>3
    <3>2. /\ Len(results) = Len(images) /\ images \in Seq(Images)
      BY <3>1, TakingFacts
    <3>3. consumed.image = Len(images) /\ DOMAIN images = 1 .. Len(images)
      BY <3>1, <3>2, LenProperties DEF AllTaken
    <3> QED
      BY <1>2, <3>3 DEF InCall, Reached, last
  <2>4. \A c \in DOMAIN calls' :
          calls'[c].status = "ok" => \A n \in DOMAIN calls'[c].images : Taken(imageScores, c, n)
    BY <1>2, <1>3, <1>5, <2>3 DEF Kept
  <2> QED
    BY <1>5, <2>1, <2>2, <2>4 DEF Kept
<1>7. CalibratorTypes'
  <2>1. Nothing \in [image : Nat, pixels : Nat]
    BY DEF Nothing
  <2> QED
    BY <1>1, <1>4, <2>1 DEF CInv, CalibratorTypes
<1> QED
  BY <1>1, <1>6, <1>7 DEF CInv

(* A pixel for which there is no memory is counted, and the reservoir has  *)
(* taken its reserved places by then.                                      *)
LEMMA LosingKeeps ==
  ASSUME CInv, TakeFails
  PROVE  seenPixels' \in Nat /\ lost' \in 0 .. seenPixels' /\ ReservoirDistinct'
<1>1. seenPixels \in Nat /\ lost \in 0 .. seenPixels /\ ReservoirDistinct
      /\ pixelScores' = pixelScores
  BY DEF CInv, CalibratorTypes, TakeFails
<1>2. CASE UNCHANGED <<seenPixels, lost>>
  BY <1>1, <1>2 DEF ReservoirDistinct
<1>3. CASE /\ Len(pixelScores) \in Reserved .. MaxPixelSamples - 1
           /\ seenPixels' = seenPixels + 1 /\ lost' = lost + 1
  <2>1. seenPixels' - lost' = seenPixels - lost /\ Len(pixelScores) >= Reserved
    BY <1>1, <1>3, SamplesAssumption
  <2> QED
    BY <1>1, <1>3, <2>1 DEF ReservoirDistinct
<1> QED
  BY <1>2, <1>3 DEF TakeFails

LEMMA CalibratorStepKeeps ==
  ASSUME SInv, CInv, CalibratorStep, session' = session
  PROVE  CInv'
<1>1. CASE TakeFails
  BY <1>1, LosingKeeps, ReturnKeeps DEF TakeFails
<1>2. CASE BatchTaken \/ PredictionFails
  <2>1. UNCHANGED <<imageScores, pixelScores, seenPixels, lost, result>>
    BY <1>2 DEF BatchTaken, PredictionFails
  <2>2. seenPixels' \in Nat /\ lost' \in 0 .. seenPixels' /\ ReservoirDistinct'
    BY <2>1 DEF CInv, CalibratorTypes, ReservoirDistinct
  <2> QED
    BY <1>2, <2>1, <2>2, ReturnKeeps DEF BatchTaken, PredictionFails
<1>3. CASE Compute
  <2>1. /\ phase = "idle" /\ imageScores # <<>> /\ result' = ResultOf
        /\ UNCHANGED <<phase, images, imageScores, pixelScores, seenPixels, lost, consumed, calls>>
    BY <1>3 DEF Compute, sessionVars, ResultOf
  <2>2. ResultOf' = ResultOf
    BY <2>1 DEF ResultOf
  <2> QED
    BY <2>1, <2>2 DEF CInv, CalibratorTypes, ReservoirDistinct
<1> QED
  BY <1>1, <1>2, <1>3, AddBatchKeeps, TakeScoreKeeps, TakePixelKeeps DEF CalibratorStep

(* The calibrator's invariant: every sample kept is one of its call, in    *)
(* order and without a gap, and the reservoir holds no pixel twice.        *)
THEOREM SamplesKept == Spec => []KInv
<1>1. Init => KInv
  <2> SUFFICES ASSUME Init PROVE KInv
    OBVIOUS
  <2>1. /\ phase = "idle" /\ calls = <<>> /\ imageScores = <<>> /\ pixelScores = <<>>
        /\ seenPixels = 0 /\ lost = 0 /\ result = NoResult /\ consumed = Nothing
        /\ client = "calibrate" => session.algorithm = "direct"
    BY DEF Init, InitSession, InitCalibrator
  <2>2. /\ <<>> \in Seq(CallType) /\ <<>> \in Seq(SampleType) /\ <<>> \in Seq(PixelType)
        /\ Nothing \in [image : Nat, pixels : Nat] /\ DOMAIN <<>> = {} /\ Len(<<>>) = 0
    BY DEF Nothing
  <2>3. CalibratorTypes
    BY <2>1, <2>2 DEF CalibratorTypes
  <2>4. Kept(<<>>, <<>>, <<>>)
    BY <2>2 DEF Kept, InOrder
  <2>5. ReservoirDistinct
    BY <2>1, <2>2, SamplesAssumption DEF ReservoirDistinct
  <2> QED
    BY <2>1, <2>3, <2>4, <2>5 DEF KInv, CInv
<1>2. SInv /\ KInv /\ client \in {"predict", "calibrate"} /\ [Next]_vars => KInv'
  <2> SUFFICES ASSUME SInv, KInv, client \in {"predict", "calibrate"}, [Next]_vars
               PROVE  KInv'
    OBVIOUS
  <2>1. session' = session
    BY SameSession
  <2>2. CASE SessionStep /\ UNCHANGED <<client, exportVars, calibratorVars>>
    BY <2>1, <2>2, SessionKeepsSamples DEF KInv, calibratorVars
  <2>3. CASE client = "predict" /\ ExportStep /\ UNCHANGED <<client, calibratorVars>>
    BY <2>3 DEF KInv, calibratorVars
  <2>4. CASE client = "calibrate" /\ CalibratorStep /\ UNCHANGED <<client, exportVars>>
    BY <2>1, <2>4, CalibratorStepKeeps DEF KInv
  <2>5. CASE UNCHANGED vars
    <3>1. UNCHANGED <<client, session, phase, images, imageScores, pixelScores, seenPixels, lost,
                      consumed, calls, result>>
      BY <2>5 DEF vars, sessionVars, calibratorVars
    <3>2. ResultOf' = ResultOf /\ InCall' = InCall
      BY <3>1 DEF ResultOf, InCall
    <3> QED
      BY <3>1, <3>2 DEF KInv, CInv, CalibratorTypes, ReservoirDistinct
  <2> QED
    BY <2>2, <2>3, <2>4, <2>5 DEF Next
<1>3. Init => client \in {"predict", "calibrate"}
  BY DEF Init
<1>4. client \in {"predict", "calibrate"} /\ [Next]_vars => (client \in {"predict", "calibrate"})'
  BY DEF Next, vars
<1> QED
  BY <1>1, <1>2, <1>3, <1>4, EachImageAlone, PTL DEF Spec

(* The image scores kept are, call by call, those of a beginning of the    *)
(* batch in order, all of it when the call returned OK, and every pixel in *)
(* the reservoir belongs to an image whose score is counted.               *)
THEOREM ScoresArePrefixes == Spec => []SamplesArePrefixes
<1>1. KInv /\ client \in {"predict", "calibrate"} => SamplesArePrefixes
  <2> SUFFICES ASSUME KInv, client \in {"predict", "calibrate"} PROVE SamplesArePrefixes
    OBVIOUS
  <2>1. Kept(imageScores, pixelScores, calls)
    <3>1. CASE client = "predict"
      <4>1. DOMAIN <<>> = {}
        OBVIOUS
      <4> QED
        BY <3>1, <4>1 DEF KInv, Kept, InOrder
    <3> QED
      BY <3>1 DEF KInv, CInv
  <2>2. ASSUME NEW c \in DOMAIN calls
        PROVE  LET batch == calls[c].images
                   kept == {i \in DOMAIN imageScores : imageScores[i].call = c}
                   taken == {imageScores[i].image : i \in kept}
               IN  /\ taken \subseteq DOMAIN batch
                   /\ \A i \in kept :
                        imageScores[i].value = batch[imageScores[i].image].features[1]
                   /\ \A i, j \in kept : i < j => imageScores[i].image < imageScores[j].image
                   /\ \A n \in taken : 1 .. n \subseteq taken
                   /\ calls[c].status = "ok" => taken = DOMAIN batch
    <3> DEFINE kept == {i \in DOMAIN imageScores : imageScores[i].call = c}
               taken == {imageScores[i].image : i \in kept}
    <3>1. \A n : n \in taken <=> Taken(imageScores, c, n)
      BY DEF Taken
    <3>2. \A i \in kept : /\ ScoreFrom(imageScores[i], imageScores, calls)
                          /\ imageScores[i].call = c
      BY <2>1 DEF Kept
    <3>3. \A i, j \in kept : i < j => imageScores[i].image < imageScores[j].image
      BY <2>1 DEF Kept, InOrder
    <3>4. /\ taken \subseteq DOMAIN calls[c].images
          /\ \A i \in kept :
               imageScores[i].value = calls[c].images[imageScores[i].image].features[1]
      BY <3>2 DEF ScoreFrom
    <3>5. \A n \in taken : 1 .. n \subseteq taken
      <4>1. \A i \in kept : \A n \in 1 .. imageScores[i].image : Taken(imageScores, c, n)
        BY <3>2 DEF ScoreFrom
      <4> QED
        BY <3>1, <4>1
    <3>6. calls[c].status = "ok" => taken = DOMAIN calls[c].images
      <4>1. calls[c].status = "ok" => \A n \in DOMAIN calls[c].images : Taken(imageScores, c, n)
        BY <2>1 DEF Kept
      <4> HIDE DEF taken
      <4> QED
        BY <3>1, <3>4, <4>1
    <3> QED
      BY <3>3, <3>4, <3>5, <3>6
  <2>3. ASSUME NEW p \in ToSet(pixelScores)
        PROVE  /\ \E s \in ToSet(imageScores) : s.call = p.call /\ s.image = p.image
               /\ LET features == calls[p.call].images[p.image].features
                  IN  p.at \in Readable(features) /\ p.value = features[p.at]
    <3>1. PixelFrom(p, imageScores, calls)
      BY <2>1 DEF ToSet, Kept
    <3> QED
      BY <3>1 DEF PixelFrom, Taken, ToSet
  <2> QED
    BY <2>2, <2>3 DEF SamplesArePrefixes
<1>2. Init => client \in {"predict", "calibrate"}
  BY DEF Init
<1>3. client \in {"predict", "calibrate"} /\ [Next]_vars => (client \in {"predict", "calibrate"})'
  BY DEF Next, vars
<1> QED
  BY <1>1, <1>2, <1>3, SamplesKept, PTL DEF Spec

(* As many pixels as there have been, but for those lost to want of        *)
(* memory, up to the limit, and no two the same: whatever the random       *)
(* engine selects.  None is lost before the reserved places are taken.     *)
THEOREM ReservoirHolds == Spec => []ReservoirDistinct
<1>1. KInv /\ client \in {"predict", "calibrate"} => ReservoirDistinct
  <2>1. Len(<<>>) = 0 /\ DOMAIN <<>> = {}
    OBVIOUS
  <2> QED
    BY <2>1, SamplesAssumption DEF KInv, CInv, ReservoirDistinct
<1>2. Init => client \in {"predict", "calibrate"}
  BY DEF Init
<1>3. client \in {"predict", "calibrate"} /\ [Next]_vars => (client \in {"predict", "calibrate"})'
  BY DEF Next, vars
<1> QED
  BY <1>1, <1>2, <1>3, SamplesKept, PTL DEF Spec

-----------------------------------------------------------------------------
(* The chances of a pixel: how many draws keep it. *)

(* One more draw, and all of them.                                         *)
Drawing(d, n, c) == [selected |-> Append(d.selected, c), kept |-> Offered(d.kept, n, c)]
DrawnOnce(draws, n) == {Drawing(d, n, c) : d \in draws, c \in Selectable(n)}
NoDraw == [selected |-> <<>>, kept |-> <<>>]

(* The recursive definition of the draws has a solution.                   *)
LEMMA DrawsSteps ==
  /\ Draws[0] = {NoDraw}
  /\ \A n \in Nat : n + 1 <= MaxDraws => Draws[n + 1] = DrawnOnce(Draws[n], n + 1)
<1> DEFINE Good(k, f) == f = [n \in 0 .. k |-> IF n = 0 THEN {NoDraw} ELSE DrawnOnce(f[n - 1], n)]
           T == {k \in Nat : \E f : Good(k, f)}
           h == CHOOSE f : Good(MaxDraws, f)
<1>1. 0 \in T
  <2>1. Good(0, [n \in 0 .. 0 |-> {NoDraw}])
    <3> DEFINE f == [n \in 0 .. 0 |-> {NoDraw}]
    <3>1. \A n \in 0 .. 0 : (IF n = 0 THEN {NoDraw} ELSE DrawnOnce(f[n - 1], n)) = {NoDraw}
      OBVIOUS
    <3> QED
      BY <3>1
  <2> QED
    BY <2>1
<1>2. ASSUME NEW k \in Nat, k \in T PROVE k + 1 \in T
  <2>1. PICK f : Good(k, f)
    BY <1>2
  <2> DEFINE g == [n \in 0 .. k + 1 |-> IF n = k + 1 THEN DrawnOnce(f[k], k + 1) ELSE f[n]]
             next == [n \in 0 .. k + 1 |-> IF n = 0 THEN {NoDraw} ELSE DrawnOnce(g[n - 1], n)]
  <2>2. ASSUME NEW n \in 0 .. k + 1 PROVE g[n] = next[n]
    <3>1. CASE n = k + 1
      <4>1. n # 0 /\ n - 1 = k /\ k \in 0 .. k + 1 /\ k # k + 1
        BY <3>1
      <4>2. g[n - 1] = f[k]
        BY <4>1
      <4> QED
        BY <3>1, <4>1, <4>2
    <3>2. CASE n # k + 1 /\ n # 0
      <4>1. n \in 0 .. k /\ n - 1 \in 0 .. k + 1 /\ n - 1 # k + 1
        BY <3>2
      <4>2. g[n] = f[n] /\ g[n - 1] = f[n - 1]
        BY <3>2, <4>1
      <4>3. f[n] = DrawnOnce(f[n - 1], n)
        BY <2>1, <3>2, <4>1
      <4> HIDE DEF g
      <4> QED
        BY <3>2, <4>2, <4>3
    <3>3. CASE n = 0
      <4>1. 0 \in 0 .. k /\ 0 # k + 1
        OBVIOUS
      <4>2. f[0] = {NoDraw}
        BY <2>1, <4>1
      <4> QED
        BY <3>3, <4>1, <4>2
    <3> QED
      BY <3>1, <3>2, <3>3
  <2>3. Good(k + 1, g)
    <3>1. g = next
      <4>1. DOMAIN g = DOMAIN next
        OBVIOUS
      <4> HIDE DEF g, next
      <4>2. \A n \in DOMAIN g : g[n] = next[n]
        BY <2>2 DEF g
      <4>3. g = [n \in DOMAIN g |-> g[n]] /\ next = [n \in DOMAIN next |-> next[n]]
        BY DEF g, next
      <4> QED
        BY <4>1, <4>2, <4>3
    <3> QED
      BY <3>1
  <2> HIDE DEF g
  <2> QED
    BY <2>3
<1>3. \A k \in Nat : k \in T
  <2> HIDE DEF T
  <2> QED
    BY <1>1, <1>2, SetInduction
<1>4. Good(MaxDraws, h)
  BY <1>3, DrawsAssumption
<1>5. Draws = h
  BY DEF Draws, NoDraw, DrawnOnce, Drawing
<1> HIDE DEF h
<1>6. h[0] = {NoDraw}
  <2>1. 0 \in 0 .. MaxDraws
    BY DrawsAssumption
  <2> QED
    BY <1>4, <2>1
<1>7. ASSUME NEW n \in Nat, n + 1 <= MaxDraws PROVE h[n + 1] = DrawnOnce(h[n], n + 1)
  <2>1. n + 1 \in 0 .. MaxDraws /\ n + 1 # 0 /\ (n + 1) - 1 = n
    BY <1>7, DrawsAssumption
  <2> QED
    BY <1>4, <2>1
<1> QED
  BY <1>5, <1>6, <1>7

(* What a reservoir of n pixels is, and what happens to it when one more   *)
(* is offered.                                                             *)
Limited(n) == IF n < MaxPixelSamples THEN n ELSE MaxPixelSamples
ReservoirOf(r, n) ==
  /\ r \in Seq(1 .. n) /\ Len(r) = Limited(n)
  /\ \A i, j \in 1 .. Len(r) : r[i] = r[j] => i = j

LEMMA OfferedNext ==
  ASSUME NEW n \in Nat, NEW r, ReservoirOf(r, n), NEW c \in 0 .. n
  PROVE  LET t == Offered(r, n + 1, c)
         IN  /\ ReservoirOf(t, n + 1)
             /\ n < MaxPixelSamples => ToSet(t) = ToSet(r) \union {n + 1}
             /\ n >= MaxPixelSamples =>
                  /\ n + 1 \in ToSet(t) <=> c < MaxPixelSamples
                  /\ \A i \in 1 .. Len(r) : r[i] \in ToSet(t) <=> c + 1 # i
                  /\ \A p \in 1 .. n : p \in ToSet(t) => p \in ToSet(r)
<1> DEFINE m == Len(r)
           t == Offered(r, n + 1, c)
<1>1. r \in Seq(1 .. n) /\ m = Limited(n) /\ m \in Nat /\ DOMAIN r = 1 .. m
      /\ \A i \in 1 .. m : r[i] \in 1 .. n
  BY LenProperties DEF ReservoirOf
<1>2. \A i, j \in 1 .. m : r[i] = r[j] => i = j
  BY DEF ReservoirOf
<1>3. MaxPixelSamples \in Nat \ {0}
  BY SamplesAssumption
<1>4. \A i \in 1 .. m : r[i] \in 1 .. n + 1 /\ r[i] # n + 1
  BY <1>1
<1>5. r \in Seq(1 .. n + 1) /\ n + 1 \in 1 .. n + 1
  BY <1>1, <1>4
<1>6. CASE n < MaxPixelSamples
  <2>1. m = n /\ m < MaxPixelSamples /\ Limited(n + 1) = n + 1
    BY <1>1, <1>3, <1>6 DEF Limited
  <2>2. t = Append(r, n + 1)
    BY <2>1 DEF Offered
  <2>3. t \in Seq(1 .. n + 1) /\ Len(t) = m + 1 /\ t[m + 1] = n + 1
        /\ \A i \in 1 .. m : t[i] = r[i]
    <3> DEFINE e == n + 1
               R == 1 .. n + 1
    <3>1. r \in Seq(R) /\ e \in R
      BY <1>5
    <3>2. t = Append(r, e)
      BY <2>2
    <3> HIDE DEF e, R, t
    <3>3. t \in Seq(R) /\ Len(t) = m + 1 /\ t[m + 1] = e /\ \A i \in 1 .. m : t[i] = r[i]
      BY <3>1, <3>2, AppendProperties
    <3> QED
      BY <3>3 DEF e, R
  <2> HIDE DEF t
  <2>4. \A i, j \in 1 .. Len(t) : t[i] = t[j] => i = j
    <3> SUFFICES ASSUME NEW i \in 1 .. Len(t), NEW j \in 1 .. Len(t), t[i] = t[j] PROVE i = j
      OBVIOUS
    <3>1. i \in 1 .. m \/ i = m + 1
      BY <1>1, <2>3
    <3>2. j \in 1 .. m \/ j = m + 1
      BY <1>1, <2>3
    <3> QED
      BY <1>2, <1>4, <2>3, <3>1, <3>2
  <2>5. ToSet(t) = ToSet(r) \union {n + 1}
    <3>1. DOMAIN t = (1 .. m) \union {m + 1}
      <4>1. DOMAIN t = 1 .. m + 1
        BY <2>3, LenProperties
      <4> QED
        BY <1>1, <4>1
    <3>2. ToSet(t) = {t[i] : i \in (1 .. m) \union {m + 1}} /\ ToSet(r) = {r[i] : i \in 1 .. m}
      BY <1>1, <3>1 DEF ToSet
    <3>3. {t[i] : i \in (1 .. m) \union {m + 1}} = {t[i] : i \in 1 .. m} \union {t[m + 1]}
      OBVIOUS
    <3>4. {t[i] : i \in 1 .. m} = {r[i] : i \in 1 .. m}
      BY <2>3
    <3> QED
      BY <2>3, <3>2, <3>3, <3>4
  <2> QED
    BY <1>3, <1>6, <2>1, <2>3, <2>4, <2>5 DEF t, ReservoirOf
<1>7. CASE n >= MaxPixelSamples
  <2>1. m = MaxPixelSamples /\ Limited(n + 1) = m /\ ~(m < MaxPixelSamples)
    BY <1>1, <1>3, <1>7 DEF Limited
  <2>2. t = IF c < m THEN [r EXCEPT ![c + 1] = n + 1] ELSE r
    BY <2>1 DEF Offered
  <2>3. c < m => c + 1 \in 1 .. m
    BY <1>1
  <2>4. /\ DOMAIN t = 1 .. m
        /\ \A i \in 1 .. m : t[i] = IF c < m /\ i = c + 1 THEN n + 1 ELSE r[i]
    BY <1>1, <2>2, <2>3
  <2>5. t \in Seq(1 .. n + 1) /\ Len(t) = m
    <3>1. CASE c < m
      <4> DEFINE e == n + 1
                 at == c + 1
                 R == 1 .. n + 1
      <4>1. r \in Seq(R) /\ e \in R /\ at \in 1 .. Len(r)
        BY <1>5, <2>3, <3>1
      <4>2. t = [r EXCEPT ![at] = e]
        BY <2>2, <3>1
      <4> HIDE DEF e, at, R, t
      <4>3. t \in Seq(R) /\ Len(t) = Len(r)
        BY <4>1, <4>2, ExceptSeq
      <4> QED
        BY <4>3 DEF R
    <3>2. CASE ~(c < m)
      BY <1>5, <2>2, <3>2
    <3> QED
      BY <3>1, <3>2
  <2> HIDE DEF t
  <2>6. \A i, j \in 1 .. Len(t) : t[i] = t[j] => i = j
    BY <1>2, <1>4, <2>4, <2>5
  <2>7. n + 1 \in ToSet(t) <=> c < MaxPixelSamples
    <3>1. c < m => t[c + 1] = n + 1
      BY <2>3, <2>4
    <3>2. ~(c < m) => \A i \in 1 .. m : t[i] # n + 1
      BY <1>4, <2>4
    <3> QED
      BY <2>1, <2>3, <2>4, <3>1, <3>2 DEF ToSet
  <2>8. ASSUME NEW i \in 1 .. m PROVE r[i] \in ToSet(t) <=> c + 1 # i
    <3>1. ASSUME c + 1 # i PROVE r[i] \in ToSet(t)
      <4>1. t[i] = r[i]
        BY <2>4, <3>1
      <4> QED
        BY <2>4, <4>1 DEF ToSet
    <3>2. ASSUME c + 1 = i PROVE r[i] \notin ToSet(t)
      <4>1. c < m
        BY <1>1, <3>2
      <4>2. \A j \in 1 .. m : t[j] # r[i]
        BY <1>2, <1>4, <2>4, <3>2, <4>1
      <4> QED
        BY <2>4, <4>2 DEF ToSet
    <3> QED
      BY <3>1, <3>2
  <2>9. ASSUME NEW p \in 1 .. n, p \in ToSet(t) PROVE p \in ToSet(r)
    <3>1. PICK j \in 1 .. m : t[j] = p
      BY <2>4, <2>9 DEF ToSet
    <3>2. t[j] # n + 1
      BY <3>1
    <3>3. r[j] = p
      BY <2>4, <3>1, <3>2
    <3> QED
      BY <1>1, <3>3 DEF ToSet
  <2> QED
    BY <1>3, <1>7, <2>1, <2>5, <2>6, <2>7, <2>8, <2>9 DEF t, ReservoirOf
<1> QED
  BY <1>3, <1>6, <1>7

(* When each element of S goes with each of k choices to an element of T   *)
(* of its own, T has k times as many elements.                             *)
PairedOff(f, S, k, T) ==
  /\ f \in [S \X (0 .. k - 1) -> T]
  /\ \A x, y \in S \X (0 .. k - 1) : f[x] = f[y] => x = y
  /\ \A t \in T : \E x \in S \X (0 .. k - 1) : f[x] = t

LEMMA CountPairs ==
  ASSUME NEW S, IsFiniteSet(S), NEW k \in Nat, NEW T, NEW f, PairedOff(f, S, k, T)
  PROVE  IsFiniteSet(T) /\ Cardinality(T) = Cardinality(S) * k
<1> DEFINE C == 0 .. k - 1
           P == S \X C
<1>1. IsFiniteSet(C) /\ Cardinality(C) = k
  <2>1. 0 \in Int /\ k - 1 \in Int
    OBVIOUS
  <2>2. IsFiniteSet(C) /\ Cardinality(C) = IF 0 > k - 1 THEN 0 ELSE (k - 1) - 0 + 1
    BY <2>1, FS_Interval
  <2> QED
    BY <2>2
<1>2. IsFiniteSet(P) /\ Cardinality(P) = Cardinality(S) * k
  <2> HIDE DEF C
  <2> QED
    BY <1>1, FS_Product
<1>3. f \in Surjection(P, T) /\ f \in Injection(P, T)
  <2> HIDE DEF C
  <2>1. f \in [P -> T] /\ (\A x, y \in P : f[x] = f[y] => x = y)
        /\ \A t \in T : \E x \in P : f[x] = t
    BY DEF C, PairedOff
  <2> HIDE DEF P
  <2>2. DOMAIN f = P
    BY <2>1
  <2> QED
    BY <2>1, <2>2 DEF Surjection, Injection, IsInjective
<1>4. IsFiniteSet(T) /\ Cardinality(T) = Cardinality(P)
  <2> HIDE DEF P
  <2> QED
    BY <1>2, <1>3, FS_Surjection
<1> QED
  BY <1>2, <1>4

(* The draws of n pixels: one index for each, and the reservoir that these *)
(* leave.                                                                  *)
DrawsOf(draws, n) ==
  /\ IsFiniteSet(draws)
  /\ \A d \in draws : /\ d = [selected |-> d.selected, kept |-> d.kept]
                      /\ d.selected \in Seq(Nat) /\ ReservoirOf(d.kept, n)
  /\ \A d, e \in draws : d.selected = e.selected => d = e

LEMMA DrawingParts ==
  ASSUME NEW d, NEW n, NEW c
  PROVE  /\ Drawing(d, n, c).selected = Append(d.selected, c)
         /\ Drawing(d, n, c).kept = Offered(d.kept, n, c)
  BY DEF Drawing

(* Different draws stay different, and so do different selections.         *)
Apart(draws, k, Choice) ==
  \A d, e \in draws : \A a, b \in Choice :
    Drawing(d, k, a).selected = Drawing(e, k, b).selected => d = e /\ a = b

LEMMA DrawingsDiffer ==
  ASSUME NEW n, NEW draws, DrawsOf(draws, n), NEW k, NEW Choice \in SUBSET Nat
  PROVE  Apart(draws, k, Choice)
<1> SUFFICES ASSUME NEW d \in draws, NEW e \in draws, NEW a \in Choice, NEW b \in Choice,
                    Drawing(d, k, a).selected = Drawing(e, k, b).selected
             PROVE  d = e /\ a = b
  BY DEF Apart
<1>0. a \in Nat /\ b \in Nat
  OBVIOUS
<1> DEFINE s == d.selected
           t == e.selected
<1>1. s \in Seq(Nat) /\ t \in Seq(Nat)
  BY DEF DrawsOf
<1>2. s = t => d = e
  BY DEF DrawsOf
<1>3. Append(s, a) = Append(t, b)
  <2>1. Drawing(d, k, a).selected = Append(s, a)
    BY DrawingParts
  <2>2. Drawing(e, k, b).selected = Append(t, b)
    BY DrawingParts
  <2> QED
    BY <2>1, <2>2
<1> HIDE DEF s, t
<1>4. s = t /\ a = b
  <2> DEFINE sa == Append(s, a)
             tb == Append(t, b)
  <2>1. /\ Len(sa) = Len(s) + 1 /\ \A i \in 1 .. Len(s) : sa[i] = s[i]
        /\ sa[Len(s) + 1] = a
    BY <1>0, <1>1, AppendProperties
  <2>2. /\ Len(tb) = Len(t) + 1 /\ \A i \in 1 .. Len(t) : tb[i] = t[i]
        /\ tb[Len(t) + 1] = b
    BY <1>0, <1>1, AppendProperties
  <2>3. sa = tb
    BY <1>3
  <2>4. Len(s) \in Nat /\ Len(t) \in Nat
    BY <1>1, LenProperties
  <2> HIDE DEF sa, tb
  <2>5. Len(s) = Len(t)
    BY <2>1, <2>2, <2>3, <2>4
  <2>6. a = b /\ \A i \in 1 .. Len(s) : s[i] = t[i]
    BY <2>1, <2>2, <2>3, <2>5
  <2>7. s = t
    BY <1>1, <2>5, <2>6, SeqEqual
  <2> QED
    BY <2>6, <2>7
<1> QED
  BY <1>2, <1>4

(* One more pixel: n + 1 times as many draws.                              *)
LEMMA DrawsNext ==
  ASSUME NEW n \in Nat, NEW draws, DrawsOf(draws, n)
  PROVE  LET next == DrawnOnce(draws, n + 1)
         IN  DrawsOf(next, n + 1) /\ Cardinality(next) = Cardinality(draws) * (n + 1)
<1> DEFINE next == DrawnOnce(draws, n + 1)
           k == n + 1
           Choice == 0 .. k - 1
           f == [x \in draws \X Choice |-> Drawing(x[1], k, x[2])]
<1>1. k \in Nat /\ Selectable(k) = Choice /\ Choice = 0 .. n /\ Choice \subseteq Nat
  BY DEF Selectable
<1>2. next = {Drawing(d, k, c) : d \in draws, c \in Choice}
  BY <1>1 DEF DrawnOnce
<1>3. \A d \in draws : d.selected \in Seq(Nat) /\ ReservoirOf(d.kept, n)
  BY DEF DrawsOf
<1>4. Apart(draws, k, Choice)
  <2>1. Choice \in SUBSET Nat
    BY <1>1
  <2> HIDE DEF k, Choice
  <2> QED
    BY <2>1, DrawingsDiffer
<1>5. ASSUME NEW y \in next
      PROVE  /\ y = [selected |-> y.selected, kept |-> y.kept]
             /\ y.selected \in Seq(Nat) /\ ReservoirOf(y.kept, k)
  <2>1. PICK d \in draws, c \in Choice : y = Drawing(d, k, c)
    BY <1>2
  <2>2. y.selected = Append(d.selected, c) /\ y.kept = Offered(d.kept, k, c)
        /\ y = [selected |-> y.selected, kept |-> y.kept]
    BY <2>1 DEF Drawing
  <2>3. Append(d.selected, c) \in Seq(Nat)
    <3> DEFINE s == d.selected
    <3>1. s \in Seq(Nat) /\ c \in Nat
      BY <1>1, <1>3
    <3> HIDE DEF s
    <3>2. Append(s, c) \in Seq(Nat)
      BY <3>1, AppendProperties
    <3> QED
      BY <3>2 DEF s
  <2>4. ReservoirOf(Offered(d.kept, k, c), k)
    <3> DEFINE r == d.kept
    <3>1. ReservoirOf(r, n) /\ c \in 0 .. n
      BY <1>1, <1>3
    <3> HIDE DEF r
    <3>2. ReservoirOf(Offered(r, n + 1, c), n + 1)
      BY <3>1, OfferedNext
    <3> QED
      BY <3>2 DEF r
  <2> HIDE DEF k
  <2> QED
    BY <2>2, <2>3, <2>4
<1>6. ASSUME NEW y \in next, NEW z \in next, y.selected = z.selected PROVE y = z
  <2>1. PICK d \in draws, a \in Choice : y = Drawing(d, k, a)
    BY <1>2
  <2>2. PICK e \in draws, b \in Choice : z = Drawing(e, k, b)
    BY <1>2
  <2> HIDE DEF Choice, k
  <2> QED
    BY <1>4, <1>6, <2>1, <2>2 DEF Apart
<1>7. f \in [draws \X Choice -> next]
  <2> HIDE DEF Choice, k
  <2> QED
    BY <1>2
<1>8. \A x, y \in draws \X Choice : f[x] = f[y] => x = y
  <2> SUFFICES ASSUME NEW x \in draws \X Choice, NEW y \in draws \X Choice, f[x] = f[y]
               PROVE  x = y
    OBVIOUS
  <2> HIDE DEF Choice, k
  <2>1. Drawing(x[1], k, x[2]).selected = Drawing(y[1], k, y[2]).selected
    OBVIOUS
  <2>2. x[1] \in draws /\ y[1] \in draws /\ x[2] \in Choice /\ y[2] \in Choice
    OBVIOUS
  <2>3. x[1] = y[1] /\ x[2] = y[2]
    BY <1>4, <2>1, <2>2 DEF Apart
  <2> QED
    BY <2>3
<1>9. \A y \in next : \E x \in draws \X Choice : f[x] = y
  <2> SUFFICES ASSUME NEW y \in next PROVE \E x \in draws \X Choice : f[x] = y
    OBVIOUS
  <2> HIDE DEF Choice, k
  <2>1. PICK d \in draws, c \in Choice : y = Drawing(d, k, c)
    BY <1>2
  <2>2. <<d, c>> \in draws \X Choice /\ f[<<d, c>>] = y
    BY <2>1
  <2> QED
    BY <2>2
<1>10. IsFiniteSet(next) /\ Cardinality(next) = Cardinality(draws) * k
  <2>1. IsFiniteSet(draws)
    BY DEF DrawsOf
  <2> HIDE DEF next, f, k
  <2>2. PairedOff(f, draws, k, next)
    BY <1>7, <1>8, <1>9 DEF PairedOff
  <2> QED
    BY <1>1, <2>1, <2>2, CountPairs
<1> HIDE DEF next
<1>11. DrawsOf(next, k)
  <2> HIDE DEF k
  <2> QED
    BY <1>5, <1>6, <1>10 DEF DrawsOf
<1> QED
  BY <1>10, <1>11 DEF next

(* A full reservoir: a pixel that one draw of n keeps is kept by n of the  *)
(* n + 1 selections that follow it, all but its own place.                 *)
PlaceIn(d, p) == CHOOSE i \in 1 .. Len(d.kept) : d.kept[i] = p
Sparing(d, p, c) == IF c + 1 < PlaceIn(d, p) THEN c ELSE c + 1

LEMMA SparingAll ==
  ASSUME NEW n \in Nat, NEW draws, DrawsOf(draws, n), n >= MaxPixelSamples,
         NEW p \in 1 .. n, NEW d \in Keeping(p, draws)
  PROVE  /\ PlaceIn(d, p) \in 1 .. n
         /\ \A c \in 0 .. n : p \in ToSet(Offered(d.kept, n + 1, c)) <=> c + 1 # PlaceIn(d, p)
<1> DEFINE r == d.kept
           i == PlaceIn(d, p)
<1>1. d \in draws /\ p \in ToSet(r) /\ ReservoirOf(r, n)
  BY DEF Keeping, DrawsOf
<1>2. MaxPixelSamples \in Nat \ {0} /\ Len(r) = MaxPixelSamples
  BY <1>1, SamplesAssumption DEF ReservoirOf, Limited
<1>3. i \in 1 .. Len(r) /\ r[i] = p
  <2>1. DOMAIN r = 1 .. Len(r)
    BY <1>1, LenProperties DEF ReservoirOf
  <2>2. \E j \in 1 .. Len(r) : r[j] = p
    BY <1>1, <2>1 DEF ToSet
  <2> QED
    BY <2>2 DEF PlaceIn
<1> HIDE DEF r, i
<1>4. i \in 1 .. n
  BY <1>2, <1>3
<1>5. \A c \in 0 .. n : r[i] \in ToSet(Offered(r, n + 1, c)) <=> c + 1 # i
  <2> SUFFICES ASSUME NEW c \in 0 .. n
               PROVE  r[i] \in ToSet(Offered(r, n + 1, c)) <=> c + 1 # i
    OBVIOUS
  <2>1. \A j \in 1 .. Len(r) : r[j] \in ToSet(Offered(r, n + 1, c)) <=> c + 1 # j
    BY <1>1, OfferedNext
  <2> QED
    BY <1>3, <2>1
<1> QED
  BY <1>3, <1>4, <1>5 DEF r, i

LEMMA KeptAgain ==
  ASSUME NEW n \in Nat, NEW draws, DrawsOf(draws, n), n >= MaxPixelSamples, NEW p \in 1 .. n
  PROVE  Cardinality(Keeping(p, DrawnOnce(draws, n + 1)))
           = Cardinality(Keeping(p, draws)) * n
<1> DEFINE k == n + 1
           next == DrawnOnce(draws, k)
           S == Keeping(p, draws)
           T == Keeping(p, next)
           f == [x \in S \X (0 .. n - 1) |-> Drawing(x[1], k, Sparing(x[1], p, x[2]))]
<1>1. k \in Nat /\ Selectable(k) = 0 .. n
  BY DEF Selectable
<1>2. next = {Drawing(d, k, c) : d \in draws, c \in 0 .. n}
  BY <1>1 DEF DrawnOnce
<1>3. S \subseteq draws /\ T \subseteq next
  BY DEF Keeping
<1>4. \A d \in S : /\ PlaceIn(d, p) \in 1 .. n
                   /\ \A c \in 0 .. n : p \in ToSet(Offered(d.kept, k, c)) <=> c + 1 # PlaceIn(d, p)
  BY SparingAll
<1>5. \A d \in S : \A c \in 0 .. n - 1 : /\ Sparing(d, p, c) \in 0 .. n
                                         /\ Sparing(d, p, c) + 1 # PlaceIn(d, p)
  <2> SUFFICES ASSUME NEW d \in S, NEW c \in 0 .. n - 1
               PROVE  Sparing(d, p, c) \in 0 .. n /\ Sparing(d, p, c) + 1 # PlaceIn(d, p)
    OBVIOUS
  <2> DEFINE i == PlaceIn(d, p)
  <2>1. i \in 1 .. n
    BY <1>4
  <2> HIDE DEF i, S
  <2>2. Sparing(d, p, c) = IF c + 1 < i THEN c ELSE c + 1
    BY DEF Sparing, i
  <2>3. Sparing(d, p, c) \in 0 .. n /\ Sparing(d, p, c) + 1 # i
    BY <2>1, <2>2
  <2> QED
    BY <2>3 DEF i
<1>6. Apart(draws, k, 0 .. n)
  <2> DEFINE Choice == 0 .. n
  <2>1. Choice \in SUBSET Nat
    OBVIOUS
  <2> HIDE DEF k, Choice
  <2>2. Apart(draws, k, Choice)
    BY <2>1, DrawingsDiffer
  <2> QED
    BY <2>2 DEF Choice
<1> HIDE DEF k, next, S
<1>7. f \in [S \X (0 .. n - 1) -> T]
  <2> SUFFICES ASSUME NEW d \in S, NEW c \in 0 .. n - 1
               PROVE  Drawing(d, k, Sparing(d, p, c)) \in T
    OBVIOUS
  <2> DEFINE a == Sparing(d, p, c)
             y == Drawing(d, k, a)
  <2>1. a \in 0 .. n /\ a + 1 # PlaceIn(d, p)
    BY <1>5
  <2> HIDE DEF a
  <2>2. y \in next
    BY <1>2, <1>3, <2>1
  <2>3. p \in ToSet(y.kept)
    <3>1. y.kept = Offered(d.kept, k, a)
      BY DrawingParts
    <3> QED
      BY <1>4, <2>1, <3>1
  <2> QED
    BY <2>2, <2>3 DEF Keeping, a
<1>8. ASSUME NEW x \in S \X (0 .. n - 1), NEW y \in S \X (0 .. n - 1), f[x] = f[y]
      PROVE  x = y
  <2> DEFINE a == Sparing(x[1], p, x[2])
             b == Sparing(y[1], p, y[2])
  <2>1. x[1] \in S /\ y[1] \in S /\ x[2] \in 0 .. n - 1 /\ y[2] \in 0 .. n - 1
    OBVIOUS
  <2>2. a \in 0 .. n /\ b \in 0 .. n
    BY <1>5, <2>1
  <2>3. Drawing(x[1], k, a).selected = Drawing(y[1], k, b).selected
    BY <1>8
  <2>4. x[1] \in draws /\ y[1] \in draws
    BY <1>3, <2>1
  <2>5. x[1] = y[1] /\ a = b
    <3> HIDE DEF a, b
    <3> QED
      BY <1>6, <2>2, <2>3, <2>4 DEF Apart
  <2>6. x[2] = y[2]
    <3> DEFINE i == PlaceIn(x[1], p)
               u == x[2]
               v == y[2]
    <3>1. i \in 1 .. n /\ u \in 0 .. n - 1 /\ v \in 0 .. n - 1
      BY <1>4, <2>1
    <3>2. a = (IF u + 1 < i THEN u ELSE u + 1) /\ b = (IF v + 1 < i THEN v ELSE v + 1)
      BY <2>5 DEF Sparing
    <3> HIDE DEF i, u, v, a, b
    <3>3. a = b
      BY <2>5
    <3>4. u = v
      BY <3>1, <3>2, <3>3
    <3> QED
      BY <3>4 DEF u, v
  <2> QED
    BY <2>1, <2>5, <2>6
<1>9. ASSUME NEW y \in T PROVE \E x \in S \X (0 .. n - 1) : f[x] = y
  <2>1. PICK d \in draws, a \in 0 .. n : y = Drawing(d, k, a)
    BY <1>2, <1>3
  <2>2. p \in ToSet(Offered(d.kept, k, a))
    <3>1. p \in ToSet(y.kept)
      BY DEF Keeping
    <3> QED
      BY <2>1, <3>1, DrawingParts
  <2>3. d \in S
    <3>1. ReservoirOf(d.kept, n)
      BY DEF DrawsOf
    <3> DEFINE r == d.kept
    <3> HIDE DEF r
    <3>2. ReservoirOf(r, n)
      BY <3>1 DEF r
    <3>3. \A q \in 1 .. n : q \in ToSet(Offered(r, n + 1, a)) => q \in ToSet(r)
      BY <3>2, OfferedNext
    <3>4. p \in ToSet(d.kept)
      BY <2>2, <3>3 DEF r, k
    <3> QED
      BY <3>4 DEF S, Keeping
  <2> DEFINE i == PlaceIn(d, p)
             c == IF a + 1 < i THEN a ELSE a - 1
  <2>4. i \in 1 .. n /\ a + 1 # i
    BY <1>4, <2>2, <2>3
  <2>5. c \in 0 .. n - 1 /\ Sparing(d, p, c) = a
    <3>1. Sparing(d, p, c) = IF c + 1 < i THEN c ELSE c + 1
      BY DEF Sparing
    <3> HIDE DEF i
    <3> QED
      BY <2>4, <3>1
  <2> HIDE DEF c
  <2>6. <<d, c>> \in S \X (0 .. n - 1) /\ f[<<d, c>>] = y
    BY <2>1, <2>3, <2>5
  <2> QED
    BY <2>6
<1>10. PairedOff(f, S, n, T)
  <2> HIDE DEF f, T
  <2> QED
    BY <1>7, <1>8, <1>9 DEF PairedOff
<1>11. IsFiniteSet(S)
  <2>1. IsFiniteSet(draws)
    BY DEF DrawsOf
  <2> QED
    BY <1>3, <2>1, FS_Subset
<1>12. Cardinality(T) = Cardinality(S) * n
  <2> HIDE DEF f, T
  <2> QED
    BY <1>10, <1>11, CountPairs
<1> QED
  BY <1>12 DEF next, k, S

(* The new pixel is kept by as many selections as there are places.        *)
LEMMA KeptFirst ==
  ASSUME NEW n \in Nat, NEW draws, DrawsOf(draws, n), n >= MaxPixelSamples
  PROVE  Cardinality(Keeping(n + 1, DrawnOnce(draws, n + 1)))
           = Cardinality(draws) * MaxPixelSamples
<1> DEFINE k == n + 1
           m == MaxPixelSamples
           next == DrawnOnce(draws, k)
           T == Keeping(k, next)
           f == [x \in draws \X (0 .. m - 1) |-> Drawing(x[1], k, x[2])]
<1>1. k \in Nat /\ Selectable(k) = 0 .. n /\ m \in Nat \ {0} /\ m <= n
  BY SamplesAssumption DEF Selectable
<1>2. next = {Drawing(d, k, c) : d \in draws, c \in 0 .. n}
  BY <1>1 DEF DrawnOnce
<1>3. \A d \in draws : \A c \in 0 .. n : k \in ToSet(Offered(d.kept, k, c)) <=> c < m
  <2> SUFFICES ASSUME NEW d \in draws, NEW c \in 0 .. n
               PROVE  k \in ToSet(Offered(d.kept, k, c)) <=> c < m
    OBVIOUS
  <2> DEFINE r == d.kept
  <2>1. ReservoirOf(r, n)
    BY DEF DrawsOf
  <2> HIDE DEF r
  <2>2. n + 1 \in ToSet(Offered(r, n + 1, c)) <=> c < MaxPixelSamples
    BY <2>1, OfferedNext
  <2> QED
    BY <2>2 DEF r
<1>4. Apart(draws, k, 0 .. n)
  <2> DEFINE Choice == 0 .. n
  <2>1. Choice \in SUBSET Nat
    OBVIOUS
  <2> HIDE DEF k, Choice
  <2>2. Apart(draws, k, Choice)
    BY <2>1, DrawingsDiffer
  <2> QED
    BY <2>2 DEF Choice
<1>5. \A c \in 0 .. m - 1 : c \in 0 .. n /\ c < m
  BY <1>1
<1>6. \A c \in 0 .. n : c < m => c \in 0 .. m - 1
  BY <1>1
<1> HIDE DEF k, m, next
<1>7. f \in [draws \X (0 .. m - 1) -> T]
  <2> SUFFICES ASSUME NEW d \in draws, NEW c \in 0 .. m - 1 PROVE Drawing(d, k, c) \in T
    OBVIOUS
  <2>1. Drawing(d, k, c) \in next
    BY <1>2, <1>5
  <2>2. k \in ToSet(Drawing(d, k, c).kept)
    BY <1>3, <1>5, DrawingParts
  <2> QED
    BY <2>1, <2>2 DEF Keeping
<1>8. ASSUME NEW x \in draws \X (0 .. m - 1), NEW y \in draws \X (0 .. m - 1), f[x] = f[y]
      PROVE  x = y
  <2>1. x[1] \in draws /\ y[1] \in draws /\ x[2] \in 0 .. n /\ y[2] \in 0 .. n
    BY <1>5
  <2>2. Drawing(x[1], k, x[2]).selected = Drawing(y[1], k, y[2]).selected
    BY <1>8
  <2>4. x[1] = y[1] /\ x[2] = y[2]
    BY <1>4, <2>1, <2>2 DEF Apart
  <2> QED
    BY <2>4
<1>9. ASSUME NEW y \in T PROVE \E x \in draws \X (0 .. m - 1) : f[x] = y
  <2>1. y \in next /\ k \in ToSet(y.kept)
    BY DEF Keeping
  <2>2. PICK d \in draws, c \in 0 .. n : y = Drawing(d, k, c)
    BY <1>2, <2>1
  <2>3. k \in ToSet(Offered(d.kept, k, c))
    BY <2>1, <2>2, DrawingParts
  <2>4. c \in 0 .. m - 1
    BY <1>3, <1>6, <2>3
  <2>5. <<d, c>> \in draws \X (0 .. m - 1) /\ f[<<d, c>>] = y
    BY <2>2, <2>4
  <2> QED
    BY <2>5
<1>10. PairedOff(f, draws, m, T)
  <2> HIDE DEF f, T
  <2> QED
    BY <1>7, <1>8, <1>9 DEF PairedOff
<1>11. IsFiniteSet(draws)
  BY DEF DrawsOf
<1>12. Cardinality(T) = Cardinality(draws) * m
  <2> HIDE DEF f, T
  <2> QED
    BY <1>1, <1>10, <1>11, CountPairs
<1> QED
  BY <1>12 DEF next, k, m

LEMMA ChanceArithmetic ==
  ASSUME NEW n \in Nat, NEW m \in Nat, NEW a \in Nat, NEW b \in Nat
  PROVE  /\ n * a = m * b => (n + 1) * (a * n) = m * (b * (n + 1))
         /\ (n + 1) * (b * m) = m * (b * (n + 1))
<1>1. (n + 1) * (a * n) = (n * a) * (n + 1) /\ (m * b) * (n + 1) = m * (b * (n + 1))
      /\ (n + 1) * (b * m) = m * (b * (n + 1))
  OBVIOUS
<1> QED
  BY <1>1

LEMMA FactorOut ==
  ASSUME NEW n \in Nat \ {0}, NEW a \in Nat, NEW b \in Nat, n * a = n * b
  PROVE  a = b
  OBVIOUS

(* As long as there is room every draw keeps every pixel; after that, n    *)
(* times the draws that keep a pixel are all draws as often as the         *)
(* reservoir has places, whichever pixel it is.                            *)
Chances(draws, n) ==
  /\ DrawsOf(draws, n)
  /\ n <= MaxPixelSamples => \A d \in draws : 1 .. n \subseteq ToSet(d.kept)
  /\ n >= MaxPixelSamples =>
       \A p \in 1 .. n : n * Cardinality(Keeping(p, draws)) = MaxPixelSamples * Cardinality(draws)

LEMMA ChancesNext ==
  ASSUME NEW n \in Nat, NEW draws, Chances(draws, n)
  PROVE  Chances(DrawnOnce(draws, n + 1), n + 1)
<1> DEFINE next == DrawnOnce(draws, n + 1)
           m == MaxPixelSamples
<1>1. DrawsOf(draws, n) /\ m \in Nat \ {0} /\ n + 1 \in Nat
  BY SamplesAssumption DEF Chances
<1>2. DrawsOf(next, n + 1) /\ Cardinality(next) = Cardinality(draws) * (n + 1)
  BY <1>1, DrawsNext
<1>3. IsFiniteSet(draws) /\ IsFiniteSet(next)
  BY <1>1, <1>2 DEF DrawsOf
<1>4. Cardinality(draws) \in Nat /\ Cardinality(next) \in Nat
  BY <1>3, FS_CardinalityType
<1>5. CASE n < m
  <2>1. ASSUME NEW e \in next PROVE 1 .. n + 1 \subseteq ToSet(e.kept)
    <3>1. PICK d \in draws, c \in 0 .. n : e = Drawing(d, n + 1, c)
      BY DEF DrawnOnce, Selectable
    <3> DEFINE r == d.kept
    <3>2. ReservoirOf(r, n) /\ 1 .. n \subseteq ToSet(r)
      BY <1>1, <1>5 DEF DrawsOf, Chances
    <3> HIDE DEF r
    <3>3. ToSet(Offered(r, n + 1, c)) = ToSet(r) \union {n + 1}
      BY <1>5, <3>2, OfferedNext
    <3>4. e.kept = Offered(r, n + 1, c)
      BY <3>1, DrawingParts DEF r
    <3>5. 1 .. n + 1 = (1 .. n) \union {n + 1}
      OBVIOUS
    <3> QED
      BY <3>2, <3>3, <3>4, <3>5
  <2>2. ASSUME n + 1 >= m, NEW p \in 1 .. n + 1
        PROVE  (n + 1) * Cardinality(Keeping(p, next)) = m * Cardinality(next)
    <3>1. Keeping(p, next) = next
      BY <2>1 DEF Keeping
    <3>2. n + 1 = m
      BY <1>1, <1>5, <2>2
    <3> QED
      BY <3>1, <3>2
  <2> HIDE DEF next
  <2>3. Chances(next, n + 1)
    <3>1. n + 1 <= m => \A e \in next : 1 .. n + 1 \subseteq ToSet(e.kept)
      BY <2>1
    <3> QED
      BY <1>2, <2>2, <3>1 DEF Chances
  <2> QED
    BY <2>3 DEF next
<1>6. CASE n >= m
  <2>1. ~(n + 1 <= m)
    BY <1>1, <1>6
  <2>2. ASSUME NEW p \in 1 .. n + 1
        PROVE  (n + 1) * Cardinality(Keeping(p, next)) = m * Cardinality(next)
    <3> DEFINE a == Cardinality(Keeping(p, draws))
               b == Cardinality(draws)
    <3>1. IsFiniteSet(Keeping(p, draws))
      <4>1. Keeping(p, draws) \subseteq draws
        BY DEF Keeping
      <4> QED
        BY <1>3, <4>1, FS_Subset
    <3>2. a \in Nat /\ b \in Nat /\ Cardinality(next) = b * (n + 1)
      BY <1>2, <1>4, <3>1, FS_CardinalityType
    <3>3. CASE p = n + 1
      <4>1. Cardinality(Keeping(n + 1, next)) = b * m
        BY <1>1, <1>6, KeptFirst
      <4> HIDE DEF next, b, m, a
      <4>2. (n + 1) * (b * m) = m * (b * (n + 1))
        BY <1>1, <3>2, ChanceArithmetic
      <4> QED
        BY <3>2, <3>3, <4>1, <4>2
    <3>4. CASE p # n + 1
      <4>1. p \in 1 .. n
        BY <3>4
      <4>2. Cardinality(Keeping(p, next)) = a * n
        BY <1>1, <1>6, <4>1, KeptAgain
      <4>3. n * a = m * b
        BY <1>6, <4>1 DEF Chances
      <4> HIDE DEF next, b, m, a
      <4>4. (n + 1) * (a * n) = m * (b * (n + 1))
        BY <1>1, <3>2, <4>3, ChanceArithmetic
      <4> QED
        BY <3>2, <4>2, <4>4
    <3> QED
      BY <3>3, <3>4
  <2> HIDE DEF next
  <2>3. Chances(next, n + 1)
    BY <1>2, <2>1, <2>2 DEF Chances
  <2> QED
    BY <2>3 DEF next
<1> QED
  BY <1>1, <1>5, <1>6

LEMMA ChancesKnown == \A n \in Nat : n <= MaxDraws => Chances(Draws[n], n)
<1> DEFINE T == {n \in Nat : n <= MaxDraws => Chances(Draws[n], n)}
<1>1. 0 \in T
  <2> DEFINE draws == {NoDraw}
  <2>1. Draws[0] = draws
    BY DrawsSteps
  <2>2. IsFiniteSet(draws)
    BY FS_Singleton
  <2>3. ReservoirOf(<<>>, 0)
    BY SamplesAssumption DEF ReservoirOf, Limited
  <2>4. DrawsOf(draws, 0)
    BY <2>2, <2>3 DEF DrawsOf, NoDraw
  <2>5. 1 .. 0 = {}
    OBVIOUS
  <2>6. Chances(draws, 0)
    BY <2>4, <2>5 DEF Chances
  <2> QED
    BY <2>1, <2>6
<1>2. ASSUME NEW n \in Nat, n \in T PROVE n + 1 \in T
  <2> SUFFICES ASSUME n + 1 <= MaxDraws PROVE Chances(Draws[n + 1], n + 1)
    OBVIOUS
  <2>1. Draws[n + 1] = DrawnOnce(Draws[n], n + 1)
    BY DrawsSteps
  <2> DEFINE draws == Draws[n]
  <2>2. Chances(draws, n)
    BY <1>2, DrawsAssumption
  <2> HIDE DEF draws
  <2>3. Chances(DrawnOnce(draws, n + 1), n + 1)
    BY <2>2, ChancesNext
  <2> QED
    BY <2>1, <2>3 DEF draws
<1> HIDE DEF T
<1>3. \A n \in Nat : n \in T
  BY <1>1, <1>2, SetInduction
<1> QED
  BY <1>3 DEF T

(* Every pixel seen has the same chance to be kept: for any number of      *)
(* pixels and places, equally many of the selections that the random       *)
(* engine may make keep it.                                                *)
THEOREM ChancesEqual == \A n \in 0 .. MaxDraws : Fair[n]
<1> SUFFICES ASSUME NEW n \in 0 .. MaxDraws PROVE Fair[n]
  OBVIOUS
<1> DEFINE draws == Draws[n]
           m == MaxPixelSamples
<1>1. n \in Nat /\ m \in Nat \ {0}
  BY DrawsAssumption, SamplesAssumption
<1>2. Chances(draws, n)
  BY <1>1, ChancesKnown
<1> HIDE DEF draws
<1>3. ASSUME NEW p \in 1 .. n, NEW q \in 1 .. n
      PROVE  Cardinality(Keeping(p, draws)) = Cardinality(Keeping(q, draws))
  <2>1. CASE n <= m
    <3>1. Keeping(p, draws) = draws /\ Keeping(q, draws) = draws
      BY <1>2, <2>1 DEF Chances, Keeping
    <3> QED
      BY <3>1
  <2>2. CASE n >= m
    <3> DEFINE a == Cardinality(Keeping(p, draws))
               b == Cardinality(Keeping(q, draws))
    <3>1. n * a = m * Cardinality(draws) /\ n * b = m * Cardinality(draws)
      BY <1>2, <2>2 DEF Chances
    <3>2. IsFiniteSet(Keeping(p, draws)) /\ IsFiniteSet(Keeping(q, draws))
      <4>1. IsFiniteSet(draws)
        BY <1>2 DEF Chances, DrawsOf
      <4>2. Keeping(p, draws) \subseteq draws /\ Keeping(q, draws) \subseteq draws
        BY DEF Keeping
      <4> QED
        BY <4>1, <4>2, FS_Subset
    <3>3. a \in Nat /\ b \in Nat /\ n \in Nat \ {0}
      BY <1>1, <2>2, <3>2, FS_CardinalityType
    <3> HIDE DEF a, b
    <3>4. a = b
      BY <3>1, <3>3, FactorOut
    <3> QED
      BY <3>4 DEF a, b
  <2> QED
    BY <1>1, <2>1, <2>2
<1>4. Fair[n] = (\A p, q \in 1 .. n :
                   Cardinality(Keeping(p, draws)) = Cardinality(Keeping(q, draws)))
  BY DEF Fair, draws
<1> QED
  BY <1>3, <1>4

(* The reservoir holds what has not been lost, and as long as nothing is   *)
(* it is a fair sample of the pixels seen by all calls together, those     *)
(* that failed on a pixel included.                                        *)
THEOREM ReservoirFairly == Spec => []ReservoirFair
<1>1. KInv /\ client \in {"predict", "calibrate"} => seenPixels \in Nat
  <2>1. 0 \in Nat
    OBVIOUS
  <2> QED
    BY <2>1 DEF KInv, CInv, CalibratorTypes
<1>2. ReservoirDistinct /\ seenPixels \in Nat => ReservoirFair
  BY ChancesEqual, DrawsAssumption DEF ReservoirFair
<1>3. Init => client \in {"predict", "calibrate"}
  BY DEF Init
<1>4. client \in {"predict", "calibrate"} /\ [Next]_vars => (client \in {"predict", "calibrate"})'
  BY DEF Next, vars
<1> QED
  BY <1>1, <1>2, <1>3, <1>4, SamplesKept, ReservoirHolds, PTL DEF Spec

-----------------------------------------------------------------------------
(* The thresholds of the calibrator. *)

(* Among some of the first n numbers there is a greatest.                  *)
LEMMA GreatestExists ==
  ASSUME NEW n \in Nat, NEW W, W \subseteq 1 .. n, W # {}, NEW f, \A i \in W : f[i] \in Int
  PROVE  \E m \in W : \A i \in W : f[i] <= f[m]
<1> DEFINE T == {k \in Nat : (\E i \in W : i <= k) =>
                               \E m \in W : m <= k /\ \A i \in W : i <= k => f[i] <= f[m]}
<1>1. 0 \in T
  <2>1. \A i \in W : ~(i <= 0)
    OBVIOUS
  <2> QED
    BY <2>1
<1>2. ASSUME NEW k \in Nat, k \in T PROVE k + 1 \in T
  <2> SUFFICES ASSUME NEW o \in W, o <= k + 1
               PROVE  \E m \in W : m <= k + 1 /\ \A i \in W : i <= k + 1 => f[i] <= f[m]
    OBVIOUS
  <2>1. \A i \in W : i \in Nat /\ (i <= k + 1 <=> i <= k \/ i = k + 1)
    OBVIOUS
  <2>2. CASE ~\E i \in W : i <= k
    BY <2>1, <2>2
  <2>3. CASE \E i \in W : i <= k
    <3>1. PICK m \in W : m <= k /\ \A i \in W : i <= k => f[i] <= f[m]
      BY <1>2, <2>3
    <3>2. CASE k + 1 \in W /\ f[k + 1] > f[m]
      <4>1. \A i \in W : i <= k + 1 => f[i] <= f[k + 1]
        BY <2>1, <3>1, <3>2
      <4> QED
        BY <3>2, <4>1
    <3>3. CASE ~(k + 1 \in W /\ f[k + 1] > f[m])
      <4>1. \A i \in W : i <= k + 1 => f[i] <= f[m]
        BY <2>1, <3>1, <3>3
      <4> QED
        BY <2>1, <3>1, <4>1
    <3> QED
      BY <3>2, <3>3
  <2> QED
    BY <2>2, <2>3
<1> HIDE DEF T
<1>3. n \in T
  BY <1>1, <1>2, SetInduction
<1>4. \A i \in W : i <= n
  OBVIOUS
<1> QED
  BY <1>3, <1>4 DEF T

(* How many of the values are below one, and how many not above it.        *)
BelowOf(values, v) == {i \in DOMAIN values : values[i] < v}
UpToOf(values, v) == {i \in DOMAIN values : values[i] <= v}

LEMMA Counts ==
  ASSUME NEW values \in Seq(Int), NEW v
  PROVE  /\ Len(values) \in Nat /\ DOMAIN values = 1 .. Len(values)
         /\ \A i \in DOMAIN values : values[i] \in Int
         /\ IsFiniteSet(BelowOf(values, v)) /\ Cardinality(BelowOf(values, v)) \in Nat
         /\ IsFiniteSet(UpToOf(values, v)) /\ Cardinality(UpToOf(values, v)) \in 0 .. Len(values)
         /\ IsFiniteSet(DOMAIN values) /\ Cardinality(DOMAIN values) = Len(values)
<1>1. /\ Len(values) \in Nat /\ DOMAIN values = 1 .. Len(values)
      /\ \A i \in DOMAIN values : values[i] \in Int
  BY LenProperties
<1>2. IsFiniteSet(DOMAIN values) /\ Cardinality(DOMAIN values) = Len(values)
  BY <1>1, FS_Interval
<1>3. BelowOf(values, v) \subseteq DOMAIN values /\ UpToOf(values, v) \subseteq DOMAIN values
  BY DEF BelowOf, UpToOf
<1>4. /\ IsFiniteSet(BelowOf(values, v)) /\ Cardinality(BelowOf(values, v)) \in Nat
      /\ IsFiniteSet(UpToOf(values, v)) /\ Cardinality(UpToOf(values, v)) \in Nat
      /\ Cardinality(UpToOf(values, v)) <= Len(values)
  BY <1>2, <1>3, FS_Subset, FS_CardinalityType
<1> QED
  BY <1>1, <1>2, <1>4

(* The k-th value in increasing order is there.                            *)
LEMMA SortedAt ==
  ASSUME NEW values \in Seq(Int), NEW k \in 1 .. Len(values)
  PROVE  /\ Sorted(values)[k] \in Int /\ \E i \in DOMAIN values : values[i] = Sorted(values)[k]
         /\ Cardinality(BelowOf(values, Sorted(values)[k])) < k
         /\ k <= Cardinality(UpToOf(values, Sorted(values)[k]))
<1> DEFINE n == Len(values)
           Is(v) == /\ Cardinality(BelowOf(values, v)) < k
                    /\ k <= Cardinality(UpToOf(values, v))
<1>1. /\ n \in Nat /\ DOMAIN values = 1 .. n /\ \A i \in DOMAIN values : values[i] \in Int
      /\ k \in Nat /\ k \in 1 .. n
  BY Counts
<1>2. \A v : /\ IsFiniteSet(BelowOf(values, v)) /\ Cardinality(BelowOf(values, v)) \in Nat
             /\ Cardinality(UpToOf(values, v)) \in 0 .. n
  BY Counts
<1> DEFINE W == {i \in DOMAIN values : k <= Cardinality(UpToOf(values, values[i]))}
           minus == [i \in DOMAIN values |-> 0 - values[i]]
<1>3. W # {}
  <2>1. PICK m \in DOMAIN values : \A i \in DOMAIN values : values[i] <= values[m]
    <3> HIDE DEF n
    <3>1. DOMAIN values # {}
      BY <1>1
    <3> QED
      BY <1>1, <3>1, GreatestExists
  <2>2. UpToOf(values, values[m]) = DOMAIN values
    BY <2>1 DEF UpToOf
  <2>3. Cardinality(UpToOf(values, values[m])) = n
    BY <2>2, Counts
  <2>4. k <= n
    BY <1>1
  <2> QED
    BY <2>3, <2>4
<1>4. PICK m \in W : \A i \in W : values[m] <= values[i]
  <2>1. W \subseteq 1 .. n /\ \A i \in W : minus[i] \in Int
    BY <1>1
  <2> HIDE DEF W, minus, n
  <2>2. PICK m \in W : \A i \in W : minus[i] <= minus[m]
    BY <1>1, <1>3, <2>1, GreatestExists
  <2>3. \A i \in W : i \in DOMAIN values /\ minus[i] = 0 - values[i]
    BY DEF W, minus
  <2> QED
    BY <1>1, <2>2, <2>3
<1>5. Is(values[m])
  <2>1. k <= Cardinality(UpToOf(values, values[m])) /\ m \in DOMAIN values
    OBVIOUS
  <2>2. ASSUME k <= Cardinality(BelowOf(values, values[m])) PROVE FALSE
    <3> DEFINE B == BelowOf(values, values[m])
    <3>1. B # {} /\ B \subseteq 1 .. n /\ \A i \in B : values[i] \in Int
      <4>1. B = {} => Cardinality(B) = 0
        BY FS_EmptySet
      <4>2. Cardinality(B) >= 1
        BY <1>1, <1>2, <2>2
      <4>3. B \subseteq 1 .. n /\ \A i \in B : values[i] \in Int
        BY <1>1 DEF BelowOf
      <4> QED
        BY <4>1, <4>2, <4>3
    <3> HIDE DEF B
    <3>2. PICK u \in B : \A i \in B : values[i] <= values[u]
      BY <1>1, <3>1, GreatestExists
    <3>3. u \in DOMAIN values /\ values[u] < values[m]
      BY <3>2 DEF B, BelowOf
    <3>4. UpToOf(values, values[u]) = B
      <4>1. \A i \in DOMAIN values : values[i] <= values[u] <=> i \in B
        BY <1>1, <2>1, <3>2, <3>3 DEF B, BelowOf
      <4>2. B \subseteq DOMAIN values
        BY DEF B, BelowOf
      <4> QED
        BY <4>1, <4>2 DEF UpToOf
    <3>5. u \in W
      BY <2>2, <3>3, <3>4 DEF B
    <3>6. values[m] <= values[u]
      BY <1>4, <3>5
    <3> QED
      BY <1>1, <2>1, <3>3, <3>6
  <2>3. Cardinality(BelowOf(values, values[m])) < k
    BY <1>1, <1>2, <2>2
  <2> QED
    BY <2>1, <2>3
<1>6. values[m] \in ToSet(values)
  BY DEF ToSet
<1> HIDE DEF Is, W
<1>7. /\ (CHOOSE v \in ToSet(values) : Is(v)) \in ToSet(values)
      /\ Is(CHOOSE v \in ToSet(values) : Is(v))
  BY <1>5, <1>6
<1>8. Sorted(values)[k] = CHOOSE v \in ToSet(values) : Is(v)
  BY <1>1 DEF Sorted, Is, BelowOf, UpToOf
<1>9. \E i \in DOMAIN values : values[i] = Sorted(values)[k]
  BY <1>7, <1>8 DEF ToSet
<1> QED
  BY <1>1, <1>7, <1>8, <1>9 DEF Is

(* The position of the threshold, counted from both ends.                  *)
LEMMA QuantilePosition ==
  ASSUME NEW m \in Nat
  PROVE  LET index == ((RateDen - RateNum) * m) \div RateDen
             allowed == (RateNum * m + RateDen - 1) \div RateDen
         IN  index \in Nat /\ allowed \in Nat /\ index + allowed = m
<1> DEFINE d == RateDen
           a == RateNum * m
           q == (a + d - 1) \div d
           r == (a + d - 1) % d
<1>1. d \in Nat \ {0} /\ RateNum \in Nat \ {0} /\ RateNum <= d - 1 /\ d - 1 \in Nat
  BY RateAssumption
<1>2. a \in Nat /\ a <= (d - 1) * m
  <2>1. (d - 1 - RateNum) * m >= 0
    BY <1>1
  <2>2. (d - 1 - RateNum) * m = (d - 1) * m - RateNum * m
    BY <1>1
  <2> QED
    BY <1>1, <2>1, <2>2
<1>3. (d - 1) * m = d * m - m
  BY <1>1
<1>4. (d - RateNum) * m = d * m - a
  BY <1>1
<1> HIDE DEF d, a
<1>5. q \in Int /\ r \in 0 .. d - 1 /\ a + d - 1 = d * q + r
  BY <1>1, <1>2
<1> HIDE DEF q, r
<1>6. q <= m
  <2> SUFFICES ASSUME q >= m + 1 PROVE FALSE
    BY <1>5
  <2>1. d * (q - (m + 1)) >= 0 /\ d * (q - (m + 1)) = d * q - d * m - d
    BY <1>1, <1>5
  <2> QED
    BY <1>1, <1>2, <1>3, <1>5, <2>1
<1>7. q >= 0
  <2> SUFFICES ASSUME q <= -1 PROVE FALSE
    BY <1>5
  <2>1. d * q <= -d
    BY <1>1, <1>5
  <2> QED
    BY <1>1, <1>2, <1>5, <2>1
<1>8. m - q \in Nat /\ d - r \in 1 .. d
  BY <1>1, <1>5, <1>6
<1>9. d * m - a = ((m - q) * d + (d - r)) - 1
  <2>1. (m - q) * d = d * m - d * q
    BY <1>1, <1>5
  <2> QED
    BY <1>1, <1>2, <1>5, <2>1
<1>10. Row((m - q) * d + (d - r), d) = (m - q) + 1
  BY <1>1, <1>8, RowColumn
<1>11. (d * m - a) \div d = m - q
  <2>1. (((m - q) * d + (d - r)) - 1) \div d + 1 = (m - q) + 1
    BY <1>10 DEF Row
  <2>2. (d * m - a) \div d \in Int
    BY <1>1, <1>2
  <2> QED
    BY <1>8, <1>9, <2>1, <2>2
<1> QED
  BY <1>4, <1>5, <1>6, <1>7, <1>11 DEF d, a, q

(* A statistics of values, as compute gives it, and what ThresholdsUsable  *)
(* demands of it.                                                          *)
AtTargetRate(values, statistics) ==
  LET n == Len(values)
      allowed == (RateNum * (n - 1) + RateDen - 1) \div RateDen
  IN  /\ statistics.range[1] < statistics.range[2]
      /\ statistics.range[1] <= statistics.threshold
      /\ statistics.threshold <= statistics.range[2]
      /\ Cardinality({i \in 1 .. n : values[i] > statistics.threshold}) <= allowed
      /\ Cardinality({i \in 1 .. n : values[i] >= statistics.threshold}) > allowed

LEMMA RangeContains ==
  ASSUME NEW values \in Seq(Int), values # <<>>
  PROVE  LET range == ScoreRange(values)
         IN  /\ range[1] \in Int /\ range[2] \in Int /\ range[1] < range[2]
             /\ \A i \in DOMAIN values : range[1] <= values[i] /\ values[i] <= range[2]
<1> DEFINE n == Len(values)
           minus == [i \in DOMAIN values |-> 0 - values[i]]
           low == Min(ToSet(values))
           high == Max(ToSet(values))
<1>1. /\ n \in Nat /\ n # 0 /\ DOMAIN values = 1 .. n
      /\ \A i \in DOMAIN values : values[i] \in Int
  BY Counts, EmptySeq
<1> HIDE DEF n
<1>2. DOMAIN values # {}
  <2>1. 1 \in 1 .. n
    BY <1>1
  <2> QED
    BY <1>1, <2>1
<1>3. PICK m \in DOMAIN values : \A i \in DOMAIN values : values[i] <= values[m]
  BY <1>1, <1>2, GreatestExists
<1>4. PICK l \in DOMAIN values : \A i \in DOMAIN values : values[l] <= values[i]
  <2>1. \A i \in DOMAIN values : minus[i] \in Int
    BY <1>1
  <2> HIDE DEF minus
  <2>2. PICK l \in DOMAIN values : \A i \in DOMAIN values : minus[i] <= minus[l]
    BY <1>1, <1>2, <2>1, GreatestExists
  <2>3. \A i \in DOMAIN values : minus[i] = 0 - values[i]
    BY DEF minus
  <2> QED
    BY <1>1, <2>2, <2>3
<1> DEFINE all == ToSet(values)
<1>5. all = {values[i] : i \in DOMAIN values}
  BY DEF ToSet
<1>6. high \in all /\ \A y \in all : high >= y
  <2>1. \E x \in all : \A y \in all : x >= y
    BY <1>1, <1>3, <1>5
  <2> HIDE DEF all
  <2> QED
    BY <2>1 DEF Max, all
<1>7. low \in all /\ \A y \in all : low =< y
  <2>1. \E x \in all : \A y \in all : x =< y
    BY <1>1, <1>4, <1>5
  <2> HIDE DEF all
  <2> QED
    BY <2>1 DEF Min, all
<1> HIDE DEF all, high, low
<1>8. /\ high \in Int /\ low \in Int
      /\ \A i \in DOMAIN values : low <= values[i] /\ values[i] <= high
  BY <1>1, <1>5, <1>6, <1>7
<1>9. CASE high <= low
  <2>1. ScoreRange(values) = <<low - 1, high + 1>>
    BY <1>9 DEF ScoreRange, high, low
  <2> QED
    BY <1>1, <1>2, <1>8, <2>1
<1>10. CASE ~(high <= low)
  <2>1. ScoreRange(values) = <<low, high>>
    BY <1>10 DEF ScoreRange, high, low
  <2> QED
    BY <1>1, <1>8, <1>10, <2>1
<1> QED
  BY <1>9, <1>10

LEMMA StatisticsUsable ==
  ASSUME NEW values \in Seq(Int), values # <<>>
  PROVE  AtTargetRate(values, Statistics(values))
<1> DEFINE n == Len(values)
           m == n - 1
           index == ((RateDen - RateNum) * m) \div RateDen
           allowed == (RateNum * m + RateDen - 1) \div RateDen
           k == index + 1
           t == Sorted(values)[k]
           above == {i \in 1 .. n : values[i] > t}
           atLeast == {i \in 1 .. n : values[i] >= t}
<1>1. n \in Nat /\ m \in Nat /\ DOMAIN values = 1 .. n /\ \A i \in 1 .. n : values[i] \in Int
  BY Counts, EmptySeq
<1>2. index \in Nat /\ allowed \in Nat /\ index + allowed = m
  <2> HIDE DEF m
  <2> QED
    BY <1>1, QuantilePosition
<1>3. Statistics(values).range = ScoreRange(values) /\ Statistics(values).threshold = t
  BY DEF Statistics, Quantile
<1>4. k \in 1 .. Len(values)
  <2> HIDE DEF index, allowed
  <2> QED
    BY <1>1, <1>2
<1> HIDE DEF k
<1>5. /\ t \in Int /\ \E i \in DOMAIN values : values[i] = t
      /\ Cardinality(BelowOf(values, t)) < k
      /\ k <= Cardinality(UpToOf(values, t))
  BY <1>4, SortedAt
<1> HIDE DEF t
<1>6. /\ IsFiniteSet(1 .. n) /\ Cardinality(1 .. n) = n
      /\ Cardinality(BelowOf(values, t)) \in Nat /\ Cardinality(UpToOf(values, t)) \in Nat
      /\ BelowOf(values, t) \subseteq 1 .. n /\ UpToOf(values, t) \subseteq 1 .. n
  <2>1. /\ IsFiniteSet(BelowOf(values, t)) /\ Cardinality(BelowOf(values, t)) \in Nat
        /\ IsFiniteSet(UpToOf(values, t)) /\ Cardinality(UpToOf(values, t)) \in 0 .. Len(values)
        /\ IsFiniteSet(DOMAIN values) /\ Cardinality(DOMAIN values) = Len(values)
    BY Counts
  <2> QED
    BY <1>1, <2>1 DEF BelowOf, UpToOf
<1>7. Cardinality(above) = n - Cardinality(UpToOf(values, t))
  <2>1. above = (1 .. n) \ UpToOf(values, t)
    BY <1>1, <1>5 DEF UpToOf
  <2>2. (1 .. n) \intersect UpToOf(values, t) = UpToOf(values, t)
    BY <1>6
  <2> HIDE DEF n, above
  <2>3. Cardinality((1 .. n) \ UpToOf(values, t))
          = n - Cardinality((1 .. n) \intersect UpToOf(values, t))
    BY <1>6, FS_Difference
  <2> QED
    BY <2>1, <2>2, <2>3
<1>8. Cardinality(atLeast) = n - Cardinality(BelowOf(values, t))
  <2>1. atLeast = (1 .. n) \ BelowOf(values, t)
    BY <1>1, <1>5 DEF BelowOf
  <2>2. (1 .. n) \intersect BelowOf(values, t) = BelowOf(values, t)
    BY <1>6
  <2> HIDE DEF n, atLeast
  <2>3. Cardinality((1 .. n) \ BelowOf(values, t))
          = n - Cardinality((1 .. n) \intersect BelowOf(values, t))
    BY <1>6, FS_Difference
  <2> QED
    BY <2>1, <2>2, <2>3
<1>9. Cardinality(above) <= allowed /\ Cardinality(atLeast) > allowed
  <2>1. k = index + 1 /\ m = n - 1
    BY DEF k
  <2> HIDE DEF m, n, index, allowed, above, atLeast
  <2> QED
    BY <1>1, <1>2, <1>5, <1>6, <1>7, <1>8, <2>1
<1>10. LET range == Statistics(values).range
       IN  range[1] < range[2] /\ range[1] <= t /\ t <= range[2]
  <2> DEFINE range == ScoreRange(values)
  <2>1. /\ range[1] < range[2]
        /\ \A i \in DOMAIN values : range[1] <= values[i] /\ values[i] <= range[2]
    BY RangeContains
  <2> HIDE DEF range
  <2> QED
    BY <1>3, <1>5, <2>1 DEF range
<1> HIDE DEF index
<1> QED
  BY <1>3, <1>9, <1>10 DEF AtTargetRate, above, atLeast, allowed, m, n

(* The values of samples are numbers, as many as there are samples.        *)
LEMMA ValuesType ==
  ASSUME NEW S, NEW samples \in Seq(S), \A s \in S : s.value \in Int
  PROVE  /\ Values(samples) \in Seq(Int)
         /\ samples # <<>> => Values(samples) # <<>>
<1>1. /\ Len(samples) \in Nat /\ DOMAIN samples = 1 .. Len(samples)
      /\ \A i \in DOMAIN samples : samples[i] \in S
  BY LenProperties
<1>2. Values(samples) \in [1 .. Len(samples) -> Int]
  BY <1>1 DEF Values
<1>3. Values(samples) \in Seq(Int) /\ Len(Values(samples)) = Len(samples)
  BY <1>1, <1>2, IsSeq
<1> QED
  BY <1>1, <1>3, EmptySeq

(* What compute returns can be put in a package, and its thresholds are    *)
(* those of the target rate, whatever has been sampled.                    *)
THEOREM ThresholdsHold == Spec => []ThresholdsUsable
<1>1. ASSUME KInv, client \in {"predict", "calibrate"} PROVE ThresholdsUsable
  <2> SUFFICES ASSUME result.computed
               PROVE  /\ result.samples = Len(imageScores)
                      /\ AtTargetRate(Values(imageScores), result.image)
                      /\ result.hasPixels <=> seenPixels > 0
                      /\ result.hasPixels => AtTargetRate(Values(pixelScores), result.pixel)
    BY DEF ThresholdsUsable, AtTargetRate
  <2>1. result # NoResult
    BY DEF NoResult
  <2>2. CInv /\ imageScores # <<>> /\ result = ResultOf
    BY <1>1, <2>1 DEF KInv, CInv
  <2>3. /\ imageScores \in Seq(SampleType) /\ pixelScores \in Seq(PixelType)
        /\ seenPixels \in Nat /\ lost \in 0 .. seenPixels
        /\ lost > 0 => Len(pixelScores) >= Reserved
        /\ Len(pixelScores) = IF seenPixels - lost < MaxPixelSamples THEN seenPixels - lost
                              ELSE MaxPixelSamples
    BY <2>2 DEF CInv, CalibratorTypes, ReservoirDistinct
  <2>4. /\ \A s \in SampleType : s.value \in Int
        /\ \A p \in PixelType : p.value \in Int
    BY DEF SampleType, PixelType
  <2>5. AtTargetRate(Values(imageScores), Statistics(Values(imageScores)))
    BY <2>2, <2>3, <2>4, ValuesType, StatisticsUsable
  <2>6. pixelScores # <<>> =>
          AtTargetRate(Values(pixelScores), Statistics(Values(pixelScores)))
    BY <2>3, <2>4, ValuesType, StatisticsUsable
  <2>7. pixelScores # <<>> <=> seenPixels > 0
    <3>1. Len(pixelScores) > 0 <=> seenPixels > 0
      BY <2>3, SamplesAssumption
    <3> QED
      BY <2>3, <3>1, EmptySeq
  <2> QED
    BY <2>2, <2>5, <2>6, <2>7 DEF ResultOf
<1>2. Init => client \in {"predict", "calibrate"}
  BY DEF Init
<1>3. client \in {"predict", "calibrate"} /\ [Next]_vars => (client \in {"predict", "calibrate"})'
  BY DEF Next, vars
<1> QED
  BY <1>1, <1>2, <1>3, SamplesKept, PTL DEF Spec
=============================================================================
