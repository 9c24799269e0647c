---------------------------- MODULE ModelProofs ----------------------------
(***************************************************************************)
(* Proofs about models on disk and the runtimes they are given.            *)
(*                                                                         *)
(* RuntimeSelection, for any set of requests and error codes and any       *)
(* number of Faiss layers: types, and the inductive invariant IInv from    *)
(* which the requirements, the isolation of CPU requests, the honesty of   *)
(* the execution info and the visibility of corruption follow.             *)
(*                                                                         *)
(* PackageLifecycle, for any templates, paths, files and numbers of edits, *)
(* fits and calibrations: the inductive invariant PInv, that published     *)
(* packages are usable, that a fit can be published, and that the ranges   *)
(* of statistical variants are those of their own scores.                  *)
(***************************************************************************)
EXTENDS RuntimeSelection, PackageLifecycle, TLAPS

CandidateType == [backend : Backends, fallback : BOOLEAN]

(* What the candidate list guarantees for the device of the request.       *)
Serves(r, c) ==
  /\ r.device = "CPU" => c.backend = "OnnxRuntime"
  /\ r.device = "GPU" /\ ~r.loadOnly => c.backend = "TensorRT"
  /\ r.device \in {"GPU", "AUTO"} /\ c.backend = "OnnxRuntime" => c.fallback

(* The candidates serve the request, and the one being tried exists.       *)
CandidatesServe ==
  /\ \A k \in 1..Len(cands) : Serves(req, cands[k])
  /\ pc = "idle" => i = 1
  /\ pc \notin {"idle", "failed"} => i \in 1..Len(cands)

(* A fallback candidate past creation has left a note of why.              *)
FallbackNoted ==
  pc \in {"load", "validate", "search"} /\ Candidate.fallback => attempts # <<>>

(* Faiss layers leave the CPU only in a GPU search configuration.          *)
LayersQuiet ==
  pc = "search" /\ ~(req.search = "faiss" /\ OnGpu) => layer = AllCpu

(* The execution info of a session describes its candidate and its layers. *)
InfoTrue ==
  pc \in {"compute", "warmup", "loaded"} =>
    /\ info.provider = Provider(Candidate.backend)
    /\ \A k \in 1..NLayers : layer[k] = "cuda" <=> info.search = "cuda"
    /\ req.device = "GPU" /\ ~req.loadOnly => info.search # "cpu"
    /\ ~info.fallback /\ req.device \in {"GPU", "AUTO"} =>
         info.provider = "cuda" /\ info.search # "cpu"

(* Past the compute stage it describes that stage too.                     *)
ComputeTrue ==
  pc \in {"warmup", "loaded"} =>
    /\ req.compute = "cuda" => info.compute = "cuda"
    /\ ~info.fallback /\ req.device \in {"GPU", "AUTO"}
         /\ req.extension = "device" /\ req.compute # "cpu" => info.compute = "cuda"

IInv ==
  /\ TypeOK
  /\ CandidatesServe /\ FallbackNoted /\ LayersQuiet /\ InfoTrue /\ ComputeTrue
  /\ CpuNeverInitializesCuda /\ CorruptionNeverHidden
-----------------------------------------------------------------------------
(* add keeps the list or appends one candidate of the backend it is given. *)
LEMMA AddServes ==
  ASSUME NEW r \in AllRequests, NEW list \in Seq(CandidateType),
         NEW b \in Backends, NEW f \in BOOLEAN,
         \A k \in 1..Len(list) : Serves(r, list[k]),
         Serves(r, [backend |-> b, fallback |-> f])
  PROVE  /\ add(r, list, b, f) \in Seq(CandidateType)
         /\ \A k \in 1..Len(add(r, list, b, f)) : Serves(r, add(r, list, b, f)[k])
<1> DEFINE c == [backend |-> b, fallback |-> f]
<1>1. c \in CandidateType
  BY DEF CandidateType
<1>2. CASE add(r, list, b, f) = list
  BY <1>2
<1>3. CASE add(r, list, b, f) = Append(list, c)
  <2> HIDE DEF c
  <2>1. Append(list, c) \in Seq(CandidateType)
    BY <1>1
  <2>2. ASSUME NEW k \in 1..Len(Append(list, c)) PROVE Serves(r, Append(list, c)[k])
    <3>1. CASE k \in 1..Len(list)
      BY <3>1, <1>1
    <3>2. CASE k = Len(list) + 1
      <4>1. Append(list, c)[k] = c
        BY <3>2, <1>1
      <4> QED
        BY <4>1 DEF c
    <3> QED
      BY <2>2, <3>1, <3>2, <1>1
  <2> QED
    BY <1>3, <2>1, <2>2
<1> QED
  BY <1>2, <1>3 DEF add

LEMMA AddIfServes ==
  ASSUME NEW r \in AllRequests, NEW list \in Seq(CandidateType),
         NEW b \in Backends, NEW f \in BOOLEAN, NEW allowed \in BOOLEAN,
         \A k \in 1..Len(list) : Serves(r, list[k]),
         allowed => Serves(r, [backend |-> b, fallback |-> f])
  PROVE  /\ addIf(allowed, r, list, b, f) \in Seq(CandidateType)
         /\ \A k \in 1..Len(addIf(allowed, r, list, b, f)) :
              Serves(r, addIf(allowed, r, list, b, f)[k])
<1>1. CASE allowed
  BY <1>1, AddServes DEF addIf
<1>2. CASE ~allowed
  BY <1>2 DEF addIf
<1> QED
  BY <1>1, <1>2

(* The order of a GPU request and of an AUTO request.                      *)
LEMMA GpuThenCpuServes ==
  ASSUME NEW r \in AllRequests, NEW ort \in BOOLEAN,
         r.device \in {"GPU", "AUTO"},
         r.device = "GPU" => ort = r.loadOnly
  PROVE  /\ GpuThenCpu(r, TRUE, ort) \in Seq(CandidateType)
         /\ \A k \in 1..Len(GpuThenCpu(r, TRUE, ort)) : Serves(r, GpuThenCpu(r, TRUE, ort)[k])
<1> DEFINE first  == addIf(TRUE /\ r.backend \in {"any", "TensorRT"}, r, <<>>, "TensorRT", FALSE)
           second == ort /\ r.backend \in {"any", "OnnxRuntime"}
<1>1. <<>> \in Seq(CandidateType) /\ \A k \in 1..Len(<<>>) : Serves(r, <<>>[k])
  OBVIOUS
<1>2. (TRUE /\ r.backend \in {"any", "TensorRT"}) \in BOOLEAN /\ second \in BOOLEAN
  OBVIOUS
<1>3. Serves(r, [backend |-> "TensorRT", fallback |-> FALSE])
  BY DEF Serves
<1>4. first \in Seq(CandidateType) /\ \A k \in 1..Len(first) : Serves(r, first[k])
  BY <1>1, <1>2, <1>3, AddIfServes DEF Backends
<1>5. second => Serves(r, [backend |-> "OnnxRuntime", fallback |-> TRUE])
  BY DEF Serves
<1> HIDE DEF first, second
<1>6. /\ addIf(second, r, first, "OnnxRuntime", TRUE) \in Seq(CandidateType)
      /\ \A k \in 1..Len(addIf(second, r, first, "OnnxRuntime", TRUE)) :
           Serves(r, addIf(second, r, first, "OnnxRuntime", TRUE)[k])
  BY <1>2, <1>4, <1>5, AddIfServes DEF Backends
<1> QED
  BY <1>6 DEF GpuThenCpu, first, second

LEMMA CandidatesServeRequest ==
  ASSUME NEW r \in AllRequests
  PROVE  /\ runtimeCandidates(r) \in Seq(CandidateType)
         /\ \A k \in 1..Len(runtimeCandidates(r)) : Serves(r, runtimeCandidates(r)[k])
<1>1. <<>> \in Seq(CandidateType) /\ \A k \in 1..Len(<<>>) : Serves(r, <<>>[k])
  OBVIOUS
<1>2. CASE r.device = "MANIFEST"
  <2> DEFINE b == IF r.backend = "any" THEN r.manifest ELSE r.backend
  <2>1. b \in Backends
    BY DEF AllRequests, Backends
  <2>2. Serves(r, [backend |-> b, fallback |-> FALSE])
    BY <1>2 DEF Serves
  <2>3. runtimeCandidates(r) = add(r, <<>>, b, FALSE)
    BY <1>2 DEF runtimeCandidates
  <2> HIDE DEF b
  <2> QED
    BY <1>1, <2>1, <2>2, <2>3, AddServes
<1>3. CASE r.device = "CPU"
  <2> DEFINE ok == r.backend # "TensorRT"
  <2>1. ok \in BOOLEAN
    OBVIOUS
  <2>2. Serves(r, [backend |-> "OnnxRuntime", fallback |-> FALSE])
    BY <1>3 DEF Serves
  <2>3. runtimeCandidates(r) = addIf(ok, r, <<>>, "OnnxRuntime", FALSE)
    BY <1>3 DEF runtimeCandidates
  <2> HIDE DEF ok
  <2> QED
    BY <1>1, <2>1, <2>2, <2>3, AddIfServes DEF Backends
<1>4. CASE r.device = "GPU"
  <2>1. runtimeCandidates(r) = GpuThenCpu(r, TRUE, r.loadOnly)
    BY <1>4 DEF runtimeCandidates
  <2>2. r.loadOnly \in BOOLEAN
    BY DEF AllRequests
  <2> QED
    BY <1>4, <2>1, <2>2, GpuThenCpuServes
<1>5. CASE r.device = "AUTO"
  <2>1. runtimeCandidates(r) = GpuThenCpu(r, TRUE, TRUE)
    BY <1>5 DEF runtimeCandidates
  <2> QED
    BY <1>5, <2>1, GpuThenCpuServes
<1> QED
  BY <1>2, <1>3, <1>4, <1>5 DEF AllRequests
-----------------------------------------------------------------------------
LEMMA InitIInv == Init => IInv
<1> SUFFICES ASSUME Init PROVE IInv
  OBVIOUS
<1>1. layer \in [1..NLayers -> Providers] /\ cands \in Seq(CandidateType)
  BY DEF Init, AllCpu, Providers
<1>2. attempts \in Seq([backend : Backends,
                        at : {"request", "create", "load", "faiss", "warmup"},
                        code : Codes \cup {"NoGpuArtifact", "DeviceUnavailable"}])
  BY DEF Init
<1>3. TypeOK
  BY <1>1, <1>2 DEF Init, TypeOK, Labels, NoInfo, Providers, CandidateType
<1> QED
  BY <1>3 DEF Init, IInv, CandidatesServe, FallbackNoted, LayersQuiet, InfoTrue,
              ComputeTrue, CpuNeverInitializesCuda, CorruptionNeverHidden

LEMMA Stuttering == IInv /\ UNCHANGED vars => IInv'
  BY DEF IInv, vars, TypeOK, CandidatesServe, FallbackNoted, LayersQuiet, InfoTrue,
         ComputeTrue, CpuNeverInitializesCuda, CorruptionNeverHidden, Candidate, OnGpu

AttemptType ==
  [backend : Backends, at : {"request", "create", "load", "faiss", "warmup"},
   code : Codes \cup {"NoGpuArtifact", "DeviceUnavailable"}]

(* While a candidate is tried, it is one of the list; on a CPU request it  *)
(* does not run on the GPU.                                                *)
LEMMA CandidateTyped ==
  ASSUME IInv, pc \notin {"idle", "failed"}
  PROVE  /\ i \in 1..Len(cands)
         /\ Candidate \in CandidateType
         /\ Candidate.backend \in Backends
         /\ Serves(req, Candidate)
         /\ req.device = "CPU" => ~OnGpu
<1>1. i \in 1..Len(cands) /\ Serves(req, Candidate)
  BY DEF IInv, CandidatesServe, Candidate
<1>2. Candidate \in CandidateType
  <2>1. cands \in Seq(CandidateType)
    BY DEF IInv, TypeOK, CandidateType
  <2> QED
    BY <1>1, <2>1 DEF Candidate
<1>3. Candidate.backend \in Backends
  BY <1>2 DEF CandidateType
<1>4. req.device = "CPU" => ~OnGpu
  BY <1>1 DEF Serves, OnGpu, Provider
<1> QED
  BY <1>1, <1>2, <1>3, <1>4

(* A failed attempt, recorded: the next candidate is tried or the load     *)
(* fails, and a corrupt artifact makes it fail.                            *)
LEMMA AttemptStep ==
  ASSUME IInv, pc \notin {"idle", "failed"},
         NEW at \in {"create", "load", "faiss", "warmup"},
         NEW code \in Codes \cup {"DeviceUnavailable"},
         NEW retryable \in BOOLEAN, retryable => code # "ArtifactCorrupt",
         NEW before \in Seq(AttemptType),
         Attempt(at, code, retryable, before),
         UNCHANGED <<req, cands, info>>,
         layer' \in [1..NLayers -> Providers],
         touched' \subseteq {"tensorrt", "faiss", "compute"},
         req.device = "CPU" => touched' = {},
         pc # "loaded"
  PROVE  IInv'
<1>1. i \in 1..Len(cands) /\ Candidate.backend \in Backends
  BY CandidateTyped
<1>2. attempts' \in Seq(AttemptType)
  <2> DEFINE a == [backend |-> Candidate.backend, at |-> at, code |-> code]
  <2>1. a \in AttemptType
    BY <1>1 DEF AttemptType
  <2>2. attempts' = Append(before, a)
    BY DEF Attempt
  <2> HIDE DEF a
  <2> QED
    BY <2>1, <2>2
<1>3. seen' = seen \cup {code}
  BY DEF Attempt, Report
<1>4. pc' \in {"create", "failed"} /\ i' \in 1..Len(cands)
      /\ (~retryable => pc' = "failed")
  BY <1>1 DEF Attempt, IInv, TypeOK
<1>5. TypeOK'
  BY <1>2, <1>3, <1>4 DEF IInv, TypeOK, AttemptType, Labels
<1>6. CorruptionNeverHidden'
  BY <1>3, <1>4 DEF IInv, CorruptionNeverHidden
<1> QED
  BY <1>4, <1>5, <1>6 DEF IInv, CandidatesServe, FallbackNoted, LayersQuiet, InfoTrue,
                          ComputeTrue, CpuNeverInitializesCuda

(* The session is made: what it reports of its search is so.               *)
LEMMA MakeSessionStep ==
  ASSUME IInv, pc = "search",
         NEW search \in Providers \cup {"none"}, NEW fellBack \in BOOLEAN,
         MakeSession(search, fellBack),
         UNCHANGED <<req, cands>>,
         layer' \in [1..NLayers -> Providers],
         \A k \in 1..NLayers : layer'[k] = "cuda" <=> search = "cuda",
         search = "cpu" => ~OnGpu \/ (allowCpuFallback /\ fellBack),
         touched' \subseteq {"tensorrt", "faiss", "compute"},
         req.device = "CPU" => touched' = {},
         seen' \subseteq seen \cup ((Codes \cup {"DeviceUnavailable"}) \ {"ArtifactCorrupt"})
  PROVE  IInv'
<1>1. i \in 1..Len(cands) /\ Candidate.backend \in Backends /\ Serves(req, Candidate)
      /\ req \in AllRequests
  BY CandidateTyped, SelectionAssumption DEF IInv, TypeOK
<1>2. /\ info'.provider = Provider(Candidate.backend) /\ info'.search = search
      /\ info'.fallback = (fellBack \/ attempts # <<>>) /\ info'.compute = "none"
      /\ pc' = "compute" /\ i' = i /\ attempts' = attempts
  BY DEF MakeSession
<1>3. Candidate' = Candidate
  BY <1>2 DEF Candidate
<1>4. info' \in [provider : Providers, search : Providers \cup {"none"},
                 compute : Providers \cup {"none"}, fallback : BOOLEAN]
  BY DEF MakeSession, Provider, Providers
<1>5. TypeOK'
  BY <1>2, <1>4 DEF IInv, TypeOK, Labels
<1>6. InfoTrue'
  <2>1. req.device = "GPU" /\ ~req.loadOnly => search # "cpu"
    BY <1>1 DEF Serves, OnGpu, Provider, allowCpuFallback, AllRequests, Backends
  <2>2. ASSUME ~info'.fallback, req.device \in {"GPU", "AUTO"}
        PROVE  Provider(Candidate.backend) = "cuda" /\ search # "cpu"
    <3>1. attempts = <<>> /\ ~fellBack
      BY <1>2, <2>2
    <3>2. ~Candidate.fallback
      BY <3>1 DEF IInv, FallbackNoted
    <3>3. Candidate.backend # "OnnxRuntime"
      BY <1>1, <2>2, <3>2 DEF Serves
    <3>4. Provider(Candidate.backend) = "cuda"
      BY <1>1, <3>3 DEF Provider, Backends
    <3> QED
      BY <3>1, <3>4 DEF OnGpu
  <2> QED
    BY <1>2, <1>3, <2>1, <2>2 DEF InfoTrue
<1>7. CorruptionNeverHidden'
  BY <1>2 DEF IInv, CorruptionNeverHidden
<1> QED
  BY <1>1, <1>2, <1>5, <1>6, <1>7 DEF IInv, CandidatesServe, FallbackNoted, LayersQuiet,
                                      ComputeTrue, CpuNeverInitializesCuda

LEMMA RuntimeFailureHonest ==
  \A code : retryableRuntimeFailure(code) \in BOOLEAN
            /\ (retryableRuntimeFailure(code) => code # "ArtifactCorrupt")
  BY DEF retryableRuntimeFailure

LEMMA SearchFailureHonest ==
  \A code : retryableSearchFailure(code) \in BOOLEAN
            /\ (retryableSearchFailure(code) => code # "ArtifactCorrupt")
  BY DEF retryableSearchFailure
-----------------------------------------------------------------------------
LEMMA BeginStep ==
  ASSUME IInv, Begin
  PROVE  IInv'
<1>1. req \in AllRequests
  BY SelectionAssumption DEF IInv, TypeOK
<1>2. cands' \in Seq(CandidateType) /\ \A k \in 1..Len(cands') : Serves(req, cands'[k])
  BY <1>1, CandidatesServeRequest DEF Begin
<1>3. pc' \in {"create", "failed"} /\ (pc' = "create" => cands' # <<>>)
      /\ UNCHANGED <<req, i, attempts, layer, info, touched, seen>> /\ pc = "idle"
  BY DEF Begin
<1>4. cands' = <<>> \/ 1 \in 1..Len(cands')
  BY <1>2
<1>5. i = 1
  BY <1>3 DEF IInv, CandidatesServe
<1>6. TypeOK'
  BY <1>2, <1>3, <1>4, <1>5 DEF IInv, TypeOK, Labels, CandidateType
<1>7. CandidatesServe'
  BY <1>2, <1>3, <1>4, <1>5 DEF CandidatesServe
<1>8. CorruptionNeverHidden'
  BY <1>3 DEF IInv, CorruptionNeverHidden
<1> QED
  BY <1>3, <1>6, <1>7, <1>8 DEF IInv, FallbackNoted, LayersQuiet, InfoTrue,
                                ComputeTrue, CpuNeverInitializesCuda

LEMMA CreateStep ==
  ASSUME IInv, CreateBackend
  PROVE  IInv'
<1>1. /\ i \in 1..Len(cands) /\ Candidate.backend \in Backends
      /\ (req.device = "CPU" => ~OnGpu)
  BY CandidateTyped DEF CreateBackend
<1>2. Noted \in Seq(AttemptType) /\ (Candidate.fallback => Noted # <<>>)
  <2> DEFINE a == [backend |-> Candidate.backend, at |-> "request", code |-> "NoGpuArtifact"]
  <2>1. a \in AttemptType
    BY <1>1 DEF AttemptType
  <2>2. <<a>> \in Seq(AttemptType) /\ <<a>> # <<>>
    BY <2>1
  <2>3. attempts \in Seq(AttemptType)
    BY DEF IInv, TypeOK, AttemptType
  <2> QED
    BY <2>2, <2>3 DEF Noted
<1>3. /\ touched' \subseteq {"tensorrt", "faiss", "compute"}
      /\ req.device = "CPU" => touched' = {}
      /\ UNCHANGED <<req, cands, layer, info>> /\ pc = "create"
      /\ layer \in [1..NLayers -> Providers]
  BY <1>1 DEF CreateBackend, IInv, TypeOK, CpuNeverInitializesCuda
<1>4. CASE pc' = "load" /\ attempts' = Noted /\ UNCHANGED <<i, seen>>
  <2>1. TypeOK'
    BY <1>2, <1>3, <1>4 DEF IInv, TypeOK, Labels, AttemptType
  <2>2. CandidatesServe' /\ FallbackNoted'
    BY <1>1, <1>2, <1>3, <1>4 DEF IInv, CandidatesServe, FallbackNoted, Candidate
  <2> QED
    BY <1>3, <1>4, <2>1, <2>2 DEF IInv, LayersQuiet, InfoTrue, ComputeTrue,
       CpuNeverInitializesCuda, CorruptionNeverHidden
<1>5. ASSUME NEW code \in Codes,
             Attempt("create", code, retryableRuntimeFailure(code), Noted)
      PROVE  IInv'
  BY <1>2, <1>3, <1>5, AttemptStep, RuntimeFailureHonest
<1> QED
  BY <1>4, <1>5 DEF CreateBackend

LEMMA LoadStep ==
  ASSUME IInv, LoadBackend
  PROVE  IInv'
<1>1. /\ UNCHANGED <<req, cands, layer, info, touched>> /\ pc = "load"
      /\ layer \in [1..NLayers -> Providers] /\ attempts \in Seq(AttemptType)
      /\ touched \subseteq {"tensorrt", "faiss", "compute"}
      /\ req.device = "CPU" => touched = {}
  BY DEF LoadBackend, IInv, TypeOK, CpuNeverInitializesCuda, AttemptType
<1>2. CASE pc' = "validate" /\ UNCHANGED <<i, attempts, seen>>
  BY <1>1, <1>2 DEF IInv, TypeOK, Labels, CandidatesServe, FallbackNoted, LayersQuiet,
     InfoTrue, ComputeTrue, CpuNeverInitializesCuda, CorruptionNeverHidden, Candidate
<1>3. ASSUME NEW code \in Codes,
             Attempt("load", code, retryableRuntimeFailure(code), attempts)
      PROVE  IInv'
  BY <1>1, <1>3, AttemptStep, RuntimeFailureHonest
<1> QED
  BY <1>2, <1>3 DEF LoadBackend

LEMMA WarmupStep ==
  ASSUME IInv, Warmup
  PROVE  IInv'
<1>1. /\ UNCHANGED <<req, cands, layer, info, touched>> /\ pc = "warmup"
      /\ layer \in [1..NLayers -> Providers] /\ attempts \in Seq(AttemptType)
      /\ touched \subseteq {"tensorrt", "faiss", "compute"}
      /\ req.device = "CPU" => touched = {}
  BY DEF Warmup, IInv, TypeOK, CpuNeverInitializesCuda, AttemptType
<1>2. CASE pc' = "loaded" /\ UNCHANGED <<i, attempts, seen>>
  BY <1>1, <1>2 DEF IInv, TypeOK, Labels, CandidatesServe, FallbackNoted, LayersQuiet,
     InfoTrue, ComputeTrue, CpuNeverInitializesCuda, CorruptionNeverHidden, Candidate
<1>3. ASSUME NEW code \in Codes,
             Attempt("warmup", code, retryableRuntimeFailure(code), attempts)
      PROVE  IInv'
  BY <1>1, <1>3, AttemptStep, RuntimeFailureHonest
<1> QED
  BY <1>2, <1>3 DEF Warmup

LEMMA AllCpuTyped ==
  AllCpu \in [1..NLayers -> Providers] /\ \A k \in 1..NLayers : AllCpu[k] = "cpu"
  BY DEF AllCpu, Providers

LEMMA ValidateStep ==
  ASSUME IInv, Validate
  PROVE  IInv'
<1>1. /\ UNCHANGED <<req, cands, i, attempts, info, touched>> /\ pc = "validate"
      /\ layer' \in [1..NLayers -> Providers]
  BY AllCpuTyped DEF Validate, IInv, TypeOK
<1>2. CASE pc' = "search" /\ layer' = AllCpu /\ UNCHANGED seen
  BY <1>1, <1>2 DEF IInv, TypeOK, Labels, CandidatesServe, FallbackNoted, LayersQuiet,
     InfoTrue, ComputeTrue, CpuNeverInitializesCuda, CorruptionNeverHidden, Candidate
<1>3. ASSUME NEW code \in Codes, pc' = "failed", Report(code)
      PROVE  IInv'
  BY <1>1, <1>3 DEF IInv, TypeOK, Labels, CandidatesServe, FallbackNoted, LayersQuiet, Report,
     InfoTrue, ComputeTrue, CpuNeverInitializesCuda, CorruptionNeverHidden, Candidate
<1> QED
  BY <1>2, <1>3 DEF Validate

-----------------------------------------------------------------------------
(* A search stage that fails stays on the CPU and says so, or counts as a  *)
(* failed attempt.                                                         *)
LEMMA SearchFailsStep ==
  ASSUME IInv, pc = "search",
         NEW code \in Codes \cup {"DeviceUnavailable"}, SearchFails(code),
         UNCHANGED <<req, cands>>,
         layer' = AllCpu,
         touched' \subseteq {"tensorrt", "faiss", "compute"},
         req.device = "CPU" => touched' = {}
  PROVE  IInv'
<1>1. layer' \in [1..NLayers -> Providers] /\ \A k \in 1..NLayers : layer'[k] = "cpu"
  BY AllCpuTyped
<1>2. CASE /\ allowCpuFallback /\ retryableSearchFailure(code)
           /\ MakeSession("cpu", TRUE) /\ Report(code)
  <2>1. \A k \in 1..NLayers : layer'[k] = "cuda" <=> "cpu" = "cuda"
    BY <1>1
  <2>2. seen' \subseteq seen \cup ((Codes \cup {"DeviceUnavailable"}) \ {"ArtifactCorrupt"})
    BY <1>2, SearchFailureHonest DEF Report
  <2>3. "cpu" \in Providers \cup {"none"}
    BY DEF Providers
  <2> QED
    BY <1>1, <1>2, <2>1, <2>2, <2>3, MakeSessionStep
<1>3. CASE /\ Attempt("faiss", code, retryableSearchFailure(code), attempts)
           /\ UNCHANGED info
  <2>1. attempts \in Seq(AttemptType)
    BY DEF IInv, TypeOK, AttemptType
  <2> QED
    BY <1>1, <1>3, <2>1, AttemptStep, SearchFailureHonest
<1> QED
  BY <1>2, <1>3 DEF SearchFails

LEMMA SearchOnCpuStep ==
  ASSUME IInv, SearchOnCpu
  PROVE  IInv'
<1>1. /\ UNCHANGED <<req, cands, layer, touched>> /\ pc = "search"
      /\ layer \in [1..NLayers -> Providers]
      /\ touched \subseteq {"tensorrt", "faiss", "compute"}
      /\ req.device = "CPU" => touched = {}
      /\ seen \subseteq Codes \cup {"DeviceUnavailable", "InvalidArgument", "OutOfMemory"}
  BY DEF SearchOnCpu, IInv, TypeOK, CpuNeverInitializesCuda
<1>2. layer = AllCpu
  BY <1>1 DEF SearchOnCpu, IInv, LayersQuiet
<1>3. \A k \in 1..NLayers : layer'[k] = "cpu"
  BY <1>1, <1>2, AllCpuTyped
<1>4. "cpu" \in Providers \cup {"none"} /\ "none" \in Providers \cup {"none"}
  BY DEF Providers
<1>5. CASE MakeSession("none", FALSE) /\ UNCHANGED seen
  BY <1>1, <1>3, <1>4, <1>5, MakeSessionStep
<1>6. CASE ~OnGpu /\ MakeSession("cpu", FALSE) /\ UNCHANGED seen
  BY <1>1, <1>3, <1>4, <1>6, MakeSessionStep
<1>7. CASE SearchFails("DeviceUnavailable")
  BY <1>1, <1>2, <1>7, SearchFailsStep
<1> QED
  BY <1>5, <1>6, <1>7 DEF SearchOnCpu

LEMMA EnableLayerStep ==
  ASSUME IInv, EnableLayer
  PROVE  IInv'
<1>1. /\ UNCHANGED <<req, cands>> /\ pc = "search" /\ req.search = "faiss" /\ OnGpu
      /\ layer \in [1..NLayers -> Providers]
      /\ touched' \subseteq {"tensorrt", "faiss", "compute"}
  BY DEF EnableLayer, IInv, TypeOK
<1>2. req.device # "CPU"
  BY <1>1, CandidateTyped
<1>3. CASE /\ layer' = [layer EXCEPT ![FirstOnCpu] = "cuda"]
           /\ UNCHANGED <<i, pc, attempts, info, seen>>
  <2>1. layer' \in [1..NLayers -> Providers]
    BY <1>1, <1>3 DEF Providers
  <2>2. TypeOK'
    BY <1>1, <1>3, <2>1 DEF IInv, TypeOK
  <2>3. Candidate' = Candidate /\ OnGpu'
    BY <1>1, <1>3 DEF Candidate, OnGpu
  <2> QED
    BY <1>1, <1>2, <1>3, <2>2, <2>3 DEF IInv, CandidatesServe, FallbackNoted, LayersQuiet,
       InfoTrue, ComputeTrue, CpuNeverInitializesCuda, CorruptionNeverHidden
<1>4. ASSUME NEW code \in Codes, layer' = AllCpu, SearchFails(code)
      PROVE  IInv'
  BY <1>1, <1>2, <1>4, SearchFailsStep
<1> QED
  BY <1>3, <1>4 DEF EnableLayer

LEMMA SearchOnGpuStep ==
  ASSUME IInv, SearchOnGpu
  PROVE  IInv'
<1>1. /\ UNCHANGED <<req, cands, layer, touched, seen>> /\ pc = "search"
      /\ layer \in [1..NLayers -> Providers]
      /\ touched \subseteq {"tensorrt", "faiss", "compute"}
      /\ req.device = "CPU" => touched = {}
      /\ \A k \in 1..NLayers : layer[k] = "cuda"
      /\ MakeSession("cuda", FALSE)
  BY DEF SearchOnGpu, IInv, TypeOK, CpuNeverInitializesCuda
<1>2. "cuda" \in Providers \cup {"none"}
  BY DEF Providers
<1> QED
  BY <1>1, <1>2, MakeSessionStep
-----------------------------------------------------------------------------
(* A load that ends, on any error, keeps what it has reported.             *)
LEMMA FailureStep ==
  ASSUME IInv, ComputeRejected \/ Exception
  PROVE  IInv'
<1>1. /\ UNCHANGED <<req, cands, i, attempts, layer, info, touched>> /\ pc' = "failed"
      /\ seen' \subseteq seen \cup {"DeviceUnavailable", "InvalidArgument", "OutOfMemory"}
      /\ pc # "idle"
  BY DEF ComputeRejected, Exception, Report
<1>2. TypeOK'
  BY <1>1 DEF IInv, TypeOK, Labels
<1> QED
  BY <1>1, <1>2 DEF IInv, CandidatesServe, FallbackNoted, LayersQuiet, InfoTrue,
     ComputeTrue, CpuNeverInitializesCuda, CorruptionNeverHidden

(* The compute stage is settled, and what the session reports of it holds. *)
LEMMA ComputeSettled ==
  ASSUME IInv, pc = "compute", pc' = AfterCompute,
         UNCHANGED <<req, cands, i, attempts, layer>>,
         NEW compute \in Providers \cup {"none"}, NEW fellBack \in BOOLEAN,
         info' = [info EXCEPT !.compute = compute, !.fallback = fellBack],
         info.fallback => fellBack,
         req.compute = "cuda" => compute = "cuda",
         ~fellBack /\ info.provider = "cuda" /\ req.extension = "device"
           /\ req.compute # "cpu" => compute = "cuda",
         touched' \subseteq {"tensorrt", "faiss", "compute"},
         req.device = "CPU" => touched' = {},
         seen' \subseteq seen \cup ((Codes \cup {"DeviceUnavailable"}) \ {"ArtifactCorrupt"})
  PROVE  IInv'
<1>1. info \in [provider : Providers, search : Providers \cup {"none"},
                compute : Providers \cup {"none"}, fallback : BOOLEAN]
  BY DEF IInv, TypeOK
<1>2. /\ info'.provider = info.provider /\ info'.search = info.search
      /\ info'.compute = compute /\ info'.fallback = fellBack
      /\ info' \in [provider : Providers, search : Providers \cup {"none"},
                    compute : Providers \cup {"none"}, fallback : BOOLEAN]
  BY <1>1
<1>3. pc' \in {"warmup", "loaded"}
  BY DEF AfterCompute
<1>4. TypeOK'
  BY <1>2, <1>3 DEF IInv, TypeOK, Labels
<1>5. InfoTrue' /\ ComputeTrue'
  BY <1>2, <1>3 DEF IInv, InfoTrue, ComputeTrue, Candidate
<1>6. CorruptionNeverHidden'
  BY <1>3 DEF IInv, CorruptionNeverHidden
<1> QED
  BY <1>3, <1>4, <1>5, <1>6 DEF IInv, CandidatesServe, FallbackNoted, LayersQuiet,
                                CpuNeverInitializesCuda

(* A stage that does not report a fallback keeps the flag as it was.       *)
LEMMA SameFallback ==
  ASSUME IInv, NEW c
  PROVE  [info EXCEPT !.compute = c] = [info EXCEPT !.compute = c, !.fallback = info.fallback]
  BY DEF IInv, TypeOK

LEMMA ComputeOnCpuStep ==
  ASSUME IInv, ComputeOnCpu
  PROVE  IInv'
<1> DEFINE compute == IF req.extension = "none" THEN "none" ELSE "cpu"
<1>1. /\ pc = "compute" /\ pc' = AfterCompute /\ req.compute # "cuda"
      /\ UNCHANGED <<req, cands, i, attempts, layer, touched, seen>>
      /\ info' = [info EXCEPT !.compute = compute, !.fallback = info.fallback]
  BY SameFallback DEF ComputeOnCpu
<1>2. /\ compute \in Providers \cup {"none"} /\ info.fallback \in BOOLEAN
      /\ touched \subseteq {"tensorrt", "faiss", "compute"}
      /\ req.device = "CPU" => touched = {}
  BY DEF IInv, TypeOK, Providers, CpuNeverInitializesCuda
<1>3. info.provider = "cuda" => OnGpu
  BY <1>1 DEF IInv, InfoTrue, OnGpu
<1>4. ~(info.provider = "cuda" /\ req.extension = "device" /\ req.compute # "cpu")
  BY <1>3 DEF ComputeOnCpu
<1> HIDE DEF compute
<1> QED
  BY <1>1, <1>2, <1>4, ComputeSettled

LEMMA ComputeOnGpuStep ==
  ASSUME IInv, ComputeOnGpu
  PROVE  IInv'
<1>1. /\ pc = "compute" /\ OnGpu /\ UNCHANGED <<req, cands, i, attempts, layer>>
      /\ touched' \subseteq {"tensorrt", "faiss", "compute"}
      /\ info.fallback \in BOOLEAN /\ TypeOK
  BY DEF ComputeOnGpu, IInv, TypeOK
<1>2. req.device # "CPU"
  BY <1>1, CandidateTyped
<1>3. "cpu" \in Providers \cup {"none"} /\ "cuda" \in Providers \cup {"none"}
  BY DEF Providers
<1>4. CASE /\ info' = [info EXCEPT !.compute = "cuda"]
           /\ pc' = AfterCompute /\ UNCHANGED seen
  <2>1. info' = [info EXCEPT !.compute = "cuda", !.fallback = info.fallback]
    BY <1>4, SameFallback
  <2> QED
    BY <1>1, <1>2, <1>3, <1>4, <2>1, ComputeSettled
<1>5. ASSUME NEW code \in Codes \cup {"DeviceUnavailable"}, Report(code),
             pc' = "failed", UNCHANGED info
      PROVE  IInv'
  <2>1. TypeOK'
    BY <1>1, <1>5 DEF TypeOK, Labels, Report
  <2> QED
    BY <1>1, <1>2, <1>5, <2>1 DEF IInv, CandidatesServe, FallbackNoted, LayersQuiet, InfoTrue,
       ComputeTrue, CpuNeverInitializesCuda, CorruptionNeverHidden
<1>6. ASSUME NEW code \in Codes \cup {"DeviceUnavailable"}, Report(code),
             req.compute # "cuda", retryableSearchFailure(code), pc' = AfterCompute,
             info' = [info EXCEPT !.compute = "cpu", !.fallback = TRUE]
      PROVE  IInv'
  <2>1. seen' \subseteq seen \cup ((Codes \cup {"DeviceUnavailable"}) \ {"ArtifactCorrupt"})
    BY <1>6, SearchFailureHonest DEF Report
  <2> QED
    BY <1>1, <1>2, <1>3, <1>6, <2>1, ComputeSettled
<1> QED
  BY <1>4, <1>5, <1>6 DEF ComputeOnGpu

LEMMA ReleaseStep ==
  ASSUME IInv, Release
  PROVE  IInv'
<1>1. layer' \in [1..NLayers -> Providers] /\ cands' \in Seq(CandidateType)
      /\ attempts' \in Seq(AttemptType)
  BY AllCpuTyped DEF Release
<1>2. TypeOK'
  BY <1>1 DEF Release, IInv, TypeOK, Labels, NoInfo, Providers, CandidateType, AttemptType
<1> QED
  BY <1>2 DEF Release, IInv, CandidatesServe, FallbackNoted, LayersQuiet, InfoTrue,
              ComputeTrue, CpuNeverInitializesCuda, CorruptionNeverHidden
-----------------------------------------------------------------------------
(* IInv holds in every reachable state, for any requests, codes and layers. *)
THEOREM Safety == Spec => []IInv
<1>1. Init => IInv
  BY InitIInv
<1>2. IInv /\ [Next]_vars => IInv'
  BY BeginStep, CreateStep, LoadStep, ValidateStep, SearchOnCpuStep, EnableLayerStep,
     SearchOnGpuStep, FailureStep, ComputeOnCpuStep, ComputeOnGpuStep, WarmupStep,
     ReleaseStep, Stuttering DEF Next
<1> QED
  BY <1>1, <1>2, PTL DEF Spec

(* The state of InferenceSession::load keeps its types; the candidate      *)
(* being tried exists.                                                     *)
THEOREM TypeCorrect == Spec => []TypeOK
<1>1. IInv => TypeOK
  BY DEF IInv
<1> QED
  BY <1>1, Safety, PTL

(* A session that loads meets what the request insists on.                 *)
THEOREM Requirements == Spec => []RequirementsHold
<1>1. IInv => RequirementsHold
  <2> SUFFICES ASSUME IInv, pc = "loaded" PROVE RequirementsHold
    BY DEF RequirementsHold
  <2>1. Serves(req, Candidate) /\ info.provider = Provider(Candidate.backend)
    BY CandidateTyped DEF IInv, InfoTrue
  <2> QED
    BY <2>1 DEF IInv, InfoTrue, ComputeTrue, RequirementsHold, Serves, Provider
<1> QED
  BY <1>1, Safety, PTL

(* An explicit CPU request never initializes CUDA.                         *)
THEOREM CpuIsolated == Spec => []CpuNeverInitializesCuda
<1>1. IInv => CpuNeverInitializesCuda
  BY DEF IInv
<1> QED
  BY <1>1, Safety, PTL

(* configureFaissIndexes and the compute stage: what a session reports is  *)
(* true of every layer, and a degradation is reported.                     *)
THEOREM NotSilent == Spec => []NoSilentDegradation
<1>1. IInv => NoSilentDegradation
  BY DEF IInv, InfoTrue, ComputeTrue, NoSilentDegradation
<1> QED
  BY <1>1, Safety, PTL

(* No fallback hides a corrupt artifact.                                   *)
THEOREM CorruptionShown == Spec => []CorruptionNeverHidden
<1>1. IInv => CorruptionNeverHidden
  BY DEF IInv
<1> QED
  BY <1>1, Safety, PTL
-----------------------------------------------------------------------------
(* The files the scores of a package are computed from.                    *)
ScoreFiles(package) ==
  GraphFiles(package.manifest.runtime) \cup AlgorithmFiles(package.manifest)

(* The checksums are those of the files there are.                         *)
EachListed(package) ==
  DOMAIN package.manifest.sums = {f \in Files : package.files[f] # Missing}

Usable(package) ==
  /\ IsPackage(package)
  /\ modelValidate(package)
  /\ EachListed(package)

(* Every output path is free or holds a package that loads; the template   *)
(* path holds one of the application's templates.                          *)
PackagesUsable ==
  /\ DOMAIN packages = Paths
  /\ packages[Template] \in Templates
  /\ \A o \in Outputs : packages[o] = Absent \/ Usable(packages[o])
  /\ fits \in Nat

(* A builder's template, when it is a published package, is still there,   *)
(* and no artifact replaces a file its scores depend on; its calibration   *)
(* is one of that template.                                                *)
BuilderBound ==
  builder # None =>
    /\ {"root", "artifacts", "calibration", "committed"} \subseteq DOMAIN builder
    /\ builder.root \in Paths
    /\ builder.calibration # None =>
         builder.calibration \in calibrations /\ builder.calibration.root = builder.root
    /\ builder.root \in Outputs =>
         /\ Published(builder.root)
         /\ DOMAIN builder.artifacts \cap ScoreFiles(packages[builder.root]) = {}

(* A fitter's template, when it is a published package, is the package the *)
(* fitter was created from, and that one loaded and had a graph to run;    *)
(* its algorithm decides whether there are PatchCore artifacts to write.   *)
FitterBound ==
  fitter # None =>
    /\ {"root", "was", "fitted", "done"} \subseteq DOMAIN fitter
    /\ fitter.root \in Paths
    /\ fitter.root \in Outputs => Published(fitter.root) /\ packages[fitter.root] = fitter.was
    /\ IsPackage(fitter.was) /\ load(fitter.was) /\ HasGraph(fitter.was)
    /\ \/ fitter.was.manifest.algorithm = "padim" /\ fitter.fitted = None
       \/ /\ fitter.was.manifest.algorithm = "patchcore" /\ fitter.fitted # None
          /\ fitter.fitted.variant \in Variants
          /\ {fitter.fitted.index, fitter.fitted.statistics} \subseteq Files

(* A calibration still describes the package at its path.  For a           *)
(* statistical variant that is a published one: a template has no          *)
(* statistics to run it with.                                              *)
CalibrationsCurrent ==
  \A c \in calibrations :
    /\ c.root \in Paths /\ packages[c.root].present
    /\ c.image.of = ScoresOf(packages[c.root]) /\ c.pixel.of = ScoresOf(packages[c.root])
    /\ IsStatistical(packages[c.root]) => c.hasPixel /\ c.root \in Outputs

(* What every step keeps.                                                  *)
PInv == PackagesUsable /\ BuilderBound /\ FitterBound
-----------------------------------------------------------------------------
(* What the rewriting of a manifest keeps and changes. *)

(* The variant's own fields and nothing else.                              *)
LEMMA SetVariantFacts ==
  ASSUME NEW m, ManifestFields \subseteq DOMAIN m,
         m.algorithm = "patchcore" => PatchCoreFields \subseteq DOMAIN m.config,
         NEW fitted
  PROVE  LET n == SetVariant(m, fitted)
         IN  /\ DOMAIN n = DOMAIN m
             /\ \A x \in ManifestFields \ {"config"} : n[x] = m[x]
             /\ m.algorithm # "patchcore" => n = m
             /\ m.algorithm = "patchcore" =>
                  /\ DOMAIN n.config = DOMAIN m.config
                  /\ n.config.variant = fitted.variant
                  /\ n.config.index = IF fitted.variant = "subad" THEN NoFile ELSE fitted.index
                  /\ n.config.statistics = IF Statistical(fitted.variant) THEN fitted.statistics
                                           ELSE NoFile
                  /\ \A x \in PatchCoreFields \ {"variant", "index", "statistics"} :
                       n.config[x] = m.config[x]
  BY DEF SetVariant, ManifestFields, PatchCoreFields

(* The variant and its artifacts, and for a statistical one the schema and *)
(* the two switches.                                                       *)
LEMMA FittedFacts ==
  ASSUME NEW m, ManifestFields \subseteq DOMAIN m, PostFields \subseteq DOMAIN m.post,
         m.algorithm = "patchcore" => PatchCoreFields \subseteq DOMAIN m.config,
         NEW fitted
  PROVE  LET n == Fitted(m, fitted)
         IN  /\ ManifestFields \subseteq DOMAIN n /\ PostFields \subseteq DOMAIN n.post
             /\ \A x \in ManifestFields \ {"config", "schema", "post"} : n[x] = m[x]
             /\ n.config = SetVariant(m, fitted).config
             /\ n.schema = IF Statistical(fitted.variant) THEN 2 ELSE m.schema
             /\ \A x \in PostFields \ {"normalize", "threshold"} : n.post[x] = m.post[x]
             /\ IF Statistical(fitted.variant) THEN n.post.normalize = FALSE /\ n.post.threshold = FALSE
                ELSE n.post.normalize = m.post.normalize /\ n.post.threshold = m.post.threshold
<1> DEFINE s == SetVariant(m, fitted)
<1>1. DOMAIN s = DOMAIN m /\ \A x \in ManifestFields \ {"config"} : s[x] = m[x]
  BY SetVariantFacts
<1> HIDE DEF s
<1>2. CASE ~Statistical(fitted.variant)
  <2>1. Fitted(m, fitted) = s
    BY <1>2 DEF Fitted, s
  <2> QED
    BY <1>1, <1>2, <2>1 DEF s, ManifestFields
<1>3. CASE Statistical(fitted.variant)
  <2>1. Fitted(m, fitted) = [s EXCEPT !.schema = 2, !.post.normalize = FALSE, !.post.threshold = FALSE]
    BY <1>3 DEF Fitted, s
  <2>2. s.post = m.post /\ {"schema", "post"} \subseteq DOMAIN s
    BY <1>1 DEF ManifestFields
  <2> DEFINE q == [[s.post EXCEPT !.normalize = FALSE] EXCEPT !.threshold = FALSE]
  <2>3. Fitted(m, fitted) = [[s EXCEPT !.schema = 2] EXCEPT !.post = q]
    BY <2>1, <2>2
  <2>4. DOMAIN q = DOMAIN m.post
    BY <2>2
  <2>5. q.normalize = FALSE /\ q.threshold = FALSE /\ PostFields \subseteq DOMAIN q
    BY <2>2, <2>4 DEF PostFields
  <2>6. \A x \in PostFields \ {"normalize", "threshold"} : q[x] = m.post[x]
    BY <2>2 DEF PostFields
  <2> HIDE DEF q
  <2>7. DOMAIN Fitted(m, fitted) = DOMAIN m /\ Fitted(m, fitted).post = q
    BY <2>2, <2>3, <1>1
  <2>8. \A x \in ManifestFields \ {"config", "schema", "post"} : Fitted(m, fitted)[x] = m[x]
    BY <2>2, <2>3, <1>1
  <2>9. Fitted(m, fitted).config = s.config /\ Fitted(m, fitted).schema = 2
    BY <2>2, <2>3, <1>1 DEF ManifestFields
  <2> QED
    BY <1>3, <2>5, <2>6, <2>7, <2>8, <2>9 DEF s
<1> QED
  BY <1>2, <1>3

(* The ranges of the calibration.                                          *)
LEMMA CalibratedFacts ==
  ASSUME NEW m, ManifestFields \subseteq DOMAIN m, PostFields \subseteq DOMAIN m.post, NEW c
  PROVE  LET n == Calibrated(m, c)
         IN  /\ ManifestFields \subseteq DOMAIN n /\ PostFields \subseteq DOMAIN n.post
             /\ \A x \in ManifestFields \ {"post"} : n[x] = m[x]
             /\ n.post.image = c.image
             /\ c.hasPixel => n.post.pixel = c.pixel
<1> DEFINE q == [m.post EXCEPT !.normalize = TRUE, !.threshold = TRUE, !.image = c.image,
                               !.pixel = IF c.hasPixel THEN c.pixel ELSE @]
<1>1. Calibrated(m, c) = [m EXCEPT !.post = q]
  BY DEF Calibrated
<1>2. DOMAIN q = DOMAIN m.post /\ q.image = c.image /\ (c.hasPixel => q.pixel = c.pixel)
  BY DEF PostFields
<1> HIDE DEF q
<1>3. DOMAIN Calibrated(m, c) = DOMAIN m /\ Calibrated(m, c).post = q
  BY <1>1 DEF ManifestFields
<1>4. \A x \in ManifestFields \ {"post"} : Calibrated(m, c)[x] = m[x]
  BY <1>1
<1> QED
  BY <1>2, <1>3, <1>4

(* The checksums and nothing else.                                         *)
LEMMA ChecksummedFacts ==
  ASSUME NEW m, ManifestFields \subseteq DOMAIN m, NEW files
  PROVE  LET n == Checksummed(m, files)
         IN  /\ ManifestFields \subseteq DOMAIN n
             /\ \A x \in ManifestFields \ {"sums"} : n[x] = m[x]
             /\ n.sums = [f \in {g \in Files : files[g] # Missing} |-> files[f]]
  BY DEF Checksummed, ManifestFields

(* The manifest a commit writes, and the staging directory around it.      *)
Rewritten(template, calibration, fitted) ==
  LET m1 == IF fitted = None THEN template.manifest ELSE Fitted(template.manifest, fitted)
  IN  IF calibration = None THEN m1 ELSE Calibrated(m1, calibration)

LEMMA RewrittenFacts ==
  ASSUME NEW t, IsPackage(t), NEW calibration, NEW fitted
  PROVE  LET n == Rewritten(t, calibration, fitted)
         IN  /\ ManifestFields \subseteq DOMAIN n /\ PostFields \subseteq DOMAIN n.post
             /\ \A x \in ManifestFields \ {"config", "schema", "post"} : n[x] = t.manifest[x]
             /\ n.algorithm = t.manifest.algorithm /\ n.runtime = t.manifest.runtime
             /\ n.config = IF fitted = None THEN t.manifest.config
                           ELSE SetVariant(t.manifest, fitted).config
             /\ n.algorithm = "patchcore" => PatchCoreFields \subseteq DOMAIN n.config
             /\ calibration = None /\ fitted = None => n = t.manifest
             /\ calibration = None /\ fitted # None => n = Fitted(t.manifest, fitted)
             /\ calibration # None =>
                  /\ n.post.image = calibration.image
                  /\ calibration.hasPixel => n.post.pixel = calibration.pixel
<1> DEFINE m1 == IF fitted = None THEN t.manifest ELSE Fitted(t.manifest, fitted)
           n == Rewritten(t, calibration, fitted)
<1>1. /\ ManifestFields \subseteq DOMAIN t.manifest /\ PostFields \subseteq DOMAIN t.manifest.post
      /\ t.manifest.algorithm = "patchcore" => PatchCoreFields \subseteq DOMAIN t.manifest.config
  BY DEF IsPackage
<1>2. /\ ManifestFields \subseteq DOMAIN m1 /\ PostFields \subseteq DOMAIN m1.post
      /\ \A x \in ManifestFields \ {"config", "schema", "post"} : m1[x] = t.manifest[x]
      /\ m1.config = IF fitted = None THEN t.manifest.config
                     ELSE SetVariant(t.manifest, fitted).config
  <2>1. CASE fitted = None
    <3>1. m1 = t.manifest
      BY <2>1
    <3> HIDE DEF m1
    <3> QED
      BY <1>1, <2>1, <3>1
  <2>2. CASE fitted # None
    <3>1. m1 = Fitted(t.manifest, fitted)
      BY <2>2
    <3> HIDE DEF m1
    <3>2. /\ ManifestFields \subseteq DOMAIN Fitted(t.manifest, fitted)
          /\ PostFields \subseteq DOMAIN Fitted(t.manifest, fitted).post
          /\ \A x \in ManifestFields \ {"config", "schema", "post"} :
               Fitted(t.manifest, fitted)[x] = t.manifest[x]
          /\ Fitted(t.manifest, fitted).config = SetVariant(t.manifest, fitted).config
      <4> DEFINE m == t.manifest
      <4>1. /\ ManifestFields \subseteq DOMAIN m /\ PostFields \subseteq DOMAIN m.post
            /\ m.algorithm = "patchcore" => PatchCoreFields \subseteq DOMAIN m.config
        BY <1>1
      <4> HIDE DEF m
      <4>2. /\ ManifestFields \subseteq DOMAIN Fitted(m, fitted)
            /\ PostFields \subseteq DOMAIN Fitted(m, fitted).post
            /\ \A x \in ManifestFields \ {"config", "schema", "post"} :
                 Fitted(m, fitted)[x] = m[x]
            /\ Fitted(m, fitted).config = SetVariant(m, fitted).config
        BY <4>1, FittedFacts
      <4> QED
        BY <4>2 DEF m
    <3> QED
      BY <2>2, <3>1, <3>2
  <2> QED
    BY <2>1, <2>2
<1>3. m1.algorithm = t.manifest.algorithm /\ m1.runtime = t.manifest.runtime
  BY <1>2 DEF ManifestFields
<1>4. m1.algorithm = "patchcore" => PatchCoreFields \subseteq DOMAIN m1.config
  BY <1>1, <1>2, <1>3, SetVariantFacts
<1>5. CASE calibration = None
  <2>1. n = m1
    BY <1>5 DEF Rewritten
  <2> QED
    BY <1>2, <1>3, <1>4, <1>5, <2>1
<1>6. CASE calibration # None
  <2>1. n = Calibrated(m1, calibration)
    BY <1>6 DEF Rewritten
  <2> HIDE DEF m1
  <2>2. /\ ManifestFields \subseteq DOMAIN n /\ PostFields \subseteq DOMAIN n.post
        /\ \A x \in ManifestFields \ {"post"} : n[x] = m1[x]
        /\ n.post.image = calibration.image
        /\ calibration.hasPixel => n.post.pixel = calibration.pixel
    BY <1>2, <2>1, CalibratedFacts
  <2>3. n.algorithm = m1.algorithm /\ n.runtime = m1.runtime /\ n.config = m1.config
    BY <2>2 DEF ManifestFields
  <2> HIDE DEF n
  <2>4. \A x \in ManifestFields \ {"config", "schema", "post"} : n[x] = t.manifest[x]
    BY <1>2, <2>2
  <2> QED
    BY <1>2, <1>3, <1>4, <1>6, <2>2, <2>3, <2>4 DEF n
<1> QED
  BY <1>5, <1>6

(* The package in the staging directory, field by field.                   *)
LEMMA StagedFacts ==
  ASSUME NEW root, IsPackage(packages[root]), NEW artifacts, NEW calibration, NEW fitted
  PROVE  LET p == Staged(root, artifacts, calibration, fitted)
             n == Rewritten(packages[root], calibration, fitted)
         IN  /\ IsPackage(p)
             /\ p.present = packages[root].present
             /\ p.files = [f \in Files |-> IF f \in DOMAIN artifacts THEN artifacts[f]
                                          ELSE packages[root].files[f]]
             /\ \A x \in ManifestFields \ {"sums"} : p.manifest[x] = n[x]
             /\ p.manifest.algorithm = n.algorithm /\ p.manifest.runtime = n.runtime
             /\ p.manifest.config = n.config /\ p.manifest.post = n.post
             /\ EachListed(p)
             /\ \A f \in DOMAIN p.manifest.sums : p.manifest.sums[f] = p.files[f]
<1> DEFINE t == packages[root]
           p == Staged(root, artifacts, calibration, fitted)
           n == Rewritten(t, calibration, fitted)
           files == [f \in Files |-> IF f \in DOMAIN artifacts THEN artifacts[f] ELSE t.files[f]]
<1>1. p = [t EXCEPT !.files = files, !.manifest = Checksummed(n, files)]
  BY DEF Staged, Rewritten
<1>2. {"present", "linked", "files", "manifest"} \subseteq DOMAIN t
  BY DEF IsPackage
<1> HIDE DEF t, p, files
<1>3. /\ DOMAIN p = DOMAIN t /\ p.present = t.present
      /\ p.files = files /\ p.manifest = Checksummed(n, files)
  BY <1>1, <1>2
<1>4. /\ ManifestFields \subseteq DOMAIN n /\ PostFields \subseteq DOMAIN n.post
      /\ n.algorithm = "patchcore" => PatchCoreFields \subseteq DOMAIN n.config
  BY RewrittenFacts DEF t
<1> HIDE DEF n
<1>5. /\ ManifestFields \subseteq DOMAIN p.manifest
      /\ \A x \in ManifestFields \ {"sums"} : p.manifest[x] = n[x]
      /\ p.manifest.sums = [f \in {g \in Files : files[g] # Missing} |-> files[f]]
  BY <1>3, <1>4, ChecksummedFacts
<1>6. /\ p.manifest.algorithm = n.algorithm /\ p.manifest.runtime = n.runtime
      /\ p.manifest.config = n.config /\ p.manifest.post = n.post
  BY <1>5 DEF ManifestFields
<1>7. IsPackage(p)
  BY <1>2, <1>3, <1>4, <1>5, <1>6 DEF IsPackage
<1>8. /\ EachListed(p)
      /\ \A f \in DOMAIN p.manifest.sums : p.manifest.sums[f] = p.files[f]
  BY <1>3, <1>5 DEF EachListed
<1> QED
  BY <1>3, <1>5, <1>6, <1>7, <1>8 DEF t, p, n, files
-----------------------------------------------------------------------------
(* What a step does to the packages. *)

LEMMA PresentIsPackage ==
  ASSUME PackagesUsable, NEW p \in Paths, packages[p].present
  PROVE  IsPackage(packages[p])
<1>1. ~Absent.present
  BY DEF Absent
<1> QED
  BY <1>1, TemplatesAssumption DEF PackagesUsable, Paths, Usable

(* A commit publishes a usable package.                                    *)
LEMMA CommitUsable ==
  ASSUME NEW root, IsPackage(packages[root]), NEW artifacts, NEW calibration, NEW fitted,
         Commits(root, artifacts, calibration, fitted)
  PROVE  Usable(Staged(root, artifacts, calibration, fitted))
<1> DEFINE p == Staged(root, artifacts, calibration, fitted)
<1>1. IsPackage(p) /\ EachListed(p)
  BY StagedFacts
<1>3. modelValidate(p)
  BY DEF Commits
<1> HIDE DEF p
<1> QED
  BY <1>1, <1>3 DEF Usable, p

(* Packages appear, and are not changed afterwards.                        *)
Grow == \A o \in Outputs : Published(o) => packages'[o] = packages[o]

LEMMA CommitKeeps ==
  ASSUME PackagesUsable, NEW root \in Paths, NEW artifacts, NEW o \in Outputs,
         NEW calibration, NEW fitted,
         commitPackage(root, artifacts, o, calibration, fitted), fits' \in Nat
  PROVE  /\ PackagesUsable' /\ Grow
         /\ \A p \in Paths \ {o} : packages'[p] = packages[p]
         /\ packages'[o] = Staged(root, artifacts, calibration, fitted)
         /\ ~packages[o].present /\ packages[root].present /\ IsPackage(packages[root])
<1> DEFINE new == Staged(root, artifacts, calibration, fitted)
<1>1. ~packages[o].present /\ packages[root].present /\ packages' = [packages EXCEPT ![o] = new]
  BY DEF commitPackage, Commits
<1>2. IsPackage(packages[root])
  BY <1>1, PresentIsPackage
<1>3. Usable(new)
  BY <1>2, CommitUsable DEF commitPackage
<1> HIDE DEF new
<1>4. DOMAIN packages = Paths /\ o \in Paths /\ o # Template /\ Template \in Paths
      /\ Outputs \subseteq Paths
  BY LifecycleAssumption DEF PackagesUsable, Paths
<1>5. packages'[o] = new /\ \A p \in Paths \ {o} : packages'[p] = packages[p]
  BY <1>1, <1>4
<1>6. PackagesUsable'
  BY <1>1, <1>3, <1>4, <1>5 DEF PackagesUsable
<1>7. Grow
  BY <1>1, <1>4, <1>5 DEF Grow, Published
<1> QED
  BY <1>1, <1>2, <1>5, <1>6, <1>7 DEF new

LEMMA ExportKeeps ==
  ASSUME PackagesUsable, NEW t \in Templates, Export(t)
  PROVE  /\ PackagesUsable' /\ Grow
         /\ \A o \in Outputs : packages'[o] = packages[o]
         /\ packages'[Template] = t
<1>1. packages' = [packages EXCEPT ![Template] = t] /\ fits' = fits
  BY DEF Export
<1>2. DOMAIN packages = Paths /\ Template \in Paths /\ Outputs \subseteq Paths /\ Template \notin Outputs
  BY LifecycleAssumption DEF PackagesUsable, Paths
<1>3. packages'[Template] = t /\ \A o \in Outputs : packages'[o] = packages[o]
  BY <1>1, <1>2
<1> QED
  BY <1>1, <1>2, <1>3 DEF PackagesUsable, Grow

LEMMA BuilderKept ==
  ASSUME BuilderBound, Grow, builder' = builder, calibrations \subseteq calibrations'
  PROVE  BuilderBound'
  BY DEF BuilderBound, Grow, Published

LEMMA FitterKept ==
  ASSUME FitterBound, Grow, fitter' = fitter
  PROVE  FitterBound'
  BY DEF FitterBound, Grow, Published

LEMMA NothingGrows ==
  ASSUME UNCHANGED packages
  PROVE  Grow /\ (PackagesUsable /\ fits' = fits => PackagesUsable')
  BY DEF Grow, PackagesUsable

-----------------------------------------------------------------------------
(* The steps. *)

(* A package that loads is there, and an output that is there is usable.   *)
LEMMA LoadedUsable ==
  ASSUME PackagesUsable, NEW p \in Paths, load(packages[p])
  PROVE  /\ packages[p].present /\ IsPackage(packages[p])
         /\ p \in Outputs => Published(p) /\ Usable(packages[p])
<1>1. packages[p].present
  BY DEF load
<1>2. ~Absent.present
  BY DEF Absent
<1> QED
  BY <1>1, <1>2, PresentIsPackage DEF PackagesUsable, Published

LEMMA CreateBuilderKeeps ==
  ASSUME PInv, NEW p \in Paths, CreateBuilder(p)
  PROVE  PInv'
<1>1. /\ load(packages[p]) /\ UNCHANGED <<packages, fitter, calibrations, fits>>
      /\ builder' = [root |-> p, artifacts |-> <<>>, calibration |-> None, committed |-> FALSE]
  BY DEF CreateBuilder
<1>2. p \in Outputs => Published(p)'
  BY <1>1, LoadedUsable DEF PInv, Published
<1>3. DOMAIN builder'.artifacts = {}
  BY <1>1
<1>4. builder'.root = p /\ builder'.calibration = None
      /\ {"root", "artifacts", "calibration", "committed"} \subseteq DOMAIN builder'
  BY <1>1
<1>5. BuilderBound'
  BY <1>2, <1>3, <1>4 DEF BuilderBound
<1> QED
  BY <1>1, <1>5, NothingGrows, FitterKept DEF PInv

LEMMA AddArtifactKeeps ==
  ASSUME PInv, NEW s \in Sources, NEW f \in Files, AddArtifact(s, f)
  PROVE  PInv'
<1> DEFINE root == builder.root
           arts == [g \in DOMAIN builder.artifacts \cup {f} |-> IF g = f THEN s ELSE builder.artifacts[g]]
<1>1. /\ builder # None /\ UNCHANGED <<packages, fitter, calibrations, fits>>
      /\ builder' = [builder EXCEPT !.artifacts = arts]
      /\ f \in ScoreFiles(packages[root]) => packages[root].files[f] = Missing
  BY DEF AddArtifact, ScoreFiles
<1>2. BuilderBound
  BY DEF PInv
<1>3. DOMAIN arts = DOMAIN builder.artifacts \cup {f}
  OBVIOUS
<1> HIDE DEF arts
<1>4. /\ builder'.root = root /\ builder'.calibration = builder.calibration
      /\ builder'.artifacts = arts /\ DOMAIN builder' = DOMAIN builder
  BY <1>1, <1>2 DEF BuilderBound
<1>5. ASSUME root \in Outputs
      PROVE  f \notin ScoreFiles(packages[root])
  <2>1. packages[root].present /\ ~Absent.present
    BY <1>1, <1>2, <1>5 DEF BuilderBound, Published, Absent
  <2>2. validateReferencedArtifacts(packages[root])
    BY <1>5, <2>1 DEF PInv, PackagesUsable, Usable, modelValidate
  <2>3. \A g \in ScoreFiles(packages[root]) : packages[root].files[g] # Missing
    BY <2>2 DEF validateReferencedArtifacts, ScoreFiles, resolveArtifact
  <2> QED
    BY <1>1, <2>3
<1>6. BuilderBound'
  <2>1. ASSUME root \in Outputs
        PROVE  Published(root) /\ DOMAIN arts \cap ScoreFiles(packages[root]) = {}
    BY <1>1, <1>2, <1>3, <1>5, <2>1 DEF BuilderBound
  <2> HIDE DEF root
  <2>2. root \in Paths
    BY <1>1, <1>2 DEF BuilderBound, root
  <2>3. builder.calibration # None =>
          builder.calibration \in calibrations' /\ builder.calibration.root = root
    BY <1>1, <1>2 DEF BuilderBound, root
  <2>4. {"root", "artifacts", "calibration", "committed"} \subseteq DOMAIN builder'
    BY <1>1, <1>2, <1>4 DEF BuilderBound
  <2> QED
    BY <1>1, <1>4, <2>1, <2>2, <2>3, <2>4 DEF BuilderBound, Published, ScoreFiles
<1> QED
  BY <1>1, <1>6, NothingGrows, FitterKept DEF PInv

LEMMA ApplyCalibrationKeeps ==
  ASSUME PInv, NEW c \in calibrations, ApplyCalibration(c)
  PROVE  PInv'
<1>1. /\ builder # None /\ c.root = builder.root /\ UNCHANGED <<packages, fitter, calibrations, fits>>
      /\ builder' = [builder EXCEPT !.calibration = c]
  BY DEF ApplyCalibration
<1>2. BuilderBound
  BY DEF PInv
<1>3. /\ builder'.root = builder.root /\ builder'.calibration = c
      /\ builder'.artifacts = builder.artifacts /\ DOMAIN builder' = DOMAIN builder
  BY <1>1, <1>2 DEF BuilderBound
<1>4. BuilderBound'
  BY <1>1, <1>2, <1>3 DEF BuilderBound, Published, ScoreFiles
<1> QED
  BY <1>1, <1>4, NothingGrows, FitterKept DEF PInv

LEMMA CommitBuilderKeeps ==
  ASSUME PInv, NEW o \in Outputs, CommitBuilder(o)
  PROVE  PInv'
<1> DEFINE artifacts == [f \in DOMAIN builder.artifacts |-> sources[builder.artifacts[f]]]
<1>1. /\ builder # None /\ UNCHANGED <<fitter, calibrations, fits>>
      /\ commitPackage(builder.root, artifacts, o, builder.calibration, None)
      /\ builder' = [builder EXCEPT !.committed = TRUE]
  BY DEF CommitBuilder
<1> HIDE DEF artifacts
<1>2. BuilderBound /\ FitterBound /\ PackagesUsable
  BY DEF PInv
<1>3. builder.root \in Paths /\ fits' \in Nat
  BY <1>1, <1>2 DEF BuilderBound, PackagesUsable
<1>4. PackagesUsable' /\ Grow
  BY <1>1, <1>2, <1>3, CommitKeeps
<1>5. /\ builder'.root = builder.root /\ builder'.calibration = builder.calibration
      /\ builder'.artifacts = builder.artifacts /\ DOMAIN builder' = DOMAIN builder
  BY <1>1, <1>2 DEF BuilderBound
<1>6. BuilderBound'
  BY <1>1, <1>2, <1>4, <1>5 DEF BuilderBound, Grow, Published, ScoreFiles
<1> QED
  BY <1>1, <1>2, <1>4, <1>6, FitterKept DEF PInv

LEMMA CreateFitterKeeps ==
  ASSUME PInv, NEW p \in Paths, NEW variant \in Variants, CreateFitter(p, variant)
  PROVE  PInv'
<1> DEFINE m == packages[p].manifest
           names == PatchCoreArtifacts(m, variant)
<1>1. /\ load(packages[p]) /\ HasGraph(packages[p]) /\ m.algorithm \in {"patchcore", "padim"}
      /\ m.algorithm = "patchcore" => safeOutputs(m, names)
      /\ UNCHANGED <<packages, builder, calibrations, fits>>
      /\ fitter' = [root |-> p, was |-> packages[p], done |-> FALSE,
                    fitted |-> IF m.algorithm = "patchcore" THEN names ELSE None]
  BY DEF CreateFitter
<1>2. IsPackage(packages[p]) /\ (p \in Outputs => Published(p))
  BY <1>1, LoadedUsable DEF PInv
<1>3. /\ {"root", "was", "fitted", "done"} \subseteq DOMAIN fitter' /\ fitter'.root = p
      /\ fitter'.was = packages[p]
      /\ fitter'.fitted = IF m.algorithm = "patchcore" THEN names ELSE None
  BY <1>1
<1>4. ASSUME m.algorithm = "patchcore"
      PROVE  names # None /\ names.variant \in Variants /\ {names.index, names.statistics} \subseteq Files
  <2>1. {names.index, names.statistics} \subseteq Files
    BY <1>1, <1>4 DEF safeOutputs
  <2>2. names = [variant |-> variant, index |-> names.index, statistics |-> names.statistics]
    BY DEF PatchCoreArtifacts
  <2> QED
    BY <2>1, <2>2, LifecycleAssumption
<1> HIDE DEF names
<1>5. FitterBound'
  <2> SUFFICES \/ fitter'.was.manifest.algorithm = "padim" /\ fitter'.fitted = None
               \/ /\ fitter'.was.manifest.algorithm = "patchcore" /\ fitter'.fitted # None
                  /\ fitter'.fitted.variant \in Variants
                  /\ {fitter'.fitted.index, fitter'.fitted.statistics} \subseteq Files
    BY <1>1, <1>2, <1>3 DEF FitterBound, Published
  <2>1. CASE m.algorithm = "patchcore"
    BY <2>1, <1>3, <1>4
  <2>2. CASE m.algorithm = "padim"
    BY <2>2, <1>3
  <2> QED
    BY <1>1, <2>1, <2>2
<1> QED
  BY <1>1, <1>5, NothingGrows, BuilderKept DEF PInv

LEMMA FinalizeKeeps ==
  ASSUME PInv, NEW o \in Outputs, Finalize(o)
  PROVE  PInv'
<1> DEFINE saved == Saved(fits + 1)
<1>1. /\ fitter # None /\ UNCHANGED <<builder, calibrations>> /\ fits' = fits + 1
      /\ commitPackage(fitter.root, saved, o, None, fitter.fitted)
      /\ fitter' = [fitter EXCEPT !.done = TRUE]
  BY DEF Finalize
<1> HIDE DEF saved
<1>2. BuilderBound /\ FitterBound /\ PackagesUsable
  BY DEF PInv
<1>3. fitter.root \in Paths /\ fits' \in Nat
  BY <1>1, <1>2 DEF FitterBound, PackagesUsable
<1>4. PackagesUsable' /\ Grow
  BY <1>1, <1>2, <1>3, CommitKeeps
<1>5. /\ fitter'.root = fitter.root /\ fitter'.was = fitter.was /\ fitter'.fitted = fitter.fitted
      /\ DOMAIN fitter' = DOMAIN fitter
  BY <1>1, <1>2 DEF FitterBound
<1>6. FitterBound'
  BY <1>1, <1>2, <1>4, <1>5 DEF FitterBound, Grow, Published
<1> QED
  BY <1>1, <1>2, <1>4, <1>6, BuilderKept DEF PInv

LEMMA OtherKeeps ==
  ASSUME PInv,
         \/ \E p \in Paths : Calibrate(p)
         \/ DestroyBuilder \/ DestroyFitter
         \/ \E t \in Templates : Export(t)
         \/ \E s \in Sources : RemoveSource(s)
         \/ UNCHANGED packageVars
  PROVE  PInv'
<1> USE DEF PInv
<1>1. ASSUME NEW p \in Paths, Calibrate(p) PROVE PInv'
  <2>1. UNCHANGED <<packages, builder, fitter, fits>> /\ calibrations \subseteq calibrations'
    BY <1>1 DEF Calibrate
  <2> QED
    BY <2>1, NothingGrows, BuilderKept, FitterKept
<1>2. CASE DestroyBuilder
  <2>1. UNCHANGED <<packages, fitter, fits>> /\ builder' = None
    BY <1>2 DEF DestroyBuilder
  <2> QED
    BY <2>1, NothingGrows, FitterKept DEF BuilderBound
<1>3. CASE DestroyFitter
  <2>1. UNCHANGED <<packages, builder, calibrations, fits>> /\ fitter' = None
    BY <1>3 DEF DestroyFitter
  <2> QED
    BY <2>1, NothingGrows, BuilderKept DEF FitterBound
<1>4. ASSUME NEW t \in Templates, Export(t) PROVE PInv'
  <2>1. UNCHANGED <<builder, fitter, calibrations>>
    BY <1>4 DEF Export
  <2> QED
    BY <1>4, <2>1, ExportKeeps, BuilderKept, FitterKept
<1>5. ASSUME NEW s \in Sources, RemoveSource(s) PROVE PInv'
  <2>1. UNCHANGED <<packages, builder, fitter, calibrations, fits>>
    BY <1>5 DEF RemoveSource
  <2> QED
    BY <2>1, NothingGrows, BuilderKept, FitterKept
<1>6. CASE UNCHANGED packageVars
  <2>1. UNCHANGED <<packages, builder, fitter, calibrations, fits>>
    BY <1>6 DEF packageVars
  <2> QED
    BY <2>1, NothingGrows, BuilderKept, FitterKept
<1> QED
  BY <1>1, <1>2, <1>3, <1>4, <1>5, <1>6

LEMMA InitPackagesHolds == InitPackages => PInv
<1> SUFFICES ASSUME InitPackages PROVE PInv
  OBVIOUS
<1>1. PICK t \in Templates : packages = [p \in Paths |-> IF p = Template THEN t ELSE Absent]
  BY DEF InitPackages
<1>2. builder = None /\ fitter = None /\ fits = 0
  BY DEF InitPackages
<1>3. PackagesUsable
  BY <1>1, <1>2, LifecycleAssumption DEF PackagesUsable, Paths
<1> QED
  BY <1>2, <1>3 DEF PInv, BuilderBound, FitterBound

(* Output packages stay loadable and unchanged once published, and         *)
(* builders and fitters bound to them, whatever is exported, removed,      *)
(* fitted, calibrated and rebuilt in between: the inductive invariant      *)
(* behind PublishedIsUsable and FinalizeNeverStuck.                        *)
THEOREM PackagesSafe == PackageSpec => []PInv
<1>1. PInv /\ [PackageNext]_packageVars => PInv'
  BY CreateBuilderKeeps, AddArtifactKeeps, ApplyCalibrationKeeps, CommitBuilderKeeps,
     CreateFitterKeeps, FinalizeKeeps, OtherKeeps DEF PackageNext
<1> QED
  BY <1>1, InitPackagesHolds, PTL DEF PackageSpec
-----------------------------------------------------------------------------
(* Published packages. *)

(* The files that must be in a package are those its adapter reads.        *)
LEMMA ValidatedAssets ==
  ASSUME NEW p, modelValidate(p)
  PROVE  loadAssets(p)
<1>1. p.manifest.algorithm \in Algorithms
  BY DEF modelValidate, load, parseManifest, ParsesModel
<1>2. \A f \in AlgorithmFiles(p.manifest) : resolveArtifact(p, f)
  BY DEF modelValidate, validateReferencedArtifacts
<1> QED
  BY <1>1, <1>2
     DEF Algorithms, Predicting, AlgorithmFiles, loadAssets, PatchCoreAssets, PadimAssets,
         DfkdeAssets, SpadeAssets

(* A published package loads, lists every file, normalizes over a positive *)
(* range, and holds what its algorithm's adapter reads (modelValidate in   *)
(* commitPackage; loadAssets).                                             *)
THEOREM PublishedUsable == PackageSpec => []PublishedIsUsable
<1>1. PInv => PublishedIsUsable
  <2> SUFFICES ASSUME PInv, NEW o \in Outputs, Published(o)
               PROVE  LET m == packages[o].manifest
                      IN  /\ load(packages[o])
                          /\ DOMAIN m.sums = {f \in Files : packages[o].files[f] # Missing}
                          /\ m.post.normalize => Proper(m.post.image) /\ Proper(m.post.pixel)
                          /\ loadAssets(packages[o])
    BY DEF PublishedIsUsable
  <2>1. Usable(packages[o])
    BY DEF PInv, PackagesUsable, Published, Absent
  <2>2. modelValidate(packages[o]) /\ EachListed(packages[o])
    BY <2>1 DEF Usable
  <2>3. load(packages[o]) /\ ParsesPost(packages[o].manifest.post)
    BY <2>2 DEF modelValidate, load, parseManifest
  <2> QED
    BY <2>2, <2>3, ValidatedAssets DEF ParsesPost, EachListed
<1> QED
  BY <1>1, PackagesSafe, PTL

-----------------------------------------------------------------------------
(* What finalize writes passes the checks of a commit. *)

LEMMA FittedParses ==
  ASSUME NEW t, IsPackage(t), parseManifest(t.manifest), t.manifest.algorithm = "patchcore",
         NEW fitted, fitted.variant \in Variants,
         {fitted.index, fitted.statistics} \subseteq Files,
         NEW n, \A x \in ManifestFields \ {"sums"} : n[x] = Fitted(t.manifest, fitted)[x]
  PROVE  parseManifest(n)
<1> DEFINE m == t.manifest
           r == Fitted(m, fitted)
<1>1. /\ ManifestFields \subseteq DOMAIN m /\ PostFields \subseteq DOMAIN m.post
      /\ PatchCoreFields \subseteq DOMAIN m.config
  BY DEF IsPackage
<1>2. /\ ManifestFields \subseteq DOMAIN r /\ PostFields \subseteq DOMAIN r.post
      /\ \A x \in ManifestFields \ {"config", "schema", "post"} : r[x] = m[x]
      /\ r.config = SetVariant(m, fitted).config
      /\ r.schema = IF Statistical(fitted.variant) THEN 2 ELSE m.schema
      /\ \A x \in PostFields \ {"normalize", "threshold"} : r.post[x] = m.post[x]
      /\ IF Statistical(fitted.variant) THEN r.post.normalize = FALSE /\ r.post.threshold = FALSE
         ELSE r.post.normalize = m.post.normalize /\ r.post.threshold = m.post.threshold
  BY <1>1, FittedFacts
<1>3. /\ r.config.variant = fitted.variant
      /\ r.config.index = IF fitted.variant = "subad" THEN NoFile ELSE fitted.index
      /\ r.config.statistics = IF Statistical(fitted.variant) THEN fitted.statistics ELSE NoFile
      /\ \A x \in PatchCoreFields \ {"variant", "index", "statistics"} : r.config[x] = m.config[x]
  BY <1>1, <1>2, SetVariantFacts
<1> HIDE DEF m, r
<1>4. /\ n.schema = r.schema /\ n.named = r.named /\ n.algorithm = r.algorithm /\ n.type = r.type
      /\ n.outputs = r.outputs /\ n.contract = r.contract /\ n.input = r.input
      /\ n.runtime = r.runtime /\ n.post = r.post /\ n.config = r.config
  BY DEF ManifestFields, m, r
<1>5. /\ n.named = m.named /\ n.algorithm = m.algorithm /\ n.type = m.type
      /\ n.outputs = m.outputs /\ n.contract = m.contract /\ n.input = m.input
      /\ n.runtime = m.runtime
  BY <1>2, <1>4 DEF ManifestFields
<1>6. /\ ParsesModel(m) /\ ParsesInput(m.input) /\ ParsesRuntime(m.runtime) /\ ParsesPost(m.post)
      /\ ParsesPatchCore(m.config, m.schema) /\ ContractFits(m)
      /\ m.algorithm = "patchcore"
  BY DEF parseManifest, ParsesAlgorithm, m
<1>7. ParsesModel(n)
  BY <1>2, <1>4, <1>5, <1>6 DEF ParsesModel
<1>8. ParsesPost(n.post)
  <2>1. /\ r.post.image = m.post.image /\ r.post.pixel = m.post.pixel
        /\ r.post.sensitivity = m.post.sensitivity /\ r.post.smoothKernel = m.post.smoothKernel
        /\ r.post.smoothSigma = m.post.smoothSigma
        /\ r.post.morphologyKernel = m.post.morphologyKernel
        /\ r.post.iterations = m.post.iterations /\ r.post.morphologyMode = m.post.morphologyMode
        /\ r.post.minArea = m.post.minArea /\ r.post.maxRegions = m.post.maxRegions
    BY <1>2 DEF PostFields
  <2>2. r.post.normalize => m.post.normalize
    BY <1>2
  <2> QED
    BY <1>4, <1>6, <2>1, <2>2 DEF ParsesPost
<1>9. ParsesPatchCore(n.config, n.schema)
  <2>1. /\ r.config.aggregation = m.config.aggregation /\ r.config.layers = m.config.layers
        /\ r.config.dimension = m.config.dimension /\ r.config.pca = m.config.pca
        /\ r.config.neighbors = m.config.neighbors /\ r.config.bank = m.config.bank
        /\ r.config.chunk = m.config.chunk /\ r.config.kernel = m.config.kernel
        /\ r.config.stride = m.config.stride /\ r.config.padding = m.config.padding
        /\ r.config.real = m.config.real
    BY <1>3 DEF PatchCoreFields
  <2>2. /\ Statistical(r.config.variant) => r.schema >= 2 /\ r.config.statistics # NoFile
        /\ r.config.variant # "subad" => r.config.index # NoFile
    BY <1>2, <1>3, ManifestAssumption
  <2> QED
    BY <1>3, <1>4, <1>6, <2>1, <2>2 DEF ParsesPatchCore
<1>10. ContractFits(n)
  BY <1>5, <1>6 DEF ContractFits
<1> QED
  BY <1>4, <1>5, <1>6, <1>7, <1>8, <1>9, <1>10 DEF parseManifest, ParsesAlgorithm

(* Parsing does not look at the checksums.                                 *)
LEMMA SumsUnparsed ==
  ASSUME NEW m, parseManifest(m), NEW n, \A x \in ManifestFields \ {"sums"} : n[x] = m[x]
  PROVE  parseManifest(n)
<1>1. /\ n.schema = m.schema /\ n.named = m.named /\ n.algorithm = m.algorithm /\ n.type = m.type
      /\ n.outputs = m.outputs /\ n.contract = m.contract /\ n.input = m.input
      /\ n.runtime = m.runtime /\ n.post = m.post /\ n.config = m.config
  BY DEF ManifestFields
<1> QED
  BY <1>1 DEF parseManifest, ParsesModel, ParsesAlgorithm, ContractFits

LEMMA FinalizeCommits ==
  ASSUME PInv, fitter # None, packages[fitter.root] = fitter.was, ~fitter.was.linked,
         DOMAIN Saved(fits + 1) \subseteq Files
  PROVE  Commits(fitter.root, Saved(fits + 1), None, fitter.fitted)
<1> DEFINE was == fitter.was
           fitted == fitter.fitted
           saved == Saved(fits + 1)
           p == Staged(fitter.root, saved, None, fitted)
           n == Rewritten(was, None, fitted)
<1>1. /\ IsPackage(was) /\ load(was) /\ HasGraph(was)
      /\ \/ was.manifest.algorithm = "padim" /\ fitted = None
         \/ /\ was.manifest.algorithm = "patchcore" /\ fitted # None
            /\ fitted.variant \in Variants /\ {fitted.index, fitted.statistics} \subseteq Files
  BY DEF PInv, FitterBound
<1>2. /\ IsPackage(p) /\ p.present = was.present
      /\ p.files = [f \in Files |-> IF f \in DOMAIN saved THEN saved[f] ELSE was.files[f]]
      /\ \A x \in ManifestFields \ {"sums"} : p.manifest[x] = n[x]
      /\ p.manifest.algorithm = n.algorithm /\ p.manifest.runtime = n.runtime
      /\ p.manifest.config = n.config
      /\ EachListed(p)
      /\ \A f \in DOMAIN p.manifest.sums : p.manifest.sums[f] = p.files[f]
  BY <1>1, StagedFacts
<1>3. /\ n.algorithm = was.manifest.algorithm /\ n.runtime = was.manifest.runtime
      /\ n.config = IF fitted = None THEN was.manifest.config ELSE SetVariant(was.manifest, fitted).config
      /\ fitted = None => n = was.manifest
      /\ fitted # None => n = Fitted(was.manifest, fitted)
  BY <1>1, RewrittenFacts
<1>4. \A f \in DOMAIN saved : saved[f] # Missing
  BY LifecycleAssumption DEF PInv, PackagesUsable, Saved
<1>5. DOMAIN saved = IF fitted = None THEN {was.manifest.config.statistics, was.manifest.config.channels}
                     ELSE (IF fitted.variant # "subad" THEN {fitted.index} ELSE {})
                            \cup (IF Statistical(fitted.variant) THEN {fitted.statistics} ELSE {})
  BY DEF Saved
<1>6. DOMAIN saved \subseteq Files /\ ~was.linked
  OBVIOUS
<1> HIDE DEF p, n, saved
<1>7. parseManifest(p.manifest)
  <2>1. parseManifest(was.manifest)
    BY <1>1 DEF load
  <2>2. CASE fitted = None
    BY <1>2, <1>3, <2>1, <2>2, SumsUnparsed
  <2>3. CASE fitted # None
    BY <1>1, <1>2, <1>3, <2>1, <2>3, FittedParses
  <2> QED
    BY <2>2, <2>3
<1>8. load(p)
  <2>1. was.present
    BY <1>1 DEF load
  <2> QED
    BY <1>2, <1>7, <2>1 DEF load, EachListed, resolveArtifact, pathEscapes
<1>9. \A f \in DOMAIN saved : resolveArtifact(p, f)
  BY <1>2, <1>4, <1>6 DEF resolveArtifact, pathEscapes
<1>10. \A f \in GraphFiles(p.manifest.runtime) : resolveArtifact(p, f)
  <2>1. \A f \in GraphFiles(was.manifest.runtime) : f \in Files /\ was.files[f] # Missing
    BY <1>1 DEF HasGraph, resolveArtifact, pathEscapes
  <2> QED
    BY <1>2, <1>3, <1>4, <2>1 DEF resolveArtifact, pathEscapes
<1>11. AlgorithmFiles(p.manifest) = DOMAIN saved
  <2>1. CASE fitted = None
    <3>1. p.manifest.algorithm = "padim" /\ p.manifest.config = was.manifest.config
      BY <1>1, <1>2, <1>3, <2>1
    <3>2. AlgorithmFiles(p.manifest) = {p.manifest.config.statistics, p.manifest.config.channels}
      BY <3>1 DEF AlgorithmFiles, Predicting
    <3> QED
      BY <1>5, <2>1, <3>1, <3>2
  <2>2. CASE fitted # None
    <3>1. /\ n.config.variant = fitted.variant
          /\ n.config.index = IF fitted.variant = "subad" THEN NoFile ELSE fitted.index
          /\ n.config.statistics = IF Statistical(fitted.variant) THEN fitted.statistics ELSE NoFile
      BY <1>1, <1>3, <2>2, SetVariantFacts DEF IsPackage
    <3>2. p.manifest.algorithm = "patchcore" /\ p.manifest.config = n.config
      BY <1>1, <1>2, <1>3, <2>2
    <3>3. AlgorithmFiles(p.manifest) =
            (IF n.config.variant # "subad" THEN {n.config.index} ELSE {})
              \cup (IF Statistical(n.config.variant) THEN {n.config.statistics} ELSE {})
      BY <3>2 DEF AlgorithmFiles, Predicting
    <3> QED
      BY <1>5, <2>2, <3>1, <3>3
  <2> QED
    BY <2>1, <2>2
<1>12. modelValidate(p)
  BY <1>8, <1>9, <1>10, <1>11 DEF modelValidate, validateReferencedArtifacts
<1>13. was.present
  BY <1>1 DEF load
<1> QED
  BY <1>4, <1>6, <1>12, <1>13 DEF Commits, p, saved

(* A fit whose template createFitter accepted, and which is still the one  *)
(* at its path, is never refused by finalize.                              *)
THEOREM FitsPublishable == PackageSpec => []FinalizeNeverStuck
<1>1. PInv => FinalizeNeverStuck
  BY FinalizeCommits DEF FinalizeNeverStuck
<1> QED
  BY <1>1, PackagesSafe, PTL
-----------------------------------------------------------------------------
(* Ranges of statistical variants. *)

(* The ranges of statistical variants need the calibrations too.           *)
SInv == PInv /\ CalibrationsCurrent /\ StatisticalScoresCalibrated

(* What a package's ranges must be for the property.                       *)
OwnRanges(package) ==
  IsStatistical(package) /\ UsesRanges(package) =>
    /\ package.manifest.post.image.of = ScoresOf(package)
    /\ package.manifest.post.pixel.of = ScoresOf(package)

LEMMA ScoresByPackage ==
  StatisticalScoresCalibrated <=> \A o \in Outputs : Published(o) => OwnRanges(packages[o])
  BY DEF StatisticalScoresCalibrated, OwnRanges

(* Artifacts beside the files that scores depend on do not change scores.  *)
LEMMA SameScores ==
  ASSUME NEW t, NEW p, NEW artifacts,
         p.manifest.algorithm = t.manifest.algorithm, p.manifest.config = t.manifest.config,
         p.manifest.runtime = t.manifest.runtime,
         p.files = [f \in Files |-> IF f \in DOMAIN artifacts THEN artifacts[f] ELSE t.files[f]],
         ScoreFiles(t) \subseteq Files, DOMAIN artifacts \cap ScoreFiles(t) = {}
  PROVE  ScoresOf(p) = ScoresOf(t)
<1>1. AlgorithmFiles(p.manifest) = AlgorithmFiles(t.manifest)
  BY DEF AlgorithmFiles
<1>2. ScoreFiles(p) = ScoreFiles(t)
  BY <1>1 DEF ScoreFiles
<1>3. \A f \in ScoreFiles(t) : p.files[f] = t.files[f]
  OBVIOUS
<1>4. [f \in ScoreFiles(p) |-> p.files[f]] = [f \in ScoreFiles(t) |-> t.files[f]]
  BY <1>2, <1>3
<1> QED
  BY <1>4 DEF ScoresOf, ScoreFiles

LEMMA BuilderOwnRanges ==
  ASSUME TemplatesUnfitted, SInv, builder # None, NEW artifacts,
         DOMAIN artifacts = DOMAIN builder.artifacts,
         packages[builder.root].present, IsPackage(packages[builder.root])
  PROVE  OwnRanges(Staged(builder.root, artifacts, builder.calibration, None))
<1> DEFINE root == builder.root
           t == packages[root]
           c == builder.calibration
           n == Rewritten(t, c, None)
           p == Staged(root, artifacts, c, None)
<1>1. /\ IsPackage(p)
      /\ p.files = [f \in Files |-> IF f \in DOMAIN artifacts THEN artifacts[f] ELSE t.files[f]]
      /\ p.manifest.algorithm = n.algorithm /\ p.manifest.runtime = n.runtime
      /\ p.manifest.config = n.config /\ p.manifest.post = n.post
  BY StagedFacts
<1>2. /\ n.algorithm = t.manifest.algorithm /\ n.runtime = t.manifest.runtime
      /\ n.config = t.manifest.config
      /\ c = None => n = t.manifest
      /\ c # None => /\ n.post.image = c.image
                     /\ c.hasPixel => n.post.pixel = c.pixel
  BY RewrittenFacts
<1> HIDE DEF n, p
<1> SUFFICES ASSUME IsStatistical(p), UsesRanges(p)
             PROVE  p.manifest.post.image.of = ScoresOf(p) /\ p.manifest.post.pixel.of = ScoresOf(p)
  BY DEF OwnRanges, p
<1>3. IsStatistical(t)
  BY <1>1, <1>2 DEF IsStatistical
<1>4. root \in Paths /\ (c # None => c \in calibrations /\ c.root = root)
  BY DEF SInv, PInv, BuilderBound
<1>5. c # None => /\ root \in Outputs /\ c.hasPixel
                  /\ c.image.of = ScoresOf(t) /\ c.pixel.of = ScoresOf(t)
  BY <1>3, <1>4 DEF SInv, CalibrationsCurrent
<1>6. root \in Outputs
  <2> SUFFICES ASSUME root = Template, c = None PROVE FALSE
    BY <1>4, <1>5 DEF Paths
  <2>1. ~UsesRanges(t)
    BY <1>3 DEF SInv, PInv, PackagesUsable, TemplatesUnfitted
  <2> QED
    BY <1>1, <1>2, <2>1 DEF UsesRanges
<1>7. Published(root) /\ Usable(t) /\ DOMAIN artifacts \cap ScoreFiles(t) = {}
  BY <1>6 DEF SInv, PInv, PackagesUsable, BuilderBound, Published, Absent
<1>8. ScoreFiles(t) \subseteq Files
  BY <1>7 DEF Usable, modelValidate, validateReferencedArtifacts, ScoreFiles, resolveArtifact,
              pathEscapes
<1>9. ScoresOf(p) = ScoresOf(t)
  BY <1>1, <1>2, <1>7, <1>8, SameScores
<1>10. CASE c = None
  <2>1. UsesRanges(t) /\ p.manifest.post = t.manifest.post
    BY <1>1, <1>2, <1>10 DEF UsesRanges
  <2>2. OwnRanges(t)
    BY <1>6, <1>7, ScoresByPackage DEF SInv
  <2> QED
    BY <1>3, <1>9, <2>1, <2>2 DEF OwnRanges
<1>11. CASE c # None
  <2>1. p.manifest.post.image = c.image /\ p.manifest.post.pixel = c.pixel
    <3>1. c.hasPixel
      BY <1>5, <1>11
    <3>2. n.post.image = c.image /\ n.post.pixel = c.pixel
      BY <1>2, <1>11, <3>1
    <3> QED
      BY <1>1, <3>2
  <2>2. c.image.of = ScoresOf(t) /\ c.pixel.of = ScoresOf(t)
    BY <1>5, <1>11
  <2> HIDE DEF c, t
  <2> QED
    BY <1>9, <2>1, <2>2
<1> QED
  BY <1>10, <1>11

LEMMA FitterOwnRanges ==
  ASSUME TemplatesUnfitted, SInv, fitter # None, NEW artifacts,
         packages[fitter.root].present, IsPackage(packages[fitter.root])
  PROVE  OwnRanges(Staged(fitter.root, artifacts, None, fitter.fitted))
<1> DEFINE t == packages[fitter.root]
           fitted == fitter.fitted
           n == Rewritten(t, None, fitted)
           p == Staged(fitter.root, artifacts, None, fitted)
<1>1. /\ IsPackage(p)
      /\ p.files = [f \in Files |-> IF f \in DOMAIN artifacts THEN artifacts[f] ELSE t.files[f]]
      /\ p.manifest.algorithm = n.algorithm /\ p.manifest.runtime = n.runtime
      /\ p.manifest.config = n.config /\ p.manifest.post = n.post
  BY StagedFacts
<1>2. /\ n.algorithm = t.manifest.algorithm
      /\ n.config = IF fitted = None THEN t.manifest.config ELSE SetVariant(t.manifest, fitted).config
      /\ fitted = None => n = t.manifest
      /\ fitted # None => n = Fitted(t.manifest, fitted)
  BY RewrittenFacts
<1> HIDE DEF n, p
<1> SUFFICES ASSUME IsStatistical(p), UsesRanges(p) PROVE FALSE
  BY DEF OwnRanges, p
<1>3. /\ fitter.root \in Paths
      /\ fitter.root \in Outputs => t = fitter.was
      /\ fitted = None => fitter.was.manifest.algorithm = "padim"
  BY DEF SInv, PInv, FitterBound
<1>4. CASE fitted = None
  <2>1. IsStatistical(t) /\ UsesRanges(t)
    BY <1>1, <1>2, <1>4 DEF IsStatistical, UsesRanges
  <2>2. fitter.root = Template
    BY <1>3, <1>4, <2>1 DEF Paths, IsStatistical
  <2> QED
    BY <2>1, <2>2 DEF SInv, PInv, PackagesUsable, TemplatesUnfitted
<1>5. CASE fitted # None
  <2>1. /\ ManifestFields \subseteq DOMAIN t.manifest /\ PostFields \subseteq DOMAIN t.manifest.post
        /\ t.manifest.algorithm = "patchcore" => PatchCoreFields \subseteq DOMAIN t.manifest.config
    BY DEF IsPackage
  <2>2. t.manifest.algorithm = "patchcore"
    BY <1>1, <1>2 DEF IsStatistical
  <2>3. n.config.variant = fitted.variant
    BY <1>2, <1>5, <2>1, <2>2, SetVariantFacts
  <2>4. Statistical(fitted.variant)
    BY <1>1, <2>3 DEF IsStatistical
  <2>5. n.post.normalize = FALSE /\ n.post.threshold = FALSE
    <3>1. n = Fitted(t.manifest, fitted)
      BY <1>2, <1>5
    <3> HIDE DEF t
    <3>2. /\ ManifestFields \subseteq DOMAIN Fitted(t.manifest, fitted)
          /\ PostFields \subseteq DOMAIN Fitted(t.manifest, fitted).post
          /\ IF Statistical(fitted.variant)
               THEN /\ Fitted(t.manifest, fitted).post.normalize = FALSE
                    /\ Fitted(t.manifest, fitted).post.threshold = FALSE
               ELSE TRUE
      BY <2>1, FittedFacts
    <3> QED
      BY <2>4, <3>1, <3>2
  <2> QED
    BY <1>1, <2>5 DEF UsesRanges
<1> QED
  BY <1>4, <1>5

(* A new package with ranges of its own disturbs nothing.                  *)
LEMMA CommitKeepsScores ==
  ASSUME SInv, NEW o \in Outputs, ~packages[o].present, OwnRanges(packages'[o]),
         \A p \in Paths \ {o} : packages'[p] = packages[p], UNCHANGED calibrations
  PROVE  (CalibrationsCurrent /\ StatisticalScoresCalibrated)'
<1>1. CalibrationsCurrent'
  BY DEF SInv, CalibrationsCurrent
<1>2. \A q \in Outputs : packages'[q].present => OwnRanges(packages'[q])
  BY ScoresByPackage DEF SInv, Published, Paths
<1>3. StatisticalScoresCalibrated'
  BY <1>2 DEF StatisticalScoresCalibrated, OwnRanges, Published
<1> QED
  BY <1>1, <1>3

LEMMA SameKeepsScores ==
  ASSUME SInv, UNCHANGED <<packages, calibrations>>
  PROVE  (CalibrationsCurrent /\ StatisticalScoresCalibrated)'
  BY DEF SInv, CalibrationsCurrent, StatisticalScoresCalibrated, Published

LEMMA CalibrateKeepsScores ==
  ASSUME TemplatesUnfitted, SInv, NEW p \in Paths, Calibrate(p)
  PROVE  (CalibrationsCurrent /\ StatisticalScoresCalibrated)'
<1> DEFINE range == [lo |-> 0, hi |-> 1, of |-> ScoresOf(packages[p])]
           c == [root |-> p, image |-> range, pixel |-> range,
                 hasPixel |-> packages[p].manifest.algorithm # "yolo"]
<1>1. /\ load(packages[p]) /\ loadAssets(packages[p]) /\ UNCHANGED packages
      /\ calibrations' = calibrations \cup {c}
  BY DEF Calibrate
<1>2. /\ c.root = p /\ c.image.of = ScoresOf(packages[p]) /\ c.pixel.of = ScoresOf(packages[p])
      /\ c.hasPixel = (packages[p].manifest.algorithm # "yolo")
  OBVIOUS
<1> HIDE DEF c
<1>3. ASSUME IsStatistical(packages[p]) PROVE c.hasPixel /\ p \in Outputs
  <2>1. c.hasPixel
    BY <1>2, <1>3 DEF IsStatistical
  <2>2. resolveArtifact(packages[p], packages[p].manifest.config.statistics)
    BY <1>1, <1>3 DEF IsStatistical, loadAssets, PatchCoreAssets, Predicting
  <2>3. p # Template
    BY <1>3, <2>2 DEF SInv, PInv, PackagesUsable, TemplatesUnfitted
  <2> QED
    BY <2>1, <2>3 DEF Paths
<1>4. packages[p].present
  BY <1>1 DEF load
<1>5. CalibrationsCurrent'
  BY <1>1, <1>2, <1>3, <1>4 DEF SInv, CalibrationsCurrent
<1> QED
  BY <1>1, <1>5 DEF SInv, StatisticalScoresCalibrated, Published

LEMMA ExportKeepsScores ==
  ASSUME SInv, NEW t \in Templates, Export(t)
  PROVE  (CalibrationsCurrent /\ StatisticalScoresCalibrated)'
<1>1. \A o \in Outputs : packages'[o] = packages[o]
  BY ExportKeeps DEF SInv, PInv
<1>2. UNCHANGED calibrations /\ \A c \in calibrations : c.root # Template
  BY DEF Export
<1>3. CalibrationsCurrent'
  BY <1>1, <1>2 DEF SInv, CalibrationsCurrent, Paths
<1> QED
  BY <1>1, <1>3 DEF SInv, StatisticalScoresCalibrated, Published

LEMMA CommitBuilderKeepsScores ==
  ASSUME TemplatesUnfitted, SInv, NEW o \in Outputs, CommitBuilder(o)
  PROVE  (CalibrationsCurrent /\ StatisticalScoresCalibrated)'
<1> DEFINE artifacts == [f \in DOMAIN builder.artifacts |-> sources[builder.artifacts[f]]]
<1>1. /\ builder # None /\ UNCHANGED calibrations /\ fits' = fits
      /\ commitPackage(builder.root, artifacts, o, builder.calibration, None)
  BY DEF CommitBuilder
<1>2. DOMAIN artifacts = DOMAIN builder.artifacts
  OBVIOUS
<1> HIDE DEF artifacts
<1>3. PackagesUsable /\ builder.root \in Paths /\ fits' \in Nat
  BY <1>1 DEF SInv, PInv, BuilderBound, PackagesUsable
<1>4. /\ \A p \in Paths \ {o} : packages'[p] = packages[p]
      /\ packages'[o] = Staged(builder.root, artifacts, builder.calibration, None)
      /\ ~packages[o].present /\ packages[builder.root].present
      /\ IsPackage(packages[builder.root])
  BY <1>1, <1>3, CommitKeeps
<1>5. OwnRanges(packages'[o])
  BY <1>1, <1>2, <1>4, BuilderOwnRanges
<1> QED
  BY <1>1, <1>4, <1>5, CommitKeepsScores

LEMMA FinalizeKeepsScores ==
  ASSUME TemplatesUnfitted, SInv, NEW o \in Outputs, Finalize(o)
  PROVE  (CalibrationsCurrent /\ StatisticalScoresCalibrated)'
<1> DEFINE saved == Saved(fits + 1)
<1>1. /\ fitter # None /\ UNCHANGED calibrations /\ fits' = fits + 1
      /\ commitPackage(fitter.root, saved, o, None, fitter.fitted)
  BY DEF Finalize
<1> HIDE DEF saved
<1>2. PackagesUsable /\ fitter.root \in Paths /\ fits' \in Nat
  BY <1>1 DEF SInv, PInv, FitterBound, PackagesUsable
<1>3. /\ \A p \in Paths \ {o} : packages'[p] = packages[p]
      /\ packages'[o] = Staged(fitter.root, saved, None, fitter.fitted)
      /\ ~packages[o].present /\ packages[fitter.root].present
      /\ IsPackage(packages[fitter.root])
  <2> DEFINE root == fitter.root
             fitted == fitter.fitted
  <2>1. root \in Paths /\ commitPackage(root, saved, o, None, fitted)
    BY <1>1, <1>2
  <2> HIDE DEF root, fitted
  <2>2. /\ \A p \in Paths \ {o} : packages'[p] = packages[p]
        /\ packages'[o] = Staged(root, saved, None, fitted)
        /\ ~packages[o].present /\ packages[root].present
        /\ IsPackage(packages[root])
    BY <1>2, <2>1, CommitKeeps
  <2> QED
    BY <2>2 DEF root, fitted
<1>4. OwnRanges(packages'[o])
  BY <1>1, <1>3, FitterOwnRanges
<1> QED
  BY <1>1, <1>3, <1>4, CommitKeepsScores

(* Through any chain of fits, calibrations and rebuilds, a published       *)
(* statistical variant uses ranges only of its own score distribution,     *)
(* provided that no template of a statistical variant comes with ranges or *)
(* statistics of its own.                                                  *)
THEOREM ScoresCalibrated ==
  ASSUME TemplatesUnfitted
  PROVE  PackageSpec => []StatisticalScoresCalibrated
<1>1. InitPackages => SInv
  <2> SUFFICES ASSUME InitPackages PROVE SInv
    OBVIOUS
  <2>1. calibrations = {} /\ packages \in [Paths -> {Absent, packages[Template]}]
        /\ \A o \in Outputs : packages[o] = Absent
    BY LifecycleAssumption DEF InitPackages, Paths
  <2> QED
    BY <2>1, InitPackagesHolds
       DEF SInv, CalibrationsCurrent, StatisticalScoresCalibrated, Published, Absent
<1>2. SInv /\ [PackageNext]_packageVars => SInv'
  <2> SUFFICES ASSUME SInv, [PackageNext]_packageVars PROVE SInv'
    OBVIOUS
  <2>1. PInv'
    BY CreateBuilderKeeps, AddArtifactKeeps, ApplyCalibrationKeeps, CommitBuilderKeeps,
       CreateFitterKeeps, FinalizeKeeps, OtherKeeps DEF PackageNext, SInv
  <2>2. (CalibrationsCurrent /\ StatisticalScoresCalibrated)'
    <3>1. CASE \E p \in Paths : Calibrate(p)
      BY <3>1, CalibrateKeepsScores
    <3>2. CASE \E t \in Templates : Export(t)
      BY <3>2, ExportKeepsScores
    <3>3. CASE \E o \in Outputs : CommitBuilder(o) \/ Finalize(o)
      BY <3>3, CommitBuilderKeepsScores, FinalizeKeepsScores
    <3>4. CASE \/ \E p \in Paths : CreateBuilder(p)
               \/ \E s \in Sources, f \in Files : AddArtifact(s, f)
               \/ \E c \in calibrations : ApplyCalibration(c)
               \/ \E p \in Paths, variant \in Variants : CreateFitter(p, variant)
               \/ DestroyBuilder \/ DestroyFitter
               \/ \E s \in Sources : RemoveSource(s)
               \/ UNCHANGED packageVars
      <4>1. UNCHANGED <<packages, calibrations>>
        BY <3>4 DEF CreateBuilder, AddArtifact, ApplyCalibration, CreateFitter, DestroyBuilder,
                    DestroyFitter, RemoveSource, packageVars
      <4> QED
        BY <4>1, SameKeepsScores
    <3> QED
      BY <3>1, <3>2, <3>3, <3>4 DEF PackageNext
  <2> QED
    BY <2>1, <2>2 DEF SInv
<1>3. SInv => StatisticalScoresCalibrated
  BY DEF SInv
<1> QED
  BY <1>1, <1>2, <1>3, PTL DEF PackageSpec
=============================================================================
