-------------------------- MODULE RuntimeSelection --------------------------
(***************************************************************************)
(* InferenceSession::load (src/src/model/inference_session.cpp): a request *)
(* for a device becomes a list of runtime candidates, which are tried in   *)
(* order; the first that gets through backend creation, loading,           *)
(* validation, search and compute configuration and warmup is the session. *)
(* Every one of these steps may fail with any error code.  The Faiss       *)
(* layers of configureFaissIndexes are moved to the GPU one at a time.     *)
(*                                                                         *)
(* A request is what load's decisions depend on: the options and what the  *)
(* package and the plugins offer.                                          *)
(***************************************************************************)
EXTENDS Naturals, Sequences

CONSTANTS
  Requests,   \* the requests considered, a subset of AllRequests
  Codes,      \* error codes a step may fail with
  NLayers     \* Faiss indexes of the model

Backends == {"TensorRT", "OnnxRuntime"}

AllRequests ==
  [device : {"MANIFEST", "CPU", "GPU", "AUTO"},
   loadOnly : BOOLEAN,                  \* ANOM_FALLBACK_LOAD_ONLY
   backend : Backends \cup {"any"},     \* backend_utf8
   fp16 : BOOLEAN,                      \* explicit ANOM_PRECISION_FP16
   compute : {"auto", "cpu", "cuda"},   \* compute_mode
   warmup : BOOLEAN,
   onnx : BOOLEAN, engine : BOOLEAN,    \* artifacts the manifest names
   manifest : Backends,                 \* runtime.backend of the manifest
   search : {"none", "legacy", "faiss"},      \* plugin without extension; with it
   extension : {"none", "legacy", "device"}]  \* device compute of the plugin

ASSUME SelectionAssumption ==
  /\ Requests \subseteq AllRequests /\ Requests # {}
  /\ NLayers \in Nat \ {0}

VARIABLES
  req,       \* the request being served
  cands, i,  \* the runtime candidates and the one being tried
  pc,
  attempts,  \* the failed attempts, as fallbackReason lists them
  layer,     \* the provider of each Faiss index
  info,      \* executionInfo_ of the session being built
  touched,   \* history: CUDA components initialized
  seen       \* history: error codes reported by any step

vars == <<req, cands, i, pc, attempts, layer, info, touched, seen>>

Providers == {"cpu", "cuda"}
AllCpu    == [k \in 1..NLayers |-> "cpu"]
NoInfo    == [provider |-> "cpu", search |-> "none", compute |-> "none",
              fallback |-> FALSE]

Init ==
  /\ req \in Requests
  /\ cands = <<>> /\ i = 1
  /\ pc = "idle"
  /\ attempts = <<>>
  /\ layer = AllCpu
  /\ info = NoInfo
  /\ touched = {} /\ seen = {}
-----------------------------------------------------------------------------
(* Error codes after which another candidate may be tried, and those after *)
(* which Faiss or compute may stay on the CPU.                             *)
retryableRuntimeFailure(code) ==
  code \in {"ArtifactMissing", "EngineIncompatible", "BackendFailure", "CudaFailure",
            "PluginNotFound", "PluginAbiMismatch", "DeviceUnavailable"}

RetryAnySearchFailure(code) == TRUE

retryableSearchFailure(code) ==
  code \in {"DeviceUnavailable", "PluginNotFound", "PluginAbiMismatch", "CudaFailure",
            "OutOfMemory"}

Provider(b) == IF b = "TensorRT" THEN "cuda" ELSE "cpu"

(* The add lambda of runtimeCandidates.                                    *)
add(r, list, b, fallback) ==
  IF \/ r.fp16 /\ b # "TensorRT"
     \/ b = "TensorRT" /\ ~r.engine /\ ~r.onnx
     \/ b = "OnnxRuntime" /\ ~r.onnx
     \/ \E k \in DOMAIN list : list[k].backend = b
    THEN list
    ELSE Append(list, [backend |-> b, fallback |-> fallback])

addIf(allowed, r, list, b, fallback) ==
  IF allowed THEN add(r, list, b, fallback) ELSE list

GpuThenCpu(r, trt, ort) ==
  addIf(ort /\ r.backend \in {"any", "OnnxRuntime"}, r,
        addIf(trt /\ r.backend \in {"any", "TensorRT"}, r, <<>>, "TensorRT", FALSE),
        "OnnxRuntime", TRUE)

(* The candidates in order; none when the request cannot be met.           *)
runtimeCandidates(r) ==
  CASE r.device = "MANIFEST" ->
         add(r, <<>>, IF r.backend = "any" THEN r.manifest ELSE r.backend, FALSE)
    [] r.device = "CPU" ->
         addIf(r.backend # "TensorRT", r, <<>>, "OnnxRuntime", FALSE)
    [] r.device = "GPU" -> GpuThenCpu(r, TRUE, r.loadOnly)
    [] r.device = "AUTO" -> GpuThenCpu(r, TRUE, TRUE)
-----------------------------------------------------------------------------
Candidate == cands[i]

OnGpuByArtifact == req.engine

OnGpu == Provider(Candidate.backend) = "cuda"

(* load begins: the package is read and the candidates are listed.         *)
Begin ==
  /\ pc = "idle"
  /\ cands' = runtimeCandidates(req)
  /\ \/ pc' = "failed"                        \* the package does not load
     \/ pc' = IF cands' = <<>> THEN "failed" ELSE "create"
  /\ UNCHANGED <<req, i, attempts, layer, info, touched, seen>>

Report(code) == seen' = seen \cup {code}

(* A failed attempt is recorded; the next candidate is tried only after a  *)
(* retryable failure.                                                      *)
Attempt(at, code, retryable, before) ==
  /\ attempts' = Append(before, [backend |-> Candidate.backend, at |-> at, code |-> code])
  /\ IF retryable /\ i < Len(cands)
       THEN pc' = "create" /\ i' = i + 1
       ELSE pc' = "failed" /\ UNCHANGED i
  /\ Report(code)

(* The first candidate to be tried may already be a fallback.              *)
Noted ==
  IF Candidate.fallback /\ attempts = <<>>
    THEN <<[backend |-> Candidate.backend, at |-> "request", code |-> "NoGpuArtifact"]>>
    ELSE attempts

CreateBackend ==
  /\ pc = "create"
  /\ touched' = IF OnGpu THEN touched \cup {"tensorrt"} ELSE touched
  /\ \/ pc' = "load" /\ attempts' = Noted /\ UNCHANGED <<i, seen>>
     \/ \E code \in Codes : Attempt("create", code, retryableRuntimeFailure(code), Noted)
  /\ UNCHANGED <<req, cands, layer, info>>

LoadBackend ==
  /\ pc = "load"
  /\ \/ pc' = "validate" /\ UNCHANGED <<i, attempts, seen>>
     \/ \E code \in Codes : Attempt("load", code, retryableRuntimeFailure(code), attempts)
  /\ UNCHANGED <<req, cands, layer, info, touched>>

(* The input signature, the adapter with its assets and its signature: a   *)
(* failure of one of these ends the load.                                  *)
Validate ==
  /\ pc = "validate"
  /\ \/ pc' = "search" /\ layer' = AllCpu /\ UNCHANGED seen
     \/ \E code \in Codes : pc' = "failed" /\ Report(code) /\ UNCHANGED layer
  /\ UNCHANGED <<req, cands, i, attempts, info, touched>>

AllowCpuFallbackUnlessStrict == req.device # "MANIFEST"

allowCpuFallback == req.device = "AUTO" \/ req.loadOnly

(* The session is made once the search stage is settled.                   *)
MakeSession(search, fellBack) ==
  /\ pc' = "compute"
  /\ info' = [provider |-> Provider(Candidate.backend), search |-> search,
              compute |-> "none", fallback |-> fellBack \/ attempts # <<>>]
  /\ UNCHANGED <<i, attempts>>

SearchFails(code) ==
  \/ /\ allowCpuFallback /\ retryableSearchFailure(code)
     /\ MakeSession("cpu", TRUE)
     /\ Report(code)
  \/ /\ ~(allowCpuFallback /\ retryableSearchFailure(code))
     /\ Attempt("faiss", code, retryableSearchFailure(code), attempts)
     /\ UNCHANGED info

(* No search stage, a CPU candidate, or a plugin without the extension.    *)
SearchOnCpu ==
  /\ pc = "search"
  /\ \/ req.search = "none" /\ MakeSession("none", FALSE) /\ UNCHANGED seen
     \/ req.search # "none" /\ ~OnGpu /\ MakeSession("cpu", FALSE) /\ UNCHANGED seen
     \/ req.search = "legacy" /\ OnGpu /\ SearchFails("DeviceUnavailable")
  /\ UNCHANGED <<req, cands, layer, touched>>

(* configureFaissIndexes on the GPU, layer by layer.  When one fails, all  *)
(* go back to the CPU.                                                     *)
FirstOnCpu == CHOOSE k \in 1..NLayers : layer[k] = "cpu" /\ \A j \in 1..(k - 1) : layer[j] = "cuda"

EnableLayer ==
  /\ pc = "search" /\ req.search = "faiss" /\ OnGpu
  /\ \E k \in 1..NLayers : layer[k] = "cpu"
  /\ touched' = touched \cup {"faiss"}
  /\ \/ /\ layer' = [layer EXCEPT ![FirstOnCpu] = "cuda"]
        /\ UNCHANGED <<i, pc, attempts, info, seen>>
     \/ \E code \in Codes : layer' = AllCpu /\ SearchFails(code)
  /\ UNCHANGED <<req, cands>>

SearchOnGpu ==
  /\ pc = "search" /\ req.search = "faiss" /\ OnGpu
  /\ \A k \in 1..NLayers : layer[k] = "cuda"
  /\ MakeSession("cuda", FALSE)
  /\ UNCHANGED <<req, cands, layer, touched, seen>>

(* The optional CUDA compute stage.                                        *)
AfterCompute == IF req.warmup THEN "warmup" ELSE "loaded"

ComputeRejected ==
  /\ pc = "compute"
  /\ req.compute = "cuda"
  /\ req.extension # "device" \/ ~OnGpu
  /\ pc' = "failed"
  /\ Report(IF req.extension # "device" THEN "DeviceUnavailable" ELSE "InvalidArgument")
  /\ UNCHANGED <<req, cands, i, attempts, layer, info, touched>>

ComputeOnCpu ==
  /\ pc = "compute"
  /\ req.compute # "cuda"
  /\ req.extension = "none" \/ ~OnGpu \/ req.compute = "cpu"
  /\ info' = [info EXCEPT !.compute = IF req.extension = "none" THEN "none" ELSE "cpu"]
  /\ pc' = AfterCompute
  /\ UNCHANGED <<req, cands, i, attempts, layer, touched, seen>>

ComputeOnGpuQuietly ==
  /\ pc = "compute"
  /\ req.extension # "none" /\ OnGpu /\ req.compute # "cpu"
  /\ \E p \in Providers : info' = [info EXCEPT !.compute = p]
  /\ touched' = touched \cup {"compute"}
  /\ pc' = AfterCompute
  /\ UNCHANGED <<req, cands, i, attempts, layer, seen>>

(* GpuCompute::load and the plugin's configureCompute, which a legacy      *)
(* plugin does not have.                                                   *)
ComputeOnGpu ==
  /\ pc = "compute"
  /\ req.extension # "none" /\ OnGpu /\ req.compute # "cpu"
  /\ req.compute = "cuda" => req.extension = "device"
  /\ touched' = touched \cup {"compute"}
  /\ \/ /\ req.extension = "device"
        /\ info' = [info EXCEPT !.compute = "cuda"]
        /\ pc' = AfterCompute
        /\ UNCHANGED seen
     \/ \E code \in Codes \cup {"DeviceUnavailable"} :
          /\ Report(code)
          /\ IF req.compute = "cuda" \/ ~retryableSearchFailure(code)
               THEN pc' = "failed" /\ UNCHANGED info
               ELSE /\ pc' = AfterCompute
                    /\ info' = [info EXCEPT !.compute = "cpu", !.fallback = TRUE]
  /\ UNCHANGED <<req, cands, i, attempts, layer>>

Warmup ==
  /\ pc = "warmup"
  /\ \/ pc' = "loaded" /\ UNCHANGED <<i, attempts, seen>>
     \/ \E code \in Codes : Attempt("warmup", code, retryableRuntimeFailure(code), attempts)
  /\ UNCHANGED <<req, cands, layer, info, touched>>

(* load's catch clauses: whatever was built so far is destroyed.           *)
Exception ==
  /\ pc \notin {"idle", "loaded", "failed"}
  /\ pc' = "failed"
  /\ Report("OutOfMemory")
  /\ UNCHANGED <<req, cands, i, attempts, layer, info, touched>>

(* The session is destroyed; the same request may be made again.           *)
Release ==
  /\ pc \in {"loaded", "failed"}
  /\ cands' = <<>> /\ i' = 1
  /\ pc' = "idle"
  /\ attempts' = <<>>
  /\ layer' = AllCpu
  /\ info' = NoInfo
  /\ touched' = {} /\ seen' = {}
  /\ UNCHANGED req

Next ==
  \/ Begin \/ CreateBackend \/ LoadBackend \/ Validate
  \/ SearchOnCpu \/ EnableLayer \/ SearchOnGpu
  \/ ComputeRejected \/ ComputeOnCpu \/ ComputeOnGpu
  \/ Warmup \/ Exception \/ Release

Spec == Init /\ [][Next]_vars
-----------------------------------------------------------------------------
Labels == {"idle", "create", "load", "validate", "search", "compute", "warmup",
           "loaded", "failed"}

(* Every variable keeps its type; the candidate being tried exists.        *)
TypeOK ==
  /\ req \in Requests
  /\ cands \in Seq([backend : Backends, fallback : BOOLEAN])
  /\ (i \in 1..Len(cands)) \/ (cands = <<>> /\ i = 1)
  /\ pc \in Labels
  /\ attempts \in Seq([backend : Backends,
                       at : {"request", "create", "load", "faiss", "warmup"},
                       code : Codes \cup {"NoGpuArtifact", "DeviceUnavailable"}])
  /\ layer \in [1..NLayers -> Providers]
  /\ info \in [provider : Providers, search : Providers \cup {"none"},
               compute : Providers \cup {"none"}, fallback : BOOLEAN]
  /\ touched \subseteq {"tensorrt", "faiss", "compute"}
  /\ seen \subseteq Codes \cup {"DeviceUnavailable", "InvalidArgument", "OutOfMemory"}

(* A session that loads meets what the request insists on: GPU without     *)
(* fallback runs the network and the search on the GPU, and a required     *)
(* CUDA compute stage runs there, whatever failed on the way.              *)
RequirementsHold ==
  pc = "loaded" =>
    /\ req.device = "GPU" /\ ~req.loadOnly =>
         info.provider = "cuda" /\ info.search # "cpu"
    /\ req.device = "CPU" => info.provider = "cpu"
    /\ req.compute = "cuda" => info.compute = "cuda"

(* An explicit CPU request never initializes CUDA, in any component and at *)
(* any point of the load.                                                  *)
CpuNeverInitializesCuda == req.device = "CPU" => touched = {}

(* No silent degradation: what a session reports of its search is true of  *)
(* every Faiss layer, also when one could not be moved to the GPU after    *)
(* others had been; and a GPU or AUTO session that reports no fallback has *)
(* its network, its search and its compute stage on the GPU.               *)
NoSilentDegradation ==
  /\ pc \in {"compute", "warmup", "loaded"} =>
       \A k \in 1..NLayers : layer[k] = "cuda" <=> info.search = "cuda"
  /\ pc = "loaded" /\ ~info.fallback /\ req.device \in {"GPU", "AUTO"} =>
       /\ info.provider = "cuda"
       /\ info.search # "cpu"
       /\ req.extension = "device" /\ req.compute # "cpu" => info.compute = "cuda"

(* A corrupt artifact that any step of any candidate has reported is never *)
(* hidden by a fallback.                                                   *)
CorruptionNeverHidden ==
  "ArtifactCorrupt" \in seen => pc = "failed"

(* Not an invariant: the reason "no compatible GPU artifact was available" *)
(* is also given when the request named the other backend.                 *)
ReasonIsTrue ==
  \A k \in DOMAIN attempts :
    attempts[k].code = "NoGpuArtifact" => ~req.engine /\ ~req.onnx
=============================================================================
