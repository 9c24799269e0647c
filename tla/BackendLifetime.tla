--------------------------- MODULE BackendLifetime ---------------------------
(***************************************************************************)
(* Ownership across the backend plugin boundary                            *)
(* (src/src/backends/backend_factory.cpp, plugins/backend_plugin.cpp,      *)
(* plugins/dynamic_library.cpp).  Output tensors are views of memory that  *)
(* a plugin batch owns; a batch is released by code of the plugin, as the  *)
(* instance is destroyed by it.  The shared_ptr chain                      *)
(*   Tensor -> SharedBatch -> instanceLifetime -> DynamicLibrary           *)
(* must keep all of it until the last tensor is gone, on whatever thread.  *)
(*                                                                         *)
(* One DynamicBackend is used by the thread Host; tensors are handed to    *)
(* any thread.  Dropping the last reference of a shared_ptr starts a chain *)
(* of destructors on the dropping thread, one step each, between which the *)
(* other threads run.                                                      *)
(***************************************************************************)
EXTENDS Naturals

CONSTANTS
  Threads,
  Host,       \* the thread that owns the DynamicBackend
  Batches,    \* batches that infer calls may produce
  Instances   \* plugin instances that load calls may create

ASSUME LifetimeAssumption ==
  /\ Host \in Threads
  /\ Instances # {}
  /\ Batches \cap Instances = {}
  /\ "wrapper" \notin Batches \cup Instances

VARIABLES
  wrapper,    \* the DynamicBackend: none, open, loaded, dying or gone
  lib,        \* the plugin's code: none, loaded or unloaded
  libOwners,  \* library_ of the wrapper, and the deleters of the instances
  inst,       \* state of each instance
  instOwners, \* who shares each instanceLifetime
  batch,      \* state of each batch: plugin while only the guard owns it
  maker,      \* the instance that made a batch
  refs,       \* threads that hold tensors of a batch
  task        \* what each thread is about to do

vars == <<wrapper, lib, libOwners, inst, instOwners, batch, maker, refs, task>>

Idle            == [do |-> "idle"]
Guard(b)        == [do |-> "guard", b |-> b]
ReleaseOf(b)    == [do |-> "release", b |-> b]
DropOf(i, o)    == [do |-> "dropInstance", i |-> i, owner |-> o]
DestroyOf(i)    == [do |-> "destroy", i |-> i]
DropLibOf(o)    == [do |-> "dropLibrary", owner |-> o]
UnloadIt        == [do |-> "unload"]

Init ==
  /\ wrapper = "none" /\ lib = "none" /\ libOwners = {}
  /\ inst = [i \in Instances |-> "none"]
  /\ instOwners = [i \in Instances |-> {}]
  /\ batch = [b \in Batches |-> "none"]
  /\ maker = [b \in Batches |-> CHOOSE i \in Instances : TRUE]
  /\ refs = [b \in Batches |-> {}]
  /\ task = [t \in Threads |-> Idle]

Then(t, next) == task' = [task EXCEPT ![t] = next]
Resting(t)    == task[t] = Idle
-----------------------------------------------------------------------------
(* createRuntimeBackend: the library is opened; a function table that is   *)
(* not accepted drops it again.                                            *)
createRuntimeBackend ==
  /\ wrapper = "none" /\ Resting(Host)
  /\ lib' = "loaded"
  /\ libOwners' = {"wrapper"}
  /\ wrapper' \in {"open", "dying"}
  /\ UNCHANGED <<inst, instOwners, batch, maker, refs, task>>

Make(i, owners) ==
  /\ inst' = [inst EXCEPT ![i] = "alive"]
  /\ instOwners' = [instOwners EXCEPT ![i] = owners]

(* DynamicBackend::load.  The deleter of instanceLifetime_ captures the    *)
(* library.                                                                *)
LoadKeeping(i, owners) ==
  /\ wrapper = "open" /\ Resting(Host)
  /\ inst[i] = "none"
  /\ Make(i, {"wrapper"})
  /\ libOwners' = libOwners \cup owners
  /\ \/ wrapper' = "loaded" /\ UNCHANGED task
     \/ Then(Host, DropOf(i, "wrapper")) /\ UNCHANGED wrapper    \* bad signature
  /\ UNCHANGED <<lib, batch, maker, refs>>

LoadWithoutLibrary(i) == LoadKeeping(i, {})

Load(i) == LoadKeeping(i, {i})

(* The plugin's create fails; an instance it may have left is destroyed by *)
(* load itself.                                                            *)
LoadFails(i) ==
  /\ wrapper = "open" /\ Resting(Host)
  /\ inst[i] = "none"
  /\ inst' = [inst EXCEPT ![i] = "destroyed"]
  /\ UNCHANGED <<wrapper, lib, libOwners, instOwners, batch, maker, refs, task>>

(* DynamicBackend::infer and inferDevice: the plugin returns a batch, that *)
(* the local guard owns until a SharedBatch takes it over.                 *)
Infer(b) ==
  /\ wrapper = "loaded" /\ Resting(Host)
  /\ batch[b] = "none"
  /\ \E i \in Instances :
       /\ "wrapper" \in instOwners[i]
       /\ maker' = [maker EXCEPT ![b] = i]
  /\ batch' = [batch EXCEPT ![b] = "plugin"]
  /\ Then(Host, Guard(b))
  /\ UNCHANGED <<wrapper, lib, libOwners, inst, instOwners, refs>>

GuardForgets ==
  /\ task[Host].do = "guard"
  /\ Then(Host, Idle)
  /\ UNCHANGED <<wrapper, lib, libOwners, inst, instOwners, batch, maker, refs>>

(* An invalid batch, or no memory for the SharedBatch.                     *)
GuardReleases ==
  /\ task[Host].do = "guard"
  /\ batch' = [batch EXCEPT ![task[Host].b] = "released"]
  /\ Then(Host, Idle)
  /\ UNCHANGED <<wrapper, lib, libOwners, inst, instOwners, maker, refs>>

ShareAs(owners) ==
  /\ task[Host].do = "guard"
  /\ LET b == task[Host].b IN
       /\ batch' = [batch EXCEPT ![b] = "shared"]
       /\ instOwners' = [instOwners EXCEPT ![maker[b]] = @ \cup owners]
       /\ refs' = [refs EXCEPT ![b] = {Host}]
  /\ Then(Host, Idle)
  /\ UNCHANGED <<wrapper, lib, libOwners, inst, maker>>

ShareForgettingInstance == ShareAs({})

Share == task[Host].do = "guard" /\ ShareAs({task[Host].b})
-----------------------------------------------------------------------------
(* A thread is given tensors by one that holds them.                       *)
Retain(t, b) ==
  /\ Resting(t)
  /\ refs[b] # {} /\ t \notin refs[b]
  /\ refs' = [refs EXCEPT ![b] = @ \cup {t}]
  /\ UNCHANGED <<wrapper, lib, libOwners, inst, instOwners, batch, maker, task>>

DropNonAtomic(t, b) ==
  /\ Resting(t)
  /\ t \in refs[b]
  /\ refs' = [refs EXCEPT ![b] = @ \ {t}]
  /\ Then(t, IF \E u \in Threads : refs[b] \subseteq {t, u} THEN ReleaseOf(b) ELSE Idle)
  /\ UNCHANGED <<wrapper, lib, libOwners, inst, instOwners, batch, maker>>

Drop(t, b) ==
  /\ Resting(t)
  /\ t \in refs[b]
  /\ refs' = [refs EXCEPT ![b] = @ \ {t}]
  /\ Then(t, IF refs[b] = {t} THEN ReleaseOf(b) ELSE Idle)
  /\ UNCHANGED <<wrapper, lib, libOwners, inst, instOwners, batch, maker>>

(* ~SharedBatch: its body releases the batch, then its member is dropped.  *)
ReleaseBatch(t) ==
  /\ task[t].do = "release"
  /\ batch' = [batch EXCEPT ![task[t].b] = "released"]
  /\ Then(t, DropOf(maker[task[t].b], task[t].b))
  /\ UNCHANGED <<wrapper, lib, libOwners, inst, instOwners, maker, refs>>

DropInstance(t) ==
  /\ task[t].do = "dropInstance"
  /\ LET i == task[t].i
         left == instOwners[i] \ {task[t].owner}
     IN  /\ instOwners' = [instOwners EXCEPT ![i] = left]
         /\ Then(t, IF left = {} THEN DestroyOf(i) ELSE Idle)
  /\ UNCHANGED <<wrapper, lib, libOwners, inst, batch, maker, refs>>

(* The deleter of instanceLifetime_, whose copy of the library goes last.  *)
DestroyInstance(t) ==
  /\ task[t].do = "destroy"
  /\ inst' = [inst EXCEPT ![task[t].i] = "destroyed"]
  /\ Then(t, DropLibOf(task[t].i))
  /\ UNCHANGED <<wrapper, lib, libOwners, instOwners, batch, maker, refs>>

DropLibraryOnlyByWrapper(t) ==
  /\ task[t].do = "dropLibrary"
  /\ libOwners' = libOwners \ ({task[t].owner} \cap {"wrapper"})
  /\ Then(t, IF libOwners' = {} THEN UnloadIt ELSE Idle)
  /\ UNCHANGED <<wrapper, lib, inst, instOwners, batch, maker, refs>>

DropLibrary(t) ==
  /\ task[t].do = "dropLibrary"
  /\ libOwners' = libOwners \ {task[t].owner}
  /\ Then(t, IF libOwners' = {} THEN UnloadIt ELSE Idle)
  /\ UNCHANGED <<wrapper, lib, inst, instOwners, batch, maker, refs>>

(* ~DynamicLibrary.                                                        *)
Unload(t) ==
  /\ task[t].do = "unload"
  /\ lib' = "unloaded"
  /\ Then(t, Idle)
  /\ UNCHANGED <<wrapper, libOwners, inst, instOwners, batch, maker, refs>>

Destructors(t) ==
  ReleaseBatch(t) \/ DropInstance(t) \/ DestroyInstance(t) \/ DropLibrary(t) \/ Unload(t)

(* ~DynamicBackend: members go in reverse order, instanceLifetime_ first   *)
(* and library_ last.                                                      *)
DestroyWrapper ==
  /\ wrapper \in {"open", "loaded"} /\ Resting(Host)
  /\ wrapper' = "dying"
  /\ \/ \E i \in Instances : "wrapper" \in instOwners[i] /\ Then(Host, DropOf(i, "wrapper"))
     \/ (\A i \in Instances : "wrapper" \notin instOwners[i]) /\ UNCHANGED task
  /\ UNCHANGED <<lib, libOwners, inst, instOwners, batch, maker, refs>>

DropWrapperLibrary ==
  /\ wrapper = "dying" /\ Resting(Host)
  /\ wrapper' = "gone"
  /\ Then(Host, DropLibOf("wrapper"))
  /\ UNCHANGED <<lib, libOwners, inst, instOwners, batch, maker, refs>>

Backend ==
  \/ createRuntimeBackend
  \/ \E i \in Instances : Load(i) \/ LoadFails(i)
  \/ \E b \in Batches : Infer(b)
  \/ GuardReleases \/ Share
  \/ DestroyWrapper \/ DropWrapperLibrary

Next ==
  \/ Backend
  \/ \E t \in Threads : Destructors(t) \/ \E b \in Batches : Retain(t, b) \/ Drop(t, b)

Spec == Init /\ [][Next]_vars

(* A destructor that has begun goes on; nobody need ever drop a tensor.    *)
Fairness ==
  /\ \A t \in Threads : WF_vars(Destructors(t))
  /\ WF_vars(DropWrapperLibrary)

LiveSpec == Spec /\ Fairness
-----------------------------------------------------------------------------
Tasks ==
  {Idle, UnloadIt}
    \cup {Guard(b) : b \in Batches} \cup {ReleaseOf(b) : b \in Batches}
    \cup {DropOf(i, o) : i \in Instances, o \in Batches \cup {"wrapper"}}
    \cup {DestroyOf(i) : i \in Instances}
    \cup {DropLibOf(o) : o \in Instances \cup {"wrapper"}}

(* Every variable keeps its type.                                          *)
TypeOK ==
  /\ wrapper \in {"none", "open", "loaded", "dying", "gone"}
  /\ lib \in {"none", "loaded", "unloaded"}
  /\ libOwners \subseteq Instances \cup {"wrapper"}
  /\ inst \in [Instances -> {"none", "alive", "destroyed"}]
  /\ instOwners \in [Instances -> SUBSET (Batches \cup {"wrapper"})]
  /\ batch \in [Batches -> {"none", "plugin", "shared", "released"}]
  /\ maker \in [Batches -> Instances]
  /\ refs \in [Batches -> SUBSET Threads]
  /\ task \in [Threads -> Tasks]

(* Plugin code runs only while it is mapped: no destructor, on any thread, *)
(* calls release_batch or destroy of a library that another thread has     *)
(* unloaded, and no infer call or instance outlives it.                    *)
PluginCodePresent ==
  lib # "loaded" =>
    /\ \A t \in Threads : task[t].do \notin {"guard", "release", "destroy", "unload"}
    /\ \A i \in Instances : inst[i] # "alive"

(* A held tensor is readable: its batch is not released and the instance   *)
(* that made it is alive, also after the wrapper is gone.                  *)
TensorsReadable ==
  \A b \in Batches : refs[b] # {} =>
    batch[b] = "shared" /\ inst[maker[b]] = "alive" /\ lib = "loaded"

(* Nothing is freed twice or too early: what a thread is about to free     *)
(* exists, no other thread is about to free it, and batches are released   *)
(* before their instance is destroyed.                                     *)
FreedInOrder ==
  /\ \A t \in Threads :
       /\ task[t].do \in {"guard", "release"} => batch[task[t].b] \in {"plugin", "shared"}
       /\ task[t].do = "destroy" => inst[task[t].i] = "alive"
       /\ task[t].do = "unload" => lib = "loaded"
  /\ \A t, u \in Threads :
       t # u /\ task[t].do \in {"release", "destroy", "unload"} => task[t] # task[u]
  /\ \A b \in Batches : batch[b] \in {"plugin", "shared"} => inst[maker[b]] = "alive"

(* Nothing leaks: when the wrapper is gone, no tensor is held and no       *)
(* destructor is under way, everything has been freed.                     *)
NoLeak ==
  /\ wrapper = "gone"
  /\ \A b \in Batches : refs[b] = {}
  /\ \A t \in Threads : Resting(t)
  => /\ lib = "unloaded"
     /\ \A i \in Instances : inst[i] # "alive"
     /\ \A b \in Batches : batch[b] \notin {"plugin", "shared"}

(* Once the backend is being destroyed and no thread holds a tensor, the   *)
(* plugin is unloaded, whichever threads run the last destructors.         *)
EventuallyUnloaded ==
  wrapper \in {"dying", "gone"} /\ (\A b \in Batches : refs[b] = {}) ~> lib = "unloaded"
=============================================================================
