---------------------------- MODULE BackendProofs ----------------------------
(***************************************************************************)
(* Proofs about the backends.                                              *)
(*                                                                         *)
(* BackendLifetime, for any number of threads, batches and instances:      *)
(* types, and the inductive invariant IInv, which says who owns what at    *)
(* every step of a chain of destructors.  That plugin code is mapped when  *)
(* it runs, that held tensors are readable, that nothing is freed twice or *)
(* too early and that nothing leaks follow from it.                        *)
(*                                                                         *)
(* EngineCache, for any number of crashes, driver versions and files when  *)
(* one session at a time loads a package: the engine file is whole, what   *)
(* is loaded is usable, PreferEngine heals what is not listed in the       *)
(* manifest, and no other policy replaces an engine.  Two sessions at a    *)
(* time break the first of these (see MCEngineCache_shared).               *)
(***************************************************************************)
EXTENDS BackendLifetime, EngineCache, TLAPS

Does(t, what) == task[t].do = what

(* Before the backend is created there is nothing, and after that the      *)
(* library has been loaded.                                                *)
Beginning ==
  /\ wrapper = "none" =>
       /\ libOwners = {}
       /\ \A i \in Instances : inst[i] = "none"
       /\ \A b \in Batches : batch[b] = "none"
       /\ \A t \in Threads : Does(t, "idle")
  /\ lib = "none" => wrapper = "none"

(* A batch that no SharedBatch owns yet is in the guard of the host, whose *)
(* wrapper keeps the instance.                                             *)
Guarded ==
  /\ \A t \in Threads : Does(t, "guard") =>
       /\ t = Host /\ wrapper = "loaded"
       /\ batch[task[t].b] = "plugin"
       /\ "wrapper" \in instOwners[maker[task[t].b]]
  /\ \A b \in Batches : batch[b] = "plugin" => Does(Host, "guard") /\ task[Host].b = b

(* A shared batch keeps its instance, and is kept by tensors or by the one *)
(* thread about to release it.                                             *)
Shared ==
  \A b \in Batches :
    /\ refs[b] # {} => batch[b] = "shared"
    /\ batch[b] = "shared" =>
         /\ b \in instOwners[maker[b]]
         /\ refs[b] # {} \/ \E t \in Threads : Does(t, "release") /\ task[t].b = b

Releases ==
  /\ \A t \in Threads : Does(t, "release") =>
       batch[task[t].b] = "shared" /\ refs[task[t].b] = {}
  /\ \A t, u \in Threads :
       Does(t, "release") /\ Does(u, "release") /\ task[t].b = task[u].b => t = u

(* An owner of an instance is the wrapper, a shared batch, or about to be  *)
(* dropped by one thread.                                                  *)
WrapperOwns ==
  /\ \A i \in Instances : "wrapper" \in instOwners[i] =>
       \/ wrapper = "loaded"
       \/ Does(Host, "dropInstance") /\ task[Host].i = i /\ task[Host].owner = "wrapper"
  /\ \A i, j \in Instances :
       "wrapper" \in instOwners[i] /\ "wrapper" \in instOwners[j] => i = j

BatchOwns ==
  \A i \in Instances, b \in Batches : b \in instOwners[i] =>
    /\ maker[b] = i
    /\ \/ batch[b] = "shared"
       \/ \E t \in Threads : Does(t, "dropInstance") /\ task[t].i = i /\ task[t].owner = b

InstanceDrops ==
  /\ \A t \in Threads : Does(t, "dropInstance") =>
       /\ task[t].owner \in instOwners[task[t].i]
       /\ task[t].owner = "wrapper" => t = Host /\ wrapper # "loaded"
       /\ task[t].owner # "wrapper" => batch[task[t].owner] = "released"
  /\ \A t, u \in Threads :
       Does(t, "dropInstance") /\ Does(u, "dropInstance") /\ task[t].owner = task[u].owner
         => t = u

(* An instance is alive as long as it is owned, and is then destroyed by   *)
(* one thread.                                                             *)
InstanceAlive ==
  /\ \A i \in Instances :
       /\ instOwners[i] # {} => inst[i] = "alive"
       /\ inst[i] = "alive" =>
            instOwners[i] # {} \/ \E t \in Threads : Does(t, "destroy") /\ task[t].i = i
  /\ \A t \in Threads : Does(t, "destroy") =>
       inst[task[t].i] = "alive" /\ instOwners[task[t].i] = {}
  /\ \A t, u \in Threads :
       Does(t, "destroy") /\ Does(u, "destroy") /\ task[t].i = task[u].i => t = u

(* The library is owned by the wrapper and by the deleter of each living   *)
(* instance, or by what one thread is about to drop.                       *)
LibraryOwners ==
  /\ wrapper \in {"open", "loaded", "dying"} => "wrapper" \in libOwners
  /\ "wrapper" \in libOwners =>
       \/ wrapper \in {"open", "loaded", "dying"}
       \/ \E t \in Threads : Does(t, "dropLibrary") /\ task[t].owner = "wrapper"
  /\ \A i \in Instances :
       /\ inst[i] = "alive" => i \in libOwners
       /\ i \in libOwners =>
            inst[i] = "alive" \/ \E t \in Threads : Does(t, "dropLibrary") /\ task[t].owner = i
  /\ \A t \in Threads : Does(t, "dropLibrary") =>
       /\ task[t].owner \in libOwners
       /\ task[t].owner = "wrapper" => wrapper = "gone"
       /\ task[t].owner # "wrapper" => inst[task[t].owner] = "destroyed"
  /\ \A t, u \in Threads :
       Does(t, "dropLibrary") /\ Does(u, "dropLibrary") /\ task[t].owner = task[u].owner
         => t = u

(* The library is loaded as long as it is owned, and is then unloaded by   *)
(* one thread.                                                             *)
LibraryLoaded ==
  /\ libOwners # {} => lib = "loaded"
  /\ lib = "loaded" => libOwners # {} \/ \E t \in Threads : Does(t, "unload")
  /\ \A t \in Threads : Does(t, "unload") => lib = "loaded" /\ libOwners = {}
  /\ \A t, u \in Threads : Does(t, "unload") /\ Does(u, "unload") => t = u

IInv ==
  /\ TypeOK
  /\ Beginning /\ Guarded /\ Shared /\ Releases
  /\ WrapperOwns /\ BatchOwns /\ InstanceDrops /\ InstanceAlive
  /\ LibraryOwners /\ LibraryLoaded
-----------------------------------------------------------------------------
(* What a task carries.                                                    *)
LEMMA TaskFields ==
  ASSUME TypeOK, NEW t \in Threads
  PROVE  /\ Resting(t) => Does(t, "idle")
         /\ Does(t, "guard") \/ Does(t, "release") => task[t].b \in Batches
         /\ Does(t, "dropInstance") =>
              task[t].i \in Instances /\ task[t].owner \in Batches \cup {"wrapper"}
         /\ Does(t, "destroy") => task[t].i \in Instances
         /\ Does(t, "dropLibrary") => task[t].owner \in Instances \cup {"wrapper"}
<1>1. task[t] \in Tasks
  BY DEF TypeOK
<1> QED
  BY <1>1 DEF Tasks, Does, Resting, Idle, UnloadIt, Guard, ReleaseOf, DropOf,
     DestroyOf, DropLibOf

LEMMA TaskTypes ==
  /\ Idle \in Tasks /\ UnloadIt \in Tasks
  /\ \A b \in Batches : Guard(b) \in Tasks /\ ReleaseOf(b) \in Tasks
  /\ \A i \in Instances, o \in Batches \cup {"wrapper"} : DropOf(i, o) \in Tasks
  /\ \A i \in Instances : DestroyOf(i) \in Tasks
  /\ \A o \in Instances \cup {"wrapper"} : DropLibOf(o) \in Tasks
  BY DEF Tasks

LEMMA InitIInv == Init => IInv
<1> SUFFICES ASSUME Init PROVE IInv
  OBVIOUS
<1>1. maker \in [Batches -> Instances]
  BY LifetimeAssumption DEF Init
<1>2. TypeOK
  BY <1>1, TaskTypes DEF Init, TypeOK
<1>3. \A t \in Threads : Does(t, "idle")
  BY DEF Init, Does, Idle
<1> QED
  BY <1>2, <1>3 DEF Init, IInv, Beginning, Guarded, Shared, Releases, WrapperOwns,
     BatchOwns, InstanceDrops, InstanceAlive,
                    LibraryOwners, LibraryLoaded, Does

LEMMA Stuttering == IInv /\ UNCHANGED vars => IInv'
  BY DEF IInv, vars, TypeOK, Does, Beginning, Guarded, Shared, Releases, WrapperOwns,
     BatchOwns, InstanceDrops, InstanceAlive,
         LibraryOwners, LibraryLoaded

-----------------------------------------------------------------------------
(* createRuntimeBackend: the wrapper is the first owner of the library.    *)
LEMMA CreateStep ==
  ASSUME IInv, createRuntimeBackend
  PROVE  IInv'
<1> USE TaskFields, LifetimeAssumption DEF Does, createRuntimeBackend
<1>1. task' = task
  OBVIOUS
<1>2. TypeOK'
  BY <1>1, TaskTypes DEF IInv, TypeOK
<1>3. Beginning'
  BY <1>1 DEF IInv, TypeOK, Beginning
<1>4. Guarded'
  BY <1>1 DEF IInv, TypeOK, Guarded
<1>5. Shared'
  BY <1>1 DEF IInv, TypeOK, Shared
<1>6. Releases'
  BY <1>1 DEF IInv, TypeOK, Releases
<1>7. WrapperOwns'
  BY <1>1 DEF IInv, TypeOK, WrapperOwns
<1>8. BatchOwns'
  BY <1>1 DEF IInv, TypeOK, BatchOwns
<1>9. InstanceDrops'
  BY <1>1 DEF IInv, TypeOK, InstanceDrops
<1>10. InstanceAlive'
  BY <1>1 DEF IInv, TypeOK, InstanceAlive
<1>11. LibraryOwners'
  BY <1>1 DEF IInv, TypeOK, Beginning, LibraryOwners
<1>12. LibraryLoaded'
  BY <1>1 DEF IInv, TypeOK, Beginning, LibraryLoaded
<1> QED
  BY <1>2, <1>3, <1>4, <1>5, <1>6, <1>7, <1>8, <1>9, <1>10, <1>11, <1>12
     DEF IInv

(* load keeps the new instance: a fresh one, owned by the wrapper alone.   *)
LEMMA LoadKeptStep ==
  ASSUME IInv, NEW i \in Instances, Load(i), wrapper' = "loaded", UNCHANGED task
  PROVE  IInv'
<1> USE TaskFields, LifetimeAssumption DEF Does, Load, LoadKeeping, Make, Resting
<1>1. task' = task
  OBVIOUS
<1>2. TypeOK'
  BY <1>1, TaskTypes DEF IInv, TypeOK
<1>3. Beginning'
  BY <1>1 DEF IInv, TypeOK, Beginning
<1>4. Guarded'
  BY <1>1 DEF IInv, TypeOK, Guarded
<1>5. Shared'
  BY <1>1 DEF IInv, TypeOK, Shared, InstanceAlive
<1>6. Releases'
  BY <1>1 DEF IInv, TypeOK, Releases
<1>7. WrapperOwns'
  BY <1>1 DEF IInv, TypeOK, WrapperOwns
<1>8. BatchOwns'
  BY <1>1 DEF IInv, TypeOK, BatchOwns
<1>9. InstanceDrops'
  BY <1>1 DEF IInv, TypeOK, InstanceDrops, InstanceAlive
<1>10. InstanceAlive'
  BY <1>1 DEF IInv, TypeOK, InstanceAlive
<1>11. LibraryOwners'
  BY <1>1 DEF IInv, TypeOK, LibraryOwners
<1>12. LibraryLoaded'
  BY <1>1 DEF IInv, TypeOK, LibraryOwners, LibraryLoaded
<1> QED
  BY <1>2, <1>3, <1>4, <1>5, <1>6, <1>7, <1>8, <1>9, <1>10, <1>11, <1>12
     DEF IInv

(* load refuses the signature of an instance and drops it again.           *)
LEMMA LoadRejectedStep ==
  ASSUME IInv, NEW i \in Instances, Load(i),
         Then(Host, DropOf(i, "wrapper")), UNCHANGED wrapper
  PROVE  IInv'
<1> USE TaskFields, LifetimeAssumption DEF Does, Load, LoadKeeping, Make, DropOf
<1>1. \A u \in Threads : task'[u] =
       IF u = Host THEN DropOf(i, "wrapper")
       ELSE task[u]
  BY DEF IInv, TypeOK, Then
<1>2. TypeOK'
  BY <1>1, TaskTypes DEF IInv, TypeOK, Then
<1>3. Beginning'
  BY <1>1 DEF IInv, TypeOK, Beginning
<1>4. Guarded'
  BY <1>1 DEF IInv, TypeOK, Guarded
<1>5. Shared'
  BY <1>1, SMTT(40) DEF IInv, TypeOK, Shared, InstanceAlive
<1>6. Releases'
  BY <1>1 DEF IInv, TypeOK, Releases
<1>7. WrapperOwns'
  BY <1>1 DEF IInv, TypeOK, WrapperOwns
<1>8. BatchOwns'
  BY <1>1 DEF IInv, TypeOK, BatchOwns
<1>9. InstanceDrops'
  BY <1>1 DEF IInv, TypeOK, InstanceDrops, InstanceAlive
<1>10. InstanceAlive'
  BY <1>1 DEF IInv, TypeOK, InstanceAlive
<1>11. LibraryOwners'
  BY <1>1 DEF IInv, TypeOK, LibraryOwners
<1>12. LibraryLoaded'
  BY <1>1 DEF IInv, TypeOK, LibraryOwners, LibraryLoaded
<1> QED
  BY <1>2, <1>3, <1>4, <1>5, <1>6, <1>7, <1>8, <1>9, <1>10, <1>11, <1>12
     DEF IInv

(* load fails and leaves no owner.                                         *)
LEMMA LoadFailsStep ==
  ASSUME IInv, NEW i \in Instances, LoadFails(i)
  PROVE  IInv'
<1> USE TaskFields, LifetimeAssumption DEF Does, LoadFails
<1>1. task' = task
  OBVIOUS
<1>2. TypeOK'
  BY <1>1, TaskTypes DEF IInv, TypeOK
<1>3. Beginning'
  BY <1>1 DEF IInv, TypeOK, Beginning
<1>4. Guarded'
  BY <1>1 DEF IInv, TypeOK, Guarded
<1>5. Shared'
  BY <1>1 DEF IInv, TypeOK, Shared
<1>6. Releases'
  BY <1>1 DEF IInv, TypeOK, Releases
<1>7. WrapperOwns'
  BY <1>1 DEF IInv, TypeOK, WrapperOwns
<1>8. BatchOwns'
  BY <1>1 DEF IInv, TypeOK, BatchOwns
<1>9. InstanceDrops'
  BY <1>1 DEF IInv, TypeOK, InstanceDrops
<1>10. InstanceAlive'
  BY <1>1 DEF IInv, TypeOK, InstanceAlive
<1>11. LibraryOwners'
  BY <1>1 DEF IInv, TypeOK, LibraryOwners
<1>12. LibraryLoaded'
  BY <1>1 DEF IInv, TypeOK, LibraryLoaded
<1> QED
  BY <1>2, <1>3, <1>4, <1>5, <1>6, <1>7, <1>8, <1>9, <1>10, <1>11, <1>12
     DEF IInv

(* infer: the batch is fresh, and the guard of the host holds it.          *)
LEMMA InferStep ==
  ASSUME IInv, NEW b \in Batches, Infer(b)
  PROVE  IInv'
<1> USE TaskFields, LifetimeAssumption DEF Does, Infer, Guard
<1>1. \A u \in Threads : task'[u] =
       IF u = Host THEN Guard(b)
       ELSE task[u]
  BY DEF IInv, TypeOK, Then
<1>2. TypeOK'
  BY <1>1, TaskTypes DEF IInv, TypeOK, Then
<1>3. Beginning'
  BY <1>1 DEF IInv, TypeOK, Beginning
<1>4. Guarded'
  BY <1>1 DEF IInv, TypeOK, Guarded
<1>5. Shared'
  BY <1>1 DEF IInv, TypeOK, Shared
<1>6. Releases'
  BY <1>1 DEF IInv, TypeOK, Releases
<1>7. WrapperOwns'
  BY <1>1 DEF IInv, TypeOK, WrapperOwns
<1>8. BatchOwns'
  BY <1>1, SMTT(40) DEF IInv, TypeOK, BatchOwns, InstanceDrops
<1>9. InstanceDrops'
  BY <1>1 DEF IInv, TypeOK, InstanceDrops
<1>10. InstanceAlive'
  BY <1>1 DEF IInv, TypeOK, InstanceAlive
<1>11. LibraryOwners'
  BY <1>1 DEF IInv, TypeOK, LibraryOwners
<1>12. LibraryLoaded'
  BY <1>1 DEF IInv, TypeOK, LibraryLoaded
<1> QED
  BY <1>2, <1>3, <1>4, <1>5, <1>6, <1>7, <1>8, <1>9, <1>10, <1>11, <1>12
     DEF IInv

(* The guard releases a batch that nobody shares.                          *)
LEMMA GuardReleasesStep ==
  ASSUME IInv, GuardReleases
  PROVE  IInv'
<1> USE TaskFields, LifetimeAssumption DEF Does, GuardReleases, Idle
<1>1. \A u \in Threads : task'[u] =
       IF u = Host THEN Idle
       ELSE task[u]
  BY DEF IInv, TypeOK, Then
<1>2. TypeOK'
  BY <1>1, TaskTypes DEF IInv, TypeOK, Then
<1>3. Beginning'
  BY <1>1 DEF IInv, TypeOK, Beginning
<1>4. Guarded'
  BY <1>1 DEF IInv, TypeOK, Guarded
<1>5. Shared'
  BY <1>1 DEF IInv, TypeOK, Guarded, Shared
<1>6. Releases'
  BY <1>1 DEF IInv, TypeOK, Guarded, Releases
<1>7. WrapperOwns'
  BY <1>1 DEF IInv, TypeOK, WrapperOwns
<1>8. BatchOwns'
  BY <1>1 DEF IInv, TypeOK, Guarded, BatchOwns
<1>9. InstanceDrops'
  BY <1>1 DEF IInv, TypeOK, InstanceDrops
<1>10. InstanceAlive'
  BY <1>1 DEF IInv, TypeOK, InstanceAlive
<1>11. LibraryOwners'
  BY <1>1 DEF IInv, TypeOK, LibraryOwners
<1>12. LibraryLoaded'
  BY <1>1 DEF IInv, TypeOK, LibraryLoaded
<1> QED
  BY <1>2, <1>3, <1>4, <1>5, <1>6, <1>7, <1>8, <1>9, <1>10, <1>11, <1>12
     DEF IInv

(* The SharedBatch takes over: the batch becomes an owner of the instance. *)
LEMMA ShareStep ==
  ASSUME IInv, Share
  PROVE  IInv'
<1> USE TaskFields, LifetimeAssumption DEF Does, Share, ShareAs, Idle
<1>1. \A u \in Threads : task'[u] =
       IF u = Host THEN Idle
       ELSE task[u]
  BY DEF IInv, TypeOK, Then
<1>2. TypeOK'
  BY <1>1, TaskTypes DEF IInv, TypeOK, Then
<1>3. Beginning'
  BY <1>1 DEF IInv, TypeOK, Beginning
<1>4. Guarded'
  BY <1>1 DEF IInv, TypeOK, Guarded
<1>5. Shared'
  <2> DEFINE b == task[Host].b
  <2>1. /\ Does(Host, "guard") /\ b \in Batches /\ batch[b] = "plugin"
        /\ maker' = maker /\ maker[b] \in Instances
        /\ batch' = [batch EXCEPT ![b] = "shared"]
        /\ instOwners' = [instOwners EXCEPT ![maker[b]] = @ \cup {b}]
        /\ refs' = [refs EXCEPT ![b] = {Host}]
    BY DEF IInv, TypeOK, Guarded
  <2> HIDE DEF b, Share, ShareAs
  <2>2. refs' = [c \in Batches |-> IF c = b THEN {Host} ELSE refs[c]]
        /\ batch' = [c \in Batches |-> IF c = b THEN "shared" ELSE batch[c]]
        /\ \A i \in Instances : instOwners'[i] = IF i = maker[b] THEN instOwners[i] \cup {b}
                                                              ELSE instOwners[i]
    BY <2>1 DEF IInv, TypeOK
  <2>3. ASSUME NEW c \in Batches
        PROVE  /\ refs'[c] # {} => batch'[c] = "shared"
               /\ batch'[c] = "shared" => c \in instOwners'[maker'[c]]
    BY <2>1, <2>2, <2>3 DEF IInv, TypeOK, Shared
  <2>4. ASSUME NEW c \in Batches, batch'[c] = "shared", refs'[c] = {}
        PROVE  \E t \in Threads : Does(t, "release")' /\ task'[t].b = c
    <3>1. c # b /\ batch[c] = "shared" /\ refs[c] = {}
      BY <2>2, <2>4
    <3>2. PICK t \in Threads : Does(t, "release") /\ task[t].b = c
      BY <3>1 DEF IInv, Shared
    <3>3. t # Host
      BY <2>1, <3>2
    <3>4. task'[t] = task[t]
      BY <1>1, <3>3
    <3> QED
      BY <3>2, <3>4
  <2> QED
    BY <2>3, <2>4 DEF Shared
<1>6. Releases'
  BY <1>1 DEF IInv, TypeOK, Guarded, Releases
<1>7. WrapperOwns'
  BY <1>1 DEF IInv, TypeOK, WrapperOwns
<1>8. BatchOwns'
  BY <1>1 DEF IInv, TypeOK, BatchOwns
<1>9. InstanceDrops'
  BY <1>1 DEF IInv, TypeOK, Guarded, InstanceDrops
<1>10. InstanceAlive'
  BY <1>1, SMTT(40) DEF IInv, TypeOK, Guarded, InstanceAlive
<1>11. LibraryOwners'
  BY <1>1 DEF IInv, TypeOK, LibraryOwners
<1>12. LibraryLoaded'
  BY <1>1 DEF IInv, TypeOK, LibraryLoaded
<1> QED
  BY <1>2, <1>3, <1>4, <1>5, <1>6, <1>7, <1>8, <1>9, <1>10, <1>11, <1>12
     DEF IInv

(* A tensor is handed on.                                                  *)
LEMMA RetainStep ==
  ASSUME IInv, NEW t \in Threads, NEW b \in Batches, Retain(t, b)
  PROVE  IInv'
<1> USE TaskFields, LifetimeAssumption DEF Does, Retain
<1>1. task' = task
  OBVIOUS
<1>2. TypeOK'
  BY <1>1, TaskTypes DEF IInv, TypeOK
<1>3. Beginning'
  BY <1>1 DEF IInv, TypeOK, Beginning
<1>4. Guarded'
  BY <1>1 DEF IInv, TypeOK, Guarded
<1>5. Shared'
  BY <1>1 DEF IInv, TypeOK, Shared
<1>6. Releases'
  BY <1>1 DEF IInv, TypeOK, Releases
<1>7. WrapperOwns'
  BY <1>1 DEF IInv, TypeOK, WrapperOwns
<1>8. BatchOwns'
  BY <1>1 DEF IInv, TypeOK, BatchOwns
<1>9. InstanceDrops'
  BY <1>1 DEF IInv, TypeOK, InstanceDrops
<1>10. InstanceAlive'
  BY <1>1 DEF IInv, TypeOK, InstanceAlive
<1>11. LibraryOwners'
  BY <1>1 DEF IInv, TypeOK, LibraryOwners
<1>12. LibraryLoaded'
  BY <1>1 DEF IInv, TypeOK, LibraryLoaded
<1> QED
  BY <1>2, <1>3, <1>4, <1>5, <1>6, <1>7, <1>8, <1>9, <1>10, <1>11, <1>12
     DEF IInv

(* A tensor is dropped; only the last one leads to a release.              *)
LEMMA DropStep ==
  ASSUME IInv, NEW t \in Threads, NEW b \in Batches, Drop(t, b)
  PROVE  IInv'
<1> USE TaskFields, LifetimeAssumption DEF Does, Drop, ReleaseOf, Idle
<1>1. \A u \in Threads : task'[u] =
       IF u = t THEN (IF refs[b] = {t} THEN ReleaseOf(b) ELSE Idle)
       ELSE task[u]
  BY DEF IInv, TypeOK, Then
<1>2. TypeOK'
  BY <1>1, TaskTypes DEF IInv, TypeOK, Then
<1>3. Beginning'
  BY <1>1 DEF IInv, TypeOK, Beginning, Shared
<1>4. Guarded'
  BY <1>1 DEF IInv, TypeOK, Guarded
<1>5. Shared'
  BY <1>1, SMTT(40) DEF IInv, TypeOK, Shared
<1>6. Releases'
  BY <1>1 DEF IInv, TypeOK, Shared, Releases
<1>7. WrapperOwns'
  BY <1>1 DEF IInv, TypeOK, WrapperOwns
<1>8. BatchOwns'
  BY <1>1 DEF IInv, TypeOK, BatchOwns
<1>9. InstanceDrops'
  BY <1>1 DEF IInv, TypeOK, InstanceDrops
<1>10. InstanceAlive'
  BY <1>1 DEF IInv, TypeOK, InstanceAlive
<1>11. LibraryOwners'
  BY <1>1 DEF IInv, TypeOK, LibraryOwners
<1>12. LibraryLoaded'
  BY <1>1 DEF IInv, TypeOK, LibraryLoaded
<1> QED
  BY <1>2, <1>3, <1>4, <1>5, <1>6, <1>7, <1>8, <1>9, <1>10, <1>11, <1>12
     DEF IInv

(* The batch is released while it still owns its instance.                 *)
LEMMA ReleaseBatchStep ==
  ASSUME IInv, NEW t \in Threads, ReleaseBatch(t)
  PROVE  IInv'
<1> USE TaskFields, LifetimeAssumption DEF Does, ReleaseBatch, DropOf
<1>1. \A u \in Threads : task'[u] =
       IF u = t THEN DropOf(maker[task[t].b], task[t].b)
       ELSE task[u]
  BY DEF IInv, TypeOK, Then
<1>2. TypeOK'
  BY <1>1, TaskTypes DEF IInv, TypeOK, Then
<1>3. Beginning'
  BY <1>1 DEF IInv, TypeOK, Beginning
<1>4. Guarded'
  BY <1>1 DEF IInv, TypeOK, Guarded, Shared, Releases
<1>5. Shared'
  BY <1>1 DEF IInv, TypeOK, Shared, Releases
<1>6. Releases'
  BY <1>1 DEF IInv, TypeOK, Releases
<1>7. WrapperOwns'
  BY <1>1 DEF IInv, TypeOK, WrapperOwns
<1>8. BatchOwns'
  BY <1>1 DEF IInv, TypeOK, BatchOwns
<1>9. InstanceDrops'
  BY <1>1 DEF IInv, TypeOK, Shared, Releases, InstanceDrops
<1>10. InstanceAlive'
  BY <1>1 DEF IInv, TypeOK, InstanceAlive
<1>11. LibraryOwners'
  BY <1>1 DEF IInv, TypeOK, LibraryOwners
<1>12. LibraryLoaded'
  BY <1>1 DEF IInv, TypeOK, LibraryLoaded
<1> QED
  BY <1>2, <1>3, <1>4, <1>5, <1>6, <1>7, <1>8, <1>9, <1>10, <1>11, <1>12
     DEF IInv

(* An owner of an instance is gone; only the last one leads to destruction. *)
LEMMA DropInstanceStep ==
  ASSUME IInv, NEW t \in Threads, DropInstance(t)
  PROVE  IInv'
<1> USE TaskFields, LifetimeAssumption DEF Does, DropInstance, DestroyOf, Idle
<1>1. \A u \in Threads : task'[u] =
       IF u = t THEN (IF instOwners[task[t].i] = {task[t].owner}
                        THEN DestroyOf(task[t].i) ELSE Idle)
       ELSE task[u]
  BY DEF IInv, TypeOK, Then, InstanceDrops
<1>2. TypeOK'
  BY <1>1, TaskTypes DEF IInv, TypeOK, Then
<1>3. Beginning'
  BY <1>1 DEF IInv, TypeOK, Beginning
<1>4. Guarded'
  BY <1>1 DEF IInv, TypeOK, Guarded, InstanceDrops
<1>5. Shared'
  BY <1>1 DEF IInv, TypeOK, Shared, InstanceDrops
<1>6. Releases'
  BY <1>1 DEF IInv, TypeOK, Releases
<1>7. WrapperOwns'
  BY <1>1 DEF IInv, TypeOK, WrapperOwns
<1>8. BatchOwns'
  BY <1>1 DEF IInv, TypeOK, BatchOwns
<1>9. InstanceDrops'
  BY <1>1 DEF IInv, TypeOK, InstanceDrops
<1>10. InstanceAlive'
  BY <1>1 DEF IInv, TypeOK, InstanceDrops, InstanceAlive
<1>11. LibraryOwners'
  BY <1>1 DEF IInv, TypeOK, LibraryOwners
<1>12. LibraryLoaded'
  BY <1>1 DEF IInv, TypeOK, LibraryLoaded
<1> QED
  BY <1>2, <1>3, <1>4, <1>5, <1>6, <1>7, <1>8, <1>9, <1>10, <1>11, <1>12
     DEF IInv

(* The instance is destroyed while its deleter still owns the library.     *)
LEMMA DestroyInstanceStep ==
  ASSUME IInv, NEW t \in Threads, DestroyInstance(t)
  PROVE  IInv'
<1> USE TaskFields, LifetimeAssumption DEF Does, DestroyInstance, DropLibOf
<1>1. \A u \in Threads : task'[u] =
       IF u = t THEN DropLibOf(task[t].i)
       ELSE task[u]
  BY DEF IInv, TypeOK, Then
<1>2. TypeOK'
  BY <1>1, TaskTypes DEF IInv, TypeOK, Then
<1>3. Beginning'
  BY <1>1 DEF IInv, TypeOK, Beginning
<1>4. Guarded'
  BY <1>1 DEF IInv, TypeOK, Guarded
<1>5. Shared'
  BY <1>1 DEF IInv, TypeOK, Shared
<1>6. Releases'
  BY <1>1 DEF IInv, TypeOK, Releases
<1>7. WrapperOwns'
  BY <1>1 DEF IInv, TypeOK, WrapperOwns
<1>8. BatchOwns'
  BY <1>1 DEF IInv, TypeOK, BatchOwns
<1>9. InstanceDrops'
  BY <1>1 DEF IInv, TypeOK, InstanceDrops
<1>10. InstanceAlive'
  BY <1>1 DEF IInv, TypeOK, InstanceAlive
<1>11. LibraryOwners'
  BY <1>1, SMTT(40) DEF IInv, TypeOK, InstanceAlive, LibraryOwners
<1>12. LibraryLoaded'
  BY <1>1 DEF IInv, TypeOK, LibraryLoaded
<1> QED
  BY <1>2, <1>3, <1>4, <1>5, <1>6, <1>7, <1>8, <1>9, <1>10, <1>11, <1>12
     DEF IInv

(* An owner of the library is gone; only the last one leads to unloading.  *)
LEMMA DropLibraryStep ==
  ASSUME IInv, NEW t \in Threads, DropLibrary(t)
  PROVE  IInv'
<1> USE TaskFields, LifetimeAssumption DEF Does, DropLibrary, UnloadIt, Idle
<1>1. \A u \in Threads : task'[u] =
       IF u = t THEN (IF libOwners = {task[t].owner} THEN UnloadIt ELSE Idle)
       ELSE task[u]
  BY DEF IInv, TypeOK, Then, LibraryOwners
<1>2. TypeOK'
  BY <1>1, TaskTypes DEF IInv, TypeOK, Then
<1>3. Beginning'
  BY <1>1 DEF IInv, TypeOK, Beginning
<1>4. Guarded'
  BY <1>1 DEF IInv, TypeOK, Guarded
<1>5. Shared'
  BY <1>1 DEF IInv, TypeOK, Shared
<1>6. Releases'
  BY <1>1 DEF IInv, TypeOK, Releases
<1>7. WrapperOwns'
  BY <1>1 DEF IInv, TypeOK, WrapperOwns
<1>8. BatchOwns'
  BY <1>1 DEF IInv, TypeOK, BatchOwns
<1>9. InstanceDrops'
  BY <1>1 DEF IInv, TypeOK, InstanceDrops
<1>10. InstanceAlive'
  BY <1>1 DEF IInv, TypeOK, InstanceAlive
<1>11. LibraryOwners'
  BY <1>1 DEF IInv, TypeOK, LibraryOwners
<1>12. LibraryLoaded'
  BY <1>1 DEF IInv, TypeOK, LibraryOwners, LibraryLoaded
<1> QED
  BY <1>2, <1>3, <1>4, <1>5, <1>6, <1>7, <1>8, <1>9, <1>10, <1>11, <1>12
     DEF IInv

(* The library is unloaded when nobody owns it.                            *)
LEMMA UnloadStep ==
  ASSUME IInv, NEW t \in Threads, Unload(t)
  PROVE  IInv'
<1> USE TaskFields, LifetimeAssumption DEF Does, Unload, Idle
<1>1. \A u \in Threads : task'[u] =
       IF u = t THEN Idle
       ELSE task[u]
  BY DEF IInv, TypeOK, Then
<1>2. TypeOK'
  BY <1>1, TaskTypes DEF IInv, TypeOK, Then
<1>3. Beginning'
  BY <1>1 DEF IInv, TypeOK, Beginning
<1>4. Guarded'
  BY <1>1 DEF IInv, TypeOK, Guarded
<1>5. Shared'
  BY <1>1 DEF IInv, TypeOK, Shared
<1>6. Releases'
  BY <1>1 DEF IInv, TypeOK, Releases
<1>7. WrapperOwns'
  BY <1>1 DEF IInv, TypeOK, WrapperOwns
<1>8. BatchOwns'
  BY <1>1 DEF IInv, TypeOK, BatchOwns
<1>9. InstanceDrops'
  BY <1>1 DEF IInv, TypeOK, InstanceDrops
<1>10. InstanceAlive'
  BY <1>1 DEF IInv, TypeOK, InstanceAlive
<1>11. LibraryOwners'
  BY <1>1 DEF IInv, TypeOK, LibraryOwners
<1>12. LibraryLoaded'
  BY <1>1 DEF IInv, TypeOK, LibraryLoaded
<1> QED
  BY <1>2, <1>3, <1>4, <1>5, <1>6, <1>7, <1>8, <1>9, <1>10, <1>11, <1>12
     DEF IInv

(* ~DynamicBackend drops the instance of the last successful load.         *)
LEMMA DestroyHoldingStep ==
  ASSUME IInv, NEW i \in Instances, DestroyWrapper,
         "wrapper" \in instOwners[i], Then(Host, DropOf(i, "wrapper"))
  PROVE  IInv'
<1> USE TaskFields, LifetimeAssumption DEF Does, DestroyWrapper, DropOf
<1>1. \A u \in Threads : task'[u] =
       IF u = Host THEN DropOf(i, "wrapper")
       ELSE task[u]
  BY DEF IInv, TypeOK, Then
<1>2. TypeOK'
  BY <1>1, TaskTypes DEF IInv, TypeOK, Then
<1>3. Beginning'
  BY <1>1 DEF IInv, TypeOK, Beginning
<1>4. Guarded'
  BY <1>1 DEF IInv, TypeOK, Guarded
<1>5. Shared'
  BY <1>1 DEF IInv, TypeOK, Shared
<1>6. Releases'
  BY <1>1 DEF IInv, TypeOK, Releases
<1>7. WrapperOwns'
  BY <1>1 DEF IInv, TypeOK, WrapperOwns
<1>8. BatchOwns'
  BY <1>1 DEF IInv, TypeOK, BatchOwns
<1>9. InstanceDrops'
  BY <1>1 DEF IInv, TypeOK, InstanceDrops
<1>10. InstanceAlive'
  BY <1>1 DEF IInv, TypeOK, InstanceAlive
<1>11. LibraryOwners'
  BY <1>1 DEF IInv, TypeOK, LibraryOwners
<1>12. LibraryLoaded'
  BY <1>1 DEF IInv, TypeOK, LibraryLoaded
<1> QED
  BY <1>2, <1>3, <1>4, <1>5, <1>6, <1>7, <1>8, <1>9, <1>10, <1>11, <1>12
     DEF IInv

(* ~DynamicBackend of a wrapper without an instance.                       *)
LEMMA DestroyEmptyStep ==
  ASSUME IInv, DestroyWrapper,
         \A i \in Instances : "wrapper" \notin instOwners[i], UNCHANGED task
  PROVE  IInv'
<1> USE TaskFields, LifetimeAssumption DEF Does, DestroyWrapper, Resting
<1>1. task' = task
  OBVIOUS
<1>2. TypeOK'
  BY <1>1, TaskTypes DEF IInv, TypeOK
<1>3. Beginning'
  BY <1>1 DEF IInv, TypeOK, Beginning
<1>4. Guarded'
  BY <1>1 DEF IInv, TypeOK, Guarded
<1>5. Shared'
  BY <1>1 DEF IInv, TypeOK, Shared
<1>6. Releases'
  BY <1>1 DEF IInv, TypeOK, Releases
<1>7. WrapperOwns'
  BY <1>1 DEF IInv, TypeOK, WrapperOwns
<1>8. BatchOwns'
  BY <1>1 DEF IInv, TypeOK, BatchOwns
<1>9. InstanceDrops'
  BY <1>1 DEF IInv, TypeOK, InstanceDrops
<1>10. InstanceAlive'
  BY <1>1 DEF IInv, TypeOK, InstanceAlive
<1>11. LibraryOwners'
  BY <1>1 DEF IInv, TypeOK, LibraryOwners
<1>12. LibraryLoaded'
  BY <1>1 DEF IInv, TypeOK, LibraryLoaded
<1> QED
  BY <1>2, <1>3, <1>4, <1>5, <1>6, <1>7, <1>8, <1>9, <1>10, <1>11, <1>12
     DEF IInv

(* ~DynamicBackend drops the library last.                                 *)
LEMMA DropWrapperLibraryStep ==
  ASSUME IInv, DropWrapperLibrary
  PROVE  IInv'
<1> USE TaskFields, LifetimeAssumption DEF Does, DropWrapperLibrary, DropLibOf
<1>1. \A u \in Threads : task'[u] =
       IF u = Host THEN DropLibOf("wrapper")
       ELSE task[u]
  BY DEF IInv, TypeOK, Then
<1>2. TypeOK'
  BY <1>1, TaskTypes DEF IInv, TypeOK, Then
<1>3. Beginning'
  BY <1>1 DEF IInv, TypeOK, Beginning
<1>4. Guarded'
  BY <1>1 DEF IInv, TypeOK, Guarded
<1>5. Shared'
  BY <1>1 DEF IInv, TypeOK, Shared
<1>6. Releases'
  BY <1>1 DEF IInv, TypeOK, Releases
<1>7. WrapperOwns'
  BY <1>1 DEF IInv, TypeOK, WrapperOwns
<1>8. BatchOwns'
  BY <1>1 DEF IInv, TypeOK, BatchOwns
<1>9. InstanceDrops'
  BY <1>1 DEF IInv, TypeOK, InstanceDrops
<1>10. InstanceAlive'
  BY <1>1 DEF IInv, TypeOK, InstanceAlive
<1>11. LibraryOwners'
  BY <1>1 DEF IInv, TypeOK, LibraryOwners
<1>12. LibraryLoaded'
  BY <1>1 DEF IInv, TypeOK, LibraryLoaded
<1> QED
  BY <1>2, <1>3, <1>4, <1>5, <1>6, <1>7, <1>8, <1>9, <1>10, <1>11, <1>12
     DEF IInv
-----------------------------------------------------------------------------
(* What the ownership says about the code and the memory that is in use.   *)
LEMMA AliveIsLoaded ==
  ASSUME IInv
  PROVE  /\ \A i \in Instances : inst[i] = "alive" => lib = "loaded"
         /\ \A b \in Batches :
              batch[b] \in {"plugin", "shared"} => inst[maker[b]] = "alive" /\ maker[b] \in Instances
<1>1. \A b \in Batches : maker[b] \in Instances
  BY DEF IInv, TypeOK
<1>2. \A i \in Instances : inst[i] = "alive" => lib = "loaded"
  BY DEF IInv, InstanceAlive, LibraryOwners, LibraryLoaded
<1>3. ASSUME NEW b \in Batches, batch[b] = "plugin" PROVE inst[maker[b]] = "alive"
  BY <1>1, <1>3, LifetimeAssumption DEF IInv, Guarded, InstanceAlive, Does
<1>4. ASSUME NEW b \in Batches, batch[b] = "shared" PROVE inst[maker[b]] = "alive"
  BY <1>1, <1>4 DEF IInv, Shared, InstanceAlive
<1> QED
  BY <1>1, <1>2, <1>3, <1>4

LEMMA Steps == IInv /\ Next => IInv'
<1> SUFFICES ASSUME IInv, Next PROVE IInv'
  OBVIOUS
<1>1. CASE Backend
  <2>1. ASSUME NEW i \in Instances, Load(i) PROVE IInv'
    BY <2>1, LoadKeptStep, LoadRejectedStep DEF Load, LoadKeeping
  <2>2. CASE DestroyWrapper
    BY <2>2, DestroyHoldingStep, DestroyEmptyStep DEF DestroyWrapper
  <2> QED
    BY <1>1, <2>1, <2>2, CreateStep, LoadFailsStep, InferStep, GuardReleasesStep, ShareStep,
       DropWrapperLibraryStep DEF Backend
<1>2. ASSUME NEW t \in Threads, Destructors(t) PROVE IInv'
  BY <1>2, ReleaseBatchStep, DropInstanceStep, DestroyInstanceStep, DropLibraryStep, UnloadStep
     DEF Destructors
<1>3. ASSUME NEW t \in Threads, NEW b \in Batches, Retain(t, b) \/ Drop(t, b) PROVE IInv'
  BY <1>3, RetainStep, DropStep
<1> QED
  BY <1>1, <1>2, <1>3 DEF Next

(* IInv holds in every reachable state, for any threads, batches and       *)
(* instances.                                                              *)
THEOREM Safety == Spec => []IInv
<1>1. Init => IInv
  BY InitIInv
<1>2. IInv /\ [Next]_vars => IInv'
  BY Steps, Stuttering
<1> QED
  BY <1>1, <1>2, PTL DEF Spec

(* The variables of the plugin boundary keep their types.                  *)
THEOREM TypeCorrect == Spec => []TypeOK
<1>1. IInv => TypeOK
  BY DEF IInv
<1> QED
  BY <1>1, Safety, PTL

(* The shared_ptr chain of backend_plugin.cpp: no destructor runs plugin   *)
(* code that another thread has unloaded.                                  *)
THEOREM CodePresent == Spec => []PluginCodePresent
<1>1. IInv => PluginCodePresent
  <2> SUFFICES ASSUME IInv, lib # "loaded" PROVE PluginCodePresent
    BY DEF PluginCodePresent
  <2>1. \A i \in Instances : inst[i] # "alive"
    BY AliveIsLoaded
  <2>2. ASSUME NEW t \in Threads
        PROVE  task[t].do \notin {"guard", "release", "destroy", "unload"}
    BY <2>1, AliveIsLoaded, TaskFields
       DEF IInv, Guarded, Releases, InstanceAlive, LibraryLoaded, Does
  <2> QED
    BY <2>1, <2>2 DEF PluginCodePresent
<1> QED
  BY <1>1, Safety, PTL

(* A tensor keeps its batch, its instance and the plugin, on any thread    *)
(* and also after the wrapper is gone.                                     *)
THEOREM Readable == Spec => []TensorsReadable
<1>1. IInv => TensorsReadable
  BY AliveIsLoaded DEF IInv, Shared, TensorsReadable
<1> QED
  BY <1>1, Safety, PTL

(* Nothing is freed twice or before what was made by it.                   *)
THEOREM Freeing == Spec => []FreedInOrder
<1>1. IInv => FreedInOrder
  <2> SUFFICES ASSUME IInv PROVE FreedInOrder
    OBVIOUS
  <2>1. ASSUME NEW t \in Threads
        PROVE  /\ task[t].do \in {"guard", "release"} => batch[task[t].b] \in {"plugin", "shared"}
               /\ task[t].do = "destroy" => inst[task[t].i] = "alive"
               /\ task[t].do = "unload" => lib = "loaded"
    BY <2>1 DEF IInv, Guarded, Releases, InstanceAlive, LibraryLoaded, Does
  <2>2. ASSUME NEW t \in Threads, NEW u \in Threads, t # u,
               task[t].do \in {"release", "destroy", "unload"}
        PROVE  task[t] # task[u]
    BY <2>2 DEF IInv, Releases, InstanceAlive, LibraryLoaded, Does
  <2> QED
    BY <2>1, <2>2, AliveIsLoaded DEF FreedInOrder
<1> QED
  BY <1>1, Safety, PTL

(* When the wrapper is gone, no tensor is held and no destructor runs,     *)
(* everything has been freed.                                              *)
THEOREM Leakless == Spec => []NoLeak
<1>1. IInv => NoLeak
  <2> SUFFICES ASSUME IInv, wrapper = "gone", \A b \in Batches : refs[b] = {},
                      \A t \in Threads : Resting(t)
               PROVE  /\ lib = "unloaded"
                      /\ \A i \in Instances : inst[i] # "alive"
                      /\ \A b \in Batches : batch[b] \notin {"plugin", "shared"}
    BY DEF NoLeak
  <2>1. \A t \in Threads : Does(t, "idle")
    BY TaskFields DEF IInv
  <2>2. \A b \in Batches : batch[b] \notin {"plugin", "shared"}
    BY <2>1, LifetimeAssumption DEF IInv, Guarded, Shared, Does
  <2>3. \A i \in Instances : instOwners[i] = {}
    <3> SUFFICES ASSUME NEW i \in Instances, instOwners[i] # {} PROVE FALSE
      OBVIOUS
    <3>1. PICK o \in Batches \cup {"wrapper"} : o \in instOwners[i]
      BY DEF IInv, TypeOK
    <3>2. CASE o = "wrapper"
      BY <2>1, <3>1, <3>2, LifetimeAssumption DEF IInv, WrapperOwns, Does
    <3>3. CASE o \in Batches
      BY <2>1, <2>2, <3>1, <3>3 DEF IInv, BatchOwns, Does
    <3> QED
      BY <3>1, <3>2, <3>3
  <2>4. \A i \in Instances : inst[i] # "alive"
    BY <2>1, <2>3 DEF IInv, InstanceAlive, Does
  <2>5. libOwners = {}
    BY <2>1, <2>4 DEF IInv, TypeOK, LibraryOwners, Does
  <2>6. lib # "loaded" /\ lib # "none"
    BY <2>1, <2>5 DEF IInv, LibraryLoaded, Beginning, Does
  <2> QED
    BY <2>2, <2>4, <2>6 DEF IInv, TypeOK
<1> QED
  BY <1>1, Safety, PTL
-----------------------------------------------------------------------------
OneSession == \A k, l \in Loaders : k = l

BuildOf(l) == [by |-> l, for |-> mem[l]]

(* A load that writes has the temporary open, and what it has written of   *)
(* it is its own build; the engine is another file, and whole.             *)
Writing ==
  /\ engine # None => Whole(engine) /\ engine # tmp
  /\ \A l \in Loaders :
       /\ pc[l] \in {"head", "tail", "rename"} => fd[l] = tmp /\ tmp # None
       /\ pc[l] \in {"tail", "rename"} => file[tmp].head = BuildOf(l)
       /\ pc[l] = "rename" => file[tmp].tail = BuildOf(l)

(* An engine in memory is for the installed driver, and the file of one    *)
(* that is ready for use, if there is a name for it, can be loaded too.    *)
Ready ==
  \A l \in Loaders :
    /\ pc[l] \in {"open", "head", "tail", "rename", "context", "loaded"} => mem[l] = version
    /\ pc[l] \in {"context", "loaded"} /\ package.cached => engine # None /\ Deserializes(engine)
    /\ pc[l] = "deserialize" => engine # None

(* Who builds may: PreferEngine, or BuildIfMissing when there is none.     *)
MayBuild(l) ==
  policy[l] = "PreferEngine" \/ (policy[l] = "BuildIfMissing" /\ engine = None)

Permitted ==
  \A l \in Loaders :
    pc[l] \in {"build", "open", "head", "tail", "rename"} => MayBuild(l)

(* A reason is one of a failed load.                                       *)
Reasoned ==
  \A l \in Loaders :
    /\ pc[l] # "failed" => reason[l] = "none"
    /\ policy[l] = "PreferEngine" =>
         /\ reason[l] # "EngineIncompatible"
         /\ reason[l] = "ArtifactMissing" => ~package.onnx \/ Listed # {}
         /\ reason[l] = "ArtifactCorrupt" => Listed # {}

EngineInv == EngineTypes /\ Writing /\ Ready /\ Permitted /\ Reasoned
-----------------------------------------------------------------------------
LEMMA BuildsTyped ==
  /\ Original \in Builds
  /\ \A b \in Builds : b # None
  BY CacheAssumption DEF Original, Builds, Versions

LEMMA Contents ==
  /\ Empty \in FileContents
  /\ Shipped \in FileContents /\ Shipped.head = Shipped.tail /\ Shipped.head # None
  BY BuildsTyped DEF Empty, Shipped, FileContents

(* The names have checksums of the files that they refer to.               *)
LEMMA FoundTyped == EngineTypes => Found \in [Names -> FileContents \cup {None}]
  BY DEF EngineTypes, Found, Content, Names


LEMMA InitEngineInv == InitEngine => EngineInv
<1> SUFFICES ASSUME InitEngine PROVE EngineInv
  OBVIOUS
<1>1. 1 \in Files /\ engine \in Files \cup {None} /\ 1 \in Versions /\ 0 \in 0..MaxCrashes
  BY CacheAssumption DEF InitEngine, Files, Versions
<1>2. file \in [Files -> FileContents] /\ (engine # None => file[engine] = Shipped)
  BY <1>1, Contents DEF InitEngine
<1>3. policy \in [Loaders -> Policies]
  BY CacheAssumption DEF InitEngine
<1>4. EngineTypes
  <2>1. package \in [onnx : BOOLEAN, cached : BOOLEAN, sums : [Names -> FileContents \cup {None}]]
    <3>1. Unlisted \in [Names -> FileContents \cup {None}]
      BY DEF Unlisted
    <3> QED
      BY <3>1 DEF InitEngine
  <2> QED
    BY <1>1, <1>2, <1>3, <2>1 DEF InitEngine, EngineTypes, Labels, Reasons, CudaErrors
<1>5. None \notin Files
  BY CacheAssumption DEF Files
<1>6. Writing
  BY <1>1, <1>2, <1>5, Contents DEF InitEngine, Writing, Whole
<1> QED
  BY <1>4, <1>6 DEF InitEngine, EngineInv, Ready, Permitted, Reasoned

LEMMA EngineStuttering == EngineInv /\ UNCHANGED engineVars => EngineInv'
  BY DEF EngineInv, engineVars, EngineTypes, Writing, Ready, Permitted, Reasoned, BuildOf, Whole, Deserializes,
         MayBuild, Listed

(* The steps of a load that leave the files alone.                         *)
LEMMA ReadingSteps ==
  ASSUME EngineInv, OneSession, NEW l \in Loaders,
         \/ Begin(l) \/ DeviceFails(l) \/ Check(l) \/ Deserialize(l) \/ Build(l)
         \/ CreateContext(l) \/ WriteFails(l) \/ Release(l) \/ Crash(l)
  PROVE  EngineInv'
<1> USE DEF OneSession, EngineInv, EngineTypes, Writing, Ready, Permitted, Reasoned, BuildOf, Whole,
            Deserializes, MayBuild, Go, Fail, Labels, Reasons, CudaErrors
<1>0. package' = package => Listed' = Listed
  BY DEF Listed
<1>1. CASE Begin(l)
  <2>1. CASE Go(l, "check") /\ UNCHANGED <<reason, fd>>
    BY <1>1, <2>1 DEF Begin
  <2>2. CASE (\E n \in Listed : Found[n] = None) /\ Fail(l, "ArtifactMissing")
    BY <1>0, <1>1, <2>2 DEF Begin
  <2>3. CASE (\E n \in Listed : Found[n] \notin {None, package.sums[n]}) /\ Fail(l, "ArtifactCorrupt")
    BY <1>0, <1>1, <2>3 DEF Begin
  <2>4. CASE Fail(l, "IoError")
    BY <1>1, <2>4 DEF Begin
  <2> QED
    BY <1>1, <2>1, <2>2, <2>3, <2>4 DEF Begin
<1>2. CASE DeviceFails(l)
  BY <1>2 DEF DeviceFails
<1>3. CASE Check(l)
  <2>1. CASE engine # None /\ Go(l, "deserialize") /\ UNCHANGED <<reason, fd>>
    BY <1>3, <2>1 DEF Check
  <2>2. CASE engine = None /\ policy[l] # "EngineOnly" /\ Go(l, "build") /\ UNCHANGED <<reason, fd>>
    <3>1. MayBuild(l)
      BY <2>2, CacheAssumption
    <3> QED
      BY <1>0, <1>3, <2>2, <3>1 DEF Check
  <2>3. CASE engine = None /\ policy[l] = "EngineOnly" /\ Fail(l, "ArtifactMissing")
    BY <1>3, <2>3 DEF Check
  <2> QED
    BY <1>3, <2>1, <2>2, <2>3 DEF Check
<1>4. CASE Deserialize(l)
  BY <1>4 DEF Deserialize, DeserializeOrBuild
<1>5. CASE Build(l)
  BY <1>5 DEF Build, BuildFails
<1>6. CASE CreateContext(l)
  BY <1>6 DEF CreateContext
<1>7. CASE WriteFails(l)
  BY <1>7 DEF WriteFails
<1>8. CASE Release(l)
  BY <1>8 DEF Release
<1>9. CASE Crash(l)
  BY <1>9, CacheAssumption DEF Crash
<1> QED
  BY <1>1, <1>2, <1>3, <1>4, <1>5, <1>6, <1>7, <1>8, <1>9

(* The temporary is opened: a file of its own, since the engine is another. *)
LEMMA OpenStep ==
  ASSUME EngineInv, OneSession, NEW l \in Loaders, Open(l)
  PROVE  EngineInv'
<1>1. PICK f \in Files : OpenFor(l, f) /\ tmp' = f /\ f # engine
  BY DEF Open, EngineInv, EngineTypes, Writing, Unused
<1>2. /\ pc[l] = "open" /\ f # None
      /\ file' = [file EXCEPT ![f] = Empty] /\ fd' = [fd EXCEPT ![l] = f]
      /\ pc' = [pc EXCEPT ![l] = "head"]
      /\ UNCHANGED <<engine, version, package, policy, mem, reason, crashes>>
  BY <1>1 DEF OpenFor, Go
<1>3. file' \in [Files -> FileContents] /\ (engine # None => file'[engine] = file[engine])
  BY <1>1, <1>2, Contents DEF EngineInv, EngineTypes, FileContents
<1>4. EngineTypes'
  BY <1>1, <1>2, <1>3 DEF EngineInv, EngineTypes, Labels, FileContents
<1> QED
  BY <1>1, <1>2, <1>3, <1>4 DEF OneSession, EngineInv, EngineTypes, Writing, Ready, Permitted, Reasoned,
     Whole, Deserializes, MayBuild

(* One half of the temporary is written.                                   *)
LEMMA WriteHeadStep ==
  ASSUME EngineInv, OneSession, NEW l \in Loaders, WriteHead(l)
  PROVE  EngineInv'
<1>1. /\ pc[l] = "head" /\ pc' = [pc EXCEPT ![l] = "tail"]
      /\ file' = [file EXCEPT ![fd[l]]["head"] = BuildOf(l)]
      /\ UNCHANGED <<engine, tmp, version, package, policy, mem, fd, reason, crashes>>
  BY DEF WriteHead, WritePart, Go, BuildOf
<1>2. fd[l] = tmp /\ tmp \in Files /\ engine # tmp /\ mem[l] = version
  BY <1>1, CacheAssumption DEF EngineInv, EngineTypes, Writing, Ready
<1>3. BuildOf(l) \in Builds /\ file[tmp] \in FileContents
  BY <1>2 DEF BuildOf, Builds, EngineInv, EngineTypes, FileContents
<1>4. /\ file'[tmp].head = BuildOf(l)
      /\ file' \in [Files -> FileContents]
      /\ engine # None => file'[engine] = file[engine]
  BY <1>1, <1>2, <1>3 DEF EngineInv, EngineTypes, FileContents
<1>5. EngineTypes'
  BY <1>1, <1>4 DEF EngineInv, EngineTypes, Labels, FileContents
<1> QED
  BY <1>1, <1>2, <1>4, <1>5 DEF OneSession, EngineInv, EngineTypes, Writing, Ready, Permitted, Reasoned,
     Whole, Deserializes, MayBuild, BuildOf

LEMMA WriteTailStep ==
  ASSUME EngineInv, OneSession, NEW l \in Loaders, WriteTail(l)
  PROVE  EngineInv'
<1>1. /\ pc[l] = "tail" /\ pc' = [pc EXCEPT ![l] = "rename"]
      /\ file' = [file EXCEPT ![fd[l]]["tail"] = BuildOf(l)]
      /\ UNCHANGED <<engine, tmp, version, package, policy, mem, fd, reason, crashes>>
  BY DEF WriteTail, WritePart, Go, BuildOf
<1>2. fd[l] = tmp /\ tmp \in Files /\ engine # tmp /\ mem[l] = version
      /\ file[tmp].head = BuildOf(l)
  BY <1>1, CacheAssumption DEF EngineInv, EngineTypes, Writing, Ready
<1>3. BuildOf(l) \in Builds /\ file[tmp] \in FileContents
  BY <1>2 DEF BuildOf, Builds, EngineInv, EngineTypes, FileContents
<1>4. /\ file'[tmp].head = BuildOf(l) /\ file'[tmp].tail = BuildOf(l)
      /\ file' \in [Files -> FileContents]
      /\ engine # None => file'[engine] = file[engine]
  BY <1>1, <1>2, <1>3 DEF EngineInv, EngineTypes, FileContents
<1>5. EngineTypes'
  BY <1>1, <1>4 DEF EngineInv, EngineTypes, Labels, FileContents
<1> QED
  BY <1>1, <1>2, <1>4, <1>5 DEF OneSession, EngineInv, EngineTypes, Writing, Ready, Permitted, Reasoned,
     Whole, Deserializes, MayBuild, BuildOf

(* The temporary, whole and for this driver, takes the engine's name.      *)
LEMMA RenameStep ==
  ASSUME EngineInv, OneSession, NEW l \in Loaders, Rename(l)
  PROVE  EngineInv'
<1>1. CASE /\ tmp # None /\ engine' = tmp /\ tmp' = None /\ Go(l, "context")
           /\ fd' = [fd EXCEPT ![l] = None] /\ UNCHANGED reason
  <2>1. /\ pc[l] = "rename" /\ pc' = [pc EXCEPT ![l] = "context"]
        /\ UNCHANGED <<file, version, package, policy, mem, crashes>>
    BY <1>1 DEF Rename, Go
  <2>2. file[tmp].head = BuildOf(l) /\ file[tmp].tail = BuildOf(l) /\ mem[l] = version
    BY <2>1 DEF EngineInv, Writing, Ready
  <2>3. BuildOf(l) # None /\ BuildOf(l).for = version
    BY <2>2, BuildsTyped DEF BuildOf, Builds, EngineInv, EngineTypes
  <2>4. Whole(engine)' /\ Deserializes(engine)'
    BY <1>1, <2>1, <2>2, <2>3 DEF Whole, Deserializes
  <2>5. EngineTypes'
    BY <1>1, <2>1 DEF EngineInv, EngineTypes, Labels
  <2> QED
    BY <1>1, <2>1, <2>2, <2>4, <2>5
       DEF OneSession, EngineInv, EngineTypes, Writing, Ready, Permitted, Reasoned
<1>2. CASE Fail(l, "IoError") /\ UNCHANGED names
  BY <1>2 DEF Rename, Fail, Go, names, OneSession, EngineInv, EngineTypes, Writing, Ready, Permitted,
     Reasoned, BuildOf, Whole, Deserializes, MayBuild, Labels, Reasons, CudaErrors
<1> QED
  BY <1>1, <1>2 DEF Rename

LEMMA UpgradeStep ==
  ASSUME EngineInv, Upgrade
  PROVE  EngineInv'
<1>1. version' \in Versions
  BY CacheAssumption DEF Upgrade, EngineInv, EngineTypes, Versions
<1> QED
  BY <1>1 DEF Upgrade, EngineInv, EngineTypes, Writing, Ready, Permitted, Reasoned, Whole, BuildOf,
     MayBuild

(* The checksums of what there is are listed, while no session exists.     *)
LEMMA RepackageStep ==
  ASSUME EngineInv, Repackage
  PROVE  EngineInv'
<1>1. /\ \A l \in Loaders : pc[l] = "idle"
      /\ package' = [package EXCEPT !.sums = Found]
      /\ UNCHANGED <<engine, tmp, file, version, pc, policy, mem, fd, reason, crashes>>
  BY DEF Repackage
<1>2. EngineTypes'
  BY <1>1, FoundTyped DEF EngineInv, EngineTypes
<1>3. \A l \in Loaders : reason'[l] = "none" /\ pc'[l] = "idle"
  BY <1>1 DEF EngineInv, Reasoned
<1>4. Writing'
  BY <1>1 DEF EngineInv, Writing, Whole, BuildOf
<1> QED
  BY <1>2, <1>3, <1>4 DEF EngineInv, Ready, Permitted, Reasoned

LEMMA EngineSteps ==
  ASSUME OneSession
  PROVE  EngineInv /\ [EngineNext]_engineVars => EngineInv'
  BY ReadingSteps, OpenStep, WriteHeadStep, WriteTailStep, RenameStep, UpgradeStep, RepackageStep,
     EngineStuttering
     DEF EngineNext, LoadEngine

(* With one session at a time, EngineInv holds in every reachable state.        *)
THEOREM EngineSafety ==
  ASSUME OneSession
  PROVE  EngineSpec => []EngineInv
<1>1. InitEngine => EngineInv
  BY InitEngineInv
<1>2. EngineInv /\ [EngineNext]_engineVars => EngineInv'
  BY EngineSteps
<1> QED
  BY <1>1, <1>2, PTL DEF EngineSpec

(* TensorRTBackend's save: neither a crash nor a failed write leaves a     *)
(* partial engine under the engine's name.                                 *)
THEOREM FileWhole ==
  ASSUME OneSession
  PROVE  EngineSpec => []EngineFileWhole
<1>1. EngineInv => EngineFileWhole
  BY DEF EngineInv, Writing, EngineFileWhole
<1> QED
  BY <1>1, EngineSafety, PTL

(* load: a session that loaded runs an engine for the installed driver.    *)
THEOREM Usable ==
  ASSUME OneSession
  PROVE  EngineSpec => []LoadedIsUsable
<1>1. EngineInv => LoadedIsUsable
  BY DEF EngineInv, Ready, LoadedIsUsable
<1> QED
  BY <1>1, EngineSafety, PTL

(* PreferEngine never fails on what a crash or another driver has left, as *)
(* long as there is an ONNX model and no checksum pins the files: in each  *)
(* failure state with one of these reasons one of the two is missing.      *)
THEOREM Heals ==
  ASSUME OneSession
  PROVE  EngineSpec => []PreferEngineHeals
<1>1. EngineInv => PreferEngineHeals
  BY DEF EngineInv, Reasoned, PreferEngineHeals
<1> QED
  BY <1>1, EngineSafety, PTL

(* Once there is an engine, only a PreferEngine load replaces it or makes  *)
(* the listed checksums fail; EngineOnly touches no file.                  *)
THEOREM Replacing ==
  ASSUME OneSession
  PROVE  EngineSpec => OnlyPreferEngineReplaces
<1> DEFINE Replacer ==
      \E l \in Loaders : \/ policy[l] = "PreferEngine"
                         \/ policy[l] = "BuildIfMissing" /\ engine = None
<1> DEFINE Allowed ==
      /\ engine' # engine \/ (Intact /\ ~Intact') => Replacer
      /\ tmp' # tmp => \E l \in Loaders : pc[l] # "idle" /\ policy[l] # "EngineOnly"
<1> DEFINE Writes(l) == Open(l) \/ WriteHead(l) \/ WriteTail(l) \/ Rename(l)
<1>1. EngineInv /\ [EngineNext]_engineVars => [Allowed]_engineVars
  <2> SUFFICES ASSUME EngineInv, EngineNext PROVE Allowed
    OBVIOUS
  <2>1. ASSUME NEW l \in Loaders, Writes(l) PROVE Allowed
    <3>1. pc[l] \in {"open", "head", "tail", "rename"}
      BY <2>1 DEF Open, OpenFor, WriteHead, WriteTail, WritePart, Rename
    <3>2. MayBuild(l)
      BY <3>1 DEF EngineInv, Permitted
    <3>3. Replacer /\ pc[l] # "idle" /\ policy[l] # "EngineOnly"
      BY <3>1, <3>2 DEF MayBuild
    <3> QED
      BY <3>3
  <2>2. CASE UNCHANGED <<engine, tmp, file, package>>
    <3>1. Intact' <=> Intact
      BY <2>2 DEF Intact, Listed, Found, Content
    <3> QED
      BY <2>2, <3>1
  <2>3. ASSUME NEW l \in Loaders, LoadEngine(l), ~Writes(l)
        PROVE  UNCHANGED <<engine, tmp, file, package>>
    BY <2>3 DEF LoadEngine, Begin, DeviceFails, Check, Deserialize, DeserializeOrBuild, Build, BuildFails,
       WriteFails, CreateContext
  <2>4. CASE Repackage
    <3>1. package.sums' = Found'
      BY <2>4 DEF Repackage, Found, Content, EngineInv, EngineTypes
    <3>2. Intact'
      BY <3>1 DEF Intact
    <3> QED
      BY <2>4, <3>2 DEF Repackage
  <2> QED
    BY <2>1, <2>2, <2>3, <2>4 DEF EngineNext, Upgrade, Release, Crash
<1> QED
  BY <1>1, EngineSafety, PTL DEF OnlyPreferEngineReplaces, EngineSpec
=============================================================================
