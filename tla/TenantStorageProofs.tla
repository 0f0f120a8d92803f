------------------------ MODULE TenantStorageProofs ------------------------
(***************************************************************************)
(* The handlers implement the abstract store (SvmStore), and go on doing   *)
(* so when the network configuration and the Cinder driver run beside them.*)
(*                                                                         *)
(* A handler that creates has passed every backend (MayCreate), and no SVM *)
(* has appeared since except on the first, where ONTAP refuses a second.   *)
(* Steps of the other parts change neither SVMs nor FlexVols.              *)
(***************************************************************************)
EXTENDS TenantStorage, SvmLifecycleProofs

\* Where lookups fail the refinement mapping hides the store.
LEMMA HiddenStore ==
  ASSUME Fault("find"), [Next]_vars
  PROVE  [Store!Next]_(Store!vars)
  <1>1. env' = env
    BY DEF Next, Users, Step, vars, Env, CreateProject, UpdateProject, DeleteProject, AddAccess,
           RemoveAccess, Emit, Begin, FindSvm, RecheckSvm, PostSvm, ConfigureRootVolume,
           FindVolume, FindAgain, DeleteVolume, DeleteSvm, PostVolume, DeleteTypedVolume,
           Deletes, NotDeleted
  <1> QED  BY <1>1 DEF Fault, Store!vars

LEMMA VolumeFields ==
  ASSUME NEW v \in Volumes
  PROVE  /\ v.on \in Hosts /\ v.svm \in Projects /\ v.name \in VolNames
         /\ v = Store!Volume(v.on, v.svm, v.name)
  BY DEF Volumes, Store!Volume

\* Every step of a handler is a step of the store, or leaves it alone.
LEMMA HandlerRefines ==
  ASSUME IInv, ~Fault("find"), NEW i \in Ids, Step(i)
  PROVE  [Store!Next]_(Store!vars)
  <1>1. /\ job[i] \in Jobs /\ job[i].at \in Hosts /\ job[i].of \in Projects
        /\ job[i].type \in VolumeTypes \cup {""}
    BY DEF IInv, TypeOK, Jobs
  <1>2. vols \in SUBSET Volumes
    BY DEF IInv, TypeOK
  <1>3. ~Fault("find")' <=> ~Fault("find")
    BY DEF Fault, Step, Env, Begin, FindSvm, RecheckSvm, PostSvm, ConfigureRootVolume,
           FindVolume, FindAgain, DeleteVolume, DeleteSvm, PostVolume, DeleteTypedVolume,
           Deletes, NotDeleted
  <1>4. CASE UNCHANGED <<svms, vols>>
    BY <1>3, <1>4 DEF Store!vars
  <1>5. CASE PostSvm(i) /\ svms' # svms
    <2>1. /\ At(i, "post") /\ ~HasSvm(i) /\ UNCHANGED vols
          /\ svms' = svms \cup {<<job[i].at, job[i].of>>}
      BY <1>5 DEF PostSvm
    <2>2. job[i].at = 1 /\ ~Elsewhere(job[i].of)
      BY <2>1 DEF IInv, FirstBackend, MayCreate, At
    <2>3. \A g \in Hosts : <<g, job[i].of>> \notin svms
      BY <2>1, <2>2 DEF Elsewhere, HasSvm
    <2>4. Store!Create(job[i].at, job[i].of)
      BY <1>3, <2>1, <2>3 DEF Store!Create
    <2> QED  BY <1>1, <2>4 DEF Store!Next
  <1>6. CASE DeleteSvm(i) /\ svms' # svms
    <2>1. /\ \A v \in vols : ~(v.on = job[i].at /\ v.svm = job[i].of)
          /\ svms' = svms \ {<<job[i].at, job[i].of>>} /\ UNCHANGED vols
      BY <1>6 DEF DeleteSvm
    <2>2. Store!Delete(job[i].at, job[i].of)
      BY <1>3, <2>1 DEF Store!Delete
    <2> QED  BY <1>1, <2>2 DEF Store!Next
  <1>7. CASE PostVolume(i) /\ vols' # vols
    <2>1. /\ At(i, "postVol") /\ HasSvm(i) /\ UNCHANGED svms
          /\ vols' = vols \cup {[on |-> job[i].at, svm |-> job[i].of, name |-> job[i].type]}
      BY <1>7 DEF PostVolume, NewVolume
    <2>2. job[i].type \in VolNames
      BY <2>1 DEF IInv, KnowsType, At, VolNames
    <2>3. Store!AddVolume(job[i].at, job[i].of, job[i].type)
      BY <1>3, <2>1 DEF Store!AddVolume, Store!Volume, HasSvm
    <2> QED  BY <1>1, <2>2, <2>3 DEF Store!Next
  <1>8. CASE (DeleteVolume(i) \/ DeleteTypedVolume(i)) /\ vols' # vols
    <2>1. PICK v \in vols : vols' = vols \ {v} /\ UNCHANGED svms
      BY <1>8 DEF DeleteVolume, DeleteTypedVolume, Named, Deletes, NotDeleted
    <2>2. Store!RemoveVolume(v.on, v.svm, v.name)
      BY <1>2, <1>3, <2>1, VolumeFields DEF Store!RemoveVolume
    <2> QED  BY <1>2, <2>1, <2>2, VolumeFields DEF Store!Next
  <1> QED
    BY <1>4, <1>5, <1>6, <1>7, <1>8
    DEF Step, Begin, FindSvm, RecheckSvm, PostSvm, ConfigureRootVolume, FindVolume, FindAgain,
        DeleteVolume, DeleteSvm, PostVolume, DeleteTypedVolume, Deletes, NotDeleted

LEMMA UsersRefine ==
  ASSUME ~Fault("find"), Users
  PROVE  UNCHANGED Store!vars
  BY DEF Users, CreateProject, UpdateProject, DeleteProject, AddAccess, RemoveAccess, Emit,
         Store!vars, Fault

LEMMA StepRefines ==
  ASSUME IInv, [Next]_vars
  PROVE  [Store!Next]_(Store!vars)
  <1>1. CASE Fault("find")
    BY <1>1, HiddenStore
  <1>2. CASE ~Fault("find")
    <2>1. CASE Users
      BY <1>2, <2>1, UsersRefine
    <2>2. ASSUME NEW i \in Ids, Step(i) PROVE [Store!Next]_(Store!vars)
      BY <1>2, <2>2, HandlerRefines
    <2>3. CASE UNCHANGED vars
      BY <2>3 DEF vars, Store!vars, Fault
    <2> QED  BY <2>1, <2>2, <2>3 DEF Next
  <1> QED  BY <1>1, <1>2

LEMMA InitRefines == Init => Store!Init
  <1> SUFFICES ASSUME Init PROVE Store!Init
    OBVIOUS
  <1>1. PICK old \in SUBSET Projects : \E host \in [old -> Hosts] :
          /\ svms = {<<host[p], p>> : p \in old}
          /\ vols = {[on |-> host[p], svm |-> p, name |-> p] : p \in old}
    BY DEF Init
  <1>2. PICK host \in [old -> Hosts] :
          /\ svms = {<<host[p], p>> : p \in old}
          /\ vols = {[on |-> host[p], svm |-> p, name |-> p] : p \in old}
    BY <1>1
  <1>3. svms \in SUBSET (Hosts \X Projects)
    BY <1>2
  <1>4. vols \in SUBSET [on : Hosts, svm : Projects, name : VolNames]
    BY <1>2 DEF VolNames
  <1>5. \A s, t \in svms : s[2] = t[2] => s = t
    BY <1>2
  <1>6. \A v \in vols : <<v.on, v.svm>> \in svms
    BY <1>2
  <1> QED  BY <1>3, <1>4, <1>5, <1>6 DEF Store!Init

\* The event handlers, for any number of projects, types, backends and events
\* handled at the same time, implement the store: at most one SVM per project,
\* FlexVols only in SVMs that exist, no SVM removed with FlexVols in it.
THEOREM HandlersImplementStore == Spec => ImplementsStore
  <1>1. IInv /\ [Next]_vars => [Store!Next]_(Store!vars)
    BY StepRefines
  <1> QED  BY <1>1, InitRefines, InitIInv, StepKeeps, PTL DEF Spec, ImplementsStore, Store!Spec

LEMMA StorageStepIsStep ==
  ASSUME [StorageNext]_storageVars
  PROVE  [Next]_vars
  <1>1. ASSUME NEW i \in Ids, NetStep(i) PROVE UNCHANGED vars
    BY <1>1 DEF NetStep, NetBegin, NetFind, NetQuery, NetLifStart, NetPort, NetPostPort,
                NetLif, NetPostLif, NetRoute
  <1>2. ASSUME NEW i \in Ids, Handle(i) PROVE Next
    BY <1>2 DEF Handle, Next
  <1> QED  BY <1>1, <1>2 DEF StorageNext, storageVars, Next

\* Beside the network configuration and the Cinder driver the handlers behave as
\* they do alone.
THEOREM StorageImplementsHandlers == StorageSpec => Spec
  <1>1. StorageInit => Init
    BY DEF StorageInit
  <1> QED  BY <1>1, StorageStepIsStep, PTL DEF StorageSpec, Spec

\* What tenants and Cinder may rely on holds of the system as a whole.
THEOREM StorageImplementsStore == StorageSpec => ImplementsStore
  BY HandlersImplementStore, StorageImplementsHandlers, PTL

-----------------------------------------------------------------------------
\* Cinder's volumes.

PoolsTyped ==
  /\ pools \in SUBSET (Projects \X VolNames)
  /\ stats.got \in SUBSET (Projects \X VolNames)
  /\ DOMAIN stats = {"pc", "seen", "size", "got"}

DiskRecords == [pool : (Projects \X VolNames) \cup {NoPool}, short : BOOLEAN,
                op : Operations \cup {""}]

DisksTyped ==
  /\ disks \in [Disks -> DiskRecords]
  /\ space \in [Disks -> {"none", "there", "mapped"}]

Placed == \A d \in Disks : disks[d].pool # NoPool => disks[d].pool = <<OwnerOf[d], TypeOf[d]>>
InPlace == \A d \in Disks : space[d] # "none" => Backed(d)

\* The inductive invariant of the driver, beside that of the handlers.
DInv == PoolsTyped /\ DisksTyped /\ Placed /\ InPlace

LEMMA PoolsKeep ==
  ASSUME TypeOK, PoolsTyped, DriverStep
  PROVE  PoolsTyped'
  <1>1. CASE UNCHANGED <<pools, stats>>
    BY <1>1 DEF PoolsTyped
  <1>2. CASE StopDriver
    BY <1>2 DEF StopDriver, NoStats, PoolsTyped
  <1>3. CASE BeginStats
    BY <1>3 DEF BeginStats, PoolsTyped
  <1>4. CASE EndStats
    BY <1>4 DEF EndStats, NoStats, PoolsTyped
  <1>5. ASSUME NEW p \in Projects, AskLibrary(p)
        PROVE  PoolsTyped'
    <2>1. FlexVols(p) \in SUBSET (Projects \X VolNames)
      BY DEF FlexVols, TypeOK, Volumes
    <2>2. PICK known \in {FlexVols(p), {q \in pools : q[1] = p}} :
            stats' = [stats EXCEPT !.seen = @ \cup {p}, !.got = @ \cup known]
      BY <1>5 DEF AskLibrary
    <2>3. known \in SUBSET (Projects \X VolNames)
      BY <2>1, <2>2 DEF PoolsTyped
    <2>4. stats'.got = stats.got \cup known /\ DOMAIN stats' = DOMAIN stats
      BY <2>2 DEF PoolsTyped
    <2> QED  BY <1>5, <2>3, <2>4 DEF AskLibrary, PoolsTyped
  <1> QED
    BY <1>1, <1>2, <1>3, <1>4, <1>5
    DEF DriverStep, StartDriver, SetupLibraries, CheckLibraries, RefreshLibraries, AddLibrary,
        Schedule, Enter, Leave, Raise

\* A step that changes neither a pool nor a namespace nor a FlexVol.
LEMMA SamePools ==
  ASSUME Placed, InPlace, space' = space, vols' = vols,
         \A d \in Disks : disks'[d].pool = disks[d].pool
  PROVE  Placed' /\ InPlace'
  <1>1. \A d \in Disks : Backed(d)' <=> Backed(d)
    BY DEF Backed, Backing
  <1> QED  BY <1>1 DEF Placed, InPlace

LEMMA DriverKeeps ==
  ASSUME TypeOK, DInv, DriverStep, UNCHANGED vars
  PROVE  DInv'
  <1> USE DisksAssumption
  <1>1. vols' = vols
    BY DEF vars
  <1>2. SUFFICES (DisksTyped /\ Placed /\ InPlace)'
    BY PoolsKeep DEF DInv
  <1>3. CASE UNCHANGED <<disks, space>>
    BY <1>1, <1>3 DEF DInv, DisksTyped, Placed, InPlace, Backed, Backing
  <1>4. CASE StopDriver
    <2>1. disks' = [d \in Disks |-> [disks[d] EXCEPT !.op = ""]] /\ space' = space
      BY <1>4 DEF StopDriver
    <2>2. \A d \in Disks : /\ [disks[d] EXCEPT !.op = ""] \in DiskRecords
                           /\ [disks[d] EXCEPT !.op = ""].pool = disks[d].pool
      BY DEF DInv, DisksTyped, DiskRecords
    <2>3. DisksTyped'
      BY <2>1, <2>2 DEF DInv, DisksTyped
    <2>4. \A d \in Disks : disks'[d].pool = disks[d].pool
      BY <2>1, <2>2
    <2> QED  BY <1>1, <2>1, <2>3, <2>4, SamePools DEF DInv
  <1>5. ASSUME NEW d \in Disks, NEW pool \in pools, Schedule(d, pool)
        PROVE  (DisksTyped /\ Placed /\ InPlace)'
    <2>1. pool \in Projects \X VolNames
      BY DEF DInv, PoolsTyped
    <2>2. pool = <<OwnerOf[d], TypeOf[d]>>
      BY <1>5, <2>1 DEF Schedule, get_filter_function
    <2>3. /\ disks' = [disks EXCEPT ![d].pool = pool] /\ space' = space
          /\ disks[d].pool = NoPool
      BY <1>5 DEF Schedule
    <2>4. DisksTyped'
      <3>1. [disks[d] EXCEPT !.pool = pool] \in DiskRecords
        <4> DEFINE Pools == (Projects \X VolNames) \cup {NoPool}
        <4>1. disks[d] \in [pool : Pools, short : BOOLEAN, op : Operations \cup {""}]
          BY DEF DInv, DisksTyped, DiskRecords
        <4>2. pool \in Pools
          BY <2>1
        <4> HIDE DEF Pools
        <4>3. [disks[d] EXCEPT !.pool = pool] \in
                [pool : Pools, short : BOOLEAN, op : Operations \cup {""}]
          BY <4>1, <4>2
        <4> QED  BY <4>3 DEF Pools, DiskRecords
      <3>2. disks' = [disks EXCEPT ![d] = [disks[d] EXCEPT !.pool = pool]]
        BY <2>3
      <3> QED  BY <2>3, <3>1, <3>2 DEF DInv, DisksTyped
    <2>5. space[d] = "none"
      BY <2>3 DEF DInv, InPlace, Backed
    <2>6. \A e \in Disks : disks'[e].pool = IF e = d THEN pool ELSE disks[e].pool
      BY <2>3 DEF DInv, DisksTyped, DiskRecords
    <2>7. Placed'
      BY <2>2, <2>6 DEF DInv, Placed
    <2>8. InPlace'
      BY <1>1, <2>3, <2>5, <2>6 DEF DInv, InPlace, Backed, Backing
    <2> QED  BY <2>4, <2>7, <2>8
  <1>6. ASSUME NEW d \in Disks, NEW op \in Operations, Enter(d, op)
        PROVE  (DisksTyped /\ Placed /\ InPlace)'
    <2>1. disks' = [disks EXCEPT ![d] = [disks[d] EXCEPT !.op = op]] /\ space' = space
      BY <1>6 DEF Enter
    <2>2. /\ [disks[d] EXCEPT !.op = op] \in DiskRecords
          /\ [disks[d] EXCEPT !.op = op].pool = disks[d].pool
      BY DEF DInv, DisksTyped, DiskRecords
    <2>3. DisksTyped' /\ \A e \in Disks : disks'[e].pool = disks[e].pool
      BY <2>1, <2>2 DEF DInv, DisksTyped
    <2> QED  BY <1>1, <2>1, <2>3, SamePools DEF DInv
  <1>7. ASSUME NEW d \in Disks, Leave(d)
        PROVE  (DisksTyped /\ Placed /\ InPlace)'
    <2>1. PICK s \in {"none", "there", "mapped"} :
            /\ space' = [space EXCEPT ![d] = s]
            /\ disks[d].op = "delete" => s = "none"
      <3>1. disks[d].op \in Operations
        BY <1>7 DEF Leave, DInv, DisksTyped, DiskRecords
      <3>2. After[disks[d].op] \in {"none", "there", "mapped"}
        BY <3>1 DEF After, Operations
      <3>3. After["delete"] = "none"
        BY DEF After
      <3> QED  BY <1>7, <3>2, <3>3 DEF Leave
    <2>2. PICK r : /\ disks' = [disks EXCEPT ![d] = r]
                   /\ r = IF disks[d].op = "delete" THEN NoDisk ELSE [disks[d] EXCEPT !.op = ""]
      BY <1>7 DEF Leave
    <2>3. /\ r \in DiskRecords
          /\ disks[d].op # "delete" => r.pool = disks[d].pool
          /\ disks[d].op = "delete" => r.pool = NoPool
      BY <2>2 DEF DInv, DisksTyped, DiskRecords, NoDisk
    <2>4. DisksTyped'
      BY <2>1, <2>2, <2>3 DEF DInv, DisksTyped
    <2>5. Placed'
      BY <2>2, <2>3 DEF DInv, DisksTyped, Placed
    <2>6. Backed(d)
      BY <1>7 DEF Leave
    <2>7. InPlace'
      <3>2. ASSUME NEW e \in Disks, e # d, space'[e] # "none" PROVE Backed(e)'
        <4>1. disks'[e] = disks[e] /\ space'[e] = space[e]
          BY <2>1, <2>2, <3>2 DEF DInv, DisksTyped
        <4> QED  BY <1>1, <3>2, <4>1 DEF DInv, InPlace, Backed, Backing
      <3>3. ASSUME space'[d] # "none" PROVE Backed(d)'
        <4>1. disks'[d].pool = disks[d].pool
          BY <2>1, <2>2, <2>3, <3>3 DEF DInv, DisksTyped
        <4> QED  BY <1>1, <2>6, <4>1 DEF Backed, Backing
      <3> QED  BY <3>2, <3>3 DEF InPlace
    <2> QED  BY <2>4, <2>5, <2>7
  <1>8. ASSUME NEW d \in Disks, Raise(d)
        PROVE  (DisksTyped /\ Placed /\ InPlace)'
    <2>1. PICK saved \in BOOLEAN :
            disks' = [disks EXCEPT ![d] = [disks[d] EXCEPT !.op = "", !.short = saved]]
      BY <1>8 DEF Raise
    <2>2. /\ [disks[d] EXCEPT !.op = "", !.short = saved] \in DiskRecords
          /\ [disks[d] EXCEPT !.op = "", !.short = saved].pool = disks[d].pool
      BY DEF DInv, DisksTyped, DiskRecords
    <2>3. space' = space
      BY <1>8 DEF Raise
    <2>4. DisksTyped' /\ \A e \in Disks : disks'[e].pool = disks[e].pool
      BY <2>1, <2>2, <2>3 DEF DInv, DisksTyped
    <2> QED  BY <1>1, <2>3, <2>4, SamePools DEF DInv
  <1> QED
    BY <1>3, <1>4, <1>5, <1>6, <1>7, <1>8
    DEF DriverStep, StartDriver, SetupLibraries, CheckLibraries, RefreshLibraries, BeginStats,
        EndStats, AddLibrary, AskLibrary

LEMMA HandlerKeepsDisks ==
  ASSUME DInv, NEW i \in Ids, Handle(i)
  PROVE  DInv'
  <1>1. /\ space' = [d \in Disks |-> IF Backed(d) /\ Backing(d) \notin vols' THEN "none"
                                     ELSE space[d]]
        /\ UNCHANGED <<stats, pools, disks>>
    BY DEF Handle, DriverFollows
  <1>2. PoolsTyped' /\ DisksTyped' /\ Placed'
    BY <1>1 DEF DInv, PoolsTyped, DisksTyped, Placed
  <1>3. \A d \in Disks : Backing(d)' = Backing(d)
    BY <1>1 DEF Backing
  <1>4. InPlace'
    BY <1>1, <1>3 DEF DInv, InPlace, Backed
  <1> QED  BY <1>2, <1>4 DEF DInv

LEMMA StorageKeepsDisks ==
  ASSUME IInv, DInv, [StorageNext]_storageVars
  PROVE  DInv'
  <1>1. ASSUME UNCHANGED <<vols, driverVars>> PROVE DInv'
    BY <1>1 DEF DInv, driverVars, PoolsTyped, DisksTyped, Placed, InPlace, Backed, Backing
  <1>2. ASSUME NEW i \in Ids, NetStep(i) PROVE UNCHANGED vols
    BY <1>2 DEF NetStep, NetBegin, NetFind, NetQuery, NetLifStart, NetPort, NetPostPort, NetLif,
                NetPostLif, NetRoute, vars
  <1>3. Users => UNCHANGED vols
    BY DEF Users, CreateProject, UpdateProject, DeleteProject, AddAccess, RemoveAccess, Emit
  <1>4. CASE DriverStep /\ UNCHANGED <<vars, netVars>>
    BY <1>4, DriverKeeps DEF IInv
  <1> QED
    BY <1>1, <1>2, <1>3, <1>4, HandlerKeepsDisks DEF StorageNext, storageVars, vars

LEMMA InitDisks == StorageInit => DInv
  <1> SUFFICES ASSUME StorageInit PROVE DInv
    OBVIOUS
  <1>1. \A d \in Disks : disks[d] = NoDisk /\ space[d] = "none"
    BY DEF StorageInit, DriverInit
  <1>2. PoolsTyped
    BY DEF StorageInit, DriverInit, NoStats, PoolsTyped
  <1>3. NoDisk \in DiskRecords /\ NoDisk.pool = NoPool
    BY DEF NoDisk, DiskRecords
  <1>4. DisksTyped
    BY <1>3 DEF StorageInit, DriverInit, DisksTyped
  <1> QED  BY <1>1, <1>2, <1>3, <1>4 DEF DInv, Placed, InPlace

\* The driver never puts a volume of one project in the SVM of another, or in a
\* FlexVol of another type, for any number of projects, types, volumes and events
\* and however far pools and libraries lag behind.
THEOREM CinderIsServed == StorageSpec => []CinderServesOwner
  <1>1. StorageInit => IInv /\ DInv
    BY InitIInv, InitDisks DEF StorageInit
  <1>2. IInv /\ DInv /\ [StorageNext]_storageVars => (IInv /\ DInv)'
    BY StepKeeps, StorageKeepsDisks, StorageStepIsStep
  <1>3. DInv => CinderServesOwner
    BY DEF DInv, Placed, InPlace, CinderServesOwner
  <1> QED  BY <1>1, <1>2, <1>3, PTL DEF StorageSpec

\* A step never takes a mapped namespace away.
LEMMA StepKeepsMapped ==
  ASSUME IInv, DInv, [StorageNext]_storageVars
  PROVE  \A d \in Disks : space[d] = "mapped" => space'[d] # "none"
  <1> SUFFICES ASSUME NEW d \in Disks, space[d] = "mapped" PROVE space'[d] # "none"
    OBVIOUS
  <1>1. CASE UNCHANGED space
    BY <1>1
  <1>2. ASSUME NEW i \in Ids, Handle(i), space'[d] = "none" PROVE FALSE
    <2>1. Backed(d) /\ Backing(d) \in vols /\ Backing(d) \notin vols'
      BY <1>2 DEF Handle, DriverFollows, Backed
    <2>2. At(i, "deleteVol")
      BY <1>2, <2>1 DEF Handle, DriverFollows, Forced
    <2>3. DeleteVolume(i)
      BY <1>2, <2>2 DEF Handle, Step, At, Begin, FindSvm, RecheckSvm, PostSvm,
         ConfigureRootVolume, FindVolume, FindAgain, DeleteSvm, PostVolume, DeleteTypedVolume, Deletes, NotDeleted
    <2>4. Backing(d) \in Named(i, job[i].of)
      BY <2>1, <2>3 DEF DeleteVolume, Deletes, NotDeleted
    <2>5. Backing(d).name = job[i].of /\ job[i].of \in Projects
      BY <2>4, ZenonT(40) DEF Named, IInv, TypeOK, Jobs
    <2>6. Backing(d).name = TypeOf[d] /\ TypeOf[d] \in VolumeTypes
      <3>1. disks[d].pool = <<OwnerOf[d], TypeOf[d]>>
        BY <2>1 DEF DInv, Placed, Backed
      <3>2. TypeOf[d] \in VolumeTypes
        BY DisksAssumption
      <3> QED  BY <3>1, <3>2 DEF Backing
    <2> QED  BY <2>5, <2>6, SvmAssumption
  <1>3. ASSUME NEW e \in Disks, Leave(e) PROVE space'[d] # "none"
    <2>1. CASE e # d
      BY <1>3, <2>1 DEF Leave, DInv, DisksTyped
    <2>2. CASE e = d
      <3>1. disks[d].op \in Operations /\ Before[disks[d].op] = "mapped"
        BY <1>3, <2>2 DEF Leave, Asked, DInv, DisksTyped, DiskRecords
      <3>2. disks[d].op = "detach"
        BY <3>1 DEF Before, Operations
      <3>3. After["detach"] = "there"
        BY DEF After
      <3> QED  BY <1>3, <2>2, <3>2, <3>3 DEF Leave, DInv, DisksTyped
    <2> QED  BY <2>1, <2>2
  <1>4. ASSUME DriverStep PROVE UNCHANGED space \/ \E e \in Disks : Leave(e)
    BY <1>4 DEF DriverStep, StartDriver, SetupLibraries, CheckLibraries, StopDriver,
       RefreshLibraries, BeginStats, EndStats, AddLibrary, AskLibrary, Schedule, Enter, Raise
  <1> QED
    BY <1>1, <1>2, <1>3, <1>4 DEF StorageNext, storageVars, driverVars

\* No handler destroys a namespace that is mapped to a host: what cleanup_project
\* forces is the FlexVol named for the project, and the driver places no volume
\* there.
THEOREM MappedDataIsKept == StorageSpec => MappedDataKept
  <1>1. StorageInit => IInv /\ DInv
    BY InitIInv, InitDisks DEF StorageInit
  <1>2. IInv /\ DInv /\ [StorageNext]_storageVars => (IInv /\ DInv)'
    BY StepKeeps, StorageKeepsDisks, StorageStepIsStep
  <1>3. IInv /\ DInv /\ [StorageNext]_storageVars =>
          [\A d \in Disks : space[d] = "mapped" => space'[d] # "none"]_storageVars
    BY StepKeepsMapped
  <1> QED  BY <1>1, <1>2, <1>3, PTL DEF StorageSpec, MappedDataKept
=============================================================================
