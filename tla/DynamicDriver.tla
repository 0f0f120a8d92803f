--------------------------- MODULE DynamicDriver ---------------------------
(***************************************************************************)
(* The Cinder driver that serves every tenant's SVM of one backend         *)
(* (NetappCinderDynamicDriver): a library per SVM, refreshed by a looping  *)
(* call, pools that carry their SVM and volume type, a filter by project   *)
(* and type, and the host of a volume that names its library.              *)
(*                                                                         *)
(* Green threads switch at every call to ONTAP: the looping call, the      *)
(* report of statistics and the operations on volumes interleave there.    *)
(* The manager and the scheduler of Cinder, and the NetApp library behind  *)
(* each SVM, are external.                                                 *)
(***************************************************************************)
EXTENDS SvmLifecycle, FiniteSets

CONSTANTS
  Disks,     \* Cinder volumes
  OwnerOf,   \* the project of a Cinder volume
  TypeOf,    \* its volume type
  NoPool     \* the pool of a volume that is not scheduled

ASSUME DisksAssumption ==
  /\ OwnerOf \in [Disks -> Projects] /\ TypeOf \in [Disks -> VolumeTypes]
  /\ NoPool \notin Projects \X VolNames

VARIABLES
  driver,    \* "down", "setup", "check" or "up"
  libs,      \* _libraries: the projects whose SVM has a library
  refresh,   \* the looping call: [pc, todo]
  stats,     \* get_volume_stats in progress: [pc, seen, size, got]
  pools,     \* _stats["pools"] as last reported: <<project, FlexVol>>
  disks,     \* [pool, short, op]: short when host lost the SVM's prefix
  space      \* a volume's NVMe namespace: "none", "there" or "mapped"

driverVars == <<driver, libs, refresh, stats, pools, disks, space>>

DriverHost == 1
Idle == [pc |-> "idle", todo |-> {}]
NoStats == [pc |-> "idle", seen |-> {}, size |-> 0, got |-> {}]
NoDisk == [pool |-> NoPool, short |-> FALSE, op |-> ""]

DriverInit ==
  /\ driver = "down" /\ libs = {} /\ refresh = Idle /\ stats = NoStats /\ pools = {}
  /\ disks = [d \in Disks |-> NoDisk]
  /\ space = [d \in Disks |-> "none"]

\* _get_svms: running, with NVMe, and named by the prefix.
_get_svms == {p \in Projects : <<DriverHost, p>> \in svms}

\* do_setup and check_for_setup_error of a library need its SVM.
SetsUp(p) == p \in _get_svms

\* The pools the library of an SVM knows: the SVM's FlexVols.
FlexVols(p) == {<<p, v.name>> : v \in {w \in vols : w.on = DriverHost /\ w.svm = p}}

-----------------------------------------------------------------------------
\* The service starts: do_setup lists the SVMs, sets up a library for each and
\* gives up when one fails; check_for_setup_error drops the ones that fail.
StartDriver ==
  /\ "cinder" \in env.parts /\ driver = "down"
  /\ driver' = "setup" /\ refresh' = [Idle EXCEPT !.todo = _get_svms]
  /\ UNCHANGED <<libs, stats, pools, disks, space>>

SetupLibraries ==
  /\ driver = "setup"
  /\ \/ (\A p \in refresh.todo : SetsUp(p)) /\ driver' = "check" /\ libs' = refresh.todo
     \/ /\ (\E p \in refresh.todo : ~SetsUp(p)) \/ Fault("setup")
        /\ driver' = "down" /\ libs' = {}
  /\ refresh' = Idle
  /\ UNCHANGED <<stats, pools, disks, space>>

CheckLibraries ==
  /\ driver = "check"
  /\ driver' = "up"
  /\ \E bad \in SUBSET libs :
        /\ \A p \in libs : ~SetsUp(p) => p \in bad
        /\ Fault("setup") \/ \A p \in bad : ~SetsUp(p)
        /\ libs' = libs \ bad
  /\ UNCHANGED <<refresh, stats, pools, disks, space>>

\* The service stops; what an operation changed in memory is lost.
StopDriver ==
  /\ driver = "up" /\ Fault("stop")
  /\ driver' = "down" /\ libs' = {} /\ refresh' = Idle /\ stats' = NoStats
  /\ disks' = [d \in Disks |-> [disks[d] EXCEPT !.op = ""]]
  /\ UNCHANGED <<pools, space>>

\* _actual_refresh_svm_libraries: the stale libraries go at once.  The looping
\* call ends for good when the SVMs cannot be listed.
RefreshLibraries ==
  /\ driver = "up" /\ refresh.pc = "idle"
  /\ \/ /\ libs' = libs \cap _get_svms
        /\ refresh' = IF _get_svms \subseteq libs THEN Idle
                      ELSE [pc |-> "adding", todo |-> _get_svms \ libs]
     \/ Fault("list") /\ refresh' = [Idle EXCEPT !.pc = "stopped"] /\ UNCHANGED libs
  /\ UNCHANGED <<driver, stats, pools, disks, space>>

\* A library that cannot be set up is left to the next round.
AddLibrary(p) ==
  /\ refresh.pc = "adding" /\ p \in refresh.todo
  /\ \/ SetsUp(p) /\ libs' = libs \cup {p}
     \/ (~SetsUp(p) \/ Fault("setup")) /\ UNCHANGED libs
  /\ refresh' = IF refresh.todo = {p} THEN Idle ELSE [refresh EXCEPT !.todo = @ \ {p}]
  /\ UNCHANGED <<driver, stats, pools, disks, space>>

-----------------------------------------------------------------------------
\* get_volume_stats goes over _libraries and asks each; the dictionary must not
\* change its size meanwhile.
BeginStats ==
  /\ driver = "up" /\ stats.pc = "idle"
  /\ stats' = [pc |-> "asking", seen |-> {}, size |-> Cardinality(libs), got |-> {}]
  /\ UNCHANGED <<driver, libs, refresh, pools, disks, space>>

\* A library answers with the FlexVols it knows, which it looks up now and then.
AskLibrary(p) ==
  /\ stats.pc = "asking" /\ Cardinality(libs) = stats.size
  /\ p \in libs \ stats.seen
  /\ \E known \in {FlexVols(p), {q \in pools : q[1] = p}} :
        stats' = [stats EXCEPT !.seen = @ \cup {p}, !.got = @ \cup known]
  /\ UNCHANGED <<driver, libs, refresh, pools, disks, space>>

\* "dictionary changed size during iteration", or all have answered.
EndStats ==
  /\ stats.pc = "asking"
  /\ \/ Cardinality(libs) # stats.size /\ UNCHANGED pools
     \/ Cardinality(libs) = stats.size /\ libs \subseteq stats.seen /\ pools' = stats.got
  /\ stats' = NoStats
  /\ UNCHANGED <<driver, libs, refresh, disks, space>>

\* Faulty variant: the filter without the project.
FilterTypeOnly(pool, d) == pool[2] = TypeOf[d]

\* get_filter_function over the capabilities _svmify_pool adds: the project that
\* the SVM's name ends in, and the id that the FlexVol's name ends in (the id of
\* the project itself for a FlexVol made before volume types).
get_filter_function(pool, d) == pool[1] = OwnerOf[d] /\ pool[2] = TypeOf[d]

\* A user with access to the type creates a volume; the scheduler picks a pool.
Schedule(d, pool) ==
  /\ disks[d].pool = NoPool /\ <<OwnerOf[d], TypeOf[d]>> \in access
  /\ pool \in pools /\ get_filter_function(pool, d)
  /\ disks' = [disks EXCEPT ![d].pool = pool]
  /\ UNCHANGED <<driver, libs, refresh, stats, pools, space>>

-----------------------------------------------------------------------------
\* The namespace as Cinder's operations find it, and leave it.
Before == [create |-> "none", delete |-> "there", attach |-> "there", detach |-> "mapped"]
After == [create |-> "there", delete |-> "none", attach |-> "mapped", detach |-> "there"]
Operations == {"create", "delete", "attach", "detach"}
Asked(d, op) == space[d] = Before[op]

\* _volume_to_library: no pool, no SVM in the pool's name, or no library for the
\* SVM, and the operation is refused.
Enter(d, op) ==
  /\ driver = "up" /\ disks[d].op = ""
  /\ Asked(d, op)
  /\ disks[d].pool # NoPool /\ ~disks[d].short
  /\ disks[d].pool[1] \in libs
  /\ disks' = [disks EXCEPT ![d].op = op]
  /\ UNCHANGED <<driver, libs, refresh, stats, pools, space>>

\* The FlexVol the library works in: the pool's, in the library's SVM.
Backing(d) == [on |-> DriverHost, svm |-> disks[d].pool[1], name |-> disks[d].pool[2]]
Backed(d) == disks[d].pool # NoPool /\ Backing(d) \in vols

\* The library did it, and the host is restored.
Leave(d) ==
  LET op == disks[d].op IN
  /\ op # "" /\ Backed(d) /\ Asked(d, op)
  /\ space' = [space EXCEPT ![d] = After[op]]
  /\ disks' = [disks EXCEPT ![d] = IF op = "delete" THEN NoDisk ELSE [@ EXCEPT !.op = ""]]
  /\ UNCHANGED <<driver, libs, refresh, stats, pools>>

\* The library raised: the host is not restored, and Cinder may save it so.
Raise(d) ==
  /\ disks[d].op # "" /\ (~Backed(d) \/ ~Asked(d, disks[d].op) \/ Fault("operation"))
  /\ \E saved \in BOOLEAN : disks' = [disks EXCEPT ![d] = [@ EXCEPT !.op = "", !.short = saved]]
  /\ UNCHANGED <<driver, libs, refresh, stats, pools, space>>

DriverStep ==
  \/ StartDriver \/ SetupLibraries \/ CheckLibraries \/ StopDriver \/ RefreshLibraries
  \/ BeginStats \/ EndStats
  \/ \E p \in Projects : AddLibrary(p) \/ AskLibrary(p)
  \/ \E d \in Disks : \/ \E pool \in pools : Schedule(d, pool)
                      \/ \E op \in Operations : Enter(d, op)
                      \/ Leave(d) \/ Raise(d)

\* Namespaces go with their FlexVol.  ONTAP does not delete a FlexVol that has
\* mapped namespaces, unless forced.
DriverFollows(forced) ==
  /\ \A d \in Disks : space[d] = "mapped" /\ Backing(d) \in vols \ vols' => forced
  /\ space' = [d \in Disks |-> IF Backed(d) /\ Backing(d) \notin vols' THEN "none" ELSE space[d]]
  /\ UNCHANGED <<driver, libs, refresh, stats, pools, disks>>
=============================================================================
