--------------------------- MODULE TenantStorage ---------------------------
(***************************************************************************)
(* Tenant storage as a whole: the event handlers that make and remove SVMs *)
(* and FlexVols (SvmLifecycle), the configuration of an SVM's network that *)
(* follows them (SvmNetwork), and the Cinder driver that serves volumes    *)
(* from what is there (DynamicDriver).                                     *)
(***************************************************************************)
EXTENDS SvmNetwork, DynamicDriver

storageVars == <<vars, netVars, driverVars>>

StorageInit == Init /\ NetInit /\ DriverInit

\* Faulty variant: access removal forces, too.
ForcedAlways(i) == At(i, "deleteVol") \/ At(i, "deleteTyped")

\* cleanup_project deletes its FlexVol with force=True, access removal does not.
Forced(i) == At(i, "deleteVol")

\* A handler's step; with env.serial a workflow ends, its network step included,
\* before the next begins.
Handle(i) ==
  /\ Step(i)
  /\ env.serial /\ At(i, "pending") => \A k \in 1..(i - 1) : ~NetRuns(k)
  /\ NetFollows /\ DriverFollows(Forced(i))

StorageNext ==
  \/ Users /\ UNCHANGED <<netVars, driverVars>>
  \/ \E i \in Ids : Handle(i) \/ (NetStep(i) /\ UNCHANGED driverVars)
  \/ DriverStep /\ UNCHANGED <<vars, netVars>>

StorageSpec == StorageInit /\ [][StorageNext]_storageVars

-----------------------------------------------------------------------------
Sound(p) == \A f \in PlanOf(p) : f.flaw = "" /\ f.node \in {1, 2}
Removed(p, i) == \E k \in i..MaxEvents : job[k].of = p /\ job[k].out = "removed"

\* The events of a project are handled in order, or there is one.
InOrder(p) == env.serial \/ \A i, k \in 1..sent : job[i].of = p /\ job[k].of = p => i = k

\* Once all is handled, an SVM has its ports, LIFs and routes as Nautobot has
\* them, however the workflows of two projects raced and however often the SVM
\* was removed and made anew, when no call failed and Nautobot's data is sound.
\* When calls fail, at least a workflow whose network step returned 0 has left
\* the network complete.
NetworkFollowsSvm ==
  Settled /\ NetSettled => \A s \in svms : InOrder(s[2]) =>
    /\ env.faults = {} /\ Sound(s[2]) => Networked(s[1], s[2])
    /\ \A i \in 1..sent :
         job[i].of = s[2] /\ NetAt(i, "done") /\ ~Removed(s[2], i) => Networked(s[1], s[2])

\* A Cinder volume is in a FlexVol of its own project's SVM made for its own
\* volume type, and the namespace is in no other: get_filter_function and
\* _volume_to_library, with pools and libraries that lag behind the SVMs.
CinderServesOwner ==
  \A d \in Disks :
    /\ disks[d].pool # NoPool => disks[d].pool = <<OwnerOf[d], TypeOf[d]>>
    /\ space[d] # "none" => Backed(d)

\* No handler takes away a namespace that is mapped to a host: access removal
\* deletes "force=False", and what cleanup_project forces is a FlexVol that the
\* driver places no volume in.
MappedDataKept == [][\A d \in Disks : space[d] = "mapped" => space'[d] # "none"]_storageVars
=============================================================================
