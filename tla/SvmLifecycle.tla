---------------------------- MODULE SvmLifecycle ----------------------------
(***************************************************************************)
(* Tenant storage on NetApp: the Keystone project events                   *)
(* (oslo_event/keystone_project.py) that create and remove a project's SVM *)
(* and the Cinder volume type events (oslo_event/cinder_volume_type.py)    *)
(* that create and remove the FlexVols in it, through NetAppManager and    *)
(* its services.                                                           *)
(*                                                                         *)
(* Every event becomes a workflow of its own, a job here.  Each call to    *)
(* Keystone or ONTAP is a step, so jobs run between the steps of a job,    *)
(* unless env.serial: then events are handled one by one, in order.        *)
(***************************************************************************)
EXTENDS Naturals

CONSTANTS
  Projects,    \* Keystone projects
  VolumeTypes, \* private Cinder volume types
  Backends,    \* number of sections of the NetApp configuration
  MaxEvents,   \* bound on the number of events, env.max in each environment
  Envs         \* the environments considered

ASSUME SvmAssumption ==
  /\ Backends \in Nat \ {0} /\ MaxEvents \in Nat
  /\ Projects # {} /\ Projects \cap VolumeTypes = {}

ASSUME EnvsAssumption ==
  \A e \in Envs : {e.serial, e.shared} \subseteq BOOLEAN /\ e.max \in 0..MaxEvents

VARIABLES
  env,      \* [serial, shared, ops, faults, max], fixed for a behaviour
  projects, \* "none", "untagged", "tagged" (UNDERSTACK_SVM) or "deleted"
  access,   \* volume types a project has access to
  svms,     \* <<backend, project>>: the SVM os-project is on the backend
  vols,     \* [on, svm, name]: volume vol_name in an SVM of a backend
  job,      \* the workflow of each event
  sent      \* number of events so far

vars == <<env, projects, access, svms, vols, job, sent>>

Hosts == 1..Backends
Ids == 1..MaxEvents
Kinds == {"created", "updated", "deleted", "add", "remove"}
Pcs == {"none", "pending", "find", "recheck", "post", "root", "findVol", "findAgain",
        "deleteVol", "deleteSvm", "postVol", "deleteTyped", "done"}
Outcomes == {"", "nonexistent", "present", "created", "removed", "failed"}

\* vol_<volume_type_id>; cleanup_project looks for vol_<project_id>, the name of
\* volumes made before volume types ("for backwards compatibility").
VolNames == VolumeTypes \cup Projects
Volumes == [on : Hosts, svm : Projects, name : VolNames]

\* at: the backend being asked, or the one found.  tagged: what the handler read.
\* vol, svm: "volume_existed" and "svm_existed" of cleanup_state.
Jobs == [kind : Kinds, of : Projects, type : VolumeTypes \cup {""}, pc : Pcs,
         tagged : BOOLEAN, at : Hosts, vol : BOOLEAN, svm : BOOLEAN, out : Outcomes]
NoJob == [kind |-> "created", of |-> CHOOSE p \in Projects : TRUE, type |-> "", pc |-> "none",
          tagged |-> FALSE, at |-> 1, vol |-> FALSE, svm |-> FALSE, out |-> ""]

TypeOK ==
  /\ env \in Envs
  /\ projects \in [Projects -> {"none", "untagged", "tagged", "deleted"}]
  /\ access \in SUBSET (Projects \X VolumeTypes)
  /\ svms \in SUBSET (Hosts \X Projects)
  /\ vols \in SUBSET Volumes
  /\ job \in [Ids -> Jobs]
  /\ sent \in 0..MaxEvents

\* Some projects may already have an SVM, with a volume, on any one backend:
\* the order of the sections may have changed since it was created.
Init ==
  /\ env \in Envs
  /\ \E old \in SUBSET Projects : \E host \in [old -> Hosts] :
        /\ projects = [p \in Projects |-> IF p \in old THEN "tagged" ELSE "none"]
        /\ svms = {<<host[p], p>> : p \in old}
        /\ vols = {[on |-> host[p], svm |-> p, name |-> p] : p \in old}
  /\ access = {}
  /\ job = [i \in Ids |-> NoJob]
  /\ sent = 0

Exists(p) == projects[p] \in {"untagged", "tagged"}
Fault(call) == call \in env.faults

-----------------------------------------------------------------------------
\* What users do in Keystone and Cinder, each with its notification.

Emit(kind, p, t) ==
  /\ kind \in env.ops
  /\ sent < env.max
  /\ sent' = sent + 1
  /\ job' = [job EXCEPT ![sent + 1] =
               [NoJob EXCEPT !.kind = kind, !.of = p, !.type = t, !.pc = "pending"]]
  /\ UNCHANGED <<env, svms, vols>>

CreateProject(p, tag) ==
  /\ projects[p] = "none"
  /\ projects' = [projects EXCEPT ![p] = tag]
  /\ Emit("created", p, "")
  /\ UNCHANGED access

UpdateProject(p, tag) ==
  /\ Exists(p)
  /\ projects' = [projects EXCEPT ![p] = tag]
  /\ Emit("updated", p, "")
  /\ UNCHANGED access

DeleteProject(p) ==
  /\ Exists(p)
  /\ projects' = [projects EXCEPT ![p] = "deleted"]
  /\ Emit("deleted", p, "")
  /\ UNCHANGED access

AddAccess(p, t) ==
  /\ Exists(p) /\ <<p, t>> \notin access
  /\ env.shared \/ \A q \in Projects : <<q, t>> \notin access
  /\ access' = access \cup {<<p, t>>}
  /\ Emit("add", p, t)
  /\ UNCHANGED projects

RemoveAccess(p, t) ==
  /\ <<p, t>> \in access
  /\ access' = access \ {<<p, t>>}
  /\ Emit("remove", p, t)
  /\ UNCHANGED projects

-----------------------------------------------------------------------------
\* A job.

At(i, pc) == job[i].pc = pc
Goto(i, pc) == job' = [job EXCEPT ![i].pc = pc]
Done(i, out) ==
  job' = [job EXCEPT ![i] = [NoJob EXCEPT !.kind = job[i].kind, !.of = job[i].of,
                                          !.type = job[i].type, !.pc = "done", !.out = out]]
HasSvm(i) == <<job[i].at, job[i].of>> \in svms
Env == <<env, projects, access, sent>>

\* Faulty variant: an update of a tagged project creates without looking.
BeginBlindly(i) ==
  LET j == job[i] IN
  /\ At(i, "pending")
  /\ env.serial => \A k \in 1..(i - 1) : At(k, "done")
  /\ \/ j.kind \in {"created", "updated"} /\ projects[j.of] = "tagged" /\ Goto(i, "recheck")
     \/ ~(j.kind \in {"created", "updated"} /\ projects[j.of] = "tagged") /\ Goto(i, "find")
  /\ UNCHANGED <<Env, svms, vols>>

\* The event arrives: is_project_svm_enabled reads the tags as they are now, and
\* fails for a project that is gone.  handle_project_created goes on to the
\* first backend; every other handler looks for the SVM.
Begin(i) ==
  LET j == job[i] IN
  /\ At(i, "pending")
  /\ env.serial => \A k \in 1..(i - 1) : At(k, "done")
  /\ \/ j.kind \in {"created", "updated"} /\ ~Exists(j.of) /\ Done(i, "failed")
     \/ j.kind = "created" /\ projects[j.of] = "untagged" /\ Done(i, "nonexistent")
     \/ j.kind = "created" /\ projects[j.of] = "tagged" /\ Goto(i, "recheck")
     \/ /\ j.kind = "updated" /\ Exists(j.of)
        /\ job' = [job EXCEPT ![i].pc = "find", ![i].tagged = projects[j.of] = "tagged"]
     \/ j.kind \in {"deleted", "add", "remove"} /\ Goto(i, "find")
     \/ Fault("connect") /\ Done(i, "failed")
  /\ UNCHANGED <<Env, svms, vols>>

\* What a handler does with the backend that has the SVM.
Found(i) ==
  \/ job[i].kind = "updated" /\ job[i].tagged /\ Done(i, "present")
  \/ job[i].kind = "updated" /\ ~job[i].tagged /\ Goto(i, "findVol")
  \/ job[i].kind = "deleted" /\ Goto(i, "findVol")
  \/ job[i].kind = "add" /\ Goto(i, "postVol")
  \/ job[i].kind = "remove" /\ Goto(i, "deleteTyped")

\* ... and when no backend has it: a tagged project gets one on backends[0].
NotFound(i) ==
  \/ /\ job[i].kind = "updated" /\ job[i].tagged
     /\ job' = [job EXCEPT ![i].pc = "recheck", ![i].at = 1]
  \/ job[i].kind = "updated" /\ ~job[i].tagged /\ Done(i, "")
  \/ job[i].kind = "deleted" /\ Done(i, "nonexistent")
  \/ job[i].kind \in {"add", "remove"} /\ Done(i, "failed")

\* check_if_svm_exists on one backend after another.  A lookup that fails
\* counts as "no SVM" (SvmService.exists).
FindSvm(i) ==
  /\ At(i, "find")
  /\ \/ HasSvm(i) /\ Found(i)
     \/ /\ ~HasSvm(i) \/ Fault("find")
        /\ IF job[i].at < Backends THEN job' = [job EXCEPT ![i].at = @ + 1] ELSE NotFound(i)
     \/ Fault("connect") /\ Done(i, "failed")
  /\ UNCHANGED <<Env, svms, vols>>

\* _create_svm: select an aggregate, and refuse when the SVM exists.
RecheckSvm(i) ==
  /\ At(i, "recheck")
  /\ \/ HasSvm(i) /\ Done(i, "failed")
     \/ (~HasSvm(i) \/ Fault("find")) /\ Goto(i, "post")
     \/ Fault("connect") /\ Done(i, "failed")
  /\ UNCHANGED <<Env, svms, vols>>

\* Svm.post: ONTAP refuses a name that is taken on the backend.
PostSvm(i) ==
  /\ At(i, "post")
  /\ \/ ~HasSvm(i) /\ svms' = svms \cup {<<job[i].at, job[i].of>>} /\ Goto(i, "root")
     \/ (HasSvm(i) \/ Fault("post")) /\ Done(i, "failed") /\ UNCHANGED svms
  /\ UNCHANGED <<Env, vols>>

\* _configure_svm_root_volume: a failure leaves the SVM behind.
ConfigureRootVolume(i) ==
  /\ At(i, "root")
  /\ \/ HasSvm(i) /\ Done(i, "created")
     \/ (~HasSvm(i) \/ Fault("root")) /\ Done(i, "failed")
  /\ UNCHANGED <<Env, svms, vols>>

-----------------------------------------------------------------------------
\* cleanup_project.  Its result is not looked at: the handler reports "removed".

Legacy(i) == {v \in vols : v.on = job[i].at /\ v.svm = job[i].of /\ v.name = job[i].of}

\* VolumeService.exists, in the project's SVM.
FindVolume(i) ==
  /\ At(i, "findVol")
  /\ \/ job' = [job EXCEPT ![i].pc = "findAgain", ![i].vol = Legacy(i) # {}]
     \/ Fault("find") /\ job' = [job EXCEPT ![i].pc = "findAgain", ![i].vol = FALSE]
  /\ UNCHANGED <<Env, svms, vols>>

\* SvmService.exists again.  The volume goes first; without an SVM, it goes alone.
FindAgain(i) ==
  /\ At(i, "findAgain")
  /\ \E had \in BOOLEAN :
        /\ had = HasSvm(i) \/ (Fault("find") /\ ~had)
        /\ \/ job[i].vol /\ job' = [job EXCEPT ![i].pc = "deleteVol", ![i].svm = had]
           \/ ~job[i].vol /\ had /\ Goto(i, "deleteSvm")
           \/ ~job[i].vol /\ ~had /\ Done(i, "removed")
  /\ UNCHANGED <<Env, svms, vols>>

\* client.delete_volume looks the volume up by its name alone, on the backend.
\* The library gives up on a name that is not found, or found more than once.
Named(i, name) == {v \in vols : v.on = job[i].at /\ v.name = name}
Deletes(i, name, v) == Named(i, name) = {v} /\ vols' = vols \ {v}

\* VolumeService.delete_volume: an error is only a result.
NotDeleted(i, name) ==
  /\ ~(\E v \in vols : Named(i, name) = {v}) \/ Fault("delete")
  /\ UNCHANGED vols

\* Faulty variants: the SVM stays when there was a volume; every volume of the
\* SVM is deleted.
DeleteVolumeOnly(i) ==
  /\ At(i, "deleteVol")
  /\ \E v \in Named(i, job[i].of) : vols' = vols \ {v} /\ Done(i, "removed")
  /\ UNCHANGED <<Env, svms>>

DeleteVolumesOfSvm(i) ==
  /\ At(i, "deleteVol")
  /\ vols' = {v \in vols : <<v.on, v.svm>> # <<job[i].at, job[i].of>>}
  /\ IF job[i].svm THEN Goto(i, "deleteSvm") ELSE Done(i, "removed")
  /\ UNCHANGED <<Env, svms>>

\* The volume of cleanup_project, by force.  When that fails the SVM is skipped.
DeleteVolume(i) ==
  /\ At(i, "deleteVol")
  /\ \/ /\ \E v \in vols : Deletes(i, job[i].of, v)
        /\ IF job[i].svm THEN Goto(i, "deleteSvm") ELSE Done(i, "removed")
     \/ NotDeleted(i, job[i].of) /\ Done(i, "removed")
  /\ UNCHANGED <<Env, svms>>

\* ONTAP refuses to delete an SVM that has volumes.
DeleteSvm(i) ==
  LET full == \E v \in vols : v.on = job[i].at /\ v.svm = job[i].of IN
  /\ At(i, "deleteSvm")
  /\ \/ ~full /\ svms' = svms \ {<<job[i].at, job[i].of>>}
     \/ (full \/ Fault("delete")) /\ UNCHANGED svms
  /\ Done(i, "removed")
  /\ UNCHANGED <<Env, vols>>

-----------------------------------------------------------------------------
\* Volume type access.

\* The VolumeSpec of VolumeService.create_volume.
NewVolume(i) == [on |-> job[i].at, svm |-> job[i].of, name |-> job[i].type]

\* Select an aggregate and create the FlexVol; ONTAP wants the SVM and a name
\* that is free in it.
PostVolume(i) ==
  LET v == NewVolume(i) IN
  /\ At(i, "postVol")
  /\ \/ HasSvm(i) /\ v \notin vols /\ vols' = vols \cup {v} /\ Done(i, "created")
     \/ /\ ~HasSvm(i) \/ v \in vols \/ Fault("post")
        /\ Done(i, "failed") /\ UNCHANGED vols
  /\ UNCHANGED <<Env, svms>>

\* delete_volume without force, of vol_<volume_type_id>.
DeleteTypedVolume(i) ==
  /\ At(i, "deleteTyped")
  /\ \/ (\E v \in vols : Deletes(i, job[i].type, v)) /\ Done(i, "removed")
     \/ NotDeleted(i, job[i].type) /\ Done(i, "failed")
  /\ UNCHANGED <<Env, svms>>

-----------------------------------------------------------------------------
Users ==
  \E p \in Projects :
     \/ \E tag \in {"untagged", "tagged"} : CreateProject(p, tag) \/ UpdateProject(p, tag)
     \/ DeleteProject(p)
     \/ \E t \in VolumeTypes : AddAccess(p, t) \/ RemoveAccess(p, t)

Step(i) ==
  \/ Begin(i) \/ FindSvm(i) \/ RecheckSvm(i) \/ PostSvm(i) \/ ConfigureRootVolume(i)
  \/ FindVolume(i) \/ FindAgain(i) \/ DeleteVolume(i) \/ DeleteSvm(i)
  \/ PostVolume(i) \/ DeleteTypedVolume(i)

Next == Users \/ \E i \in Ids : Step(i)

Spec == Init /\ [][Next]_vars

-----------------------------------------------------------------------------
\* No event is waiting or being handled.
Settled == \A i \in 1..sent : At(i, "done")
Orderly == env.serial /\ env.faults = {}
SvmOf(p) == {s \in svms : s[2] = p}

\* A project never has two SVMs, whichever handlers race: the handlers look on
\* every backend before they create on the first.  (Needs lookups that do not
\* fail: a failed lookup counts as "no SVM".)
OneSvmPerProject == ~Fault("find") => \A s, t \in svms : s[2] = t[2] => s = t

\* Once every event has been handled, in order, a project has an SVM exactly if
\* it is tagged, and no FlexVol is left of a volume type its project has no access
\* to; with volume types in use the SVM of a project that lost its tag may stay.
SvmFollowsTag ==
  Settled /\ Orderly =>
    /\ \A p \in Projects :
         /\ projects[p] = "tagged" => SvmOf(p) # {}
         /\ "add" \notin env.ops /\ projects[p] # "tagged" => SvmOf(p) = {}
    /\ \A v \in vols : v.name \in VolumeTypes => <<v.svm, v.name>> \in access

\* A FlexVol that was created for a project and a volume type stays until
\* access to that type is removed from that project: handle_volume_type_access_
\* removed deletes the FlexVol "for volume type %s in project %s".
GrantedVolumesKept ==
  Orderly => \A i \in Ids :
    job[i].kind = "add" /\ job[i].out = "created" =>
      \/ \E v \in vols : v.svm = job[i].of /\ v.name = job[i].type
      \/ \E k \in i..MaxEvents : /\ job[k].kind = "remove" /\ job[k].of = job[i].of
                                 /\ job[k].type = job[i].type

Store == INSTANCE SvmStore WITH
  Owners <- Projects, Names <- VolNames,
  svms <- IF Fault("find") THEN {} ELSE svms, vols <- IF Fault("find") THEN {} ELSE vols

\* The handlers implement the store, whichever of them race and whatever fails
\* except lookups of SVMs (SvmService.exists takes a failed lookup for "no SVM").
ImplementsStore == Store!Spec
=============================================================================
