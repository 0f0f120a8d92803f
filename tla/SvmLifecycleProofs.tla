------------------------- MODULE SvmLifecycleProofs -------------------------
(***************************************************************************)
(* A project never has two SVMs, for any number of projects, volume types, *)
(* backends and events, handled in any order and at the same time.         *)
(*                                                                         *)
(* The argument: SVMs are only created on the first backend.  Those on     *)
(* other backends are left from before, so they can only disappear; a      *)
(* handler that has seen none of them may create, however long ago it      *)
(* looked, and on the first backend ONTAP refuses a second one.            *)
(***************************************************************************)
EXTENDS SvmLifecycle, TLAPS

\* The project has an SVM on a backend other than the first.
Elsewhere(p) == \E h \in Hosts : h # 1 /\ <<h, p>> \in svms

\* Handlers that have yet to ask, or are about to create, are at the first backend.
FirstBackend == \A i \in Ids : job[i].pc \in {"pending", "recheck", "post"} => job[i].at = 1

\* A project with an SVM elsewhere is not new.
NotNew ==
  \A p \in Projects : Elsewhere(p) =>
    /\ projects[p] # "none"
    /\ \A i \in Ids : job[i].pc # "none" /\ job[i].of = p => job[i].kind # "created"

\* The backends a handler has passed, after the first, do not have the SVM.
Passed ==
  \A i \in Ids : job[i].pc = "find" =>
    \A h \in Hosts : h # 1 /\ h < job[i].at => <<h, job[i].of>> \notin svms

\* A handler about to create has passed them all.
MayCreate == \A i \in Ids : job[i].pc \in {"recheck", "post"} => ~Elsewhere(job[i].of)

\* A FlexVol is only made by a handler that knows its volume type.
KnowsType ==
  \A i \in Ids : /\ job[i].kind \in {"add", "remove"} => job[i].type \in VolumeTypes
                 /\ job[i].pc = "postVol" => job[i].kind = "add"

IInv ==
  /\ TypeOK
  /\ KnowsType
  /\ FirstBackend
  /\ NotNew
  /\ ~Fault("find") => Passed /\ MayCreate /\ OneSvmPerProject

-----------------------------------------------------------------------------
USE SvmAssumption

LEMMA NoJobTyped == NoJob \in Jobs /\ NoJob.pc = "none" /\ NoJob.at = 1 /\ NoJob.kind = "created"
  BY DEF NoJob, Jobs, Kinds, Pcs, Outcomes, Hosts

LEMMA HostsAreNumbered ==
  /\ Backends \in Nat /\ 1 \in Hosts
  /\ \A h \in Hosts : h \in Nat /\ 1 <= h /\ h <= Backends
  /\ \A h \in Hosts : h < Backends => h + 1 \in Hosts
  BY DEF Hosts

\* The effect of a step that changes one job and no SVM: what must hold of the
\* job after it.
LEMMA OneJobChanges ==
  ASSUME IInv, NEW i \in Ids, NEW r \in Jobs,
         job' = [job EXCEPT ![i] = r], UNCHANGED <<env, svms, projects, access, sent>>,
         vols' \in SUBSET Volumes,
         job[i].pc # "none", r.kind = job[i].kind, r.of = job[i].of, r.type = job[i].type,
         r.pc = "postVol" => r.kind = "add",
         r.pc \in {"pending", "recheck", "post"} => r.at = 1,
         ~Fault("find") =>
           /\ r.pc = "find" =>
                \A h \in Hosts : h # 1 /\ h < r.at => <<h, r.of>> \notin svms
           /\ r.pc \in {"recheck", "post"} => ~Elsewhere(r.of)
  PROVE  IInv'
  <1>1. TypeOK'
    BY DEF IInv, TypeOK
  <1>2. FirstBackend'
    BY DEF IInv, TypeOK, FirstBackend
  <1>6. KnowsType'
    BY DEF IInv, TypeOK, KnowsType
  <1>3. \A p : Elsewhere(p)' = Elsewhere(p)
    BY DEF Elsewhere
  <1>4. NotNew'
    BY <1>3 DEF IInv, TypeOK, NotNew
  <1>5. ASSUME ~Fault("find")' PROVE Passed' /\ MayCreate' /\ OneSvmPerProject'
    <2>1. ~Fault("find") /\ Passed /\ MayCreate /\ OneSvmPerProject
      BY <1>5 DEF IInv, Fault
    <2>2. Passed'
      BY <2>1 DEF IInv, TypeOK, Passed
    <2>3. MayCreate'
      BY <2>1, <1>3 DEF IInv, TypeOK, MayCreate
    <2>4. OneSvmPerProject'
      BY <2>1 DEF OneSvmPerProject, Fault
    <2> QED  BY <2>2, <2>3, <2>4
  <1> QED  BY <1>1, <1>2, <1>4, <1>5, <1>6 DEF IInv

\* What a job is when it is done.
Ended(j, out) ==
  [NoJob EXCEPT !.kind = j.kind, !.of = j.of, !.type = j.type, !.pc = "done", !.out = out]

LEMMA DoneJob ==
  ASSUME NEW j \in Jobs, NEW out \in Outcomes, NEW r, r = Ended(j, out)
  PROVE  r \in Jobs /\ r.pc = "done" /\ r.kind = j.kind /\ r.of = j.of /\ r.type = j.type
  <1>1. r = [kind |-> j.kind, of |-> j.of, type |-> j.type, pc |-> "done", tagged |-> FALSE,
             at |-> 1, vol |-> FALSE, svm |-> FALSE, out |-> out]
    BY DEF Ended, NoJob
  <1>2. /\ j.kind \in Kinds /\ j.of \in Projects /\ j.type \in VolumeTypes \cup {""}
        /\ 1 \in Hosts /\ "done" \in Pcs /\ out \in Outcomes
    BY HostsAreNumbered DEF Jobs, Pcs
  <1>3. r.pc = "done" /\ r.kind = j.kind /\ r.of = j.of /\ r.type = j.type
    BY ONLY <1>1, ZenonT(40)
  <1>4. r \in Jobs
    BY ONLY <1>1, <1>2, ZenonT(40) DEF Jobs
  <1> QED  BY <1>3, <1>4

\* A job that ends keeps the invariant.
LEMMA JobEnds ==
  ASSUME IInv, NEW i \in Ids, NEW out \in Outcomes, job[i].pc # "none", Done(i, out),
         UNCHANGED <<env, svms, projects, access, sent>>, vols' \in SUBSET Volumes
  PROVE  IInv'
  <1>0. PICK r : r = Ended(job[i], out)
    OBVIOUS
  <1>1. job[i] \in Jobs
    BY DEF IInv, TypeOK
  <1>2. r \in Jobs /\ r.pc = "done" /\ r.kind = job[i].kind /\ r.of = job[i].of /\ r.type = job[i].type
    BY <1>0, <1>1, DoneJob, SMT
  <1>3. job' = [job EXCEPT ![i] = r]
    BY <1>0 DEF Done, Ended
  <1> QED  BY <1>2, <1>3, OneJobChanges

\* So does one that goes on to a step that neither looks for an SVM nor creates one.
LEMMA JobGoesOn ==
  ASSUME IInv, NEW i \in Ids, NEW r \in Jobs, job[i].pc # "none",
         r.kind = job[i].kind, r.of = job[i].of, r.type = job[i].type, job' = [job EXCEPT ![i] = r],
         r.pc \in Pcs \ {"pending", "find", "recheck", "post"},
         r.pc = "postVol" => r.kind = "add",
         UNCHANGED <<env, svms, projects, access, sent>>, vols' \in SUBSET Volumes
  PROVE  IInv'
  BY OneJobChanges

LEMMA GotoKeeps ==
  ASSUME IInv, NEW i \in Ids, job[i].pc # "none",
         NEW pc \in Pcs \ {"pending", "find", "recheck", "post"}, Goto(i, pc),
         pc = "postVol" => job[i].kind = "add",
         UNCHANGED <<env, svms, projects, access, sent>>, vols' \in SUBSET Volumes
  PROVE  IInv'
  <1> DEFINE r == [job[i] EXCEPT !.pc = pc]
  <1>1. r \in Jobs /\ r.pc = pc /\ r.kind = job[i].kind /\ r.of = job[i].of /\ r.type = job[i].type
    <2>1. job[i] \in Jobs
      BY DEF IInv, TypeOK
    <2> QED  BY <2>1, ZenonT(40) DEF Jobs
  <1>2. job' = [job EXCEPT ![i] = r]
    BY DEF Goto
  <1> HIDE DEF r
  <1> QED  BY <1>1, <1>2, JobGoesOn

LEMMA BeginKeeps ==
  ASSUME IInv, NEW i \in Ids, Begin(i)
  PROVE  IInv'
  <1> USE DEF Env, At
  <1>1. /\ job[i] \in Jobs /\ job[i].pc = "pending" /\ job[i].at = 1
        /\ vols' \in SUBSET Volumes
        /\ UNCHANGED <<env, svms, projects, access, sent>>
    BY DEF IInv, TypeOK, Begin, FirstBackend
  <1>2. ASSUME NEW out \in Outcomes, Done(i, out) PROVE IInv'
    BY <1>1, <1>2, JobEnds
  <1>3. CASE job[i].kind = "created" /\ Goto(i, "recheck")
    <2> DEFINE r == [job[i] EXCEPT !.pc = "recheck"]
    <2>1. /\ r \in Jobs /\ r.pc = "recheck" /\ r.at = 1
          /\ r.kind = job[i].kind /\ r.of = job[i].of /\ r.type = job[i].type
      BY <1>1 DEF Jobs, Pcs
    <2>2. job' = [job EXCEPT ![i] = r]
      BY <1>3 DEF Goto
    <2>3. ~Elsewhere(r.of)
      BY <1>1, <1>3 DEF IInv, NotNew, Jobs
    <2> HIDE DEF r
    <2> QED  BY <1>1, <2>1, <2>2, <2>3, OneJobChanges
  <1>4. ASSUME NEW t \in BOOLEAN,
               job' = [job EXCEPT ![i].pc = "find", ![i].tagged = t]
        PROVE  IInv'
    <2> DEFINE r == [job[i] EXCEPT !.pc = "find", !.tagged = t]
    <2>1. /\ r \in Jobs /\ r.pc = "find" /\ r.at = 1
          /\ r.kind = job[i].kind /\ r.of = job[i].of /\ r.type = job[i].type
      BY <1>1 DEF Jobs, Pcs
    <2>2. job' = [job EXCEPT ![i] = r]
      BY <1>4
    <2>3. \A h \in Hosts : ~(h < 1)
      BY DEF Hosts
    <2> HIDE DEF r
    <2> QED  BY <1>1, <2>1, <2>2, <2>3, OneJobChanges
  <1>5. CASE Goto(i, "find")
    <2>1. job' = [job EXCEPT ![i].pc = "find", ![i].tagged = job[i].tagged]
      BY <1>1, <1>5 DEF Goto, Jobs, IInv, TypeOK
    <2> QED  BY <1>1, <1>4, <2>1 DEF Jobs
  <1>6. \/ Done(i, "failed") \/ Done(i, "nonexistent")
        \/ job[i].kind = "created" /\ Goto(i, "recheck")
        \/ job' = [job EXCEPT ![i].pc = "find", ![i].tagged = projects[job[i].of] = "tagged"]
        \/ Goto(i, "find")
    BY DEF Begin
  <1> QED  BY <1>2, <1>3, <1>4, <1>5, <1>6 DEF Outcomes

LEMMA FindSvmKeeps ==
  ASSUME IInv, NEW i \in Ids, FindSvm(i)
  PROVE  IInv'
  <1> USE DEF Env, At
  <1>1. /\ job[i] \in Jobs /\ job[i].pc = "find" /\ vols' \in SUBSET Volumes
        /\ UNCHANGED <<env, svms, projects, access, sent>>
    BY DEF IInv, TypeOK, FindSvm
  <1>0. job[i].at \in Hosts
    BY <1>1 DEF Jobs
  <1>2. ASSUME NEW out \in Outcomes, Done(i, out) PROVE IInv'
    BY <1>1, <1>2, JobEnds
  <1>3. CASE Found(i)
    <2>1. ASSUME NEW pc \in {"findVol", "postVol", "deleteTyped"}, Goto(i, pc),
                 pc = "postVol" => job[i].kind = "add"
          PROVE  IInv'
      BY <1>1, <2>1, GotoKeeps DEF Pcs
    <2> QED  BY <1>2, <1>3, <2>1 DEF Found, Outcomes
  <1>4. ASSUME ~Fault("find"), ~HasSvm(i), NEW h \in Hosts, h # 1, h <= job[i].at
        PROVE  <<h, job[i].of>> \notin svms
    <2>1. h < job[i].at \/ h = job[i].at
      BY <1>0, <1>4, HostsAreNumbered
    <2>2. h < job[i].at => <<h, job[i].of>> \notin svms
      BY <1>1, <1>4 DEF IInv, Passed
    <2> QED  BY <1>4, <2>1, <2>2 DEF HasSvm
  <1>5. CASE /\ ~HasSvm(i) \/ Fault("find")
             /\ job[i].at < Backends /\ job' = [job EXCEPT ![i].at = @ + 1]
    <2> DEFINE r == [job[i] EXCEPT !.at = @ + 1]
    <2>1. /\ r \in Jobs /\ r.pc = "find" /\ r.at = job[i].at + 1
          /\ r.kind = job[i].kind /\ r.of = job[i].of /\ r.type = job[i].type
      BY <1>1, <1>5, HostsAreNumbered DEF Jobs
    <2>2. job' = [job EXCEPT ![i] = r]
      BY <1>5
    <2>3. ~Fault("find") => \A h \in Hosts : h # 1 /\ h < r.at => <<h, r.of>> \notin svms
      <3>1. \A h \in Hosts : h < job[i].at + 1 => h <= job[i].at
        BY <1>0, HostsAreNumbered
      <3> HIDE DEF r
      <3> QED  BY <1>4, <1>5, <2>1, <3>1
    <2> HIDE DEF r
    <2> QED  BY <1>1, <2>1, <2>2, <2>3, OneJobChanges
  <1>6. CASE /\ ~HasSvm(i) \/ Fault("find")
             /\ job[i].at >= Backends /\ NotFound(i)
    <2>1. CASE job' = [job EXCEPT ![i].pc = "recheck", ![i].at = 1]
      <3> DEFINE r == [job[i] EXCEPT !.pc = "recheck", !.at = 1]
      <3>1. /\ r \in Jobs /\ r.pc = "recheck" /\ r.at = 1
            /\ r.kind = job[i].kind /\ r.of = job[i].of /\ r.type = job[i].type
        BY <1>1, HostsAreNumbered DEF Jobs, Pcs
      <3>2. job' = [job EXCEPT ![i] = r]
        BY <2>1
      <3>3. ~Fault("find") => ~Elsewhere(r.of)
        <4>1. \A h \in Hosts : h <= job[i].at
          BY <1>0, <1>6, HostsAreNumbered
        <4> HIDE DEF r
        <4> QED  BY <1>4, <1>6, <3>1, <4>1 DEF Elsewhere
      <3> HIDE DEF r
      <3> QED  BY <1>1, <3>1, <3>2, <3>3, OneJobChanges
    <2> QED  BY <1>2, <1>6, <2>1 DEF NotFound, Outcomes
  <1> QED
    <2>2. job[i].at < Backends \/ job[i].at >= Backends
      BY <1>0, HostsAreNumbered
    <2>3. CASE Done(i, "failed")
      BY <1>2, <2>3 DEF Outcomes
    <2>4. \/ Found(i) \/ Done(i, "failed")
          \/ /\ ~HasSvm(i) \/ Fault("find")
             /\ job[i].at < Backends /\ job' = [job EXCEPT ![i].at = @ + 1]
          \/ /\ ~HasSvm(i) \/ Fault("find")
             /\ job[i].at >= Backends /\ NotFound(i)
      BY <2>2 DEF FindSvm
    <2> QED  BY <1>3, <1>5, <1>6, <2>3, <2>4

LEMMA RecheckSvmKeeps ==
  ASSUME IInv, NEW i \in Ids, RecheckSvm(i)
  PROVE  IInv'
  <1> USE DEF Env, At
  <1>1. /\ job[i] \in Jobs /\ job[i].pc = "recheck" /\ vols' \in SUBSET Volumes
        /\ UNCHANGED <<env, svms, projects, access, sent>>
    BY DEF IInv, TypeOK, RecheckSvm
  <1>2. CASE Done(i, "failed")
    BY <1>1, <1>2, JobEnds DEF Outcomes
  <1>3. CASE Goto(i, "post")
    <2> DEFINE r == [job[i] EXCEPT !.pc = "post"]
    <2>1. /\ r \in Jobs /\ r.pc = "post" /\ r.at = job[i].at
          /\ r.kind = job[i].kind /\ r.of = job[i].of /\ r.type = job[i].type
      BY <1>1 DEF Jobs, Pcs
    <2>2. job' = [job EXCEPT ![i] = r]
      BY <1>3 DEF Goto
    <2>3. job[i].at = 1 /\ (~Fault("find") => ~Elsewhere(job[i].of))
      BY <1>1 DEF IInv, FirstBackend, MayCreate
    <2> HIDE DEF r
    <2> QED  BY <1>1, <2>1, <2>2, <2>3, OneJobChanges
  <1> QED  BY <1>2, <1>3 DEF RecheckSvm

\* A second SVM is refused on the first backend, and there is none elsewhere.
LEMMA PostSvmKeeps ==
  ASSUME IInv, NEW i \in Ids, PostSvm(i)
  PROVE  IInv'
  <1> USE DEF Env, At
  <1>1. /\ job[i] \in Jobs /\ job[i].pc = "post" /\ vols' \in SUBSET Volumes
        /\ UNCHANGED <<env, projects, access, sent>> /\ job[i].at = 1
    BY DEF IInv, TypeOK, PostSvm, FirstBackend
  <1>2. CASE Done(i, "failed") /\ UNCHANGED svms
    BY <1>1, <1>2, JobEnds DEF Outcomes
  <1>3. CASE /\ ~HasSvm(i) /\ svms' = svms \cup {<<job[i].at, job[i].of>>}
             /\ Goto(i, "root")
    <2> DEFINE r == [job[i] EXCEPT !.pc = "root"]
    <2>1. r \in Jobs /\ r.pc = "root" /\ r.kind = job[i].kind /\ r.of = job[i].of /\ r.type = job[i].type
      BY <1>1 DEF Jobs, Pcs
    <2>2. job' = [job EXCEPT ![i] = r]
      BY <1>3 DEF Goto
    <2> HIDE DEF r
    <2>3. svms' = svms \cup {<<1, job[i].of>>}
      BY <1>1, <1>3
    <2>4. \A p : Elsewhere(p)' = Elsewhere(p)
      BY <2>3 DEF Elsewhere
    <2>5. <<1, job[i].of>> \in Hosts \X Projects
      BY <1>1, HostsAreNumbered DEF Jobs
    <2>6. TypeOK'
      BY <1>1, <2>1, <2>2, <2>3, <2>5 DEF IInv, TypeOK
    <2>7. FirstBackend' /\ KnowsType'
      BY <2>1, <2>2 DEF IInv, TypeOK, FirstBackend, KnowsType
    <2>8. NotNew'
      BY <1>1, <2>1, <2>2, <2>4 DEF IInv, TypeOK, NotNew
    <2>9. ASSUME ~Fault("find")' PROVE Passed' /\ MayCreate' /\ OneSvmPerProject'
      <3>1. ~Fault("find") /\ Passed /\ MayCreate /\ OneSvmPerProject
        BY <1>1, <2>9 DEF IInv, Fault
      <3>2. Passed'
        BY <2>1, <2>2, <2>3, <3>1 DEF IInv, TypeOK, Passed
      <3>3. MayCreate'
        BY <2>1, <2>2, <2>4, <3>1 DEF IInv, TypeOK, MayCreate
      <3>4. OneSvmPerProject'
        <4>1. ~Elsewhere(job[i].of)
          BY <1>1, <3>1 DEF MayCreate
        <4>2. ASSUME NEW s \in svms, s[2] = job[i].of PROVE FALSE
          <5>1. PICK h \in Hosts, p \in Projects : s = <<h, p>>
            BY <4>2 DEF IInv, TypeOK
          <5>2. h # 1
            BY <1>1, <1>3, <4>2, <5>1 DEF HasSvm
          <5> QED  BY <4>1, <4>2, <5>1, <5>2 DEF Elsewhere
        <4>3. \A s, t \in svms : s[2] = t[2] => s = t
          BY <3>1 DEF OneSvmPerProject
        <4>4. \A s, t \in svms' : s[2] = t[2] => s = t
          BY <2>3, <4>2, <4>3
        <4> QED  BY <4>4 DEF OneSvmPerProject
      <3> QED  BY <3>2, <3>3, <3>4
    <2> QED  BY <2>6, <2>7, <2>8, <2>9 DEF IInv
  <1> QED  BY <1>2, <1>3 DEF PostSvm

\* Deleting an SVM takes nothing away from the argument.
LEMMA DeleteSvmKeeps ==
  ASSUME IInv, NEW i \in Ids, DeleteSvm(i)
  PROVE  IInv'
  <1> USE DEF Env, At
  <1>0. PICK r : r = Ended(job[i], "removed")
    OBVIOUS
  <1>1. /\ job[i] \in Jobs /\ job[i].pc = "deleteSvm"
        /\ UNCHANGED <<env, projects, access, sent, vols>>
        /\ svms' \subseteq svms
    BY DEF IInv, TypeOK, DeleteSvm
  <1>2. r \in Jobs /\ r.pc = "done" /\ r.kind = job[i].kind /\ r.of = job[i].of /\ r.type = job[i].type
    <2>1. "removed" \in Outcomes
      BY DEF Outcomes
    <2> QED  BY <1>0, <1>1, <2>1, DoneJob, SMT
  <1>3. job' = [job EXCEPT ![i] = r]
    BY <1>0 DEF DeleteSvm, Done, Ended
  <1>4. \A p : Elsewhere(p)' => Elsewhere(p)
    BY <1>1 DEF Elsewhere
  <1>5. TypeOK'
    BY <1>1, <1>2, <1>3 DEF IInv, TypeOK
  <1>6. FirstBackend' /\ KnowsType'
    BY <1>2, <1>3 DEF IInv, TypeOK, FirstBackend, KnowsType
  <1>7. NotNew'
    BY <1>1, <1>2, <1>3, <1>4 DEF IInv, TypeOK, NotNew
  <1>8. ASSUME ~Fault("find")' PROVE Passed' /\ MayCreate' /\ OneSvmPerProject'
    <2>1. ~Fault("find") /\ Passed /\ MayCreate /\ OneSvmPerProject
      BY <1>1, <1>8 DEF IInv, Fault
    <2>2. Passed'
      BY <1>1, <1>2, <1>3, <2>1 DEF IInv, TypeOK, Passed
    <2>3. MayCreate'
      BY <1>2, <1>3, <1>4, <2>1 DEF IInv, TypeOK, MayCreate
    <2>4. OneSvmPerProject'
      BY <1>1, <2>1 DEF OneSvmPerProject, Fault
    <2> QED  BY <2>2, <2>3, <2>4
  <1> QED  BY <1>5, <1>6, <1>7, <1>8 DEF IInv

\* The remaining steps of a handler leave the SVMs alone.
LEMMA OtherStepsKeep ==
  ASSUME IInv, NEW i \in Ids,
         \/ ConfigureRootVolume(i) \/ FindVolume(i) \/ FindAgain(i)
         \/ DeleteVolume(i) \/ PostVolume(i) \/ DeleteTypedVolume(i)
  PROVE  IInv'
  <1> USE DEF Env, At
  <1>1. job[i] \in Jobs /\ vols \in SUBSET Volumes
    BY DEF IInv, TypeOK
  <1>2. ASSUME NEW out \in Outcomes, Done(i, out), job[i].pc # "none",
               UNCHANGED <<Env, svms>>, vols' \in SUBSET Volumes
        PROVE  IInv'
    BY <1>2, JobEnds
  <1>3. CASE ConfigureRootVolume(i)
    <2>1. \E out \in Outcomes : Done(i, out)
      BY <1>3 DEF ConfigureRootVolume, Outcomes
    <2>2. job[i].pc # "none" /\ UNCHANGED <<Env, svms, vols>>
      BY <1>3 DEF ConfigureRootVolume
    <2> QED  BY <1>1, <1>2, <2>1, <2>2
  <1>4. CASE FindVolume(i)
    <2>1. job[i].pc = "findVol" /\ UNCHANGED <<Env, svms, vols>>
      BY <1>4 DEF FindVolume
    <2>2. PICK b \in BOOLEAN : job' = [job EXCEPT ![i].pc = "findAgain", ![i].vol = b]
      BY <1>4 DEF FindVolume
    <2> DEFINE r == [job[i] EXCEPT !.pc = "findAgain", !.vol = b]
    <2>3. r \in Jobs /\ r.pc = "findAgain" /\ r.kind = job[i].kind /\ r.of = job[i].of /\ r.type = job[i].type
      BY <1>1 DEF Jobs, Pcs
    <2>4. job' = [job EXCEPT ![i] = r]
      BY <2>2
    <2> HIDE DEF r
    <2> QED  BY <1>1, <2>1, <2>3, <2>4, JobGoesOn DEF Pcs
  <1>5. CASE FindAgain(i)
    <2>1. job[i].pc = "findAgain" /\ UNCHANGED <<Env, svms, vols>>
      BY <1>5 DEF FindAgain
    <2>2. CASE Done(i, "removed")
      BY <1>1, <1>2, <2>1, <2>2 DEF Outcomes
    <2>3. CASE Goto(i, "deleteSvm")
      BY <1>1, <2>1, <2>3, GotoKeeps DEF Pcs
    <2>4. ASSUME NEW b \in BOOLEAN, job' = [job EXCEPT ![i].pc = "deleteVol", ![i].svm = b]
          PROVE  IInv'
      <3> DEFINE r == [job[i] EXCEPT !.pc = "deleteVol", !.svm = b]
      <3>1. r \in Jobs /\ r.pc = "deleteVol" /\ r.kind = job[i].kind /\ r.of = job[i].of /\ r.type = job[i].type
        BY <1>1 DEF Jobs, Pcs
      <3>2. job' = [job EXCEPT ![i] = r]
        BY <2>4
      <3> HIDE DEF r
      <3> QED  BY <1>1, <2>1, <3>1, <3>2, JobGoesOn DEF Pcs
    <2>5. \/ Done(i, "removed") \/ Goto(i, "deleteSvm")
          \/ \E b \in BOOLEAN : job' = [job EXCEPT ![i].pc = "deleteVol", ![i].svm = b]
      BY <1>5 DEF FindAgain, HasSvm
    <2> QED  BY <2>2, <2>3, <2>4, <2>5
  <1>6. CASE DeleteVolume(i)
    <2>1. /\ job[i].pc = "deleteVol" /\ UNCHANGED <<Env, svms>> /\ vols' \in SUBSET Volumes
          /\ Done(i, "removed") \/ Goto(i, "deleteSvm")
      BY <1>1, <1>6 DEF DeleteVolume, Deletes, NotDeleted
    <2>2. CASE Done(i, "removed")
      BY <1>2, <2>1, <2>2 DEF Outcomes
    <2>3. CASE Goto(i, "deleteSvm")
      BY <2>1, <2>3, GotoKeeps DEF Pcs
    <2> QED  BY <2>1, <2>2, <2>3
  <1>7. CASE PostVolume(i)
    <2>1. job[i].pc = "postVol" /\ UNCHANGED <<Env, svms>>
      BY <1>7 DEF PostVolume, NewVolume
    <2>2. CASE Done(i, "failed") /\ UNCHANGED vols
      BY <1>1, <1>2, <2>1, <2>2 DEF Outcomes
    <2> DEFINE v == [on |-> job[i].at, svm |-> job[i].of, name |-> job[i].type]
    <2>3. CASE vols' = vols \cup {v} /\ Done(i, "created")
      <3>1. job[i].at \in Hosts /\ job[i].of \in Projects
        BY <1>1 DEF Jobs
      <3>2. job[i].type \in VolNames
        BY <2>1 DEF IInv, KnowsType, VolNames
      <3>3. v \in Volumes
        BY <3>1, <3>2 DEF Volumes
      <3> QED  BY <1>1, <1>2, <2>1, <2>3, <3>3 DEF Outcomes
    <2> QED  BY <1>7, <2>2, <2>3 DEF PostVolume, NewVolume
  <1>8. CASE DeleteTypedVolume(i)
    <2>1. /\ job[i].pc = "deleteTyped" /\ UNCHANGED <<Env, svms>> /\ vols' \in SUBSET Volumes
          /\ Done(i, "removed") \/ Done(i, "failed")
      BY <1>1, <1>8 DEF DeleteTypedVolume, Deletes, NotDeleted
    <2> QED  BY <1>2, <2>1 DEF Outcomes
  <1> QED  BY <1>3, <1>4, <1>5, <1>6, <1>7, <1>8

\* There is room for one more event below a bound.
LEMMA RoomForOneMore ==
  ASSUME NEW n \in 0..MaxEvents, NEW m \in 0..MaxEvents, n < m
  PROVE  n + 1 \in 0..MaxEvents /\ n + 1 \in Ids
  BY DEF Ids

\* A notification adds a job that has not started.  Only a new project's is
\* "created".
LEMMA EmitKeeps ==
  ASSUME IInv, NEW kind \in Kinds, NEW p \in Projects, NEW t \in VolumeTypes \cup {""},
         Emit(kind, p, t), kind \in {"add", "remove"} => t \in VolumeTypes,
         kind = "created" => ~Elsewhere(p),
         projects' \in [Projects -> {"none", "untagged", "tagged", "deleted"}],
         \A q \in Projects : projects[q] # "none" => projects'[q] # "none",
         access' \in SUBSET (Projects \X VolumeTypes)
  PROVE  IInv'
  <1> DEFINE r == [NoJob EXCEPT !.kind = kind, !.of = p, !.type = t, !.pc = "pending"]
  <1>1. /\ r \in Jobs /\ r.pc = "pending" /\ r.at = 1
        /\ r.kind = kind /\ r.of = p /\ r.type = t
    BY NoJobTyped, ZenonT(40) DEF Jobs, Pcs, NoJob
  <1>2. job' = [job EXCEPT ![sent + 1] = r] /\ UNCHANGED <<env, svms, vols>>
    BY DEF Emit
  <1>3. sent' \in 0..MaxEvents /\ sent + 1 \in Ids
    <2> DEFINE max == env.max
    <2>1. env \in Envs /\ sent \in 0..MaxEvents
      BY DEF IInv, TypeOK
    <2>2. max \in 0..MaxEvents
      BY <2>1, EnvsAssumption
    <2>3. sent < max /\ sent' = sent + 1
      BY DEF Emit
    <2> HIDE DEF max
    <2>4. sent + 1 \in 0..MaxEvents /\ sent + 1 \in Ids
      BY <2>1, <2>2, <2>3, RoomForOneMore, Zenon
    <2> QED  BY <2>3, <2>4, Zenon
  <1> HIDE DEF r
  <1>4. PICK n \in Ids : job' = [job EXCEPT ![n] = r]
    BY <1>2, <1>3
  <1>5. TypeOK'
    <2>1. job' \in [Ids -> Jobs]
      BY <1>1, <1>4 DEF IInv, TypeOK
    <2> QED  BY <1>2, <1>3, <2>1, ZenonT(40) DEF IInv, TypeOK
  <1>6. FirstBackend' /\ KnowsType'
    BY <1>1, <1>4 DEF IInv, TypeOK, FirstBackend, KnowsType
  <1>7. \A q : Elsewhere(q)' = Elsewhere(q)
    BY <1>2 DEF Elsewhere
  <1>8. NotNew'
    BY <1>1, <1>4, <1>7 DEF IInv, TypeOK, NotNew
  <1>9. ASSUME ~Fault("find")' PROVE Passed' /\ MayCreate' /\ OneSvmPerProject'
    <2>1. ~Fault("find") /\ Passed /\ MayCreate /\ OneSvmPerProject
      BY <1>2, <1>9 DEF IInv, Fault
    <2>2. Passed'
      BY <1>1, <1>2, <1>4, <2>1 DEF IInv, TypeOK, Passed
    <2>3. MayCreate'
      BY <1>1, <1>4, <1>7, <2>1 DEF IInv, TypeOK, MayCreate
    <2>4. OneSvmPerProject'
      BY <1>2, <2>1 DEF OneSvmPerProject, Fault
    <2> QED  BY <2>2, <2>3, <2>4
  <1> QED  BY <1>5, <1>6, <1>8, <1>9 DEF IInv

LEMMA UsersKeep ==
  ASSUME IInv, Users
  PROVE  IInv'
  <1> USE DEF Kinds
  <1>1. /\ projects \in [Projects -> {"none", "untagged", "tagged", "deleted"}]
        /\ access \in SUBSET (Projects \X VolumeTypes)
    BY DEF IInv, TypeOK
  <1>2. ASSUME NEW p \in Projects, NEW tag \in {"untagged", "tagged"}, CreateProject(p, tag)
        PROVE  IInv'
    <2>1. ~Elsewhere(p)
      BY <1>2 DEF IInv, NotNew, CreateProject
    <2> QED  BY <1>1, <1>2, <2>1, EmitKeeps DEF CreateProject
  <1>3. ASSUME NEW p \in Projects, NEW tag \in {"untagged", "tagged"}, UpdateProject(p, tag)
        PROVE  IInv'
    BY <1>1, <1>3, EmitKeeps DEF UpdateProject
  <1>4. ASSUME NEW p \in Projects, DeleteProject(p)
        PROVE  IInv'
    BY <1>1, <1>4, EmitKeeps DEF DeleteProject
  <1>5. ASSUME NEW p \in Projects, NEW t \in VolumeTypes, AddAccess(p, t)
        PROVE  IInv'
    <2>1. Emit("add", p, t) /\ projects' = projects /\ access' = access \cup {<<p, t>>}
      BY <1>5 DEF AddAccess
    <2>2. access' \in SUBSET (Projects \X VolumeTypes)
      BY <1>1, <2>1
    <2> QED  BY <1>1, <2>1, <2>2, EmitKeeps
  <1>6. ASSUME NEW p \in Projects, NEW t \in VolumeTypes, RemoveAccess(p, t)
        PROVE  IInv'
    BY <1>1, <1>6, EmitKeeps DEF RemoveAccess
  <1> QED  BY <1>2, <1>3, <1>4, <1>5, <1>6 DEF Users

LEMMA InitIInv == Init => IInv
  <1> SUFFICES ASSUME Init PROVE IInv
    OBVIOUS
  <1>1. PICK old \in SUBSET Projects : \E host \in [old -> Hosts] :
          /\ projects = [p \in Projects |-> IF p \in old THEN "tagged" ELSE "none"]
          /\ svms = {<<host[p], p>> : p \in old}
          /\ vols = {[on |-> host[p], svm |-> p, name |-> p] : p \in old}
    BY DEF Init
  <1>2. PICK host \in [old -> Hosts] :
          /\ projects = [p \in Projects |-> IF p \in old THEN "tagged" ELSE "none"]
          /\ svms = {<<host[p], p>> : p \in old}
          /\ vols = {[on |-> host[p], svm |-> p, name |-> p] : p \in old}
    BY <1>1
  <1>3. \A i \in Ids : job[i] = NoJob
    BY DEF Init
  <1>4. TypeOK
    <2>1. vols \in SUBSET Volumes
      <3>1. SUFFICES ASSUME NEW v \in vols PROVE v \in Volumes
        OBVIOUS
      <3>2. PICK p \in old : v = [on |-> host[p], svm |-> p, name |-> p]
        BY <1>2
      <3>3. host[p] \in Hosts /\ p \in Projects
        BY <1>1, <1>2
      <3> QED  BY <3>2, <3>3 DEF Volumes, VolNames
    <2>2. svms \in SUBSET (Hosts \X Projects)
      BY <1>2
    <2>3. projects \in [Projects -> {"none", "untagged", "tagged", "deleted"}]
      BY <1>2
    <2>4. job \in [Ids -> Jobs]
      BY NoJobTyped DEF Init
    <2> QED  BY <2>1, <2>2, <2>3, <2>4, SMTT(30) DEF Init, TypeOK
  <1>5. FirstBackend /\ Passed /\ MayCreate
    BY <1>3, NoJobTyped DEF FirstBackend, Passed, MayCreate
  <1>6. KnowsType
    BY <1>3, NoJobTyped DEF KnowsType
  <1>7. NotNew
    BY <1>2, <1>3, NoJobTyped DEF NotNew, Elsewhere
  <1>8. OneSvmPerProject
    BY <1>2 DEF OneSvmPerProject
  <1> QED  BY <1>4, <1>5, <1>6, <1>7, <1>8 DEF IInv

LEMMA StepKeeps ==
  ASSUME IInv, [Next]_vars
  PROVE  IInv'
  <1>1. CASE Users
    BY <1>1, UsersKeep
  <1>2. ASSUME NEW i \in Ids, Step(i) PROVE IInv'
    BY <1>2, BeginKeeps, FindSvmKeeps, RecheckSvmKeeps, PostSvmKeeps, DeleteSvmKeeps,
       OtherStepsKeep DEF Step
  <1>3. CASE UNCHANGED vars
    BY <1>3 DEF vars, IInv, TypeOK, KnowsType, FirstBackend, NotNew, Elsewhere, Passed,
                MayCreate, OneSvmPerProject, Fault
  <1> QED  BY <1>1, <1>2, <1>3 DEF Next

\* The storage state keeps its types: in particular a handler never asks a
\* backend that is not configured, and every FlexVol lies in an SVM named for
\* a project.
THEOREM SvmTypeCorrect == Spec => []TypeOK
  <1>1. IInv => TypeOK
    BY DEF IInv
  <1> QED  BY <1>1, InitIInv, StepKeeps, PTL DEF Spec

\* handle_project_created and handle_project_updated never give a project a
\* second SVM, however many events are handled at the same time and whatever
\* other calls fail, as long as lookups do not.
THEOREM SvmIsUnique == Spec => []OneSvmPerProject
  <1>1. IInv => OneSvmPerProject
    BY DEF IInv, OneSvmPerProject
  <1> QED  BY <1>1, InitIInv, StepKeeps, PTL DEF Spec

=============================================================================
