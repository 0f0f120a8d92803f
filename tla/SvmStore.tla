------------------------------ MODULE SvmStore ------------------------------
(***************************************************************************)
(* What tenants and Cinder may rely on, whichever events are handled at    *)
(* once: a project has at most one SVM over all backends, a FlexVol is in  *)
(* an SVM that exists, and an SVM goes only when nothing is left in it.    *)
(***************************************************************************)
CONSTANTS
  Hosts,   \* backends
  Owners,  \* projects
  Names    \* names of FlexVols

VARIABLES
  svms,    \* <<backend, project>>
  vols     \* [on, svm, name]

Volume(h, p, n) == [on |-> h, svm |-> p, name |-> n]

Init ==
  /\ svms \in SUBSET (Hosts \X Owners)
  /\ vols \in SUBSET [on : Hosts, svm : Owners, name : Names]
  /\ \A s, t \in svms : s[2] = t[2] => s = t
  /\ \A v \in vols : <<v.on, v.svm>> \in svms

Create(h, p) ==
  /\ \A g \in Hosts : <<g, p>> \notin svms
  /\ svms' = svms \cup {<<h, p>>}
  /\ UNCHANGED vols

Delete(h, p) ==
  /\ \A v \in vols : <<v.on, v.svm>> # <<h, p>>
  /\ svms' = svms \ {<<h, p>>}
  /\ UNCHANGED vols

AddVolume(h, p, n) ==
  /\ <<h, p>> \in svms
  /\ vols' = vols \cup {Volume(h, p, n)}
  /\ UNCHANGED svms

RemoveVolume(h, p, n) ==
  /\ vols' = vols \ {Volume(h, p, n)}
  /\ UNCHANGED svms

Next == \E h \in Hosts, p \in Owners :
  \/ Create(h, p) \/ Delete(h, p)
  \/ \E n \in Names : AddVolume(h, p, n) \/ RemoveVolume(h, p, n)

vars == <<svms, vols>>

Spec == Init /\ [][Next]_vars
=============================================================================
