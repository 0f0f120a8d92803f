----------------------------- MODULE IronicNode -----------------------------
(***************************************************************************)
(* The Ironic API as its callers in this repository use it for netdev      *)
(* nodes (external: modelled from neutron_understack/ironic.py and         *)
(* netdev_reconciler.py).  A node has a provision state, moved by verbs    *)
(* that are valid only in some states, ownership stamps and a resource     *)
(* class.  netdev nodes are created with automated_clean off and have      *)
(* nothing to verify, so manage and provide are immediate; adopt and       *)
(* undeploy pass through a transitional state that Ironic leaves by        *)
(* itself.                                                                 *)
(***************************************************************************)
CONSTANTS
  Nodes,     \* netdev nodes
  Routers,   \* routers that may own one
  Classes,   \* resource classes
  NoRouter   \* an unset instance_uuid or lessee

ASSUME NoRouterAssumption == NoRouter \notin Routers

VARIABLES
  state,   \* provision_state of each node
  inst,    \* instance_uuid of each node
  lessee,  \* lessee of each node: the router whose project holds it
  class,   \* resource_class of each node
  faults   \* the calls that may fail, fixed for a behaviour

stamps == <<inst, lessee>>
ironicVars == <<state, stamps, class>>

ProvisionStates == {"absent", "enroll", "manageable", "available", "adopting",
                    "adopt failed", "active", "deleting"}
Transitional == {"adopting", "deleting"}

ValidFrom(verb) ==
  CASE verb = "manage"   -> {"enroll", "available", "adopt failed"}
    [] verb = "provide"  -> {"manageable"}
    [] verb = "adopt"    -> {"manageable", "adopt failed"}
    [] verb = "undeploy" -> {"active"}

LeadsTo(verb) ==
  CASE verb = "manage"   -> "manageable"
    [] verb = "provide"  -> "available"
    [] verb = "adopt"    -> "adopting"
    [] verb = "undeploy" -> "deleting"

IronicTypeOK ==
  /\ state \in [Nodes -> ProvisionStates]
  /\ inst \in [Nodes -> Routers \cup {NoRouter}]
  /\ lessee \in [Nodes -> Routers \cup {NoRouter}]
  /\ class \in [Nodes -> Classes]

Fault(call) == call \in faults

\* set_node_provision_state: an invalid verb is refused and changes nothing.
Accepts(n, verb) == state[n] \in ValidFrom(verb)

SetProvisionState(n, verb) ==
  /\ Accepts(n, verb)
  /\ state' = [state EXCEPT ![n] = LeadsTo(verb)]
  /\ UNCHANGED <<stamps, class>>

\* update_node is refused while the node is in a transition, and an
\* instance_uuid is never replaced by another one.
UpdateAllowed(n) == state[n] \notin Transitional

StampAllowed(n, r) ==
  /\ UpdateAllowed(n)
  /\ inst[n] \in {r, NoRouter}
  /\ \A m \in Nodes : inst[m] = r => m = n

SetOwner(n, r) ==
  /\ inst' = [inst EXCEPT ![n] = r]
  /\ lessee' = [lessee EXCEPT ![n] = r]
  /\ UNCHANGED <<state, class>>

\* Ironic finishes what it accepted: an adoption succeeds or fails; a teardown
\* clears the instance_uuid and leaves the lessee.
FinishAdopt(n) ==
  /\ state[n] = "adopting"
  /\ \E s \in {"active", "adopt failed"} : state' = [state EXCEPT ![n] = s]
  /\ UNCHANGED <<stamps, class>>

FinishUndeploy(n) ==
  /\ state[n] = "deleting"
  /\ state' = [state EXCEPT ![n] = "available"]
  /\ inst' = [inst EXCEPT ![n] = NoRouter]
  /\ UNCHANGED <<lessee, class>>
=============================================================================
