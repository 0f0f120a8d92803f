---------------------------- MODULE NodeAdoption ----------------------------
(***************************************************************************)
(* Palo Alto routers on netdev nodes: the router callbacks of              *)
(* l3_router/palo_alto.py and the adoption, rollback and release of        *)
(* neutron_understack/ironic.py.                                           *)
(*                                                                         *)
(* A create runs BEFORE_CREATE, outside the database transaction, in an    *)
(* API worker; every Ironic call of it is a step, and other requests run   *)
(* between the steps.  A call may fail without effect, or take effect and  *)
(* fail (a timed-out wait, a lost answer); the variable faults says which  *)
(* calls may in a behaviour.                                               *)
(***************************************************************************)
EXTENDS IronicNode, Naturals, FiniteSets

CONSTANTS
  NoNode,     \* no node selected
  ClassOf,    \* the resource_class the flavor of a router asks for
  NodeClass,  \* the resource_class each node was enrolled with
  Parked,     \* nodes in maintenance
  FaultSets,  \* the sets of calls that may fail together
  Exclusive   \* whether requests for one resource class never overlap

ASSUME AdoptionAssumption ==
  /\ NoNode \notin Nodes
  /\ Parked \subseteq Nodes
  /\ NodeClass \in [Nodes -> Classes]
  /\ Exclusive \in BOOLEAN

VARIABLES
  live,      \* committed Palo Alto routers
  proc,      \* the request under way for a router: where it is, on which node
  anchors    \* number of networks named ANCHOR_NETWORK_NAME

vars == <<ironicVars, live, faults, proc, anchors>>

CreatePcs == {"anchor", "createAnchor", "manage", "stamp", "adopt", "wait", "commit"}
ReturnPcs == {"reread", "clear", "clearProvide", "provide", "undeploy", "undeployWait"}
Pcs == {"idle", "lookup"} \cup CreatePcs \cup ReturnPcs
Idle == [pc |-> "idle", node |-> NoNode]

TypeOK ==
  /\ IronicTypeOK
  /\ live \in SUBSET Routers
  /\ faults \in FaultSets
  /\ proc \in [Routers -> [pc : Pcs, node : Nodes \cup {NoNode}]]
  /\ anchors \in Nat

\* The pool as the enroll workflow leaves it.
Init ==
  /\ state = [n \in Nodes |-> "available"]
  /\ inst = [n \in Nodes |-> NoRouter]
  /\ lessee = [n \in Nodes |-> NoRouter]
  /\ class = NodeClass
  /\ live = {}
  /\ faults \in FaultSets
  /\ proc = [r \in Routers |-> Idle]
  /\ anchors = 0

At(r, pc) == proc[r].pc = pc
Goto(r, pc) == proc' = [proc EXCEPT ![r].pc = pc]
Finish(r) == proc' = [proc EXCEPT ![r] = Idle]

\* The environment's promise, when Exclusive: one request per resource class.
MayStart(r) ==
  /\ At(r, "idle")
  /\ Exclusive => \A q \in Routers \ {r} : At(q, "idle") \/ ClassOf[q] # ClassOf[r]

-----------------------------------------------------------------------------
\* palo_alto._process_router_create.

\* available_node_for_resource_class: any match, not reserved.
AvailableNodes(r) ==
  {n \in Nodes \ Parked : state[n] = "available" /\ class[n] = ClassOf[r]}

SelectNode(r) ==
  /\ MayStart(r) /\ r \notin live
  /\ \E n \in AvailableNodes(r) :
        proc' = [proc EXCEPT ![r] = [pc |-> "anchor", node |-> n]]
  /\ UNCHANGED <<ironicVars, live, faults, anchors>>

\* NoNetdevNodeAvailable: the create fails and nothing has changed.
RefuseCreate(r) ==
  /\ MayStart(r) /\ r \notin live
  /\ AvailableNodes(r) = {}
  /\ UNCHANGED vars

\* _ensure_anchor_network: look the network up by name, then create it.
FindAnchor(r) ==
  /\ At(r, "anchor")
  /\ IF anchors > 0 THEN Goto(r, "manage") ELSE Goto(r, "createAnchor")
  /\ UNCHANGED <<ironicVars, live, faults, anchors>>

CreateAnchor(r) ==
  /\ At(r, "createAnchor")
  /\ \/ anchors' = anchors + 1 /\ Goto(r, "manage")
     \/ Fault("anchor") /\ Finish(r) /\ UNCHANGED anchors
  /\ UNCHANGED <<ironicVars, live, faults>>

-----------------------------------------------------------------------------
\* ironic.adopt_node_for_router.  Inside its try, whatever goes wrong leads to
\* _return_node_to_available; the exception is re-raised and the create fails.

\* A provisioning call: accepted and answered; refused; failed without effect;
\* or accepted with the answer lost.
Provision(r, call, verb, ok, failed) ==
  LET n == proc[r].node IN
  \/ SetProvisionState(n, verb) /\ Goto(r, ok)
  \/ (~Accepts(n, verb) \/ Fault(call)) /\ UNCHANGED ironicVars /\ Goto(r, failed)
  \/ Fault(call) /\ SetProvisionState(n, verb) /\ Goto(r, failed)

Manage(r) ==
  /\ At(r, "manage")
  /\ Provision(r, "manage", "manage", "stamp", "reread")
  /\ UNCHANGED <<live, faults, anchors>>

Stamp(r) ==
  LET n == proc[r].node IN
  /\ At(r, "stamp")
  /\ \/ StampAllowed(n, r) /\ SetOwner(n, r) /\ Goto(r, "adopt")
     \/ (~StampAllowed(n, r) \/ Fault("stamp")) /\ UNCHANGED ironicVars /\ Goto(r, "reread")
     \/ Fault("stamp") /\ StampAllowed(n, r) /\ SetOwner(n, r) /\ Goto(r, "reread")
  /\ UNCHANGED <<live, faults, anchors>>

Adopt(r) ==
  /\ At(r, "adopt")
  /\ Provision(r, "adopt", "adopt", "wait", "reread")
  /\ UNCHANGED <<live, faults, anchors>>

\* Faulty variant: nothing is waited for.
WaitActiveNot(r) ==
  /\ At(r, "wait")
  /\ Goto(r, "commit")
  /\ UNCHANGED <<ironicVars, live, faults, anchors>>

\* wait_for_nodes_provision_state: looks at the state only; a failed state ends
\* it, and it times out on a node that does not get there.
WaitActive(r) ==
  LET n == proc[r].node IN
  /\ At(r, "wait")
  /\ \/ state[n] = "active" /\ Goto(r, "commit")
     \/ (state[n] \notin {"active", "adopting"} \/ Fault("wait")) /\ Goto(r, "reread")
  /\ UNCHANGED <<ironicVars, live, faults, anchors>>

\* Neutron's create transaction, after the callback: it commits the router or
\* fails on something else, with no callback of this plugin to undo the adoption.
CommitRouter(r) ==
  /\ At(r, "commit")
  /\ \/ live' = live \cup {r}
     \/ Fault("txn") /\ UNCHANGED live
  /\ Finish(r)
  /\ UNCHANGED <<ironicVars, faults, anchors>>

-----------------------------------------------------------------------------
\* ironic._return_node_to_available: re-read, then what the state calls for.
PlanFor(s) ==
  CASE s = "available"  -> "clear"
    [] s = "manageable" -> "clearProvide"
    [] s = "active"     -> "undeploy"
    [] OTHER            -> "idle"

Reread(r) ==
  /\ At(r, "reread")
  /\ LET next == PlanFor(state[proc[r].node]) IN
     \/ next # "idle" /\ Goto(r, next)
     \/ (next = "idle" \/ Fault("get")) /\ Finish(r)
  /\ UNCHANGED <<ironicVars, live, faults, anchors>>

\* _clear_ownership: best effort, whoever's stamps they are.
Clear(r) ==
  LET n == proc[r].node IN
  /\ At(r, "clear") \/ At(r, "clearProvide")
  /\ \/ UpdateAllowed(n) /\ SetOwner(n, NoRouter)
     \/ (~UpdateAllowed(n) \/ Fault("clear")) /\ UNCHANGED ironicVars
  /\ IF At(r, "clear") THEN Finish(r) ELSE Goto(r, "provide")
  /\ UNCHANGED <<live, faults, anchors>>

\* _guarded_provision: a failure is logged, and the caller goes on.
Provide(r) ==
  LET n == proc[r].node IN
  /\ At(r, "provide")
  /\ \/ SetProvisionState(n, "provide")
     \/ (~Accepts(n, "provide") \/ Fault("provide")) /\ UNCHANGED ironicVars
  /\ Finish(r)
  /\ UNCHANGED <<live, faults, anchors>>

\* Faulty variant: undeploying is taken to free the node.
UndeployOnly(r) ==
  /\ At(r, "undeploy")
  /\ SetProvisionState(proc[r].node, "undeploy")
  /\ Finish(r)
  /\ UNCHANGED <<live, faults, anchors>>

Undeploy(r) ==
  /\ At(r, "undeploy")
  /\ Provision(r, "undeploy", "undeploy", "undeployWait", "clear")
  /\ UNCHANGED <<live, faults, anchors>>

UndeployWait(r) ==
  /\ At(r, "undeployWait")
  /\ state[proc[r].node] # "deleting" \/ Fault("undeploy")
  /\ Goto(r, "clear")
  /\ UNCHANGED <<ironicVars, live, faults, anchors>>

-----------------------------------------------------------------------------
\* palo_alto._process_router_delete on AFTER_DELETE, release_node_for_router.
DeleteRouter(r) ==
  /\ MayStart(r) /\ r \in live
  /\ live' = live \ {r}
  /\ Goto(r, "lookup")
  /\ UNCHANGED <<ironicVars, faults, anchors>>

\* Faulty variant: the filter on instance_uuid is dropped.
AnyBoundNode(r) == {n \in Nodes : inst[n] # NoRouter}

NodeOfRouter(r) == {n \in Nodes : inst[n] = r}

Lookup(r) ==
  /\ At(r, "lookup")
  /\ \/ \E n \in NodeOfRouter(r) : proc' = [proc EXCEPT ![r] = [pc |-> "reread", node |-> n]]
     \/ (NodeOfRouter(r) = {} \/ Fault("get")) /\ Finish(r)
  /\ UNCHANGED <<ironicVars, live, faults, anchors>>

\* The API worker dies: what it had done stays done, nothing resumes it.
Crash(r) ==
  /\ Fault("crash") /\ ~At(r, "idle")
  /\ Finish(r)
  /\ UNCHANGED <<ironicVars, live, faults, anchors>>

Work(r) ==
  \/ FindAnchor(r) \/ CreateAnchor(r)
  \/ Manage(r) \/ Stamp(r) \/ Adopt(r) \/ WaitActive(r) \/ CommitRouter(r)
  \/ Reread(r) \/ Clear(r) \/ Provide(r) \/ Undeploy(r) \/ UndeployWait(r)
  \/ Lookup(r)

Ironic(n) ==
  /\ FinishAdopt(n) \/ FinishUndeploy(n)
  /\ UNCHANGED <<live, faults, proc, anchors>>

Next ==
  \/ \E r \in Routers : SelectNode(r)
  \/ \E r \in Routers : RefuseCreate(r)
  \/ \E r \in Routers : DeleteRouter(r)
  \/ \E r \in Routers : Work(r)
  \/ \E r \in Routers : Crash(r)
  \/ \E n \in Nodes : Ironic(n)

Spec == Init /\ [][Next]_vars

-----------------------------------------------------------------------------
\* A committed router runs on an active node of the class its flavor asks for ("or
\* the router flavor may adopt wrong hardware"), stamped with it: instance_uuid and
\* lessee, on that node alone.  The adoption has many steps, any of which may
\* fail or answer late, and rollbacks of other requests clear stamps and
\* undeploy (adopt_node_for_router: "Adopt a node and bind it to the owning
\* project and router").
CommittedRouterOwnsNode ==
  \A r \in live : \E n \in Nodes :
     /\ state[n] = "active" /\ class[n] = ClassOf[r]
     /\ inst[n] = r /\ lessee[n] = r
     /\ \A m \in Nodes : inst[m] = r => m = n

\* _return_node_to_available clears "our ownership stamps": never those of a
\* router that is committed, or whose create is still adopting the node.
InUse(q, n) ==
  inst[n] = q /\ (q \in live \/ (proc[q].node = n /\ proc[q].pc \in CreatePcs))

ClearsOnlyOwnStamps ==
  [][\A r, q \in Routers :
       (r # q /\ proc[r].pc \in {"clear", "clearProvide"} /\ proc'[r] # proc[r]) =>
          \A n \in Nodes : InUse(q, n) => inst'[n] = q]_vars
=============================================================================
