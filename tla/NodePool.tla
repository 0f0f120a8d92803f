------------------------------ MODULE NodePool ------------------------------
(***************************************************************************)
(* The pool of Ironic nodes.  Network devices: enrolment puts them into    *)
(* the pool, routers take them out and return them; both go through the    *)
(* same Ironic nodes, in different processes, and know nothing of each     *)
(* other.  And a server, with an enrolment of its own.                     *)
(***************************************************************************)
EXTENDS NodeAdoption, NetdevEnroll, ServerEnroll

CONSTANT Scopes   \* what happens in a behaviour: see scope

ASSUME ScopeAssumption ==
  \A s \in Scopes : /\ s.faults \in FaultSets /\ s.routers \subseteq Routers
                    /\ s.requests \subseteq Requests /\ s.absent \subseteq Nodes
                    /\ s.bmc \in {"production", "factory", "old", NoNic}

VARIABLE scope    \* fixed for a behaviour: the calls that may fail, the routers
                  \* and the enrolment requests there are, the nodes not yet in
                  \* Ironic, the password of the server's BMC (NoNic: no server)

poolVars == <<vars, enrollVars, serverVars, scope>>

PoolInit ==
  /\ scope \in Scopes
  /\ faults = scope.faults
  /\ state = [n \in Nodes |-> IF n \in scope.absent THEN "absent" ELSE "available"]
  /\ inst = [n \in Nodes |-> NoRouter]
  /\ lessee = [n \in Nodes |-> NoRouter]
  /\ class = NodeClass
  /\ live = {}
  /\ proc = [r \in Routers |-> Idle]
  /\ anchors = 0
  /\ EnrollInit
  /\ ServerInit(scope.bmc)

\* The environment's promise, when Exclusive: the enrolment of a node does not
\* overlap with router requests of its resource class, or of the one it is to
\* get, and overlapping enrolments of a node are of the same request.
Apart(q, r) == ClassOf[r] \notin {q.class, class[q.node]}
Enrolling(w) == job[w].pc \notin {"idle", "done"}

MayEnroll(w, i) ==
  /\ ~Enrolling(w) /\ i \in scope.requests
  /\ Exclusive =>
       /\ \A r \in Routers : At(r, "idle") \/ Apart(Asks[i], r)
       /\ \A v \in Workflows \ {w} :
            Enrolling(v) => job[v].req = i \/ Node(v) # Asks[i].node

MayRoute(r) ==
  /\ r \in scope.routers
  /\ Exclusive => \A w \in Workflows : Enrolling(w) => Apart(Ask(w), r)

Enroll ==
  /\ \/ \E w \in Workflows, i \in Requests : MayEnroll(w, i) /\ StartEnroll(w, i)
     \/ \E w \in Workflows : EnrollStep(w)
  /\ UNCHANGED <<live, faults, proc, anchors, serverVars, scope>>

Route ==
  /\ \/ \E r \in Routers : MayRoute(r) /\ SelectNode(r)
     \/ \E r \in Routers : MayRoute(r) /\ RefuseCreate(r)
     \/ \E r \in Routers : MayRoute(r) /\ DeleteRouter(r)
     \/ \E r \in Routers : Work(r)
     \/ \E r \in Routers : Crash(r)
     \/ \E n \in Nodes : Ironic(n)
  /\ UNCHANGED <<enrollVars, serverVars, scope>>

Serve ==
  /\ scope.bmc # NoNic
  /\ ServerStep(Fault("save"))
  /\ UNCHANGED <<vars, enrollVars, scope>>

PoolNext == Enroll \/ Route \/ Serve

PoolSpec == PoolInit /\ [][PoolNext]_poolVars

-----------------------------------------------------------------------------
RequestsFor(n) == {i \in scope.requests : Asks[i].node = n}

\* Once no router request is under way and Ironic is at rest, every node that no
\* enrolment works on is free in the pool with no stamps, active for a committed
\* router, or in the one state _return_node_to_available leaves "for
\* reconciliation", whenever only calls up to the stamping fail: what failed is
\* rolled back, and every release completes.
Quiet ==
  /\ \A r \in Routers : At(r, "idle")
  /\ \A n \in Nodes : state[n] \notin Transitional

EarlyCalls == {"anchor", "manage", "stamp"}

Returned(n) ==
  \/ state[n] = "available" /\ inst[n] = NoRouter /\ lessee[n] = NoRouter
  \/ state[n] = "active" /\ inst[n] \in live
  \/ state[n] = "adopt failed"

NodesAreReturned ==
  Quiet /\ faults \subseteq EarlyCalls =>
    \A n \in Nodes \ scope.absent : RequestsFor(n) = {} => Returned(n)

\* A node that routers may take, if it came to Ironic by an enrolment, is
\* completely described by an enrolment request: resource class, metadata and
\* every port, wherever the runs before failed or died ("so the node is never
\* allocatable in an under-described state").
AvailableIsDescribed ==
  \A n \in scope.absent : state[n] = "available" =>
     \E i \in RequestsFor(n) : Described(n, Asks[i])

\* An enrolment that ends without an error leaves its node as requested: also a
\* run that planned from a listing another run of the request has since overtaken.
EnrollKeepsPromise ==
  [][\A w \in Workflows : job'[w].pc = "done" /\ job[w].pc # "done" =>
        Described(Node(w), Ask(w))']_poolVars

\* The real switch_id of a port is never lost to a placeholder, unless a request
\* asks for just that.
PlaceholderAsked(n, l) ==
  \E i \in RequestsFor(n) : l \in DOMAIN Asks[i].ports /\ Asks[i].ports[l].sid = Placeholder

SwitchIdKept ==
  [][\A n \in Nodes, l \in Labels :
       ports[n][l] # NoPort /\ ports[n][l].llc[1] # Placeholder =>
         ports'[n][l].llc[1] # Placeholder \/ PlaceholderAsked(n, l)]_poolVars

\* A server in the pool can be deployed: its boot interface is the steady one, and
\* the boot device in its BIOS is a port that Ironic uses for PXE, on a real
\* network, wherever the runs before failed and however it was recabled between
\* them.  Unless the inspection hook could not save a port, none is left with the
\* placeholder of the first boot and the node's traits are what its ports lead to.
ServerIsDeployable ==
  server.state = "available" => BootsFromPxePort /\ (Fault("save") \/ PortsAreReal)
=============================================================================
