----------------------------- MODULE SvmNetwork -----------------------------
(***************************************************************************)
(* The network of a project's SVM (main/netapp_configure_net.py, LifService *)
(* and RouteService).  A project event whose handler reports svm_state     *)
(* "created" goes on, in the same workflow, to read the SVM's interfaces   *)
(* from Nautobot and to make a VLAN port, a LIF and a route for them.      *)
(*                                                                         *)
(* Each call that reads or writes ONTAP's state is a step.                 *)
(***************************************************************************)
EXTENDS SvmLifecycle, Sequences

CONSTANT
  NodesOf      \* backend -> numbers its nodes' names end in

VARIABLES
  ports,       \* [on, node, side, vlan]: VLAN ports of a backend
  lifs,        \* [on, svm, name, port]: LIFs; a name is unique in its SVM
  routes,      \* [on, svm, dest, gw]
  net          \* the configure step of each workflow

netVars == <<ports, lifs, routes, net>>

\* An interface of the virtual machine os-<project> in Nautobot:
\*   node, side  of its name N<node>-lif-<side>
\*   vlan, gw    its VLAN, and the first host of its network
\*   flaw        what is wrong with it, see NetQuery and NetRoute
Interface(node, side, vlan, gw, flaw) ==
  [node |-> node, side |-> side, vlan |-> vlan, gw |-> gw, flaw |-> flaw]

\* What Nautobot holds for a project's SVM; <<>> without a virtual machine.
Planned(p) == env.nb[p]
PlanOf(p) == {Planned(p)[k] : k \in DOMAIN Planned(p)}

\* _extract_unique_nexthops
Nexthops(p) == {f.gw : f \in PlanOf(p)}

\* NetappIPInterfaceConfig: the name that ONTAP knows the LIF by, and its port.
LifName(f) == <<f.node, f.side>>
HomePort(h, f) == [on |-> h, node |-> f.node, side |-> f.side, vlan |-> f.vlan]

\* _calculate_destination: two halves of the clients' network, by the gateway's
\* third octet.
Destination(gw) == IF gw[1] <= 127 THEN "100.126.0.0/17" ELSE "100.126.128.0/17"
RouteTo(h, p, gw) == [on |-> h, svm |-> p, dest |-> Destination(gw), gw |-> gw]

\* InterfaceSpec: the LIF of an interface, on its home port.
Lif(h, p, f) == [on |-> h, svm |-> p, name |-> LifName(f), port |-> HomePort(h, f)]

\* The network of an SVM is as Nautobot has it.
Networked(h, p) ==
  \A f \in PlanOf(p) :
     HomePort(h, f) \in ports /\ Lif(h, p, f) \in lifs /\ RouteTo(h, p, f.gw) \in routes

NoNet == [pc |-> "none", at |-> 1, left |-> <<>>, gws |-> {}]

\* The SVMs that exist at the start have their network.
NetInit ==
  LET old == {x \in svms \X UNION {PlanOf(p) : p \in Projects} : x[2] \in PlanOf(x[1][2])} IN
  /\ net = [i \in Ids |-> NoNet]
  /\ ports = {HomePort(x[1][1], x[2]) : x \in old}
  /\ lifs = {Lif(x[1][1], x[1][2], x[2]) : x \in old}
  /\ routes = {RouteTo(x[1][1], x[1][2], x[2].gw) : x \in old}

-----------------------------------------------------------------------------
NetAt(i, pc) == net[i].pc = pc
NetGoto(i, pc) == net' = [net EXCEPT ![i].pc = pc]
NetEnd(i, pc) == net' = [net EXCEPT ![i] = [NoNet EXCEPT !.pc = pc]]
NetFails(i) == NetEnd(i, "failed")
Ontap == <<ports, lifs, routes>>
SvmThere(i) == <<net[i].at, job[i].of>> \in svms
This(i) == Head(net[i].left)

\* The sensor's second step, "when svm_state == created".
NetBegin(i) ==
  /\ "net" \in env.parts
  /\ At(i, "done") /\ job[i].kind \in {"created", "updated"} /\ job[i].out = "created"
  /\ NetAt(i, "none")
  /\ NetGoto(i, "find") \/ (Fault("connect") /\ NetFails(i))
  /\ UNCHANGED <<vars, Ontap>>

\* main: the first backend where check_if_svm_exists; without one it returns 1.
NetFind(i) ==
  /\ NetAt(i, "find")
  /\ \/ SvmThere(i) /\ NetGoto(i, "query")
     \/ /\ ~SvmThere(i) \/ Fault("find")
        /\ IF net[i].at < Backends THEN net' = [net EXCEPT ![i].at = @ + 1] ELSE NetFails(i)
     \/ Fault("connect") /\ NetFails(i)
  /\ UNCHANGED <<vars, Ontap>>

\* do_action: the query, and then every interface is validated before the first
\* is made: one address, one tagged VLAN in 1..4094 (exit 3), a name of the
\* pattern N\d-lif-(A|B).
NetQuery(i) ==
  LET plan == Planned(job[i].of) IN
  /\ NetAt(i, "query")
  /\ \/ \E f \in PlanOf(job[i].of) : f.flaw \in {"addresses", "vlans", "name"} /\ NetFails(i)
     \/ /\ \A f \in PlanOf(job[i].of) : f.flaw \notin {"addresses", "vlans", "name"}
        /\ IF plan = <<>> THEN NetEnd(i, "done")
           ELSE net' = [net EXCEPT ![i].pc = "svm", ![i].left = plan,
                                   ![i].gws = Nexthops(job[i].of)]
     \/ Fault("nautobot") /\ NetFails(i)
  /\ UNCHANGED <<vars, Ontap>>

\* identify_home_node: N1 or N2, and a node of the cluster whose name ends so.
HasNode(h, f) == f.node \in {1, 2} \cap NodesOf[h]

\* create_lif: the SVM must be there (a lookup that fails raises), and the node,
\* with its base port in a broadcast domain.
NetLifStart(i) ==
  /\ NetAt(i, "svm")
  /\ \/ SvmThere(i) /\ HasNode(net[i].at, This(i)) /\ NetGoto(i, "port")
     \/ ~(SvmThere(i) /\ HasNode(net[i].at, This(i))) /\ NetFails(i)
     \/ Fault("network") /\ NetFails(i)
  /\ UNCHANGED <<vars, Ontap>>

\* Faulty variant: the port is made without looking for one.
NetPortAlways(i) ==
  /\ NetAt(i, "port")
  /\ NetGoto(i, "postPort")
  /\ UNCHANGED <<vars, Ontap>>

\* get_or_create_port, first half: use the VLAN port when it exists.
NetPort(i) ==
  /\ NetAt(i, "port")
  /\ \/ NetGoto(i, IF HomePort(net[i].at, This(i)) \in ports THEN "lif" ELSE "postPort")
     \/ Fault("network") /\ NetFails(i)
  /\ UNCHANGED <<vars, Ontap>>

\* ... second half: ONTAP refuses a VLAN port that exists.
NetPostPort(i) ==
  LET port == HomePort(net[i].at, This(i)) IN
  /\ NetAt(i, "postPort")
  /\ \/ port \notin ports /\ ports' = ports \cup {port} /\ NetGoto(i, "lif")
     \/ (port \in ports \/ Fault("network")) /\ NetFails(i) /\ UNCHANGED ports
  /\ UNCHANGED <<vars, lifs, routes>>

\* After the last interface come the routes.
NextInterface(i) ==
  net' = [net EXCEPT ![i].left = Tail(@),
                     ![i].pc = IF Len(net[i].left) > 1 THEN "svm" ELSE "route"]

\* get_or_create_ip_interface, first half: a LIF of that name in the SVM is kept
\* as it is.
NetLif(i) ==
  /\ NetAt(i, "lif")
  /\ \/ IF \E l \in lifs : /\ <<l.on, l.svm>> = <<net[i].at, job[i].of>>
                           /\ l.name = LifName(This(i))
        THEN NextInterface(i)
        ELSE NetGoto(i, "postLif")
     \/ Fault("network") /\ NetFails(i)
  /\ UNCHANGED <<vars, Ontap>>

\* ... second half: ONTAP wants the SVM, and a name that is free in it.
NetPostLif(i) ==
  LET lif == Lif(net[i].at, job[i].of, This(i)) IN
  /\ NetAt(i, "postLif")
  /\ \/ SvmThere(i) /\ lif \notin lifs /\ lifs' = lifs \cup {lif} /\ NextInterface(i)
     \/ (~SvmThere(i) \/ lif \in lifs \/ Fault("network")) /\ NetFails(i) /\ UNCHANGED lifs
  /\ UNCHANGED <<vars, ports, routes>>

\* client.create_route: ONTAP wants the SVM and refuses a route that exists.
RoutePosts(h, p, gw) == <<h, p>> \in svms /\ RouteTo(h, p, gw) \notin routes

\* create_routes_from_interfaces: one route per distinct gateway, in any order
\* (they come out of a set).  RouteSpec wants a gateway in 100.64.0.0/10.
NetRoute(i) ==
  LET h == net[i].at
      p == job[i].of IN
  /\ NetAt(i, "route")
  /\ \E gw \in net[i].gws :
        LET good == \A f \in PlanOf(p) : f.gw = gw => f.flaw # "gateway" IN
        \/ /\ good /\ RoutePosts(h, p, gw)
           /\ routes' = routes \cup {RouteTo(h, p, gw)}
           /\ IF net[i].gws = {gw} THEN NetEnd(i, "done")
              ELSE net' = [net EXCEPT ![i].gws = @ \ {gw}]
        \/ ~(good /\ RoutePosts(h, p, gw)) /\ NetFails(i) /\ UNCHANGED routes
        \/ Fault("network") /\ NetFails(i) /\ UNCHANGED routes
  /\ UNCHANGED <<vars, ports, lifs>>

NetStep(i) ==
  \/ NetBegin(i) \/ NetFind(i) \/ NetQuery(i) \/ NetLifStart(i) \/ NetPort(i)
  \/ NetPostPort(i) \/ NetLif(i) \/ NetPostLif(i) \/ NetRoute(i)

\* With an SVM go its LIFs and its routes; VLAN ports stay.
NetFollows ==
  /\ lifs' = {l \in lifs : <<l.on, l.svm>> \in svms'}
  /\ routes' = {r \in routes : <<r.on, r.svm>> \in svms'}
  /\ UNCHANGED <<ports, net>>

\* The network step of a workflow is still to run, or running.
NetRuns(i) ==
  /\ "net" \in env.parts
  /\ At(i, "done") /\ job[i].kind \in {"created", "updated"} /\ job[i].out = "created"
  /\ ~NetAt(i, "done") /\ ~NetAt(i, "failed")

NetSettled == \A i \in 1..sent : ~NetRuns(i)
=============================================================================
