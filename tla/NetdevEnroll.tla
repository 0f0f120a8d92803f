---------------------------- MODULE NetdevEnroll ----------------------------
(***************************************************************************)
(* Enrolment of network devices in Ironic: the enroll-netdev and enroll-fw *)
(* workflows and the engine they share, netdev_reconciler.py.  A request   *)
(* describes a node: its resource class, its metadata and its ports by     *)
(* label.  A run reads the node once, plans every port from one listing,   *)
(* then changes Ironic call by call; runs of other requests, and whatever  *)
(* else uses Ironic, go on between its calls.  An exception ends the run   *)
(* where it is, and operators run it again.                                *)
(***************************************************************************)
EXTENDS IronicNode, FiniteSets

CONSTANTS
  Workflows,    \* runs that may be under way at the same time
  Requests,     \* the enrolment requests
  Asks,         \* what a request asks for: see below
  Labels,       \* port labels
  NoPort,       \* no port of that label
  Foreign,      \* nodes that have a driver other than netdev
  Generic,      \* DEFAULT_RESOURCE_CLASS
  Placeholder,  \* PLACEHOLDER_SWITCH_ID
  Unset         \* an optional value the request leaves out

\* A request asks for [node, fw, class, info, ports]: its ports map labels to
\* [mac, net, peer, sid], and fw tells enroll-fw from enroll-netdev.  What a port
\* record holds comes from requests, but for the placeholder.
Wanted == UNION {{Asks[i].ports[l] : l \in DOMAIN Asks[i].ports} : i \in Requests}
SwitchIds == ({p.sid : p \in Wanted} \ {Unset}) \cup {Placeholder}
PortRecords == [mac : {p.mac : p \in Wanted}, net : {p.net : p \in Wanted},
                llc : SwitchIds \X {p.peer : p \in Wanted}]

ASSUME EnrollAssumption ==
  /\ Foreign \subseteq Nodes
  /\ \A i \in Requests : LET q == Asks[i] IN
       /\ q.node \in Nodes /\ q.class \in Classes /\ q.fw \in BOOLEAN
       /\ DOMAIN q.ports \subseteq Labels
  /\ NoPort \notin PortRecords

VARIABLES
  ports,   \* the ports of each node by label: [mac, net, llc], llc = <<switch_id, peer>>
  info,    \* the driver_info and extra of each node, as one value
  job      \* each run: where it is, its request, the node as it read it, the
           \* provision state it goes by, and the port changes still to make

enrollVars == <<ports, info, job>>

EnrollTypeOK ==
  /\ ports \in [Nodes -> [Labels -> PortRecords \cup {NoPort}]]
  /\ info \in [Nodes -> {Asks[i].info : i \in Requests} \cup {Unset}]

IdleJob == [pc |-> "idle", req |-> Unset, node |-> Unset, state |-> "absent", todo |-> <<>>]

EnrollInit ==
  /\ ports = [n \in Nodes |-> [l \in Labels |-> NoPort]]
  /\ info = [n \in Nodes |-> Unset]
  /\ job = [w \in Workflows |-> IdleJob]

JobAt(w, pc) == job[w].pc = pc
JobGoto(w, pc) == job' = [job EXCEPT ![w].pc = pc]
End(w) == job' = [job EXCEPT ![w] = IdleJob]
Ask(w) == Asks[job[w].req]
Node(w) == Ask(w).node

-----------------------------------------------------------------------------
\* parse_ports_arg and build_netdev_ports: at least one port, no MAC twice;
\* _require_specific_resource_class for a firewall.
Valid(q) ==
  /\ DOMAIN q.ports # {}
  /\ \A l, k \in DOMAIN q.ports : q.ports[l].mac = q.ports[k].mac => l = k
  /\ q.fw => q.class # Generic

StartEnroll(w, i) ==
  /\ Valid(Asks[i])
  /\ job' = [job EXCEPT ![w] = [IdleJob EXCEPT !.req = i,
                                    !.pc = IF Asks[i].fw THEN "lookup" ELSE "find"]]
  /\ UNCHANGED <<ports, info, ironicVars>>

\* What the engine holds as `node`: the object it read, or the one it created.
ReadNode(n) == [class |-> class[n], info |-> info[n]]

REENROLLABLE_STATES == {"enroll", "manageable", "available"}

\* find_or_create_netdev_node: refuses another driver and a node in use.
FindNode(w) ==
  LET n == Node(w) IN
  /\ JobAt(w, "find")
  /\ \/ state[n] = "absent" /\ JobGoto(w, "create")
     \/ /\ state[n] \in REENROLLABLE_STATES /\ n \notin Foreign
        /\ job' = [job EXCEPT ![w].pc = "plan", ![w].node = ReadNode(n),
                              ![w].state = state[n]]
     \/ (state[n] \notin REENROLLABLE_STATES \cup {"absent"} \/ n \in Foreign) /\ End(w)
  /\ UNCHANGED <<ports, info, ironicVars>>

\* create_netdev_node: node names are unique in Ironic.
CreateNode(w) ==
  LET n == Node(w)
      q == Ask(w) IN
  /\ JobAt(w, "create")
  /\ \/ /\ state[n] = "absent"
        /\ state' = [state EXCEPT ![n] = "enroll"]
        /\ class' = [class EXCEPT ![n] = q.class]
        /\ info' = [info EXCEPT ![n] = q.info]
        /\ job' = [job EXCEPT ![w].pc = "plan", ![w].state = "enroll",
                              ![w].node = [class |-> q.class, info |-> q.info]]
        /\ UNCHANGED <<stamps, ports>>
     \/ state[n] # "absent" /\ End(w) /\ UNCHANGED <<ports, info, ironicVars>>

-----------------------------------------------------------------------------
\* Faulty variant: a request without a switch_id resets the recorded one.
SwitchIdOrPlaceholder(p, old) == IF p.sid # Unset THEN p.sid ELSE Placeholder

\* The switch_id rule of plan_netdev_port: an explicit value wins, a recorded
\* real value is kept.
SwitchId(p, old) ==
  IF p.sid # Unset THEN p.sid ELSE IF old = NoPort THEN Placeholder ELSE old.llc[1]

DesiredPort(p, old) == [mac |-> p.mac, net |-> p.net, llc |-> <<SwitchId(p, old), p.peer>>]

\* A MAC that would have to move from one label of the node to another.
MacConflict(n, q, l) ==
  /\ ports[n][l] # NoPort => ports[n][l].mac # q.ports[l].mac
  /\ \E k \in Labels : ports[n][k] # NoPort /\ ports[n][k].mac = q.ports[l].mac

\* plan_netdev_port for one label: the port as listed and as it should be.
PortPlan(n, q, l) == [old |-> ports[n][l], new |-> DesiredPort(q.ports[l], ports[n][l])]
Pending(n, q) ==
  {l \in DOMAIN q.ports : PortPlan(n, q, l).old # PortPlan(n, q, l).new}

\* enroll, from list_ports to the decision: one listing, all ports planned, and
\* no change made yet when there is a conflict.
PlanPorts(w) ==
  LET n == Node(w)
      q == Ask(w)
      todo == [l \in Pending(n, q) |-> PortPlan(n, q, l)] IN
  /\ JobAt(w, "plan")
  /\ \/ (\E l \in DOMAIN q.ports : MacConflict(n, q, l)) /\ End(w)
     \/ /\ \A l \in DOMAIN q.ports : ~MacConflict(n, q, l)
        /\ job' = [job EXCEPT ![w].todo = todo,
             ![w].pc = IF DOMAIN todo # {} /\ job[w].state = "available"
                       THEN "stepDown" ELSE "metadata"]
  /\ UNCHANGED <<ports, info, ironicVars>>

\* ironic_node.transition: refused in another state, and then the run ends.
Transition(w, verb, job1) ==
  \/ SetProvisionState(Node(w), verb) /\ job' = job1
  \/ ~Accepts(Node(w), verb) /\ End(w) /\ UNCHANGED ironicVars

\* Faulty variant: the node stays in the pool while it is changed.
StayAvailable(w) ==
  /\ JobAt(w, "stepDown")
  /\ JobGoto(w, "metadata")
  /\ UNCHANGED <<ports, info, ironicVars>>

StepDown(w) ==
  /\ JobAt(w, "stepDown")
  /\ Transition(w, "manage", [job EXCEPT ![w].pc = "metadata", ![w].state = "manageable"])
  /\ UNCHANGED <<ports, info>>

\* update_node_metadata: patches what differs from the node as it was read (a
\* created node has it all), in any state that allows updates.
UpdateMetadata(w) ==
  LET n == Node(w)
      q == Ask(w)
      newInfo == q.info # Unset /\ q.info # job[w].node.info
      newClass == q.class # job[w].node.class
      last == DOMAIN job[w].todo = {} /\ job[w].state = "available" IN
  /\ JobAt(w, "metadata")
  /\ \/ /\ newInfo \/ newClass => UpdateAllowed(n)
        /\ info' = IF newInfo THEN [info EXCEPT ![n] = q.info] ELSE info
        /\ class' = IF newClass THEN [class EXCEPT ![n] = q.class] ELSE class
        /\ JobGoto(w, IF last THEN "done" ELSE "ports")
        /\ UNCHANGED <<state, stamps>>
     \/ /\ newInfo \/ newClass
        /\ ~UpdateAllowed(n) /\ End(w) /\ UNCHANGED <<info, ironicVars>>
  /\ UNCHANGED ports

-----------------------------------------------------------------------------
\* Ironic's rules for ports (external): a MAC is used once, names are unique, and
\* the connection of a port changes only while its node is out of the pool.
MacFree(n, l, mac) ==
  \A m \in Nodes, k \in Labels :
     <<m, k>> # <<n, l>> /\ ports[m][k] # NoPort => ports[m][k].mac # mac

CreateAllowed(n, l, new) == ports[n][l] = NoPort /\ MacFree(n, l, new.mac)
ChangeAllowed(n, l, new) ==
  /\ state[n] \in {"enroll", "manageable"} /\ ports[n][l] # NoPort
  /\ MacFree(n, l, new.mac)

\* The patch holds the fields that differed when the port was listed.
Patched(cur, old, new) ==
  [f \in DOMAIN new |-> IF new[f] # old[f] THEN new[f] ELSE cur[f]]

\* apply_port_plan and create_netdev_port, one port after the other.
ApplyPortPlan(w) ==
  LET n == Node(w) IN
  /\ JobAt(w, "ports")
  /\ \/ \E l \in DOMAIN job[w].todo :
          LET old == job[w].todo[l].old
              new == job[w].todo[l].new
              allowed == IF old = NoPort THEN CreateAllowed(n, l, new)
                                         ELSE ChangeAllowed(n, l, new) IN
          \/ /\ allowed
             /\ ports' = [ports EXCEPT ![n][l] =
                  IF old = NoPort THEN new ELSE Patched(ports[n][l], old, new)]
             /\ job' = [job EXCEPT ![w].todo =
                  [k \in DOMAIN job[w].todo \ {l} |-> job[w].todo[k]]]
          \/ ~allowed /\ End(w) /\ UNCHANGED ports
     \* make_available: by the state the run goes by.
     \/ /\ DOMAIN job[w].todo = {}
        /\ JobGoto(w, IF job[w].state = "available" THEN "done"
                      ELSE IF job[w].state = "enroll" THEN "manage" ELSE "provide")
        /\ UNCHANGED ports
  /\ UNCHANGED <<info, ironicVars>>

MakeManageable(w) ==
  /\ JobAt(w, "manage")
  /\ Transition(w, "manage", [job EXCEPT ![w].pc = "provide"])
  /\ UNCHANGED <<ports, info>>

MakeAvailable(w) ==
  /\ JobAt(w, "provide")
  /\ Transition(w, "provide", [job EXCEPT ![w].pc = "done"])
  /\ UNCHANGED <<ports, info>>

-----------------------------------------------------------------------------
\* enroll_fw: an active firewall is updated in place, anything else is left to
\* the engine, which reads the node again.
LookupFirewall(w) ==
  LET n == Node(w) IN
  /\ JobAt(w, "lookup")
  /\ \/ state[n] # "active" /\ JobGoto(w, "find")
     \* _update_active_firewall: refuses another driver or resource class.
     \/ /\ state[n] = "active" /\ n \notin Foreign /\ class[n] = Ask(w).class
        /\ job' = [job EXCEPT ![w].pc = "drift", ![w].node = ReadNode(n)]
     \/ /\ state[n] = "active" /\ (n \in Foreign \/ class[n] # Ask(w).class)
        /\ End(w)
  /\ UNCHANGED <<ports, info, ironicVars>>

\* Faulty variant: ports that differ are passed over.
IgnoreDrift(w) ==
  /\ JobAt(w, "drift")
  /\ JobGoto(w, "patch")
  /\ UNCHANGED <<ports, info, ironicVars>>

\* _reject_structural_drift.
RejectDrift(w) ==
  LET same == Pending(Node(w), Ask(w)) = {} IN
  /\ JobAt(w, "drift")
  /\ \/ same /\ JobGoto(w, "patch")
     \/ ~same /\ End(w)
  /\ UNCHANGED <<ports, info, ironicVars>>

\* firewall.apply_node_metadata.
PatchFirewall(w) ==
  LET n == Node(w)
      new == Ask(w).info # Unset /\ Ask(w).info # job[w].node.info IN
  /\ JobAt(w, "patch")
  /\ \/ /\ new => UpdateAllowed(n)
        /\ info' = IF new THEN [info EXCEPT ![n] = Ask(w).info] ELSE info
        /\ JobGoto(w, "done")
     \/ new /\ ~UpdateAllowed(n) /\ End(w) /\ UNCHANGED info
  /\ UNCHANGED <<ports, ironicVars>>

\* The run dies, or a call fails or times out, with its effect or without it.
CrashEnroll(w) ==
  /\ Fault("enroll") /\ job[w].pc \notin {"idle", "done"}
  /\ End(w)
  /\ UNCHANGED <<ports, info, ironicVars>>

EnrollStep(w) ==
  \/ FindNode(w) \/ CreateNode(w) \/ PlanPorts(w) \/ StepDown(w) \/ UpdateMetadata(w)
  \/ ApplyPortPlan(w) \/ MakeManageable(w) \/ MakeAvailable(w)
  \/ LookupFirewall(w) \/ RejectDrift(w) \/ PatchFirewall(w)
  \/ CrashEnroll(w)

-----------------------------------------------------------------------------
PortAsRequested(p, port) ==
  /\ port # NoPort /\ port.mac = p.mac /\ port.net = p.net /\ port.llc[2] = p.peer
  /\ p.sid # Unset => port.llc[1] = p.sid

\* The node is as the request describes it; ports it does not name are left alone.
Described(n, q) ==
  /\ class[n] = q.class
  /\ q.info # Unset => info[n] = q.info
  /\ \A l \in DOMAIN q.ports : PortAsRequested(q.ports[l], ports[n][l])
=============================================================================
