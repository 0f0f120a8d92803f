----------------------------- MODULE DeviceSync -----------------------------
(***************************************************************************)
(* Ironic nodes, ports and portgroups mirrored as Nautobot devices and     *)
(* interfaces: the event handlers of oslo_event/nautobot_device_sync.py,   *)
(* nautobot_device_interface_sync.py, ironic_port.py, ironic_portgroup.py  *)
(* and the daily main/resync_ironic_to_nautobot.py.                        *)
(*                                                                         *)
(* Every event is handled by a workflow of its own, a job here.  A node    *)
(* job reads Ironic once and then works through Nautobot, other jobs       *)
(* running between its calls unless env.serial.  A port job applies the    *)
(* port as it was when the event was sent.  Events may be lost.            *)
(***************************************************************************)
EXTENDS Naturals, FiniteSets

CONSTANTS
  Nodes,       \* Ironic node UUIDs
  Ports,       \* Ironic port UUIDs
  Groups,      \* Ironic portgroup UUIDs
  Owner,       \* the node of a port or portgroup
  IfNames,     \* port names (bios_name)
  Links,       \* switch ports
  Statuses,    \* device statuses (ProvisionStateMapper)
  MaxEvents,   \* bound on the number of events
  MaxAttempts, \* RETRY_ATTEMPTS
  Envs,        \* the environments considered
  None         \* no device, interface or port

ASSUME DeviceSyncAssumption ==
  /\ MaxEvents \in Nat /\ MaxAttempts \in Nat \ {0}
  /\ Owner \in [Ports \cup Groups -> Nodes]

VARIABLES
  env,    \* see Environments; it does not change
  node,   \* Ironic: [life, seen (inspected), status]
  port,   \* Ironic: [name, link] of a port, or None
  group,  \* Ironic: whether a portgroup exists
  made,   \* UUIDs of ports and portgroups created so far; none is used again
  device, \* Nautobot: [status, slot] of the device with the node's id, or None
  ifs,    \* Nautobot: [name, link] of an interface, or None; link: its cable
  placed, \* machines given a rack position in Nautobot while no job was running
  job,    \* the workflow of each event
  sent    \* number of events so far

NoLink == "nolink"
PortData == [name : IfNames, link : Links \cup {NoLink}]

\* serial: jobs run one at a time, in order.  ops, data: what happens in Ironic.
\* faults: "lose" events, "busy" and "error" answers.  machine: the machine (vendor and
\* serial number) a node stands for.  ports: Ironic at the start.
Environments ==
  [serial : BOOLEAN, ops : SUBSET {"state", "delete", "port", "recable", "group", "place", "resync"},
   data : SUBSET PortData, faults : SUBSET {"lose", "busy", "error"}, machine : [Nodes -> Nodes],
   ports : [Ports -> PortData \cup {None}], changes : Nat, resyncs : Nat]

ironic == <<node, port, group, made>>
vars == <<env, ironic, device, ifs, placed, job, sent>>

Planned == "Planned"

\* Interfaces: of ports, of portgroups (LAGs), and "iDRAC", here by its node.
Interfaces == Ports \cup Groups \cup Nodes
DeviceOf(x) == IF x \in Nodes THEN x ELSE Owner[x]
Ids == 1..MaxEvents

IfData == [name : IfNames \cup Groups \cup {"iDRAC"}, link : Links \cup {NoLink}]
Lives == {"none", "here", "gone"}
Pcs == {"none", "pending", "fetch", "find", "deleteOld", "create", "update", "interfaces",
        "idrac", "cleanup", "done"}

\* What a node job read: the node's status, whether it was inspected, its ports.
NoSnap == [status |-> Planned, seen |-> FALSE, ports |-> [p \in Ports |-> None]]
Snaps == [status : Statuses \cup {Planned}, seen : BOOLEAN,
          ports : [Ports -> PortData \cup {None}]]

\* rest: nodes still to sync.  old: the device found by name, to be deleted.
\* base: the device as this job read it.  slot, located: carried over from old.
\* todo: ports still to sync.  alone: no other event was waiting or being
\* handled when this job began.  hit: a call failed.
NoJob == [kind |-> "node", of |-> CHOOSE n \in Nodes : TRUE, data |-> None, pc |-> "none",
          rest |-> {}, snap |-> NoSnap, old |-> None, base |-> None, slot |-> FALSE,
          located |-> FALSE, todo |-> {}, tries |-> 1, alone |-> FALSE, hit |-> FALSE]

DeviceData == [status : Statuses \cup {Planned}, slot : BOOLEAN]

TypeOK ==
  /\ env \in Envs /\ env \in Environments
  /\ node \in [Nodes -> [life : Lives, seen : BOOLEAN, status : Statuses]]
  /\ port \in [Ports -> PortData \cup {None}]
  /\ group \in [Groups -> BOOLEAN] /\ made \subseteq Ports \cup Groups
  /\ device \in [Nodes -> DeviceData \cup {None}]
  /\ ifs \in [Interfaces -> IfData \cup {None}]
  /\ \A x \in Interfaces : ifs[x] # None => device[DeviceOf(x)] # None
  /\ sent \in 0..MaxEvents
  /\ \A i \in Ids :
       /\ job[i].pc \in Pcs /\ job[i].snap \in Snaps /\ job[i].tries \in 1..MaxAttempts
       /\ job[i].rest \subseteq Nodes /\ job[i].todo \subseteq Ports
       /\ job[i].base \in DeviceData \cup {None} /\ job[i].old \in Nodes \cup {None}

PortsOf(n) == {p \in Ports : Owner[p] = n}

\* Nodes with ports from the start are inspected and in Nautobot.
Init ==
  LET first == CHOOSE s \in Statuses : TRUE
      running(n) == \E p \in PortsOf(n) : env.ports[p] # None
  IN
  /\ env \in Envs
  /\ node = [n \in Nodes |-> [life |-> IF running(n) THEN "here" ELSE "none",
                              seen |-> running(n), status |-> first]]
  /\ port = env.ports
  /\ made = {p \in Ports : env.ports[p] # None}
  /\ group = [g \in Groups |-> FALSE]
  /\ device = [n \in Nodes |-> IF running(n) THEN [status |-> first, slot |-> FALSE] ELSE None]
  /\ ifs = [x \in Interfaces |->
             IF x \in Ports THEN env.ports[x]
             ELSE IF x \in Nodes /\ running(x) THEN [name |-> "iDRAC", link |-> NoLink] ELSE None]
  /\ placed = {}
  /\ job = [i \in Ids |-> NoJob]
  /\ sent = 0

-----------------------------------------------------------------------------
\* Ironic, and its notifications: at most env.changes of them, and env.resyncs resyncs.

Resyncs == {i \in 1..sent : job[i].kind = "resync"}
MayChange == sent - Cardinality(Resyncs) < env.changes

Emit(kind, of, data, nodes) ==
  /\ sent < MaxEvents /\ (kind # "resync" => MayChange)
  /\ sent' = sent + 1
  /\ job' = [job EXCEPT ![sent + 1] = [NoJob EXCEPT !.kind = kind, !.of = of, !.data = data,
                                                    !.rest = nodes, !.pc = "pending"]]
  /\ UNCHANGED <<env, device, ifs, placed>>

Here(n) == node[n].life = "here"

\* A node is enrolled once a former node of the machine is gone.  No handler.
Enroll(n) ==
  /\ node[n].life = "none" /\ MayChange
  /\ \A m \in Nodes : Here(m) => env.machine[m] # env.machine[n]
  /\ node' = [node EXCEPT ![n].life = "here"]
  /\ UNCHANGED <<env, port, group, made, device, ifs, placed, job, sent>>

\* baremetal.node.update.end, baremetal.node.provision_set.end.
SetState(n, s) ==
  /\ "state" \in env.ops
  /\ Here(n) /\ node[n].status # s
  /\ node' = [node EXCEPT ![n].status = s]
  /\ Emit("node", n, None, {n})
  /\ UNCHANGED <<port, group, made>>

Inspect(n) ==
  /\ Here(n) /\ ~node[n].seen
  /\ node' = [node EXCEPT ![n].seen = TRUE]
  /\ Emit("node", n, None, {n})
  /\ UNCHANGED <<port, group, made>>

\* Ironic deletes a node's ports and portgroups with it, without notifications.
DeleteNode(n) ==
  /\ "delete" \in env.ops
  /\ Here(n)
  /\ node' = [node EXCEPT ![n].life = "gone"]
  /\ port' = [p \in Ports |-> IF Owner[p] = n THEN None ELSE port[p]]
  /\ group' = [g \in Groups |-> group[g] /\ Owner[g] # n]
  /\ Emit("nodeDelete", n, None, {})
  /\ UNCHANGED made

\* Port names are unique on a node, and a switch port has one cable.
Fits(p, d) ==
  \A q \in Ports \ {p} : port[q] # None =>
    /\ Owner[q] = Owner[p] => port[q].name # d.name
    /\ d.link # NoLink => port[q].link # d.link

SetPort(p, d) ==
  /\ "port" \in env.ops
  /\ Here(Owner[p]) /\ port[p] # d /\ Fits(p, d)
  /\ p \in made => port[p] # None
  /\ made' = made \cup {p}
  /\ port[p] # None /\ "recable" \notin env.ops => port[p].link \in {d.link, NoLink}
  /\ port' = [port EXCEPT ![p] = d]
  /\ Emit("port", p, d, {})
  /\ UNCHANGED <<node, group>>

DeletePort(p) ==
  /\ port[p] # None
  /\ port' = [port EXCEPT ![p] = None]
  /\ Emit("portDelete", p, None, {})
  /\ UNCHANGED <<node, group, made>>

SetGroup(g) ==
  /\ "group" \in env.ops
  /\ Here(Owner[g]) /\ g \notin made
  /\ made' = made \cup {g}
  /\ group' = [group EXCEPT ![g] = TRUE]
  /\ Emit("group", g, None, {})
  /\ UNCHANGED <<node, port>>

DeleteGroup(g) ==
  /\ group[g]
  /\ group' = [group EXCEPT ![g] = FALSE]
  /\ Emit("groupDelete", g, None, {})
  /\ UNCHANGED <<node, port, made>>

\* The CronWorkflow: sync_nodes over the nodes Ironic lists.
Resync ==
  /\ Cardinality(Resyncs) < env.resyncs
  /\ "resync" \in env.ops \/ \A i \in 1..sent : job[i].pc = "done"
  /\ Emit("resync", CHOOSE n \in Nodes : TRUE, None, {n \in Nodes : Here(n)})
  /\ UNCHANGED ironic

\* Somebody gives the device a rack position in Nautobot.
Place(n) ==
  /\ "place" \in env.ops
  /\ device[n] # None /\ ~device[n].slot /\ MayChange
  /\ device' = [device EXCEPT ![n].slot = TRUE]
  /\ placed' = IF \A i \in 1..sent : job[i].pc \in {"pending", "done"}
               THEN placed \cup {env.machine[n]} ELSE placed
  /\ UNCHANGED <<env, ironic, ifs, job, sent>>

-----------------------------------------------------------------------------
\* Nautobot: names of devices, names of interfaces on a device, and cables at a
\* switch port are unique; a device takes its interfaces with it.

Named(name) == {n \in Nodes : device[n] # None /\ env.machine[n] = name}
WithoutDevice(n) == [x \in Interfaces |-> IF DeviceOf(x) = n THEN None ELSE ifs[x]]
NameTaken(x, name) ==
  \E y \in Interfaces \ {x} :
    DeviceOf(y) = DeviceOf(x) /\ ifs[y] # None /\ ifs[y].name = name
LinkTaken(x, link, table) ==
  \E y \in Interfaces \ {x} : table[y] # None /\ table[y].link = link

Fault(call) == call \in env.faults
At(i, pc) == job[i].pc = pc
World == <<env, ironic, placed, sent>>

\* The end of a job.
Ended(i, hit) ==
  [NoJob EXCEPT !.kind = job[i].kind, !.of = job[i].of, !.pc = "done",
                !.alone = job[i].alone, !.hit = job[i].hit \/ hit]
Done(i, hit) == job' = [job EXCEPT ![i] = Ended(i, hit)]

\* The end of a node's sync: on to the next node.
NextNode(i, hit) ==
  IF job[i].rest = {} THEN Done(i, hit)
  ELSE job' = [job EXCEPT ![i] = [Ended(i, hit) EXCEPT !.pc = "fetch", !.rest = job[i].rest]]

\* 502, 503, 504 and connection errors: sync_device_to_nautobot starts over, up to
\* RETRY_ATTEMPTS times.  The exception of the last attempt ends a resync too.
Retry(i) ==
  /\ Fault("busy")
  /\ IF job[i].tries = MaxAttempts THEN Done(i, TRUE)
     ELSE job' = [job EXCEPT ![i] = [Ended(i, TRUE) EXCEPT !.pc = "fetch",
                    !.rest = job[i].rest \cup {job[i].of}, !.tries = job[i].tries + 1]]

-----------------------------------------------------------------------------
\* The workflow starts, or the event never arrives.
Begin(i) ==
  /\ At(i, "pending")
  /\ env.serial => \A k \in 1..(i - 1) : At(k, "done")
  /\ job[i].kind \in {"node", "resync"}
  /\ job' = [job EXCEPT ![i].pc = "fetch",
               ![i].alone = \A k \in (1..sent) \ {i} : At(k, "done")]
  /\ UNCHANGED <<World, device, ifs>>

Lose(i) ==
  /\ At(i, "pending") /\ Fault("lose")
  /\ Done(i, TRUE)
  /\ UNCHANGED <<World, device, ifs>>

\* fetch_node_details.
Fetch(i) ==
  /\ At(i, "fetch")
  /\ IF job[i].rest = {} THEN Done(i, FALSE)
     ELSE \E n \in job[i].rest :
       LET next == [job[i] EXCEPT !.rest = @ \ {n}, !.of = n]
           snap == [status |-> node[n].status, seen |-> node[n].seen,
                    ports |-> [p \in Ports |-> IF Owner[p] = n THEN port[p] ELSE None]]
       IN  job' = [job EXCEPT ![i] =
                     IF Here(n) THEN [next EXCEPT !.pc = "find", !.snap = snap]
                     ELSE [next EXCEPT !.pc = "fetch", !.tries = 1]]
  /\ UNCHANGED <<World, device, ifs>>

\* _set_location_from_switches finds a location, or one was carried over.
Located(i) ==
  \/ job[i].located
  \/ \E p \in Ports : job[i].snap.ports[p] # None /\ job[i].snap.ports[p].link # NoLink

\* _find_or_create_nautobot_device: by id; by name, taking the location over; a new
\* one needs a location (DeviceNotReadyError).
Find(i) ==
  LET n == job[i].of
      same == IF job[i].snap.seen THEN Named(env.machine[n]) ELSE {}
  IN
  /\ At(i, "find")
  /\ \/ /\ device[n] # None
        /\ job' = [job EXCEPT ![i].pc = "update", ![i].base = device[n]]
     \/ /\ device[n] = None
        /\ \/ \E m \in same :
                job' = [job EXCEPT ![i].pc = "deleteOld", ![i].old = m, ![i].located = TRUE,
                                   ![i].slot = device[m].slot]
           \/ same = {} /\ Located(i) /\ job' = [job EXCEPT ![i].pc = "create"]
           \/ same = {} /\ ~Located(i) /\ NextNode(i, FALSE)
     \/ Retry(i)
     \/ Fault("error") /\ NextNode(i, TRUE)
  /\ UNCHANGED <<World, device, ifs>>

DeleteOld(i) ==
  LET m == job[i].old IN
  /\ At(i, "deleteOld")
  /\ \/ /\ device[m] # None
        /\ device' = [device EXCEPT ![m] = None]
        /\ ifs' = WithoutDevice(m)
        /\ job' = [job EXCEPT ![i].pc = "create", ![i].old = None]
     \/ device[m] = None /\ NextNode(i, FALSE) /\ UNCHANGED <<device, ifs>>
     \/ Retry(i) /\ UNCHANGED <<device, ifs>>
     \/ Fault("error") /\ NextNode(i, TRUE) /\ UNCHANGED <<device, ifs>>
  /\ UNCHANGED World

\* _create_nautobot_device.  Without an inventory there is no manufacturer and model,
\* and Nautobot refuses.
Create(i) ==
  LET n == job[i].of
      new == [status |-> Planned, slot |-> FALSE]
      possible == job[i].snap.seen /\ Named(env.machine[n]) = {}
  IN
  /\ At(i, "create")
  /\ \/ /\ possible
        /\ device' = [device EXCEPT ![n] = new]
        /\ job' = [job EXCEPT ![i].pc = "update", ![i].base = new]
     \/ ~possible /\ NextNode(i, FALSE) /\ UNCHANGED device
     \/ Retry(i) /\ UNCHANGED device
     \/ Fault("error") /\ NextNode(i, TRUE) /\ UNCHANGED device
  /\ UNCHANGED <<World, ifs>>

\* Faulty variant: the position is left out.
UpdateStatusOnly(i) ==
  LET n == job[i].of IN
  /\ At(i, "update")
  /\ job' = [job EXCEPT ![i].pc = "interfaces", ![i].base = None, ![i].slot = FALSE,
                        ![i].located = FALSE,
                        ![i].todo = {p \in Ports : job[i].snap.ports[p] # None}]
  /\ device' = IF device[n] = None THEN device
               ELSE [device EXCEPT ![n].status = job[i].snap.status]
  /\ UNCHANGED <<World, ifs>>

\* _update_nautobot_device: what differs from the device as it was read is saved.
Update(i) ==
  LET n == job[i].of
      base == job[i].base
      target == [status |-> job[i].snap.status, slot |-> base.slot \/ job[i].slot]
      saved == [status |-> IF target.status # base.status THEN target.status
                           ELSE device[n].status,
                slot |-> IF target.slot # base.slot THEN target.slot ELSE device[n].slot]
      goOn == job' = [job EXCEPT ![i].pc = "interfaces", ![i].base = None, ![i].slot = FALSE,
                        ![i].located = FALSE,
                        ![i].todo = {p \in Ports : job[i].snap.ports[p] # None}]
  IN
  /\ At(i, "update")
  /\ \/ target = base /\ goOn /\ UNCHANGED device
     \/ /\ target # base /\ device[n] # None
        /\ device' = [device EXCEPT ![n] = saved]
        /\ goOn
     \/ target # base /\ device[n] = None /\ NextNode(i, FALSE) /\ UNCHANGED device
     \/ target # base /\ Retry(i) /\ UNCHANGED device
     \/ target # base /\ Fault("error") /\ NextNode(i, TRUE) /\ UNCHANGED device
  /\ UNCHANGED <<World, ifs>>

-----------------------------------------------------------------------------
\* sync_interfaces_from_data.  Any exception ends it, and the sync goes on.

Without(x, table) == [table EXCEPT ![x] = None]

\* Faulty variant: cables are moved, never made.
CabledMoveOnly(x, link, table) ==
  IF link = NoLink \/ table[x].link = NoLink \/ LinkTaken(x, link, table) THEN table
  ELSE [table EXCEPT ![x].link = link]

\* _handle_cable_management of both modules: a wrong cable is moved, a missing one
\* made, unless the switch port already has a cable.
Cabled(x, link, table) ==
  IF link = NoLink \/ LinkTaken(x, link, table) THEN table ELSE [table EXCEPT ![x].link = link]

\* Moving a cable to a taken switch port raises; failing to make one is only logged.
CableRaises(x, link, table) ==
  table[x].link \notin {NoLink, link} /\ link # NoLink /\ LinkTaken(x, link, table)

\* _create_nautobot_interface, _update_nautobot_interface and the cable of one port.
\* A name that is taken prevents a new interface (it is looked up by id, in vain); an
\* existing one has the other interface deleted.
SyncInterface(i) ==
  LET n == job[i].of IN
  /\ At(i, "interfaces")
  /\ \/ \E p \in job[i].todo :
          LET d == job[i].snap.ports[p]
              others == {y \in Interfaces \ {p} :
                           DeviceOf(y) = n /\ ifs[y] # None /\ ifs[y].name = d.name}
              renamed == [x \in Interfaces |->
                            IF x \in others THEN None
                            ELSE IF x = p THEN [ifs[p] EXCEPT !.name = d.name] ELSE ifs[x]]
              next == job' = [job EXCEPT ![i].todo = @ \ {p}]
          IN
          \/ /\ ifs[p] = None /\ device[n] # None
             /\ ifs' = IF others # {} THEN ifs
                       ELSE Cabled(p, d.link, [ifs EXCEPT ![p] = [name |-> d.name, link |-> NoLink]])
             /\ next
          \/ ifs[p] = None /\ device[n] = None /\ NextNode(i, FALSE) /\ UNCHANGED ifs
          \/ ifs[p] # None /\ ifs' = Cabled(p, d.link, renamed)
             /\ IF CableRaises(p, d.link, renamed) THEN NextNode(i, FALSE) ELSE next
     \/ job[i].todo = {} /\ job' = [job EXCEPT ![i].pc = "idrac"] /\ UNCHANGED ifs
     \/ Fault("error") /\ NextNode(i, TRUE) /\ UNCHANGED ifs
  /\ UNCHANGED <<World, device>>

\* sync_idrac_interface, when the inventory has a bmc_mac.
SyncIdrac(i) ==
  LET n == job[i].of
      idrac == [name |-> "iDRAC", link |-> NoLink]
  IN
  /\ At(i, "idrac")
  /\ \/ /\ job[i].snap.seen /\ ifs[n] = None /\ device[n] # None
        /\ ifs' = [ifs EXCEPT ![n] = idrac]
        /\ job' = [job EXCEPT ![i].pc = "cleanup"]
     \/ /\ ~job[i].snap.seen \/ ifs[n] # None
        /\ job' = [job EXCEPT ![i].pc = "cleanup"] /\ UNCHANGED ifs
     \/ /\ job[i].snap.seen /\ ifs[n] = None /\ device[n] = None
        /\ NextNode(i, FALSE) /\ UNCHANGED ifs
     \/ Fault("error") /\ NextNode(i, TRUE) /\ UNCHANGED ifs
  /\ UNCHANGED <<World, device>>

\* Faulty variant: interfaces are never removed.
CleanupNothing(i) ==
  /\ At(i, "cleanup")
  /\ NextNode(i, FALSE)
  /\ UNCHANGED <<World, device, ifs>>

\* _cleanup_stale_interfaces: everything but the ports read and iDRAC.
Cleanup(i) ==
  LET n == job[i].of
      stale == {x \in (Ports \cup Groups) :
                  Owner[x] = n /\ (x \in Ports => job[i].snap.ports[x] = None)}
  IN
  /\ At(i, "cleanup")
  /\ \/ /\ ifs' = [x \in Interfaces |-> IF x \in stale THEN None ELSE ifs[x]]
        /\ NextNode(i, FALSE)
     \/ Fault("error") /\ NextNode(i, TRUE) /\ UNCHANGED ifs
  /\ UNCHANGED <<World, device>>

-----------------------------------------------------------------------------
\* The other handlers, each one get and its change.

Handle(i, kind) ==
  /\ At(i, "pending") /\ job[i].kind = kind
  /\ env.serial => \A k \in 1..(i - 1) : At(k, "done")

\* Faulty variant: the device stays.
DeleteDeviceNot(i) ==
  /\ Handle(i, "nodeDelete")
  /\ Done(i, FALSE)
  /\ UNCHANGED <<World, device, ifs>>

\* delete_device_from_nautobot.
DeleteDevice(i) ==
  LET n == job[i].of IN
  /\ Handle(i, "nodeDelete")
  /\ \/ /\ device' = [device EXCEPT ![n] = None] /\ ifs' = WithoutDevice(n)
        /\ placed' = IF device[n] = None THEN placed ELSE placed \ {env.machine[n]}
        /\ Done(i, FALSE)
     \/ Fault("error") /\ Done(i, TRUE) /\ UNCHANGED <<device, ifs, placed>>
  /\ UNCHANGED <<env, ironic, sent>>

\* handle_port_create_update: the interface as in the event, then its cable.
PortCreateUpdate(i) ==
  LET p == job[i].of
      d == job[i].data
      possible == device[Owner[p]] # None /\ ~NameTaken(p, d.name)
      named == [ifs EXCEPT ![p] = [name |-> d.name, link |-> IF @ = None THEN NoLink ELSE @.link]]
  IN
  /\ Handle(i, "port")
  /\ \/ possible /\ ifs' = Cabled(p, d.link, named) /\ Done(i, FALSE)
     \/ (~possible \/ Fault("error")) /\ UNCHANGED ifs /\ Done(i, Fault("error"))
  /\ UNCHANGED <<World, device>>

\* handle_port_delete: the cable, then the interface.
PortDelete(i) ==
  /\ Handle(i, "portDelete")
  /\ \/ ifs' = Without(job[i].of, ifs) /\ Done(i, FALSE)
     \/ Fault("error") /\ UNCHANGED ifs /\ Done(i, TRUE)
  /\ UNCHANGED <<World, device>>

\* handle_portgroup_create_update, handle_portgroup_delete: the LAG interface.
PortgroupCreateUpdate(i) ==
  LET g == job[i].of IN
  /\ Handle(i, "group")
  /\ \/ device[Owner[g]] # None /\ Done(i, FALSE)
        /\ ifs' = [ifs EXCEPT ![g] = [name |-> g, link |-> NoLink]]
     \/ (device[Owner[g]] = None \/ Fault("error")) /\ UNCHANGED ifs /\ Done(i, TRUE)
  /\ UNCHANGED <<World, device>>

PortgroupDelete(i) ==
  /\ Handle(i, "groupDelete")
  /\ \/ ifs' = Without(job[i].of, ifs) /\ Done(i, FALSE)
     \/ Fault("error") /\ UNCHANGED ifs /\ Done(i, TRUE)
  /\ UNCHANGED <<World, device>>

-----------------------------------------------------------------------------
Ironic ==
  \/ \E n \in Nodes : \/ Enroll(n) \/ Inspect(n) \/ DeleteNode(n) \/ Place(n)
                      \/ \E s \in Statuses : SetState(n, s)
  \/ \E p \in Ports : DeletePort(p) \/ \E d \in env.data : SetPort(p, d)
  \/ \E g \in Groups : SetGroup(g) \/ DeleteGroup(g)

Step(i) ==
  \/ Begin(i) \/ Lose(i) \/ Fetch(i) \/ Find(i) \/ DeleteOld(i) \/ Create(i) \/ Update(i)
  \/ SyncInterface(i) \/ SyncIdrac(i) \/ Cleanup(i)
  \/ DeleteDevice(i) \/ PortCreateUpdate(i) \/ PortDelete(i)
  \/ PortgroupCreateUpdate(i) \/ PortgroupDelete(i)

Next == Ironic \/ Resync \/ \E i \in Ids : Step(i)

Spec == Init /\ [][Next]_vars

-----------------------------------------------------------------------------
Settled == \A i \in 1..sent : At(i, "done")
Reliable == env.serial /\ env.faults = {}

\* The k-th last event was a resync, run by itself, in which no call failed.
CleanResync(k) ==
  sent >= k /\ LET j == job[sent - k + 1] IN
    j.kind = "resync" /\ j.pc = "done" /\ j.alone /\ ~j.hit

\* Nodes that Nautobot can have a device for.
Known(n) ==
  Here(n) /\ node[n].seen /\ \E p \in PortsOf(n) : port[p] # None /\ port[p].link # NoLink

\* No cable moves to another switch port.  Moving one to a port that still has a
\* cable raises every time, and cables are not removed when a link is cleared.
CablesStay == "recable" \notin env.ops

\* "A CronWorkflow runs daily ... to catch any drift": whatever events raced, failed
\* or were lost before, one resync that runs by itself gives every known node its
\* device with the right status and removes every interface that is not a port.
ResyncCleans ==
  Settled /\ CleanResync(1) => \A n \in Nodes : Known(n) =>
    /\ device[n] # None /\ device[n].status = node[n].status
    /\ ifs[n] # None
    /\ \A p \in PortsOf(n) : ifs[p] # None => port[p] # None

\* A second one completes the interfaces and cables that stale ones were in the
\* way of.
ResyncRepairs ==
  Settled /\ CablesStay /\ CleanResync(1) /\ CleanResync(2) =>
    \A n \in Nodes : Known(n) => \A p \in PortsOf(n) :
      /\ (ifs[p] = None) = (port[p] = None)
      /\ port[p] # None => /\ ifs[p].name = port[p].name
                           /\ port[p].link # NoLink => ifs[p].link = port[p].link

\* Handled in order and without loss, the events alone leave no device of a node
\* that is gone, and no wrong status.
EventsKeepDevices ==
  Settled /\ Reliable => \A n \in Nodes : device[n] # None =>
    Here(n) /\ device[n].status = node[n].status

\* "Preserve location, rack, position and face from old device": a machine that is
\* enrolled again under a new UUID keeps its rack position.
PositionKept ==
  Settled /\ env.faults \subseteq {"lose"} /\ env.serial =>
    \A m \in placed : \E n \in Nodes : env.machine[n] = m /\ device[n] # None /\ device[n].slot

\* A portgroup has its LAG interface once its event was handled:
\* "baremetal.portgroup.create.end | Creates interface in Nautobot".
LagsAreMirrored ==
  Settled /\ Reliable => \A g \in Groups :
    group[g] /\ (\E i \in 1..sent : job[i].kind = "group" /\ job[i].of = g /\ ~job[i].hit)
      => ifs[g] # None
=============================================================================
