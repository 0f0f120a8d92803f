--------------------------- MODULE SegmentBinding ---------------------------
(***************************************************************************)
(* Dynamic VLAN segments of baremetal ports and trunk subports: bind_port, *)
(* update_port_postcommit and delete_port_postcommit of                    *)
(* neutron_understack_mech.py, the trunk driver of trunk.py, the segment   *)
(* helpers of utils.py and the calls to Undersync.                         *)
(*                                                                         *)
(* Every request runs in its own API worker.  bind_port and the postcommit *)
(* hooks run outside the transaction of the request, and the helpers use a *)
(* session of their own, so each database access is a step.  A bound port  *)
(* has a binding level on the VXLAN segment of its network, which this     *)
(* model leaves implicit, and below it one on a VLAN segment; a subport    *)
(* has only the latter.                                                    *)
(***************************************************************************)
EXTENDS Naturals, FiniteSets

CONSTANTS
  Ports,         \* baremetal ports
  Subports,      \* ports that may be subports of their trunks
  Nets,          \* networks
  Provisioning,  \* networks with a static VLAN segment in every physnet
  Physnets,      \* vlan groups
  NetOf,         \* the network of each port and subport
  PhysOf,        \* physical_network in the binding profile of each port
  HostOf,        \* the node each port belongs to
  SegIds,        \* segment ids
  StaticSegments,\* the networksegments table before any port is bound
  NoSeg, NoPort, NoNet,
  Envs           \* what the environment may do: see env

Tasks == Ports \cup Subports
Hosts == {HostOf[p] : p \in Ports}
Rows == Tasks \X Hosts
Requests == {"bind", "unbind", "delete", "add", "addTrunk", "remove"}
Free == [net |-> NoNet, phys |-> NoNet, dynamic |-> FALSE]
Segments == [net : Nets, phys : Physnets, dynamic : BOOLEAN] \cup {Free}

ASSUME SegmentAssumption ==
  /\ SegIds \subseteq Nat /\ NoSeg \notin SegIds /\ NoPort \notin Ports /\ NoNet \notin Nets
  /\ Ports \cap Subports = {}
  /\ Provisioning \subseteq Nets
  /\ NetOf \in [Tasks -> Nets] /\ PhysOf \in [Ports -> Physnets]
  /\ DOMAIN HostOf = Ports
  /\ StaticSegments \in [SegIds -> Segments]
  /\ \A g \in SegIds : ~StaticSegments[g].dynamic
  /\ Envs \subseteq [ops : SUBSET Requests, tasks : SUBSET Tasks, serial : BOOLEAN, vlans : Nat]

VARIABLES
  segs,     \* the networksegments table
  levels,   \* binding levels: the VLAN segment of a port or subport on a host
  bound,    \* ports with vif_type other
  trunk,    \* the parent port of each subport
  work,     \* the request under way for each port and subport
  fabric,   \* what the last sync of each vlan group configured
  env       \* fixed for a behaviour: the requests that are made, for which ports,
            \* whether requests on one network never overlap, and the size of
            \* the VLAN range of a physnet

vars == <<segs, levels, bound, trunk, work, fabric, env>>

Idle == [op |-> "none", pc |-> "idle", port |-> NoPort, own |-> NoSeg,
         seg |-> NoSeg, todo |-> {}, cur |-> NoPort]

TypeOK ==
  /\ segs \in [SegIds -> Segments]
  /\ levels \in [Rows -> SegIds \cup {NoSeg}]
  /\ bound \in SUBSET Ports
  /\ trunk \in [Subports -> Ports \cup {NoPort}]
  /\ work \in [Tasks ->
        [op : Requests \cup {"none"},
         pc : {"idle", "own", "subs", "level", "commit", "find", "check",
               "clean", "checkSub", "free", "post", "sync"},
         port : Ports \cup {NoPort}, own : SegIds \cup {NoSeg},
         seg : SegIds \cup {NoSeg}, todo : SUBSET Subports,
         cur : Subports \cup {NoPort}]]
  /\ fabric \in [Physnets -> SUBSET (Tasks \X SegIds)]
  /\ env \in Envs

\* Nothing is bound; the provisioning networks have their static segments.
Init ==
  /\ segs = StaticSegments
  /\ env \in Envs
  /\ levels = [w \in Rows |-> NoSeg]
  /\ bound = {}
  /\ trunk = [s \in Subports |-> NoPort]
  /\ work = [t \in Tasks |-> Idle]
  /\ fabric = [x \in Physnets |-> {}]

At(t, op, pc) == work[t].op = op /\ work[t].pc = pc
Goto(t, pc) == work' = [work EXCEPT ![t].pc = pc]
Done(t) == work' = [work EXCEPT ![t] = Idle]
Start(t, op, pc, p, own, todo) ==
  work' = [work EXCEPT ![t] = [op |-> op, pc |-> pc, port |-> p, own |-> own,
                               seg |-> NoSeg, todo |-> todo, cur |-> NoPort]]
HostFor(t) == HostOf[work[t].port]
SubportsOf(p) == {s \in Subports : trunk[s] = p}

\* The networks a request reads or writes, and the environment's promise.
Footprint(t, p) == {NetOf[t], NetOf[p]} \cup {NetOf[s] : s \in SubportsOf(p)}

MayStart(op, t, p) ==
  /\ op \in env.ops /\ {t, p} \subseteq env.tasks /\ work[t] = Idle
  /\ env.serial => \A u \in {v \in Tasks : work[v] # Idle} :
                 Footprint(t, p) \cap Footprint(u, work[u].port) = {}

-----------------------------------------------------------------------------
\* network_segment_by_physnet, vlan_segment_for_physnet: any match.
SegmentsOf(net, x) == {g \in SegIds : segs[g].net = net /\ segs[g].phys = x}

\* A segment id is a new UUID: the least one that no request, row or switch has
\* seen.
Fresh ==
  LET unseen == {g \in SegIds :
                   /\ segs[g] = Free
                   /\ \A t \in Tasks : g \notin {work[t].own, work[t].seg}
                   /\ \A x \in Physnets : \A c \in fabric[x] : c[2] # g}
  IN  {g \in unseen : \A h \in unseen : g <= h}

VlansUsed(x) == Cardinality({g \in SegIds : segs[g].phys = x /\ segs[g].dynamic})

\* type_manager.allocate_dynamic_segment: get or create.
GetOrAllocate(net, x, g) ==
  \/ g \in SegmentsOf(net, x) /\ UNCHANGED segs
  \/ /\ SegmentsOf(net, x) = {} /\ VlansUsed(x) < env.vlans /\ g \in Fresh
     /\ segs' = [segs EXCEPT ![g] = [net |-> net, phys |-> x, dynamic |-> TRUE]]

Exhausted(net, x) == SegmentsOf(net, x) = {} /\ VlansUsed(x) >= env.vlans

-----------------------------------------------------------------------------
\* bind_port: the understack driver looks for a VLAN segment of the physnet
\* among those of the request's context, and has subports of its own context.
BindPort(p) ==
  /\ MayStart("bind", p, p) /\ p \notin bound
  /\ LET found == SegmentsOf(NetOf[p], PhysOf[p]) IN
     \E g \in IF found = {} THEN {NoSeg} ELSE found :
       Start(p, "bind", IF g = NoSeg THEN "own" ELSE "subs", p, g, SubportsOf(p))
  /\ UNCHANGED <<segs, levels, bound, trunk, fabric, env>>

BindOwnSegment(p) ==
  /\ At(p, "bind", "own")
  /\ \/ \E g \in SegIds : /\ GetOrAllocate(NetOf[p], PhysOf[p], g)
                          /\ work' = [work EXCEPT ![p].own = g, ![p].pc = "subs"]
     \/ Exhausted(NetOf[p], PhysOf[p]) /\ Done(p) /\ UNCHANGED segs
  /\ UNCHANGED <<levels, bound, trunk, fabric, env>>

\* _handle_segment_allocation, one subport at a time: the segment, then the row
\* of the binding level.  A segment deleted in between, or a row on another
\* segment, is a database error that ends the request.
SubportSegment(t) ==
  LET x == PhysOf[work[t].port] IN
  /\ work[t].pc = "subs"
  /\ \E s \in work[t].todo :
       \/ \E g \in SegIds : /\ GetOrAllocate(NetOf[s], x, g)
                            /\ work' = [work EXCEPT ![t].seg = g, ![t].cur = s,
                                                    ![t].pc = "level"]
       \/ Exhausted(NetOf[s], x) /\ Done(t) /\ UNCHANGED segs
  /\ UNCHANGED <<levels, bound, trunk, fabric, env>>

SubportLevel(t) ==
  LET s == work[t].cur
      g == work[t].seg
      w == <<s, HostFor(t)>> IN
  /\ work[t].pc = "level"
  /\ IF segs[g] # Free /\ levels[w] \in {NoSeg, g}
     THEN /\ levels' = [levels EXCEPT ![w] = g]
          /\ work' = [work EXCEPT ![t].todo = @ \ {s}, ![t].cur = NoPort,
                                  ![t].seg = NoSeg, ![t].pc = "subs"]
     ELSE Done(t) /\ UNCHANGED levels
  /\ UNCHANGED <<segs, bound, trunk, fabric, env>>

\* Faulty variant: binding a port does not reach the switch.
CommitBindingUnsynced(p) ==
  LET g == work[p].own IN
  /\ At(p, "bind", "subs") /\ work[p].todo = {}
  /\ segs[g] # Free
  /\ levels' = [levels EXCEPT ![<<p, HostOf[p]>>] = g]
  /\ bound' = bound \cup {p}
  /\ Done(p)
  /\ UNCHANGED <<segs, trunk, fabric, env>>

\* The undersync driver binds the VLAN segment and ML2 commits the binding; the
\* foreign key of its level fails if the segment is gone.
CommitBinding(p) ==
  LET g == work[p].own IN
  /\ At(p, "bind", "subs") /\ work[p].todo = {}
  /\ IF segs[g] # Free
     THEN /\ levels' = [levels EXCEPT ![<<p, HostOf[p]>>] = g]
          /\ bound' = bound \cup {p}
          /\ Goto(p, "sync")
     ELSE Done(p) /\ UNCHANGED <<levels, bound>>
  /\ UNCHANGED <<segs, trunk, fabric, env>>

-----------------------------------------------------------------------------
\* The update that unbinds a port.  _tenant_network_port_cleanup looks at the
\* top bound segment, the VXLAN one: not dynamic, so nothing is released for
\* the port itself.  The subports of its trunk are cleaned, then Undersync.
UnbindPort(p) ==
  /\ MayStart("unbind", p, p) /\ p \in bound
  /\ bound' = bound \ {p}
  /\ levels' = [levels EXCEPT ![<<p, HostOf[p]>>] = NoSeg]
  /\ Start(p, "unbind", "clean", p, NoSeg, SubportsOf(p))
  /\ UNCHANGED <<segs, trunk, fabric, env>>

\* Deleting a port that is still bound (a trunk's parent cannot be deleted);
\* one on a provisioning network only syncs.
DeletePort(p) ==
  /\ MayStart("delete", p, p) /\ p \in bound /\ SubportsOf(p) = {}
  /\ bound' = bound \ {p}
  /\ levels' = [levels EXCEPT ![<<p, HostOf[p]>>] = NoSeg]
  /\ Start(p, "delete", IF NetOf[p] \in Provisioning THEN "sync" ELSE "find", p, NoSeg, {})
  /\ UNCHANGED <<segs, trunk, fabric, env>>

\* Faulty variant: deleting a bound port releases nothing.
FindNothing(p) ==
  /\ At(p, "delete", "find")
  /\ Goto(p, "sync")
  /\ UNCHANGED <<segs, levels, bound, trunk, fabric, env>>

\* _delete_port_baremetal: find the segment of the network and physnet.
FindReleased(p) ==
  LET found == SegmentsOf(NetOf[p], PhysOf[p]) IN
  /\ At(p, "delete", "find")
  /\ \/ \E g \in found : work' = [work EXCEPT ![p].seg = g, ![p].pc = "check"]
     \/ found = {} /\ Goto(p, "sync")
  /\ UNCHANGED <<segs, levels, bound, trunk, fabric, env>>

\* Faulty variant: the levels of subports do not count.
InUseByPorts(g) == \E p \in Ports : levels[p, HostOf[p]] = g

InUse(g) == \E w \in Rows : levels[w] = g

\* release_segment_if_unused: the check, then (ReleaseSegment) the release.  The
\* segment is dynamic, as every VLAN segment of a tenant network here.
ReleaseSegmentIfUnused(p) ==
  /\ At(p, "delete", "check")
  /\ IF ~InUse(work[p].seg) THEN Goto(p, "free") ELSE Goto(p, "sync")
  /\ UNCHANGED <<segs, levels, bound, trunk, fabric, env>>

\* type_manager.release_dynamic_segment; the binding levels of the segment go
\* with it (ON DELETE CASCADE).
ReleaseSegment(t) ==
  LET g == work[t].seg IN
  /\ work[t].pc = "free"
  /\ segs' = [segs EXCEPT ![g] = Free]
  /\ levels' = [w \in Rows |-> IF levels[w] = g THEN NoSeg ELSE levels[w]]
  /\ work' = [work EXCEPT ![t].seg = NoSeg,
                ![t].pc = IF work[t].op = "delete" THEN "sync" ELSE "clean"]
  /\ UNCHANGED <<bound, trunk, fabric, env>>

\* Faulty variant: every subport is expected to have a level.
CleanSubportStuck(t) ==
  /\ work[t].pc = "clean"
  /\ \E s \in work[t].todo : LET w == <<s, HostFor(t)>> IN
       /\ levels[w] # NoSeg
       /\ work' = [work EXCEPT ![t].todo = @ \ {s}, ![t].seg = levels[w],
                               ![t].pc = "checkSub"]
       /\ levels' = [levels EXCEPT ![w] = NoSeg]
  /\ UNCHANGED <<segs, bound, trunk, fabric, env>>

\* _handle_segment_deallocation: delete the level of a subport, then
\* _delete_unused_segment, whose is_dynamic_network_segment fails on a segment
\* that another request has released.
CleanSubport(t) ==
  /\ work[t].pc = "clean"
  /\ \E s \in work[t].todo : LET w == <<s, HostFor(t)>> IN
       IF levels[w] = NoSeg
       THEN work' = [work EXCEPT ![t].todo = @ \ {s}] /\ UNCHANGED levels
       ELSE /\ work' = [work EXCEPT ![t].todo = @ \ {s}, ![t].seg = levels[w],
                                    ![t].pc = "checkSub"]
            /\ levels' = [levels EXCEPT ![w] = NoSeg]
  /\ UNCHANGED <<segs, bound, trunk, fabric, env>>

\* Faulty variant: the segment of a removed subport is always released.
DeleteSegmentUnchecked(t) ==
  /\ work[t].pc = "checkSub"
  /\ Goto(t, "free")
  /\ UNCHANGED <<segs, levels, bound, trunk, fabric, env>>

DeleteUnusedSegment(t) ==
  LET g == work[t].seg IN
  /\ work[t].pc = "checkSub"
  /\ \/ InUse(g) /\ Goto(t, "clean")
     \/ ~InUse(g) /\ segs[g] = Free /\ Done(t)
     \/ ~InUse(g) /\ segs[g] # Free
          /\ IF segs[g].dynamic THEN Goto(t, "free") ELSE Goto(t, "clean")
  /\ UNCHANGED <<segs, levels, bound, trunk, fabric, env>>

CleanDone(t) ==
  /\ work[t].pc = "clean" /\ work[t].todo = {}
  /\ Goto(t, "sync")
  /\ UNCHANGED <<segs, levels, bound, trunk, fabric, env>>

-----------------------------------------------------------------------------
\* subports_added (op "add") and trunk_created with a subport (op "addTrunk"),
\* on PRECOMMIT_CREATE: segments are allocated when the parent is bound.
AddSubport(s, p, op) ==
  /\ MayStart(op, s, p) /\ trunk[s] = NoPort
  /\ op = "addTrunk" => SubportsOf(p) = {}
  /\ IF p \in bound THEN Start(s, op, "subs", p, NoSeg, {s})
                    ELSE Start(s, op, "commit", p, NoSeg, {})
  /\ UNCHANGED <<segs, levels, bound, trunk, fabric, env>>

\* The subport is committed; only subports_added_post calls Undersync.
CommitSubport(s) ==
  /\ \/ work[s].pc = "commit"
     \/ work[s].op \in {"add", "addTrunk"} /\ work[s].pc = "subs" /\ work[s].todo = {}
  /\ trunk' = [trunk EXCEPT ![s] = work[s].port]
  /\ IF work[s].op = "add" THEN Goto(s, "post") ELSE Done(s)
  /\ UNCHANGED <<segs, levels, bound, fabric, env>>

\* subports_deleted and trunk_deleted: the row goes first.
RemoveSubport(s) ==
  /\ trunk[s] # NoPort /\ MayStart("remove", s, trunk[s])
  /\ trunk' = [trunk EXCEPT ![s] = NoPort]
  /\ Start(s, "remove", "post", trunk[s], NoSeg, {})
  /\ UNCHANGED <<segs, levels, bound, fabric, env>>

\* Postcommit, for a parent that is bound by now: sync, cleaning first when
\* subports were removed (_clean_parent_port_switchport_config).
SubportPostcommit(s) ==
  /\ work[s].pc = "post"
  /\ IF work[s].port \notin bound THEN Done(s)
     ELSE IF work[s].op = "add" THEN Goto(s, "sync")
     ELSE work' = [work EXCEPT ![s].pc = "clean", ![s].todo = {s}]
  /\ UNCHANGED <<segs, levels, bound, trunk, fabric, env>>

-----------------------------------------------------------------------------
\* What Undersync configures for a vlan group: the VLANs of its bound ports and
\* of their subports, as Neutron has them when it is called.
Desired(x) ==
  {c \in Tasks \X SegIds :
     \E p \in bound : /\ PhysOf[p] = x
                      /\ c[1] \in {p} \cup SubportsOf(p)
                      /\ levels[c[1], HostOf[p]] = c[2]}

Sync(t) ==
  /\ work[t].pc = "sync"
  /\ LET x == PhysOf[work[t].port] IN fabric' = [fabric EXCEPT ![x] = Desired(x)]
  /\ Done(t)
  /\ UNCHANGED <<segs, levels, bound, trunk, env>>

PortWork(p) ==
  BindOwnSegment(p) \/ CommitBinding(p) \/ FindReleased(p) \/ ReleaseSegmentIfUnused(p)

SubportWork(s) == CommitSubport(s) \/ SubportPostcommit(s)

TaskWork(t) ==
  \/ SubportSegment(t) \/ SubportLevel(t)
  \/ CleanSubport(t) \/ DeleteUnusedSegment(t) \/ ReleaseSegment(t) \/ CleanDone(t)
  \/ Sync(t)

Next ==
  \/ \E p \in Ports : BindPort(p)
  \/ \E p \in Ports : UnbindPort(p)
  \/ \E p \in Ports : DeletePort(p)
  \/ \E s \in Subports, p \in Ports, op \in {"add", "addTrunk"} : AddSubport(s, p, op)
  \/ \E s \in Subports : RemoveSubport(s)
  \/ \E p \in Ports : PortWork(p)
  \/ \E s \in Subports : SubportWork(s)
  \/ \E t \in Tasks : TaskWork(t)

Spec == Init /\ [][Next]_vars

Fairness ==
  /\ \A p \in Ports : WF_vars(PortWork(p))
  /\ \A s \in Subports : WF_vars(SubportWork(s))
  /\ \A t \in Tasks : WF_vars(TaskWork(t))

FairSpec == Spec /\ Fairness

-----------------------------------------------------------------------------
Quiet == \A t \in Tasks : work[t] = Idle

\* When requests on a network do not overlap, a bound port and every subport of
\* its trunk have a VLAN of their own network in the physnet of the port, all
\* through the binds, removals and releases of other requests.
BoundPortsHaveVlans ==
  env.serial => \A p \in bound : \A t \in {p} \cup SubportsOf(p) :
     LET g == levels[t, HostOf[p]] IN
     g # NoSeg /\ segs[g].net = NetOf[t] /\ segs[g].phys = PhysOf[p]

\* "Release a dynamic VLAN segment once no ports remain bound to it"
\* (release_segment_if_unused): a segment that goes away takes no level along,
\* when requests on a network do not overlap.
ReleasedOnlyUnused ==
  [][\A g \in SegIds :
       env.serial /\ segs[g] # Free /\ segs'[g] = Free => ~InUse(g)]_vars

\* A dynamic segment that no port uses has been released ("A tenant network port
\* normally has its dynamic VLAN segment released by
\* _tenant_network_port_cleanup").
NoLeakedSegment ==
  Quiet => \A g \in SegIds : segs[g].dynamic => InUse(g)

\* So it is when ports are deleted while bound, without overlapping requests:
\* "without this the segment -- and its VLAN -- leaks forever"
\* (_delete_port_baremetal), and subports removed in any order, while there is a
\* VLAN for every network: a bind that fails for want of one for a subport keeps
\* what it allocated before.
VlansSuffice == Cardinality(Nets \ Provisioning) <= env.vlans

DeleteReleasesSegment ==
  env.serial /\ VlansSuffice /\ "unbind" \notin env.ops => NoLeakedSegment

\* A node has several ports, and the binding levels of a subport are kept by node:
\* a bind that is slow writes the level of a subport which has moved to another
\* port of the node since, and syncs the vlan group of its own port.
OnePortPerHost ==
  \A p, q \in Ports \cap env.tasks : HostOf[p] = HostOf[q] => p = q

\* The switches of a vlan group are configured as Neutron says, however requests
\* on different nodes or on the ports of one trunk overlap: whatever changed a
\* VLAN of a bound port or subport was followed by a sync.  Trunks are created
\* empty or on an unbound parent.
FabricInSync ==
  /\ Quiet /\ "addTrunk" \notin env.ops
  /\ env.serial \/ OnePortPerHost
  => \A x \in Physnets : fabric[x] = Desired(x)

\* Every request ends.
EveryRequestEnds == \A t \in Tasks : work[t] # Idle ~> work[t] = Idle
=============================================================================
