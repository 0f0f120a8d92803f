---------------------------- MODULE RouterUplink ----------------------------
(***************************************************************************)
(* The uplink of a routed network: routers.py, one network at a time       *)
(* (networks share nothing here).  The first router port on the network    *)
(* gets the network node a VLAN segment, a shared Neutron port named after *)
(* it, a subport on the node's trunk and a localnet port in OVN; the last  *)
(* one to go takes them away.  create_port_postcommit runs after the       *)
(* commit of the router port, the removal handlers inside its delete       *)
(* transaction or after it, and all of them use sessions of their own.     *)
(***************************************************************************)
EXTENDS Naturals, FiniteSets

CONSTANTS
  RouterPorts,  \* router interface and gateway ports of the network
  UplinkIds,    \* ids of shared ports
  SegIds,       \* ids of dynamic segments in the network node's physnet
  NoId,         \* none of these
  Envs          \* what the environment may do: see env

Requests == {"attach", "detach", "delete"}
Calls == {"segment", "trunk", "ovn", "txn", "unsub"}

ASSUME UplinkAssumption ==
  /\ NoId \notin UplinkIds \cup SegIds
  /\ \A e \in Envs : /\ e.ops \subseteq Requests /\ e.faults \subseteq Calls
                     /\ e.serial \in BOOLEAN /\ e.legacy \in BOOLEAN
                     /\ e.flavored \cup e.gateways \subseteq RouterPorts

VARIABLES
  present,   \* router ports in the database
  segment,   \* the dynamic segment, if allocated
  shared,    \* uplink-<segment_id> ports: the segment in the name
  level,     \* subports of the network node's trunk: their segment
  localnet,  \* uplink-<segment_id> logical switch ports in OVN
  lsps,      \* logical switch ports that OVN has for shared ports
  work,      \* the request under way for each router port
  env        \* fixed for a behaviour: the requests that are made, the calls that
             \* may fail, whether requests never overlap, the router ports of
             \* routers with a flavor, the ones that are gateways, and whether
             \* the network has what earlier releases left behind

vars == <<present, segment, shared, level, localnet, lsps, work, env>>

Pcs == {"idle", "count", "segment", "port", "trunk", "uplink",
        "check", "fetch", "unsub", "delUplink", "delShared", "commit", "after"}
Idle == [pc |-> "idle", op |-> "none", late |-> FALSE, up |-> NoId, seg |-> NoId]

TypeOK ==
  /\ present \in SUBSET RouterPorts
  /\ segment \in SegIds \cup {NoId}
  /\ shared \in [UplinkIds -> SegIds \cup {NoId}]
  /\ level \in [UplinkIds -> SegIds \cup {NoId}]
  /\ localnet \in SUBSET SegIds /\ lsps \in SUBSET UplinkIds
  /\ work \in [RouterPorts ->
        [pc : Pcs, op : Requests \cup {"none"}, late : BOOLEAN,
         up : UplinkIds \cup {NoId}, seg : SegIds \cup {NoId}]]
  /\ env \in Envs

\* Which of the fresh ids is taken makes no difference.
AnyOf(S) == CHOOSE x \in S : TRUE

\* An earlier release gave a flavored router an uplink, or two that attached at
\* once one each; one deleted the row of a shared port and not its logical
\* switch port.
Legacy ==
  LET u == AnyOf(UplinkIds)
      old == AnyOf(UplinkIds \ {u})
      g == AnyOf(SegIds)
      gone == AnyOf(SegIds \ {g}) IN
  /\ present = env.flavored /\ segment = g
  /\ \E ups \in {{u}, {u, old}} : shared = [v \in UplinkIds |-> IF v \in ups THEN g ELSE NoId]
  /\ level = shared
  /\ localnet = {g, gone} /\ lsps = {u, old}

Init ==
  /\ env \in Envs
  /\ work = [r \in RouterPorts |-> Idle]
  /\ \/ env.legacy /\ Legacy
     \/ /\ ~env.legacy /\ present = {} /\ segment = NoId
        /\ shared = [u \in UplinkIds |-> NoId] /\ level = shared
        /\ localnet = {} /\ lsps = {}

At(r, pc) == work[r].pc = pc
Goto(r, pc) == work' = [work EXCEPT ![r].pc = pc]
Done(r) == work' = [work EXCEPT ![r] = Idle]
Fault(call) == call \in env.faults

Start(r, op, pc) ==
  /\ op \in env.ops /\ At(r, "idle")
  /\ env.serial => \A q \in RouterPorts : At(q, "idle")
  /\ work' = [work EXCEPT ![r] = [Idle EXCEPT !.op = op, !.pc = pc]]

-----------------------------------------------------------------------------
FreshSegments ==
  {g \in SegIds : /\ g # segment /\ g \notin localnet
                  /\ \A u \in UplinkIds : g \notin {shared[u], level[u]}
                  /\ \A r \in RouterPorts : work[r].seg # g}

FreshUplinks ==
  {u \in UplinkIds \ lsps : /\ shared[u] = NoId /\ level[u] = NoId
                           /\ \A r \in RouterPorts : work[r].up # u}

\* Bound: failures may leave ids behind; a port is attached while there are more.
IdsLeft == FreshUplinks # {} /\ (segment # NoId \/ FreshSegments # {})

\* allocate_dynamic_segment: get or create.
GetOrAllocate(g) ==
  /\ g = IF segment = NoId THEN AnyOf(FreshSegments) ELSE segment
  /\ segment' = g

\* add_router_interface and the gateway: Neutron commits the router port, then
\* calls create_port_postcommit.
Attach(r) ==
  /\ r \notin present /\ IdsLeft /\ Start(r, "attach", "count")
  /\ present' = present \cup {r}
  /\ UNCHANGED <<segment, shared, level, localnet, lsps, env>>

\* Faulty variant: the router port itself counts as another.
CountFromOne(r) ==
  /\ At(r, "count")
  /\ IF Cardinality(present) > 0 \/ r \in env.flavored THEN Done(r) ELSE Goto(r, "segment")
  /\ UNCHANGED <<present, segment, shared, level, localnet, lsps, env>>

\* is_only_router_port_on_network and _router_has_flavor.
CountPorts(r) ==
  /\ At(r, "count")
  /\ IF Cardinality(present) > 1 \/ r \in env.flavored THEN Done(r) ELSE Goto(r, "segment")
  /\ UNCHANGED <<present, segment, shared, level, localnet, lsps, env>>

\* An exception in the hook: ML2 deletes the port it had created, which
\* publishes PORT PRECOMMIT_DELETE.
Undo(r) == work' = [work EXCEPT ![r].pc = "check", ![r].op = "delete"]

FetchOrCreateRouterSegment(r) ==
  /\ At(r, "segment")
  /\ \/ \E g \in SegIds : /\ GetOrAllocate(g)
                          /\ work' = [work EXCEPT ![r].seg = g, ![r].pc = "port"]
     \/ Fault("segment") /\ Undo(r) /\ UNCHANGED segment
  /\ UNCHANGED <<present, shared, level, localnet, lsps, env>>

CreateSharedPort(r) ==
  /\ At(r, "port")
  /\ LET u == AnyOf(FreshUplinks) IN
       /\ shared' = [shared EXCEPT ![u] = work[r].seg]
       /\ lsps' = lsps \cup {u}
       /\ work' = [work EXCEPT ![r].up = u, ![r].pc = "trunk"]
  /\ UNCHANGED <<present, segment, level, localnet, env>>

\* add_subport_to_trunk: the trunk driver finds or allocates the segment of the
\* network in its parent's physnet and writes the level.
AddSubportToTrunk(r) ==
  LET u == work[r].up IN
  /\ At(r, "trunk")
  /\ \/ /\ shared[u] # NoId
        /\ \E g \in SegIds : /\ GetOrAllocate(g)
                             /\ level' = [level EXCEPT ![u] = g]
        /\ Goto(r, "uplink")
     \/ (shared[u] = NoId \/ Fault("trunk")) /\ Undo(r) /\ UNCHANGED <<segment, level>>
  /\ UNCHANGED <<present, shared, localnet, lsps, env>>

\* create_uplink_port: fails on a segment that has been released.
CreateUplinkPort(r) ==
  LET g == work[r].seg IN
  /\ At(r, "uplink")
  /\ \/ segment = g /\ localnet' = localnet \cup {g} /\ Done(r)
     \/ (segment # g \/ Fault("ovn")) /\ Undo(r) /\ UNCHANGED localnet
  /\ UNCHANGED <<present, segment, shared, level, lsps, env>>

-----------------------------------------------------------------------------
\* delete_router, per port: handle_router_interface_removal on PORT
\* PRECOMMIT_DELETE, with the port still in the database.
DeleteRouter(r) ==
  /\ r \in present /\ Start(r, "delete", "check")
  /\ UNCHANGED <<present, segment, shared, level, localnet, lsps, env>>

\* remove_router_interface: the same event may or may not be published first;
\* ROUTER_INTERFACE AFTER_DELETE always is.
Detach(r) ==
  /\ r \in present
  /\ Start(r, "detach", "check") \/ Start(r, "detach", "commit")
  /\ UNCHANGED <<present, segment, shared, level, localnet, lsps, env>>

CheckLastPort(r) ==
  /\ At(r, "check")
  /\ IF Cardinality(present) > 1 THEN Goto(r, "commit") ELSE Goto(r, "fetch")
  /\ UNCHANGED <<present, segment, shared, level, localnet, lsps, env>>

CommitDelete(r) ==
  /\ At(r, "commit")
  /\ \/ /\ present' = present \ {r}
        /\ IF work[r].op = "detach" THEN Goto(r, "after") ELSE Done(r)
     \/ Fault("txn") /\ Done(r) /\ UNCHANGED present
  /\ UNCHANGED <<segment, shared, level, localnet, lsps, env>>

\* handle_router_interface_after_delete: no router port remains.
AfterDelete(r) ==
  /\ At(r, "after")
  /\ IF present # {} THEN Done(r)
     ELSE work' = [work EXCEPT ![r].pc = "fetch", ![r].late = TRUE]
  /\ UNCHANGED <<present, segment, shared, level, localnet, lsps, env>>

-----------------------------------------------------------------------------
\* _do_uplink_cleanup.  Inside the transaction its errors abort the delete,
\* after it they are logged.
CleanupEnds(r) == IF work[r].late THEN Done(r) ELSE Goto(r, "commit")

FetchSharedPort(r) ==
  /\ At(r, "fetch")
  /\ \/ \E u \in UplinkIds :
          /\ shared[u] # NoId
          /\ work' = [work EXCEPT ![r].up = u, ![r].seg = shared[u], ![r].pc = "unsub"]
     \/ (\A u \in UplinkIds : shared[u] = NoId) /\ CleanupEnds(r)
  /\ UNCHANGED <<present, segment, shared, level, localnet, lsps, env>>

\* handle_subport_removal: the trunk driver deletes the level and releases a
\* segment no other level uses; an error is only logged.
RemoveSubport(r) ==
  LET u == work[r].up
      unused == \A v \in UplinkIds \ {u} : level[v] # level[u] IN
  /\ At(r, "unsub")
  /\ \/ /\ level' = [level EXCEPT ![u] = NoId]
        /\ segment' = IF level[u] = segment /\ unused THEN NoId ELSE segment
     \/ Fault("unsub") /\ UNCHANGED <<level, segment>>
  /\ Goto(r, "delUplink")
  /\ UNCHANGED <<present, shared, localnet, lsps, env>>

DeleteUplinkPort(r) ==
  /\ At(r, "delUplink")
  /\ \/ localnet' = localnet \ {work[r].seg} /\ Goto(r, "delShared")
     \/ Fault("ovn") /\ Done(r) /\ UNCHANGED localnet
  /\ UNCHANGED <<present, segment, shared, level, lsps, env>>

\* delete_shared_port_lsp, which may fail, then the row of the port, and with it
\* what is left of its subport and level.
DeleteSharedPort(r) ==
  LET u == work[r].up IN
  /\ At(r, "delShared")
  /\ \/ (shared[u] = NoId \/ Fault("ovn")) /\ Done(r) /\ UNCHANGED <<shared, level, lsps>>
     \/ /\ shared[u] # NoId
        /\ shared' = [shared EXCEPT ![u] = NoId]
        /\ level' = [level EXCEPT ![u] = NoId] /\ lsps' = lsps \ {u}
        /\ CleanupEnds(r)
  /\ UNCHANGED <<present, segment, localnet, env>>

Work(r) ==
  \/ CountPorts(r) \/ FetchOrCreateRouterSegment(r) \/ CreateSharedPort(r)
  \/ AddSubportToTrunk(r) \/ CreateUplinkPort(r)
  \/ CheckLastPort(r) \/ CommitDelete(r) \/ AfterDelete(r)
  \/ FetchSharedPort(r) \/ RemoveSubport(r) \/ DeleteUplinkPort(r) \/ DeleteSharedPort(r)

Request(r) == Attach(r) \/ DeleteRouter(r) \/ Detach(r)

Next == \E r \in RouterPorts : Request(r) \/ Work(r)

Spec == Init /\ [][Next]_vars

-----------------------------------------------------------------------------
Quiet == \A r \in RouterPorts : At(r, "idle")
Uplinks == {u \in UplinkIds : shared[u] # NoId}

\* The uplink is complete: one shared port, on the trunk and in OVN, with the
\* segment it is named after.
Connected ==
  /\ Cardinality(Uplinks) = 1
  /\ \A u \in Uplinks : level[u] = segment /\ shared[u] = segment
  /\ localnet = {segment} /\ segment # NoId

\* A network with a router port is connected to the network node, whatever the
\* order of attaches and removals (create_port_postcommit), when requests do not
\* overlap, no call fails and no router has a flavor.
RoutedIsConnected ==
  Quiet /\ env.serial /\ env.faults = {} /\ env.flavored = {} /\ present # {}
    => Connected

\* A network with no router port left keeps no shared port, subport, localnet port
\* or other logical switch port: neither after a removal, nor after an attach
\* that failed half way and was undone (_do_uplink_cleanup), whatever calls fail;
\* only the OVN calls of a detach, which come after its commit, have to succeed.
\* Nor does it keep the VLAN of the network node's leaf, when no call fails.
UnroutedIsDisconnected ==
  /\ Quiet /\ env.serial /\ ~env.legacy /\ present = {}
  /\ ~{"detach", "ovn"} \subseteq env.ops \cup env.faults
  =>
    /\ Uplinks = {} /\ localnet = {} /\ lsps = {} /\ \A u \in UplinkIds : level[u] = NoId
    /\ env.faults = {} => segment = NoId

\* The uplink of a network follows its router ports: it is there, complete, with the
\* first of them and gone, without rest, with the last (routers.py).
UplinkFollowsRouting == RoutedIsConnected /\ UnroutedIsDisconnected
=============================================================================
