---------------------------- MODULE UplinkSweep ----------------------------
(***************************************************************************)
(* The two scripts that remove uplinks nobody needs: what a flavored       *)
(* router got from an earlier release (cleanup_flavored_router_uplinks.py) *)
(* and logical switch ports whose Neutron port is gone                     *)
(* (cleanup_orphaned_ovn_uplinks.py).  Each lists what is there, call by   *)
(* call, decides, and then deletes item by item.  Only --execute changes   *)
(* anything.                                                               *)
(***************************************************************************)
EXTENDS RouterUplink

VARIABLES
  sweep,  \* the script under way: its step, what it has listed and found, and
          \* whether every call has succeeded
  swept   \* the last thing that happened was this script, every call successful

sweepVars == <<sweep, swept>>

Tools == {"flavored", "ovn"}
NoSweep == [pc |-> "idle", tool |-> "none", subs |-> {}, routers |-> {}, todo |-> {},
            now |-> <<>>, ok |-> TRUE]

SweepInit == sweep = NoSweep /\ swept = "none"

\* Router ports whose device_owner is network:router_interface.
Interfaces == present \ env.gateways

Sweeping(pc) == sweep.pc = pc
SweepGoto(pc) == sweep' = [sweep EXCEPT !.pc = pc]
SweepEnds == sweep' = NoSweep /\ swept' = IF sweep.ok THEN sweep.tool ELSE "none"
SweepExits == sweep' = NoSweep /\ UNCHANGED swept
Still == UNCHANGED <<vars, swept>>

StartSweep(tool) ==
  /\ Sweeping("idle") /\ tool \in env.sweeps
  /\ env.serial => Quiet
  /\ sweep' = [NoSweep EXCEPT !.tool = tool, !.pc = IF tool = "ovn" THEN "lsps" ELSE "trunks"]
  /\ swept' = "none" /\ UNCHANGED vars

-----------------------------------------------------------------------------
\* build_subport_trunk_map: a trunk that cannot be read is left out.
BuildSubportTrunkMap ==
  /\ Sweeping("trunks")
  /\ \/ sweep' = [sweep EXCEPT !.pc = "flavored", !.subs = {u \in UplinkIds : level[u] # NoId}]
     \/ Fault("trunk") /\ sweep' = [sweep EXCEPT !.pc = "flavored", !.ok = FALSE]
  /\ Still

\* find_orphaned_uplinks: the interfaces of flavored routers on the network ...
ListFlavored ==
  /\ Sweeping("flavored")
  /\ LET found == Interfaces \cap env.flavored IN
     IF found = {} THEN SweepEnds
     ELSE sweep' = [sweep EXCEPT !.pc = "others", !.routers = found] /\ UNCHANGED swept
  /\ UNCHANGED vars

\* Faulty variant: the uplink is taken for an orphan whoever else is there.
ListNoInterfaces ==
  Sweeping("others") /\ SweepGoto("ports") /\ Still

\* ... then all interfaces: "uplink is legitimate, skipping" with any other.
ListInterfaces ==
  /\ Sweeping("others")
  /\ IF Interfaces \subseteq sweep.routers THEN SweepGoto("ports") /\ UNCHANGED swept
     ELSE SweepEnds
  /\ UNCHANGED vars

\* ... and the ports named uplink-<segment_id>.
ListUplinks ==
  /\ Sweeping("ports")
  /\ sweep' = [sweep EXCEPT !.pc = "verify", !.todo = {<<u, shared[u]>> : u \in Uplinks}]
  /\ Still

\* verify_ovn_matches_openstack: OVN has a switch for the network, or we exit.
VerifyOvn ==
  /\ Sweeping("verify")
  /\ \/ sweep.todo = {} /\ SweepEnds
     \/ sweep.todo # {} /\ SweepGoto("subport") /\ UNCHANGED swept
     \/ sweep.todo # {} /\ Fault("ovn") /\ SweepExits
  /\ UNCHANGED vars

\* execute_cleanup leaves an item at its first error, and goes on with the next.
NextItem(x, pc, fine) ==
  LET left == [sweep EXCEPT !.pc = pc, !.todo = @ \ {x}, !.ok = @ /\ fine] IN
  IF left.todo # {} THEN sweep' = left /\ UNCHANGED swept
  ELSE sweep' = NoSweep /\ swept' = IF left.ok THEN sweep.tool ELSE "none"

\* 1. The subport, if its trunk is known.  The trunk driver releases a segment
\* with its last level.
SweepSubport(x) ==
  LET u == x[1]
      unused == \A v \in UplinkIds \ {u} : level[v] # level[u]
      goOn == sweep' = [sweep EXCEPT !.pc = "port", !.now = x] /\ UNCHANGED swept IN
  /\ Sweeping("subport") /\ x \in sweep.todo
  /\ \/ /\ u \in sweep.subs /\ level[u] # NoId /\ goOn
        /\ level' = [level EXCEPT ![u] = NoId]
        /\ segment' = IF level[u] = segment /\ unused THEN NoId ELSE segment
     \/ u \notin sweep.subs /\ goOn /\ UNCHANGED <<level, segment>>
     \/ /\ u \in sweep.subs /\ (level[u] = NoId \/ Fault("trunk"))
        /\ NextItem(x, "subport", FALSE) /\ UNCHANGED <<level, segment>>
  /\ UNCHANGED <<present, shared, localnet, lsps, work, env>>

\* 2. The Neutron port, and with it its logical switch port: refused for a port
\* that is a subport, and no error for one that is gone.
SweepPort ==
  LET u == sweep.now[1] IN
  /\ Sweeping("port")
  /\ \/ /\ shared[u] = NoId \/ level[u] = NoId
        /\ shared' = [shared EXCEPT ![u] = NoId] /\ lsps' = lsps \ {u}
        /\ SweepGoto("localnet") /\ UNCHANGED swept
     \/ /\ (shared[u] # NoId /\ level[u] # NoId) \/ Fault("txn")
        /\ NextItem(sweep.now, "subport", FALSE) /\ UNCHANGED <<shared, lsps>>
  /\ UNCHANGED <<present, segment, level, localnet, work, env>>

\* 3. The localnet port; a failure is not fatal.
SweepLocalnet ==
  /\ Sweeping("localnet")
  /\ \/ localnet' = localnet \ {sweep.now[2]} /\ NextItem(sweep.now, "subport", TRUE)
     \/ Fault("ovn") /\ UNCHANGED localnet /\ NextItem(sweep.now, "subport", FALSE)
  /\ UNCHANGED <<present, segment, shared, level, lsps, work, env>>

-----------------------------------------------------------------------------
\* Faulty variant: logical switch ports are told by their own names only.
ListLocalnetsOnly ==
  /\ Sweeping("lsps")
  /\ IF localnet = {} THEN SweepEnds
     ELSE sweep' = [sweep EXCEPT !.pc = "check", !.todo = localnet] /\ UNCHANGED swept
  /\ UNCHANGED vars

\* list_ovn_uplink_lsps: both the localnet ports, named uplink-<segment_id>, and
\* the ones of shared ports, which have that as neutron:port_name.  Neutron knows
\* their network, or we exit.
ListOvnUplinkLsps ==
  /\ Sweeping("lsps")
  /\ \/ localnet \cup lsps = {} /\ SweepEnds
     \/ /\ localnet \cup lsps # {} /\ UNCHANGED swept
        /\ sweep' = [sweep EXCEPT !.pc = "check", !.todo = localnet \cup lsps]
     \/ Fault("ovn") /\ SweepExits
  /\ UNCHANGED vars

\* find_orphaned_lsps looks a port up by name for the one, by id for the other.
HasNeutronPort(x) ==
  IF x \in UplinkIds THEN shared[x] # NoId ELSE \E u \in UplinkIds : shared[u] = x

FindOrphanedLsp(x) ==
  LET left == IF HasNeutronPort(x) THEN sweep.todo \ {x} ELSE sweep.todo
      seen == sweep.subs \cup {x} IN
  /\ Sweeping("check") /\ x \in sweep.todo \ sweep.subs
  /\ IF left = {} THEN SweepEnds
     ELSE /\ UNCHANGED swept
          /\ sweep' = [sweep EXCEPT !.todo = left, !.subs = seen,
                                    !.pc = IF left \subseteq seen THEN "delete" ELSE "check"]
  /\ UNCHANGED vars

\* execute_cleanup: lsp-del fails for a name that is gone.
DeleteOrphanedLsp(x) ==
  /\ Sweeping("delete") /\ x \in sweep.todo
  /\ \/ /\ localnet' = localnet \ {x} /\ lsps' = lsps \ {x}
        /\ NextItem(x, "delete", x \in localnet \cup lsps)
     \/ Fault("ovn") /\ UNCHANGED <<localnet, lsps>> /\ NextItem(x, "delete", FALSE)
  /\ UNCHANGED <<present, segment, shared, level, work, env>>

SweepStep ==
  \/ \E tool \in Tools : StartSweep(tool)
  \/ BuildSubportTrunkMap \/ ListFlavored \/ ListInterfaces \/ ListUplinks \/ VerifyOvn
  \/ \E x \in sweep.todo : SweepSubport(x)
  \/ SweepPort \/ SweepLocalnet
  \/ ListOvnUplinkLsps
  \/ \E x \in sweep.todo : FindOrphanedLsp(x) \/ DeleteOrphanedLsp(x)

UplinkInit == Init /\ SweepInit

UplinkNext ==
  \/ \E r \in RouterPorts :
       /\ Request(r) /\ (env.serial => Sweeping("idle"))
       /\ UNCHANGED sweep /\ swept' = "none"
  \/ \E r \in RouterPorts : Work(r) /\ UNCHANGED sweepVars
  \/ SweepStep

uplinkVars == <<vars, sweepVars>>
UplinkSpec == UplinkInit /\ [][UplinkNext]_uplinkVars

-----------------------------------------------------------------------------
\* Traffic of the network can reach the network node.
Linked ==
  /\ segment # NoId /\ segment \in localnet
  /\ \E u \in lsps : shared[u] = segment /\ level[u] = segment

\* Once it works, an uplink is only taken away by the removal of the last router
\* port (_do_uplink_cleanup), or by a script when no router without a flavor has
\* an interface on the network: "In situation 2, we don't have to do anything"
\* (create_port_postcommit), "uplink is legitimate, skipping"
\* (find_orphaned_uplinks).
UplinkIsKept ==
  [][env.serial /\ Linked /\ ~Linked' =>
       \/ \E r \in RouterPorts : ~At(r, "idle") /\ present \subseteq {r}
       \/ ~Sweeping("idle") /\ Interfaces \subseteq env.flavored]_uplinkVars

\* A script that has had no error leaves nothing of what it looks for: no uplink
\* where all interfaces are flavored routers', no logical switch port without
\* its Neutron port (execute_cleanup of the two).
SweepLeavesNone ==
  env.serial =>
    /\ swept = "flavored" /\ {} # Interfaces /\ Interfaces \subseteq env.flavored =>
         Uplinks = {} /\ \A u \in UplinkIds : level[u] = NoId
    /\ swept = "ovn" =>
         lsps \subseteq Uplinks /\ localnet \subseteq {shared[u] : u \in Uplinks}
=============================================================================
