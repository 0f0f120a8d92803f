----------------------------- MODULE HaChassis -----------------------------
(***************************************************************************)
(* The HA chassis groups that tell OVN which host owns the external ports  *)
(* of a network: link_vxlan_network_ha_chassis_group (routers.py) fills    *)
(* the group of a network when a router is attached to it, and the script  *)
(* cleanup_dead_ovn_ha_chassis.py repairs what hosts that were replaced    *)
(* and networks that were deleted half way leave behind, in three phases.  *)
(* A row of HA_Chassis is told by its group and its chassis.               *)
(***************************************************************************)
EXTENDS Naturals, FiniteSets

CONSTANTS
  Networks, Routers, Chassis,
  Nobody,   \* no router, no chassis
  Confs     \* what the environment may do: see conf

ASSUME HaAssumption ==
  /\ Nobody \notin Routers \cup Chassis /\ Networks \cap Routers = {}
  /\ \A c \in Confs : /\ c.events \in Nat /\ c.hosts \subseteq Chassis
                      /\ {c.script, c.repopulate, c.orphans, c.force, c.alone} \subseteq BOOLEAN

VARIABLES
  live,      \* chassis in the Southbound DB
  nets,      \* Neutron's networks: "absent", "live" or "gone"
  switches,  \* networks with a logical switch in the Northbound DB
  groups,    \* neutron-<id> HA chassis groups: ids of networks and routers
  members,   \* the chassis of their HA_Chassis rows
  owner,     \* neutron:router_id of a network's group
  central,   \* options:chassis of a router
  lspRefs,   \* for a network's group: networks with a switch port that refers to it
  lrpRefs,   \* for a network's group: routers with a router port that refers to it
  link,      \* the handler of a router's last interface
  fix,       \* the run of the script
  events,    \* what has happened to hosts, networks and routers so far
  conf       \* fixed for a behaviour: the hosts at the start, the number of those
             \* events, the calls that may fail, whether the script is run, its
             \* options and whether it runs undisturbed

ovnVars == <<switches, groups, members, owner, lspRefs, lrpRefs>>
haVars == <<live, nets, central, link, fix, events, conf, ovnVars>>

NoLink == [pc |-> "idle", net |-> Nobody, to |-> Nobody]
NoFix == [pc |-> "idle", live |-> {}, rows |-> <<>>, groups |-> {}, members |-> <<>>, owner |-> <<>>,
          switches |-> {}, todo |-> {}, plan |-> {}, refs |-> <<>>, done |-> {}]

HaInit ==
  /\ conf \in Confs /\ events = 0
  /\ live = conf.hosts
  /\ nets = [n \in Networks |-> "absent"] /\ switches = {} /\ groups = {}
  /\ members = [g \in Networks \cup Routers |-> {}]
  /\ owner = [n \in Networks |-> Nobody] /\ central = [r \in Routers |-> Nobody]
  /\ lspRefs = [n \in Networks |-> {}] /\ lrpRefs = [n \in Networks |-> {}]
  /\ link = [r \in Routers |-> NoLink] /\ fix = NoFix

HaFault(call) == call \in conf.faults
Fixing(pc) == fix.pc = pc
Disturbs == (conf.alone => Fixing("idle")) /\ fix' = [fix EXCEPT !.done = {}]
Event == events < conf.events /\ events' = events + 1 /\ Disturbs /\ UNCHANGED conf

-----------------------------------------------------------------------------
\* Hosts come and go; Neutron makes its networks and routers.
HostJoins(c) ==
  /\ Event /\ c \notin live /\ live' = live \cup {c}
  /\ UNCHANGED <<nets, central, link, ovnVars>>

HostLeaves(c) ==
  /\ Event /\ c \in live /\ live' = live \ {c}
  /\ UNCHANGED <<nets, central, link, ovnVars>>

\* A network's row is committed first, its switch made after.
CreateNetwork(n) ==
  /\ Event /\ nets[n] = "absent" /\ nets' = [nets EXCEPT ![n] = "live"]
  /\ UNCHANGED <<live, central, link, ovnVars>>

CreateSwitch(n) ==
  /\ nets[n] = "live" /\ n \notin switches /\ switches' = switches \cup {n} /\ Disturbs
  /\ UNCHANGED <<live, nets, central, link, groups, members, owner, lspRefs, lrpRefs, events, conf>>

\* What goes with a network's switch and group in OVN.
Drop(n) ==
  /\ switches' = switches \ {n} /\ groups' = groups \ {n}
  /\ members' = [members EXCEPT ![n] = {}] /\ owner' = [owner EXCEPT ![n] = Nobody]
  /\ lspRefs' = [m \in Networks |-> IF m = n THEN {} ELSE lspRefs[m] \ {n}]
  /\ lrpRefs' = [lrpRefs EXCEPT ![n] = {}]

\* A network goes from the database, and then from OVN, or OVN keeps it all.
DeleteNetwork(n) ==
  /\ Event /\ nets[n] = "live" /\ n \in switches
  /\ nets' = [nets EXCEPT ![n] = "gone"]
  /\ UNCHANGED ovnVars \/ (lspRefs[n] \subseteq {n} /\ Drop(n))
  /\ UNCHANGED <<live, central, link>>

\* A vxlan gateway: the router is pinned to a live chassis, and gets a group.
AttachGateway(r, c) ==
  /\ Event /\ c \in live /\ central[r] = Nobody /\ r \notin groups
  /\ \E pinned \in {c, Nobody} : central' = [central EXCEPT ![r] = pinned]
  /\ groups' = groups \cup {r} /\ members' = [members EXCEPT ![r] = {c}]
  /\ UNCHANGED <<live, nets, link, switches, owner, lspRefs, lrpRefs>>

\* "nothing recreates it if it's later deleted"
LoseRouterGroup(r) ==
  /\ Event /\ r \in groups
  /\ groups' = groups \ {r} /\ members' = [members EXCEPT ![r] = {}]
  /\ UNCHANGED <<live, nets, central, link, switches, owner, lspRefs, lrpRefs>>

\* An external port of one network refers to the group of a network: its own, or
\* by an earlier release another's.
ExternalPort(n, of) ==
  /\ Event /\ n \in switches /\ of \in groups
  /\ lspRefs' = [lspRefs EXCEPT ![of] = @ \cup {n}]
  /\ UNCHANGED <<live, nets, central, link, switches, groups, members, owner, lrpRefs>>

\* A router interface: Neutron's own handler makes the network's group, with the
\* members of the router port's gateway_chassis, which vxlan never has.
AttachInterface(r, n) ==
  /\ Event /\ nets[n] = "live" /\ n \in switches /\ link[r] = NoLink
  /\ groups' = groups \cup {n} /\ owner' = [owner EXCEPT ![n] = r]
  /\ \E kept \in {members[n], {}} : members' = [members EXCEPT ![n] = kept]
  /\ link' = [link EXCEPT ![r] = [pc |-> "read", net |-> n, to |-> Nobody]]
  /\ UNCHANGED <<live, nets, central, switches, lspRefs, lrpRefs>>

-----------------------------------------------------------------------------
\* The live chassis that the HA_Chassis rows name.
GatewayChassis == UNION {members[g] : g \in groups} \cap live

\* link_vxlan_network_ha_chassis_group: nothing to do for a group that has any
\* row, nor unless the rows name exactly one live chassis.
LinkRead(r) ==
  LET n == link[r].net IN
  /\ link[r].pc = "read"
  /\ \/ /\ members[n] = {}
        /\ \E c \in Chassis : /\ GatewayChassis = {c}
                              /\ link' = [link EXCEPT ![r].pc = "write", ![r].to = c]
     \/ /\ members[n] # {} \/ Cardinality(GatewayChassis) # 1 \/ HaFault("ovn")
        /\ link' = [link EXCEPT ![r] = NoLink]
  /\ UNCHANGED <<live, nets, central, fix, events, conf, ovnVars>>

\* One transaction fills the network's group, and anchors the port of a router
\* that is not centralized; an error is logged.
LinkWrite(r) ==
  LET n == link[r].net IN
  /\ link[r].pc = "write"
  /\ \/ /\ groups' = groups \cup {n} /\ owner' = [owner EXCEPT ![n] = r]
        /\ members' = [members EXCEPT ![n] = {link[r].to}]
        /\ lrpRefs' = IF central[r] = Nobody THEN [lrpRefs EXCEPT ![n] = @ \cup {r}] ELSE lrpRefs
     \/ HaFault("ovn") /\ UNCHANGED <<groups, members, owner, lrpRefs>>
  /\ link' = [link EXCEPT ![r] = NoLink]
  /\ fix' = [fix EXCEPT !.done = {}]
  /\ UNCHANGED <<live, nets, central, events, conf, switches, lspRefs>>

-----------------------------------------------------------------------------
\* The script.  A call that fails ends it; every phase asks before it writes.
FixGoto(pc) == fix' = [fix EXCEPT !.pc = pc]
FixEnds(done) == fix' = [NoFix EXCEPT !.done = done]
FixOnly == UNCHANGED <<live, nets, central, link, events, conf, ovnVars>>

AfterPhase2(done) ==
  IF conf.orphans THEN fix' = [fix EXCEPT !.pc = "refs", !.done = done] ELSE FixEnds(done)

AfterPhase1(done) ==
  IF conf.repopulate THEN fix' = [fix EXCEPT !.pc = "routers", !.done = done]
  ELSE AfterPhase2(done)

GetLiveChassisNames ==
  /\ Fixing("idle") /\ conf.script
  /\ conf.alone => \A r \in Routers : link[r] = NoLink
  /\ \/ fix' = [NoFix EXCEPT !.pc = "rows", !.live = live]
     \/ HaFault("ovn") /\ UNCHANGED fix
  /\ FixOnly

GetAllHaChassis ==
  /\ Fixing("rows")
  /\ \/ fix' = [fix EXCEPT !.pc = "groups", !.rows = members]
     \/ HaFault("ovn") /\ FixEnds({})
  /\ FixOnly

GetAllHaChassisGroups ==
  /\ Fixing("groups")
  /\ \/ fix' = [fix EXCEPT !.pc = "stale", !.groups = groups, !.members = members, !.owner = owner]
     \/ HaFault("ovn") /\ FixEnds({})
  /\ FixOnly

\* find_stale_ha_chassis and map_groups_to_stale_members: a member whose row was
\* made after the rows were read is unknown, and not stale.
Stale(g) == (fix.members[g] \cap fix.rows[g]) \ fix.live

\* Phase 1, one transaction: it fails when a group is gone.
ExecuteCleanup ==
  LET hit == {g \in fix.groups : Stale(g) # {}} IN
  /\ Fixing("stale")
  /\ \/ /\ hit \subseteq groups /\ AfterPhase1({"stale"})
        /\ members' = [g \in DOMAIN members |-> IF g \in hit THEN members[g] \ Stale(g) ELSE members[g]]
     \/ hit # {} /\ AfterPhase1({}) /\ UNCHANGED members
     \/ ~(hit \subseteq groups) /\ FixEnds({}) /\ UNCHANGED members
     \/ HaFault("ovn") /\ FixEnds({}) /\ UNCHANGED members
  /\ UNCHANGED <<live, nets, central, link, events, conf, switches, groups, owner, lspRefs, lrpRefs>>

\* Faulty variant: a group that phase 1 has emptied counts as filled.
EmptyBefore(n) == n \in fix.groups /\ fix.members[n] = {}

\* Members that phase 1 removes do not count.
Empty(n) == n \in fix.groups /\ fix.members[n] \ Stale(n) = {}

\* plan_repopulation: the chassis the router is pinned to, if it is live; for a
\* router that is not pinned, the one live chassis of its own group.
Target(n, c) ==
  LET r == fix.owner[n] IN
  /\ r # Nobody
  /\ IF central[r] # Nobody THEN c = central[r] /\ c \in fix.live
     ELSE r \in fix.groups /\ fix.members[r] \cap fix.rows[r] \cap fix.live = {c}

PlanRepopulation ==
  /\ Fixing("routers")
  /\ \/ fix' = [fix EXCEPT !.pc = "empty", !.plan = {x \in Networks \X Chassis : Empty(x[1]) /\ Target(x[1], x[2])}]
     \/ HaFault("ovn") /\ FixEnds({})
  /\ FixOnly

\* Phase 2, one transaction.
ExecuteRepopulation ==
  LET hit == {x[1] : x \in fix.plan} IN
  /\ Fixing("empty")
  /\ \/ /\ hit \subseteq groups /\ AfterPhase2(fix.done \cup {"empty"})
        /\ members' = [g \in DOMAIN members |->
                         members[g] \cup {c \in Chassis : <<g, c>> \in fix.plan}]
     \/ hit # {} /\ AfterPhase2(fix.done) /\ UNCHANGED members
     \/ ~(hit \subseteq groups) /\ FixEnds({}) /\ UNCHANGED members
     \/ HaFault("ovn") /\ FixEnds({}) /\ UNCHANGED members
  /\ UNCHANGED <<live, nets, central, link, events, conf, switches, groups, owner, lspRefs, lrpRefs>>

\* Phase 3 reads the switches and the references to groups, here at once ...
GetAllLogicalSwitches ==
  /\ Fixing("refs")
  /\ \/ fix' = [fix EXCEPT !.pc = "list", !.switches = switches, !.plan = {},
                           !.refs = [lsp |-> lspRefs, lrp |-> lrpRefs]]
     \/ HaFault("ovn") /\ FixEnds({})
  /\ FixOnly

\* ORPHAN_SAFETY_FRACTION
TooMany(gone) == 2 * Cardinality(gone) > Cardinality(fix.switches) /\ ~conf.force

\* ... then asks Neutron for its networks.  The list may be short; an empty one,
\* or more than half of the switches without a network, ends the run.
GetLiveNeutronNetworkIds ==
  /\ Fixing("list")
  /\ \E known \in SUBSET {n \in Networks : nets[n] = "live"} :
       LET gone == fix.switches \ known IN
       /\ HaFault("list") \/ known = {n \in Networks : nets[n] = "live"}
       /\ IF known = {} \/ TooMany(gone)
          THEN FixEnds({})
          ELSE IF gone = {} THEN FixEnds(fix.done \cup {"orphans"})
          ELSE fix' = [fix EXCEPT !.pc = "show", !.todo = gone, !.done = @ \cup {"orphans"}]
  /\ FixOnly

\* Faulty variant: what is not in the list is gone.
GoneUnconfirmed(n) == TRUE

\* neutron_network_exists, asked for each of them.
Gone(n) == nets[n] # "live"

\* plan_orphan_cleanup: confirmed gone, and its group used by no other switch.
PlanOrphanCleanup(n) ==
  LET own == n \in fix.groups => fix.refs.lsp[n] \subseteq {n}
      next(plan, done) ==
        IF fix.todo # {n} THEN fix' = [fix EXCEPT !.todo = @ \ {n}, !.plan = plan, !.done = done]
        ELSE IF plan = {} THEN FixEnds(done)
        ELSE fix' = [fix EXCEPT !.pc = "confirm", !.todo = {}, !.plan = plan, !.done = done] IN
  /\ Fixing("show") /\ n \in fix.todo
  /\ \/ Gone(n) /\ own /\ next(fix.plan \cup {n}, fix.done)
     \/ ~(Gone(n) /\ own) /\ next(fix.plan, fix.done)
     \/ HaFault("list") /\ next(fix.plan, fix.done \ {"orphans"})
  /\ FixOnly

ConfirmOrphanCleanup ==
  /\ Fixing("confirm")
  /\ FixGoto("delete") \/ FixEnds(fix.done \ {"orphans"})
  /\ FixOnly

\* Phase 3, one transaction per network: the references that were seen are
\* cleared, the switch goes with its ports, then the group that was seen, unless
\* something refers to it still.
ExecuteOrphanCleanup(n) ==
  LET held == /\ n \in fix.groups
              /\ \/ ~(lspRefs[n] \subseteq fix.refs.lsp[n] \cup {n})
                 \/ ~(lrpRefs[n] \subseteq fix.refs.lrp[n])
      next(done) == IF fix.plan = {n} THEN FixEnds(done)
                    ELSE fix' = [fix EXCEPT !.plan = @ \ {n}, !.done = done] IN
  /\ Fixing("delete") /\ n \in fix.plan
  /\ \/ ~held /\ n \in fix.groups /\ Drop(n) /\ next(fix.done)
     \/ /\ n \notin fix.groups /\ switches' = switches \ {n} /\ next(fix.done)
        /\ lspRefs' = [m \in Networks |-> lspRefs[m] \ {n}]
        /\ UNCHANGED <<groups, members, owner, lrpRefs>>
     \/ (held \/ HaFault("ovn")) /\ next(fix.done \ {"orphans"}) /\ UNCHANGED ovnVars
  /\ UNCHANGED <<live, nets, central, link, events, conf>>

HaNext ==
  \/ \E c \in Chassis : HostJoins(c) \/ HostLeaves(c)
  \/ \E n \in Networks : CreateNetwork(n) \/ CreateSwitch(n) \/ DeleteNetwork(n)
  \/ \E r \in Routers, c \in Chassis : AttachGateway(r, c)
  \/ \E r \in Routers : LoseRouterGroup(r)
  \/ \E n, of \in Networks : ExternalPort(n, of)
  \/ \E r \in Routers, n \in Networks : AttachInterface(r, n)
  \/ \E r \in Routers : LinkRead(r) \/ LinkWrite(r)
  \/ GetLiveChassisNames \/ GetAllHaChassis \/ GetAllHaChassisGroups \/ ExecuteCleanup
  \/ PlanRepopulation \/ ExecuteRepopulation
  \/ GetAllLogicalSwitches \/ GetLiveNeutronNetworkIds
  \/ \E n \in Networks : PlanOrphanCleanup(n) \/ ExecuteOrphanCleanup(n)
  \/ ConfirmOrphanCleanup

HaSpec == HaInit /\ [][HaNext]_haVars

-----------------------------------------------------------------------------
\* Whatever Neutron, the handler and the hosts do meanwhile, and however short
\* the list of networks is, the script takes no switch or group from a network
\* that Neutron has: "a switch is only removed when its backing network is
\* genuinely gone from neutron" (plan_orphan_cleanup).
LiveNetworkKept ==
  [][\A n \in Networks : nets'[n] = "live" =>
       (n \in switches => n \in switches') /\ (n \in groups => n \in groups')]_haVars

\* A router is pinned to a live chassis, or has one in its own group.
Located(r) ==
  \/ central[r] \in live
  \/ central[r] = Nobody /\ r \in groups /\ Cardinality(members[r] \cap live) = 1

\* A phase that the script has carried out, undisturbed, has done its work: no
\* group has a chassis that is gone; the group of a network whose router has a
\* live chassis has one, too; and of the networks that Neutron has
\* deleted OVN keeps none but those whose group another network uses.
RepairRestores ==
  conf.alone /\ Fixing("idle") =>
    /\ "stale" \in fix.done => \A g \in groups : members[g] \subseteq live
    /\ "empty" \in fix.done =>
         \A n \in groups \cap Networks :
           owner[n] # Nobody /\ Located(owner[n]) => members[n] \cap live # {}
    /\ "orphans" \in fix.done =>
         \A n \in switches : nets[n] = "live" \/ \E m \in switches \ {n} : m \in lspRefs[n]
=============================================================================
