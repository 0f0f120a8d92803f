-------------------------- MODULE HaChassisProofs --------------------------
(***************************************************************************)
(* The repair script takes nothing from a network that Neutron has, proved *)
(* for any number of networks, routers and chassis, any options of the     *)
(* script, any fault and any interleaving with the hosts, with Neutron and *)
(* with the handler.                                                       *)
(***************************************************************************)
EXTENDS HaChassis, TLAPS

FixRecord == [pc |-> fix.pc, live |-> fix.live, rows |-> fix.rows, groups |-> fix.groups, members |-> fix.members,
              owner |-> fix.owner, switches |-> fix.switches,
              todo |-> fix.todo, plan |-> fix.plan, refs |-> fix.refs, done |-> fix.done]

Existed == {n \in Networks : nets[n] # "absent"}
Deleted == {n \in Networks : nets[n] = "gone"}

\* What phase 3 holds: a switch it has read is one of a network that existed, so
\* that a network which Neutron does not show is one it has deleted, and whose
\* id never comes back; what it plans to delete has been looked up like this.
\* The plan of phase 2 is another one.
Looked ==
  /\ fix = FixRecord
  /\ switches \subseteq Existed
  /\ fix.pc \in {"list", "show"} => fix.switches \subseteq Existed
  /\ fix.pc = "list" => fix.plan = {}
  /\ fix.pc = "show" => fix.todo \subseteq fix.switches
  /\ fix.pc \in {"show", "confirm", "delete"} => fix.plan \subseteq Deleted

HaIInv == nets \in [Networks -> {"absent", "live", "gone"}] /\ Looked

LEMMA HaInitially == HaInit => HaIInv
  BY DEF HaInit, HaIInv, Looked, FixRecord, NoFix, Existed, Deleted

\* No step takes a network back from "gone", or to "absent".
LEMMA NetsOnlyAdvance ==
  ASSUME HaIInv, HaNext
  PROVE  /\ nets' \in [Networks -> {"absent", "live", "gone"}]
         /\ Existed \subseteq Existed' /\ Deleted \subseteq Deleted'
<1>1. nets' = nets \/ \E n \in Networks : CreateNetwork(n) \/ DeleteNetwork(n)
  BY DEF HaNext, HostJoins, HostLeaves, CreateSwitch, AttachGateway, LoseRouterGroup,
         ExternalPort, AttachInterface, LinkRead, LinkWrite, GetLiveChassisNames,
         GetAllHaChassis, GetAllHaChassisGroups, ExecuteCleanup, PlanRepopulation, ExecuteRepopulation,
         GetAllLogicalSwitches, GetLiveNeutronNetworkIds, PlanOrphanCleanup,
         ExecuteOrphanCleanup, ConfirmOrphanCleanup, FixOnly
<1>2. CASE nets' = nets
  BY <1>2 DEF HaIInv, Existed, Deleted
<1>3. CASE \E n \in Networks : CreateNetwork(n) \/ DeleteNetwork(n)
  BY <1>3 DEF HaIInv, Existed, Deleted, CreateNetwork, DeleteNetwork
<1> QED BY <1>1, <1>2, <1>3

\* Hosts, Neutron and the handler leave the script's plan alone.
LEMMA OthersKeepLooked ==
  ASSUME HaIInv, HaNext, fix' = fix \/ fix' = [fix EXCEPT !.done = {}],
         switches' \subseteq switches \cup {n \in Networks : nets[n] = "live"}
  PROVE  Looked'
<1>1. /\ fix' = FixRecord' /\ fix'.pc = fix.pc /\ fix'.plan = fix.plan
      /\ fix'.todo = fix.todo /\ fix'.switches = fix.switches
  BY DEF HaIInv, Looked, FixRecord
<1>2. Existed \subseteq Existed' /\ Deleted \subseteq Deleted'
  BY NetsOnlyAdvance
<1>3. switches' \subseteq Existed'
  BY <1>2 DEF HaIInv, Looked, Existed
<1> QED BY <1>1, <1>2, <1>3 DEF HaIInv, Looked

\* A run of the script that ends holds nothing.
LEMMA EndedLooksAtNothing ==
  ASSUME HaIInv, HaNext, NEW done, FixEnds(done), switches' \subseteq switches
  PROVE  Looked'
<1>1. fix' = FixRecord' /\ fix'.pc = "idle"
  BY DEF FixEnds, NoFix, FixRecord
<1>2. switches' \subseteq Existed'
  BY NetsOnlyAdvance DEF HaIInv, Looked
<1> QED BY <1>1, <1>2 DEF Looked

\* The phases before the third leave its fields alone.
LEMMA EarlierPhases ==
  ASSUME HaIInv, HaNext, switches' = switches, fix' = FixRecord',
         fix'.pc \in {"rows", "groups", "stale", "routers", "empty", "refs"}
  PROVE  Looked'
<1>1. switches' \subseteq Existed'
  BY NetsOnlyAdvance DEF HaIInv, Looked
<1> QED BY <1>1 DEF Looked

LEMMA HaStep == HaIInv /\ HaNext => Looked'
<1> SUFFICES ASSUME HaIInv, HaNext PROVE Looked'
  OBVIOUS
<1>0. /\ nets \in [Networks -> {"absent", "live", "gone"}]
      /\ Existed \subseteq Existed' /\ Deleted \subseteq Deleted'
      /\ switches \subseteq Existed'
  BY NetsOnlyAdvance DEF HaIInv, Looked
<1>1. CASE \/ \E c \in Chassis : HostJoins(c) \/ HostLeaves(c)
           \/ \E n \in Networks : CreateNetwork(n) \/ CreateSwitch(n) \/ DeleteNetwork(n)
           \/ \E r \in Routers, c \in Chassis : AttachGateway(r, c)
           \/ \E r \in Routers : LoseRouterGroup(r)
           \/ \E n, of \in Networks : ExternalPort(n, of)
           \/ \E r \in Routers, n \in Networks : AttachInterface(r, n)
           \/ \E r \in Routers : LinkRead(r) \/ LinkWrite(r)
  <2>1. fix' = fix \/ fix' = [fix EXCEPT !.done = {}]
    BY <1>1 DEF HostJoins, HostLeaves, CreateNetwork, CreateSwitch, DeleteNetwork, AttachGateway,
                LoseRouterGroup, ExternalPort, AttachInterface, LinkRead, LinkWrite, Event, Disturbs
  <2>2. switches' \subseteq switches \cup {n \in Networks : nets[n] = "live"}
    BY <1>1 DEF HostJoins, HostLeaves, CreateNetwork, CreateSwitch, DeleteNetwork, AttachGateway,
                LoseRouterGroup, ExternalPort, AttachInterface, LinkRead, LinkWrite, Drop, ovnVars
  <2> QED BY <2>1, <2>2, OthersKeepLooked
<1>2. CASE GetLiveChassisNames \/ GetAllHaChassis \/ GetAllHaChassisGroups \/ PlanRepopulation
  <2>1. switches' = switches
    BY <1>2 DEF GetLiveChassisNames, GetAllHaChassis, GetAllHaChassisGroups, PlanRepopulation, FixOnly, ovnVars
  <2>2. CASE fix' = fix
    BY <2>1, <2>2, OthersKeepLooked
  <2>3. CASE FixEnds({})
    BY <2>1, <2>3, EndedLooksAtNothing
  <2>4. CASE fix' = FixRecord' /\ fix'.pc \in {"rows", "groups", "stale", "empty"}
    BY <2>1, <2>4, EarlierPhases
  <2>5. \/ fix' = fix \/ FixEnds({})
        \/ fix' = [NoFix EXCEPT !.pc = "rows", !.live = live]
        \/ fix' = [fix EXCEPT !.pc = "groups", !.rows = members]
        \/ fix' = [fix EXCEPT !.pc = "stale", !.groups = groups, !.members = members, !.owner = owner]
        \/ \E plan : fix' = [fix EXCEPT !.pc = "empty", !.plan = plan]
    BY <1>2 DEF GetLiveChassisNames, GetAllHaChassis, GetAllHaChassisGroups, PlanRepopulation
  <2>6. fix = FixRecord
    BY DEF HaIInv, Looked
  <2>7. fix' = fix \/ FixEnds({}) \/ (fix' = FixRecord' /\ fix'.pc \in {"rows", "groups", "stale", "empty"})
    BY <2>5, <2>6 DEF FixRecord, NoFix
  <2> QED BY <2>2, <2>3, <2>4, <2>7
<1>3. CASE ExecuteCleanup \/ ExecuteRepopulation
  <2>1. switches' = switches
    BY <1>3 DEF ExecuteCleanup, ExecuteRepopulation
  <2>2. \E done : FixEnds(done) \/ \E pc \in {"routers", "refs"} : fix' = [fix EXCEPT !.pc = pc, !.done = done]
    BY <1>3 DEF ExecuteCleanup, ExecuteRepopulation, AfterPhase1, AfterPhase2
  <2>3. CASE \E done : FixEnds(done)
    BY <2>1, <2>3, EndedLooksAtNothing
  <2>4. CASE \E done : \E pc \in {"routers", "refs"} : fix' = [fix EXCEPT !.pc = pc, !.done = done]
    <3>1. fix' = FixRecord' /\ fix'.pc \in {"routers", "refs"}
      BY <2>4 DEF HaIInv, Looked, FixRecord
    <3> QED BY <2>1, <3>1, EarlierPhases
  <2> QED BY <2>2, <2>3, <2>4
<1>4. CASE GetAllLogicalSwitches
  <2>1. switches' = switches
    BY <1>4 DEF GetAllLogicalSwitches, FixOnly, ovnVars
  <2>2. CASE FixEnds({})
    BY <2>1, <2>2, EndedLooksAtNothing
  <2>3. CASE fix' = [fix EXCEPT !.pc = "list", !.switches = switches, !.plan = {},
                                !.refs = [lsp |-> lspRefs, lrp |-> lrpRefs]]
    <3>1. fix' = FixRecord' /\ fix'.pc = "list" /\ fix'.switches = switches /\ fix'.plan = {}
      BY <2>3 DEF HaIInv, Looked, FixRecord
    <3> QED BY <1>0, <2>1, <3>1 DEF Looked
  <2> QED BY <1>4, <2>2, <2>3 DEF GetAllLogicalSwitches
<1>5. CASE GetLiveNeutronNetworkIds
  <2>1. switches' = switches /\ fix.pc = "list"
    BY <1>5 DEF GetLiveNeutronNetworkIds, FixOnly, ovnVars, Fixing
  <2>2. CASE \E done : FixEnds(done)
    BY <2>1, <2>2, EndedLooksAtNothing
  <2>3. CASE \E gone \in SUBSET fix.switches :
               fix' = [fix EXCEPT !.pc = "show", !.todo = gone, !.done = @ \cup {"orphans"}]
    <3>1. /\ fix' = FixRecord' /\ fix'.pc = "show" /\ fix'.switches = fix.switches
          /\ fix'.plan = fix.plan /\ fix'.todo \subseteq fix.switches
      BY <2>3 DEF HaIInv, Looked, FixRecord
    <3> QED BY <1>0, <2>1, <3>1 DEF HaIInv, Looked
  <2> QED BY <1>5, <2>2, <2>3 DEF GetLiveNeutronNetworkIds
<1>6. ASSUME NEW n \in Networks, PlanOrphanCleanup(n) PROVE Looked'
  <2>1. /\ switches' = switches /\ nets' = nets /\ fix.pc = "show" /\ n \in fix.todo
    BY <1>6 DEF PlanOrphanCleanup, FixOnly, ovnVars, Fixing
  <2>2. nets[n] # "absent"
    BY <2>1 DEF HaIInv, Looked, Existed
  <2>3. CASE \E done : FixEnds(done)
    BY <2>1, <2>3, EndedLooksAtNothing
  <2>4. CASE /\ fix' = FixRecord' /\ fix'.pc \in {"show", "confirm"} /\ fix'.switches = fix.switches
             /\ fix'.plan = fix.plan \/ (Gone(n) /\ fix'.plan = fix.plan \cup {n})
             /\ fix'.todo \subseteq fix.todo
    <3>1. Gone(n) => n \in Deleted
      BY <1>0, <2>2 DEF Gone, Deleted
    <3> QED BY <1>0, <2>1, <2>4, <3>1 DEF HaIInv, Looked
  <2>5. fix = FixRecord
    BY DEF HaIInv, Looked
  <2>6. ASSUME NEW plan, NEW done, plan = fix.plan \/ (Gone(n) /\ plan = fix.plan \cup {n}),
               \/ fix' = [fix EXCEPT !.todo = @ \ {n}, !.plan = plan, !.done = done]
               \/ fix' = [fix EXCEPT !.pc = "confirm", !.todo = {}, !.plan = plan, !.done = done]
        PROVE  Looked'
    <3>1. /\ fix' = FixRecord' /\ fix'.pc \in {"show", "confirm"} /\ fix'.switches = fix.switches
          /\ fix'.plan = plan /\ fix'.todo \subseteq fix.todo
      BY <2>1, <2>5, <2>6 DEF FixRecord
    <3> QED BY <2>4, <2>6, <3>1
  <2>7. \/ \E done : FixEnds(done)
        \/ \E plan, done :
             /\ plan = fix.plan \/ (Gone(n) /\ plan = fix.plan \cup {n})
             /\ \/ fix' = [fix EXCEPT !.todo = @ \ {n}, !.plan = plan, !.done = done]
                \/ fix' = [fix EXCEPT !.pc = "confirm", !.todo = {}, !.plan = plan, !.done = done]
    BY <1>6 DEF PlanOrphanCleanup
  <2> QED BY <2>3, <2>6, <2>7
<1>7. ASSUME NEW n \in Networks, ExecuteOrphanCleanup(n) PROVE Looked'
  <2>1. switches' \subseteq switches /\ fix.pc = "delete"
    BY <1>7 DEF ExecuteOrphanCleanup, Drop, ovnVars, Fixing
  <2>2. CASE \E done : FixEnds(done)
    BY <2>1, <2>2, EndedLooksAtNothing
  <2>3. CASE \E done : fix' = [fix EXCEPT !.plan = @ \ {n}, !.done = done]
    <3>1. PICK done : fix' = [fix EXCEPT !.plan = @ \ {n}, !.done = done]
      BY <2>3
    <3>2. fix = FixRecord
      BY DEF HaIInv, Looked
    <3>3. fix'.pc = "delete" /\ fix'.plan \subseteq fix.plan
      BY <2>1, <3>1, <3>2 DEF FixRecord
    <3>4. fix' = FixRecord'
      BY <3>1, <3>2, ZenonT(40) DEF FixRecord
    <3> QED BY <1>0, <2>1, <3>3, <3>4 DEF HaIInv, Looked
  <2> QED BY <1>7, <2>2, <2>3 DEF ExecuteOrphanCleanup
<1>8. CASE ConfirmOrphanCleanup
  <2>1. switches' = switches /\ fix.pc = "confirm"
    BY <1>8 DEF ConfirmOrphanCleanup, FixOnly, ovnVars, Fixing
  <2>2. CASE \E done : FixEnds(done)
    BY <2>1, <2>2, EndedLooksAtNothing
  <2>3. CASE FixGoto("delete")
    <3>1. fix' = FixRecord' /\ fix'.pc = "delete" /\ fix'.plan = fix.plan
      BY <2>3 DEF HaIInv, Looked, FixRecord, FixGoto
    <3> QED BY <1>0, <2>1, <3>1 DEF HaIInv, Looked
  <2> QED BY <1>8, <2>2, <2>3 DEF ConfirmOrphanCleanup
<1> QED BY <1>1, <1>2, <1>3, <1>4, <1>5, <1>6, <1>7, <1>8 DEF HaNext

\* Every state of HaSpec satisfies the invariant of phase 3.
THEOREM ScriptLooksFirst == HaSpec => []HaIInv
<1>1. HaIInv /\ [HaNext]_haVars => HaIInv'
  <2>1. ASSUME HaIInv, HaNext PROVE HaIInv'
    BY <2>1, HaStep, NetsOnlyAdvance DEF HaIInv
  <2>2. ASSUME HaIInv, UNCHANGED haVars PROVE HaIInv'
    BY <2>2 DEF HaIInv, Looked, FixRecord, Existed, Deleted, haVars, ovnVars
  <2> QED BY <2>1, <2>2
<1> QED BY <1>1, HaInitially, PTL DEF HaSpec

\* The script, whatever list of networks it was given and whatever happens while
\* it runs, takes no switch or group from a network that Neutron has
\* (plan_orphan_cleanup, execute_orphan_cleanup of cleanup_dead_ovn_ha_chassis.py).
THEOREM LiveNetworksAreKept == HaSpec => LiveNetworkKept
<1> DEFINE Kept(n) == /\ n \in switches => n \in switches'
                      /\ n \in groups => n \in groups'
<1>1. ASSUME HaIInv, HaNext, NEW n \in Networks, nets'[n] = "live" PROVE Kept(n)
  <2>1. ASSUME NEW m \in Networks, DeleteNetwork(m) PROVE Kept(n)
    <3>1. CASE UNCHANGED ovnVars
      BY <3>1 DEF ovnVars
    <3>2. CASE Drop(m)
      BY <1>1, <2>1, <3>2 DEF DeleteNetwork, Drop, HaIInv
    <3> QED BY <2>1, <3>1, <3>2 DEF DeleteNetwork
  <2>2. ASSUME NEW m \in Networks, ExecuteOrphanCleanup(m) PROVE Kept(n)
    <3>1. fix.pc = "delete" /\ m \in fix.plan /\ nets' = nets
      BY <2>2 DEF ExecuteOrphanCleanup, Fixing
    <3>2. m # n
      BY <1>1, <3>1 DEF HaIInv, Looked, Deleted
    <3> QED BY <2>2, <3>2 DEF ExecuteOrphanCleanup, Drop, ovnVars
  <2>3. ASSUME NEW r \in Routers, LoseRouterGroup(r) PROVE Kept(n)
    BY <2>3, HaAssumption DEF LoseRouterGroup
  <2>4. \/ \E m \in Networks : DeleteNetwork(m) \/ ExecuteOrphanCleanup(m)
        \/ \E r \in Routers : LoseRouterGroup(r)
        \/ switches \subseteq switches' /\ groups \subseteq groups'
    BY <1>1 DEF HaNext, HostJoins, HostLeaves, CreateNetwork, CreateSwitch, AttachGateway,
         ExternalPort, AttachInterface, LinkRead, LinkWrite, GetLiveChassisNames,
         GetAllHaChassis, GetAllHaChassisGroups, ExecuteCleanup, PlanRepopulation, ExecuteRepopulation,
         GetAllLogicalSwitches, GetLiveNeutronNetworkIds, PlanOrphanCleanup,
         ConfirmOrphanCleanup, FixOnly, ovnVars
  <2> QED BY <2>1, <2>2, <2>3, <2>4
<1>2. HaIInv /\ [HaNext]_haVars =>
        [\A n \in Networks : nets'[n] = "live" =>
           (n \in switches => n \in switches') /\ (n \in groups => n \in groups')]_haVars
  BY <1>1
<1> QED BY <1>2, ScriptLooksFirst, PTL DEF HaSpec, LiveNetworkKept
=============================================================================
