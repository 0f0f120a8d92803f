----------------------------- MODULE TenantSync -----------------------------
(***************************************************************************)
(* Keystone projects as Nautobot tenants, Neutron networks and subnets as  *)
(* UCVNIs, namespaces and prefixes: the project events of                  *)
(* main/sync_keystone.py and the first two steps of the daily resync,      *)
(* main/resync_keystone_to_nautobot.py and                                 *)
(* main/resync_neutron_to_nautobot.py with oslo_event/neutron_network.py   *)
(* and neutron_subnet.py.                                                  *)
(*                                                                         *)
(* Every project event has a workflow of its own.  Network and subnet      *)
(* events have no entry in _event_handlers: networks reach Nautobot by the *)
(* resync only, and nothing removes the objects of a deleted one.          *)
(***************************************************************************)
EXTENDS Naturals, FiniteSets

CONSTANTS
  Projects,        \* Keystone project ids
  Domains,         \* those that are domains
  ProjectNames,    \* names, with the domain's in front (_tenant_attrs)
  Networks,        \* Neutron network ids; a network has at most one subnet
  Segments,        \* segmentation ids
  Devices,         \* Nautobot devices, which may belong to a tenant
  TenantEnvs,      \* the environments considered
  MaxTenantEvents, \* bound on project events
  Nothing          \* no tenant, network or object

ASSUME TenantAssumption ==
  /\ Domains \subseteq Projects /\ MaxTenantEvents \in Nat
  /\ \A e \in TenantEnvs : /\ e.serial \in BOOLEAN /\ e.changes \in Nat /\ e.resyncs \in Nat
                           /\ e.faults \subseteq {"call", "lose"}

VARIABLES
  world,   \* see Worlds: serial (one workflow at a time, events in order), ops, faults,
           \* changes and resyncs still to come
  project, \* Keystone: a project's name, "new" before and "gone" after it
  network, \* Neutron: [name, seg (or 0), ext, of (its project), sub (has a subnet)]
  tenant,  \* Nautobot: the name of the tenant with the project's id
  holder,  \* Nautobot: the tenant of a device
  space,   \* Nautobot: networks with a namespace
  ucvni,   \* Nautobot: [name, seg, of] of the UCVNI with the network's id
  prefix,  \* Nautobot: [ext (in the namespace Global), of] of the network's subnet
  events,  \* number of project events so far
  worker,  \* the workflow of each event; worker 0 is a project within the resync
  run      \* the resync

openstack == <<project, network>>
nautobot == <<tenant, holder, space, ucvni, prefix>>
tenantVars == <<world, openstack, nautobot, events, worker, run>>

TenantIds == 0..MaxTenantEvents
Live == {p \in Projects : project[p] \notin {"new", "gone"}}
LiveNets == {n \in Networks : network[n] # Nothing}
NetData == [name : {"x", "y"}, seg : Segments \cup {0}, ext : BOOLEAN, of : Projects \ Domains,
            sub : BOOLEAN]

\* of: the project.  name: as read.  mapped: the devices found.
NoWorker == [kind |-> "updated", of |-> CHOOSE p \in Projects : TRUE, pc |-> "none",
             name |-> "", mapped |-> {}]
\* todo, at: items of the step left and the one being synced.  nets, subs: the
\* listings.  failed: items reported.  died: steps that ended by an exception.
\* quiet: nothing but this run and events that read after it began touched either side.
NoRun == [pc |-> "idle", todo |-> {}, at |-> Nothing, nets |-> [n \in Networks |-> Nothing],
          subs |-> [n \in Networks |-> Nothing], failed |-> {}, died |-> {}, quiet |-> FALSE]

TenantTypeOK ==
  /\ project \in [Projects -> ProjectNames \cup {"new", "gone"}]
  /\ network \in [Networks -> NetData \cup {Nothing}]
  /\ tenant \in [Projects -> ProjectNames \cup {Nothing}]
  /\ holder \in [Devices -> Projects \cup {Nothing}]
  /\ space \subseteq Networks
  /\ ucvni \in [Networks -> [name : {"x", "y"}, seg : Segments, of : Projects] \cup {Nothing}]
  /\ prefix \in [Networks -> [ext : BOOLEAN, of : Projects] \cup {Nothing}]
  /\ \A i \in TenantIds : worker[i].of \in Projects /\ worker[i].mapped \subseteq Devices
  /\ run.failed \subseteq Projects \cup Networks \cup ({"subnet"} \X Networks)

TenantInit ==
  /\ world \in TenantEnvs
  /\ project = [p \in Projects |-> IF p \in Domains THEN CHOOSE a \in ProjectNames : TRUE ELSE "new"]
  /\ network = [n \in Networks |-> Nothing]
  /\ tenant = [p \in Projects |-> Nothing]
  /\ holder = [d \in Devices |-> Nothing]
  /\ space = {}
  /\ ucvni = [n \in Networks |-> Nothing]
  /\ prefix = [n \in Networks |-> Nothing]
  /\ events = 0
  /\ worker = [i \in TenantIds |-> NoWorker]
  /\ run = NoRun

-----------------------------------------------------------------------------
\* OpenStack, people at Nautobot, and the device sync.

Ends == {"done", "failed", "raised"}
Working(i) == worker[i].pc \notin Ends \cup {"none", "pending"}
Disturbed == run' = [run EXCEPT !.quiet = FALSE]

Changes(op) ==
  /\ op \in world.ops /\ world.changes > 0
  /\ world' = [world EXCEPT !.changes = @ - 1]
  /\ Disturbed

Notify(kind, p) ==
  /\ events < MaxTenantEvents
  /\ events' = events + 1
  /\ worker' = [worker EXCEPT ![events + 1] =
                  [NoWorker EXCEPT !.kind = kind, !.of = p, !.pc = "pending"]]
  /\ UNCHANGED <<network, nautobot>>

\* Keystone keeps names unique.
CreateProject(p, name) ==
  /\ project[p] = "new" /\ name \notin {project[q] : q \in Live \ Domains}
  /\ Changes("project")
  /\ project' = [project EXCEPT ![p] = name]
  /\ Notify("created", p)

\* Domains, too, send identity.project.updated.
UpdateProject(p, name) ==
  /\ p \in Live /\ name \notin {project[q] : q \in Live \ (Domains \cup {p})}
  /\ Changes("rename")
  /\ project' = [project EXCEPT ![p] = name]
  /\ Notify("updated", p)

\* Not while it has networks.
DeleteProject(p) ==
  /\ p \in Live \ Domains /\ \A n \in LiveNets : network[n].of # p
  /\ Changes("delete")
  /\ project' = [project EXCEPT ![p] = "gone"]
  /\ Notify("deleted", p)

\* Neutron keeps segmentation ids unique and those of a network as they are.
SetNetwork(n, data) ==
  /\ data.of \in Live
  /\ network[n] # Nothing => data.of = network[n].of /\ data.seg = network[n].seg
  /\ \A m \in LiveNets \ {n} : data.seg = 0 \/ network[m].seg # data.seg
  /\ data # network[n]
  /\ Changes("network")
  /\ network' = [network EXCEPT ![n] = data]
  /\ UNCHANGED <<project, nautobot, events, worker>>

DeleteNetwork(n) ==
  /\ n \in LiveNets
  /\ Changes("remove")
  /\ network' = [network EXCEPT ![n] = Nothing]
  /\ UNCHANGED <<project, nautobot, events, worker>>

\* Somebody deletes what Nautobot has of a network.
Drift(n) ==
  /\ n \in space
  /\ Changes("drift")
  /\ space' = space \ {n}
  /\ ucvni' = [ucvni EXCEPT ![n] = Nothing]
  /\ prefix' = [prefix EXCEPT ![n] = Nothing]
  /\ UNCHANGED <<openstack, tenant, holder, events, worker>>

\* _update_nautobot_device: the lessee of the node, when there is one, becomes the
\* device's tenant, which must exist.
SetHolder(d, p) ==
  /\ tenant[p] # Nothing /\ holder[d] # p
  /\ world.serial => \A i \in TenantIds : ~Working(i)
  /\ Changes("lease")
  /\ holder' = [holder EXCEPT ![d] = p]
  /\ UNCHANGED <<openstack, tenant, space, ucvni, prefix, events, worker>>

OpenStack ==
  \/ \E p \in Projects : \/ DeleteProject(p)
                         \/ \E a \in ProjectNames : CreateProject(p, a) \/ UpdateProject(p, a)
  \/ \E n \in Networks : DeleteNetwork(n) \/ Drift(n) \/ \E data \in world.nets : SetNetwork(n, data)

-----------------------------------------------------------------------------
\* sync_keystone.py.

CanFail == "call" \in world.faults
Goes(i, pc) ==
  worker' = [worker EXCEPT ![i] = IF pc \in Ends THEN [@ EXCEPT !.pc = pc, !.name = "", !.mapped = {}]
                                  ELSE [@ EXCEPT !.pc = pc]]
OnlyWorkers == UNCHANGED <<world, openstack, nautobot, events, run>>
TenantNames(others) == {tenant[q] : q \in others}

\* do_action.
DoAction(i) ==
  /\ i > 0 /\ worker[i].pc = "pending"
  /\ world.serial => /\ run.pc \in {"idle", "over"}
                     /\ \A j \in 1..(i - 1) : worker[j].pc \in Ends
  /\ Goes(i, IF worker[i].kind = "deleted" THEN "find" ELSE "read")
  /\ OnlyWorkers

LoseProjectEvent(i) ==
  /\ worker[i].pc = "pending" /\ "lose" \in world.faults
  /\ Goes(i, "failed")
  /\ OnlyWorkers

\* _get_project, is_domain, _tenant_attrs: what Keystone says now.
ReadProject(i) ==
  /\ worker[i].pc = "read"
  /\ LET p == worker[i].of IN
     worker' = [worker EXCEPT ![i].name = project[p],
                  ![i].pc = IF project[p] = "gone" THEN "raised"
                            ELSE IF worker[i].kind = "created" THEN "create"
                            ELSE IF p \in Domains THEN "done" ELSE "find"]
  /\ OnlyWorkers

\* tenants.get, of an update and of a delete.
FindTenant(i) ==
  /\ worker[i].pc = "find"
  /\ LET found == tenant[worker[i].of] # Nothing IN
     Goes(i, IF worker[i].kind = "deleted" THEN (IF found THEN "filter" ELSE "done")
             ELSE IF found THEN "update" ELSE "create")
  /\ OnlyWorkers

\* tenants.create and tenant.update: Nautobot refuses an id or a name that is taken.
WriteTenant(i) ==
  /\ worker[i].pc \in {"create", "update"}
  /\ LET p == worker[i].of
         taken == worker[i].name \in TenantNames(Projects \ {p})
         fits == ~taken /\ (worker[i].pc = "create") = (tenant[p] = Nothing)
     IN /\ tenant' = IF fits THEN [tenant EXCEPT ![p] = worker[i].name] ELSE tenant
        /\ Goes(i, IF fits THEN "done" ELSE "failed")
  /\ UNCHANGED <<world, openstack, holder, space, ucvni, prefix, events, run>>

\* Faulty variant: the devices keep the tenant.
FilterNone(i) ==
  /\ worker[i].pc = "filter"
  /\ worker' = [worker EXCEPT ![i].mapped = {}, ![i].pc = "unmap"]
  /\ OnlyWorkers

\* _unmap_tenant_from_devices: the devices of the tenant, then their update.
FilterDevices(i) ==
  /\ worker[i].pc = "filter"
  /\ worker' = [worker EXCEPT ![i].mapped = {d \in Devices : holder[d] = worker[i].of},
                              ![i].pc = "unmap"]
  /\ OnlyWorkers

UnmapDevices(i) ==
  /\ worker[i].pc = "unmap"
  /\ holder' = [d \in Devices |-> IF d \in worker[i].mapped THEN Nothing ELSE holder[d]]
  /\ Goes(i, "delete")
  /\ UNCHANGED <<world, openstack, tenant, space, ucvni, prefix, events, run>>

\* External: Nautobot does not delete a tenant that something belongs to.
Referred(p) ==
  \/ \E d \in Devices : holder[d] = p
  \/ \E n \in Networks : \/ ucvni[n] # Nothing /\ ucvni[n].of = p
                         \/ prefix[n] # Nothing /\ prefix[n].of = p

DeleteTenant(i) ==
  /\ worker[i].pc = "delete"
  /\ LET p == worker[i].of IN
     IF Referred(p) \/ tenant[p] = Nothing
       THEN tenant' = tenant /\ Goes(i, "raised")
       ELSE tenant' = [tenant EXCEPT ![p] = Nothing] /\ Goes(i, "done")
  /\ UNCHANGED <<world, openstack, holder, space, ucvni, prefix, events, run>>

\* Writes are in a try and counted, the other calls raise.
ProjectCallFails(i) ==
  /\ CanFail /\ Working(i)
  /\ Goes(i, IF worker[i].pc \in {"create", "update"} THEN "failed" ELSE "raised")
  /\ OnlyWorkers

ProjectStep(i) ==
  \/ DoAction(i) \/ LoseProjectEvent(i) \/ ReadProject(i) \/ FindTenant(i) \/ WriteTenant(i)
  \/ FilterDevices(i) \/ UnmapDevices(i) \/ DeleteTenant(i) \/ ProjectCallFails(i)

-----------------------------------------------------------------------------
\* The resync.  Each step goes on when the one before failed.

OnlyRun == UNCHANGED <<world, openstack, nautobot, events, worker>>
NextPart(pc) == [run EXCEPT !.pc = pc, !.at = Nothing, !.todo = {}, !.subs = NoRun.subs]

\* resync-keystone: the listing of sync_projects, without the domains.
StartSync ==
  /\ run.pc \in {"idle", "over"} /\ world.resyncs > 0
  /\ world.serial => \A i \in 1..events : worker[i].pc \in Ends
  /\ world' = [world EXCEPT !.resyncs = @ - 1]
  /\ run' = [NoRun EXCEPT !.pc = "projects", !.todo = Live \ Domains,
                          !.quiet = \A i \in 1..events : ~Working(i)]
  /\ UNCHANGED <<openstack, nautobot, events, worker>>

\* handle_project_update for the next one; worker 0 does it.
SyncProject(p) ==
  /\ run.pc = "projects" /\ run.at = Nothing /\ p \in run.todo
  /\ run' = [run EXCEPT !.at = p, !.todo = @ \ {p}]
  /\ worker' = [worker EXCEPT ![0] = [NoWorker EXCEPT !.of = p, !.pc = "read"]]
  /\ UNCHANGED <<world, openstack, nautobot, events>>

\* What it returned is counted; what it raised ends the step.
CountProject ==
  /\ run.pc = "projects" /\ run.at # Nothing /\ worker[0].pc \in Ends
  /\ run' = CASE worker[0].pc = "raised" -> [NextPart("list") EXCEPT !.died = @ \cup {"projects"}]
              [] worker[0].pc = "failed" -> [run EXCEPT !.at = Nothing, !.failed = @ \cup {run.at}]
              [] OTHER -> [run EXCEPT !.at = Nothing]
  /\ OnlyRun

EndProjects ==
  /\ run.pc = "projects" /\ run.at = Nothing /\ run.todo = {}
  /\ run' = NextPart("list")
  /\ OnlyRun

\* resync-neutron: sync_neutron_to_nautobot.
ListNetworks ==
  /\ run.pc = "list"
  /\ run' = [NextPart("space") EXCEPT !.nets = network, !.todo = LiveNets]
  /\ OnlyRun

\* An item is over, successfully or counted as failed; pc: the first call of the next.
Over(item, ok, pc) ==
  [run EXCEPT !.pc = pc, !.at = Nothing, !.failed = IF ok THEN @ ELSE @ \cup {item}]

\* sync_network_to_nautobot: _ensure_nautobot_ipam_namespace_exists.
EnsureNamespace(n) ==
  /\ run.pc = "space" /\ n \in run.todo
  /\ space' = space \cup {n}
  /\ run' = [run EXCEPT !.todo = @ \ {n}, !.at = IF run.nets[n].seg = 0 THEN Nothing ELSE n,
                        !.pc = IF run.nets[n].seg = 0 THEN "space" ELSE "ucvni"]
  /\ UNCHANGED <<world, openstack, tenant, holder, ucvni, prefix, events, worker>>

\* External: Nautobot keeps the ids of a UCVNI group unique and tenants must exist.
UcvniFits(n, data) ==
  /\ tenant[data.of] # Nothing
  /\ \A m \in Networks \ {n} : ucvni[m] = Nothing \/ ucvni[m].seg # data.seg

UcvniData(n) == [name |-> run.nets[n].name, seg |-> run.nets[n].seg, of |-> run.nets[n].of]

\* Faulty variant: a UCVNI that is not there counts as updated.
UpdateUcvniAlways ==
  /\ run.pc = "ucvni"
  /\ LET n == run.at
         fits == ucvni[n] = Nothing \/ UcvniFits(n, UcvniData(n))
     IN /\ ucvni' = IF fits /\ ucvni[n] # Nothing THEN [ucvni EXCEPT ![n] = UcvniData(n)] ELSE ucvni
        /\ run' = Over(n, fits, "space")
  /\ UNCHANGED <<world, openstack, tenant, holder, space, prefix, events, worker>>

\* _update_nautobot_ucvni: false when there is none.
UpdateUcvni ==
  /\ run.pc = "ucvni"
  /\ LET n == run.at
         fits == UcvniFits(n, UcvniData(n))
     IN IF ucvni[n] = Nothing
          THEN ucvni' = ucvni /\ run' = [run EXCEPT !.pc = "newUcvni"]
          ELSE /\ ucvni' = IF fits THEN [ucvni EXCEPT ![n] = UcvniData(n)] ELSE ucvni
               /\ run' = Over(n, fits, "space")
  /\ UNCHANGED <<world, openstack, tenant, holder, space, prefix, events, worker>>

\* _create_nautobot_ucvni.  One resync runs at a time: no other created it since.
CreateUcvni ==
  /\ run.pc = "newUcvni"
  /\ LET n == run.at
         fits == UcvniFits(n, UcvniData(n))
     IN /\ ucvni' = IF fits THEN [ucvni EXCEPT ![n] = UcvniData(n)] ELSE ucvni
        /\ run' = Over(n, fits, "space")
  /\ UNCHANGED <<world, openstack, tenant, holder, space, prefix, events, worker>>

\* The second listing; network_external_map is from the first.
ListSubnets ==
  /\ run.pc = "space" /\ run.todo = {}
  /\ LET subs == {n \in LiveNets : network[n].sub}
         external(n) == run.nets[n] # Nothing /\ run.nets[n].ext
     IN run' = [NextPart("prefix") EXCEPT !.todo = subs,
                  !.subs = [n \in Networks |->
                     IF n \in subs THEN [ext |-> external(n), of |-> network[n].of] ELSE Nothing]]
  /\ OnlyRun

\* External: the namespace and the tenant must exist.
PrefixFits(n, data) == tenant[data.of] # Nothing /\ (data.ext \/ n \in space)

\* sync_subnet_to_nautobot: _update_nautobot_prefix, then _create_nautobot_prefix.
WritePrefix(n) ==
  /\ \/ run.pc = "prefix" /\ n \in run.todo
     \/ run.pc = "newPrefix" /\ n = run.at
  /\ LET data == run.subs[n]
         fits == PrefixFits(n, data)
     IN IF run.pc = "prefix" /\ prefix[n] = Nothing
          THEN /\ prefix' = prefix
               /\ run' = [run EXCEPT !.pc = "newPrefix", !.at = n, !.todo = @ \ {n}]
          ELSE /\ prefix' = IF fits THEN [prefix EXCEPT ![n] = data] ELSE prefix
               /\ run' = [Over(<<"subnet", n>>, fits, "prefix") EXCEPT !.todo = @ \ {n}]
  /\ UNCHANGED <<world, openstack, tenant, holder, space, ucvni, events, worker>>

\* A listing that fails ends its step; a failing write is counted.
SyncCallFails ==
  /\ CanFail
  /\ \/ run.pc = "list" /\ run' = [NextPart("over") EXCEPT !.died = @ \cup {"neutron"}]
     \/ run.pc = "space" /\ run.todo = {}
        /\ run' = [NextPart("over") EXCEPT !.died = @ \cup {"neutron"}]
     \/ \E n \in run.todo :
          \/ run.pc = "space" /\ run' = [Over(n, FALSE, "space") EXCEPT !.todo = @ \ {n}]
          \/ run.pc = "prefix" /\ run' = [Over(<<"subnet", n>>, FALSE, "prefix") EXCEPT !.todo = @ \ {n}]
     \/ run.pc \in {"ucvni", "newUcvni"} /\ run' = Over(run.at, FALSE, "space")
     \/ run.pc = "newPrefix" /\ run' = Over(<<"subnet", run.at>>, FALSE, "prefix")
  /\ OnlyRun

EndSync ==
  /\ run.pc = "prefix" /\ run.todo = {}
  /\ run' = NextPart("over")
  /\ OnlyRun

SyncStep ==
  \/ StartSync \/ CountProject \/ EndProjects \/ ListNetworks \/ UpdateUcvni \/ CreateUcvni \/ ListSubnets
  \/ SyncCallFails \/ EndSync
  \/ \E p \in Projects : SyncProject(p)
  \/ \E n \in Networks : EnsureNamespace(n) \/ WritePrefix(n)

-----------------------------------------------------------------------------
\* The mirror of an item, as the resync counts items.
Mirrored(x) ==
  \/ x \in Projects /\ tenant[x] = project[x]
  \/ /\ x \in Networks /\ x \in space
     /\ network[x].seg # 0 => ucvni[x] = [name |-> network[x].name, seg |-> network[x].seg,
                                         of |-> network[x].of]
  \/ \E n \in Networks : x = <<"subnet", n>> /\ prefix[n] = [ext |-> network[n].ext, of |-> network[n].of]

NeutronItems == LiveNets \cup {<<"subnet", n>> : n \in {m \in LiveNets : network[m].sub}}
ItemsOf == (IF "projects" \in run.died THEN {} ELSE Live \ Domains)
           \cup (IF "neutron" \in run.died THEN {} ELSE NeutronItems)

\* "When Nautobot gets out of sync with OpenStack (e.g., after database restore, missed
\* events, or manual changes)": whatever happened before, a resync during which OpenStack
\* does not change leaves in Nautobot, as it is, every project, network and subnet it does
\* not report as failed.  Without renamed or deleted projects and networks, whose
\* names and numbers may still be taken in Nautobot, and without failing calls or
\* events handled meanwhile, it reports none.
ResyncMirrors ==
  run.pc = "over" /\ run.quiet =>
    /\ \A x \in ItemsOf : x \in run.failed \/ Mirrored(x)
    /\ world.serial /\ ~CanFail /\ world.ops \cap {"rename", "delete", "remove"} = {} =>
         run.failed = {} /\ run.died = {}

\* Handled in order and without failures, the project events alone keep the tenants,
\* however far the workflows lag behind, as long as no name of a renamed project is
\* used again and that project deleted: each live project has the tenant with its
\* name, and a deleted one has none, whatever devices belonged to it, unless Nautobot
\* still has networks of it.  Domains never have one.
TenantsFollowProjects ==
  /\ \A d \in Domains : tenant[d] = Nothing
  /\ world.serial /\ world.faults = {} /\ ~{"rename", "delete"} \subseteq world.ops
       /\ run.pc \in {"idle", "over"} /\ (\A i \in 1..events : worker[i].pc \in Ends) =>
       \A p \in Projects \ Domains :
         /\ p \in Live => tenant[p] = project[p]
         /\ project[p] = "gone" /\ tenant[p] # Nothing =>
              \E n \in Networks : \/ ucvni[n] # Nothing /\ ucvni[n].of = p
                                  \/ prefix[n] # Nothing /\ prefix[n].of = p
=============================================================================
