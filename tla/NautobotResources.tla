------------------------- MODULE NautobotResources --------------------------
(***************************************************************************)
(* What nautobotop knows about each kind of resource it mirrors from       *)
(* ConfigMaps into Nautobot: the kinds it must follow (the controller's    *)
(* resource list), the references an item makes and what happens when one  *)
(* is not found (the sync package), and how the service of the kind finds, *)
(* changes and destroys objects (the service packages).                    *)
(***************************************************************************)
EXTENDS Naturals, Sequences, SequencesExt

\* A reference by name in an item.  When its target is not found the sync of the
\* item fails (needs), the field is left out (wants), the target is created
\* (makes), or a relationship is left out that comparisons ignore (relates).
Ref(field, to, miss) == [field |-> field, to |-> to, miss |-> miss]
needs(field, to) == Ref(field, to, "fail")
wants(field, to) == Ref(field, to, "omit")
makes(field, to) == Ref(field, to, "create")
relates(field, to) == Ref(field, to, "relation")

\* How a kind is synced: its references, whether items nest, how the existing
\* object of an item is looked up, and how obsolete objects are recognised.
Sync(refs) == [refs |-> refs, tree |-> FALSE, find |-> "id", obsolete |-> "name",
               always |-> FALSE, members |-> FALSE, parts |-> FALSE]
Tree(refs) == [Sync(refs) EXCEPT !.tree = TRUE]

LocationTypeSync == Tree({})
LocationSync == Tree({needs("location_type", "locationTypes"), needs("status", "status")})
\* buildLocationReference dereferences a nil id when the location is missing: the
\* panic is recovered and fails the reconcile.
RackGroupSync == Tree({needs("location", "location")})
RackSync == Sync({needs("location", "location"), needs("status", "status"),
                  needs("rack_group", "rackGroup")})
DeviceTypeSync == [Sync({makes("manufacturer", "manufacturer")}) EXCEPT !.parts = TRUE]
DeviceSync == Sync({needs("device_type", "deviceType"), needs("status", "status"),
                    needs("role", "role"), needs("location", "location"),
                    needs("rack", "rack"), needs("tenant", "tenant"),
                    relates("vlan_group", "vlanGroup")})
ClusterTypeSync == Sync({})
ClusterGroupSync == Sync({})
ClusterSync == [Sync({needs("cluster_type", "clusterType"), needs("cluster_group", "clusterGroup"),
                      wants("location", "location")}) EXCEPT !.members = TRUE]
TenantGroupSync == Sync({wants("parent", "tenantGroup")})
TenantSync == Sync({wants("tenant_group", "tenantGroup"), wants("tags", "tag")})
RoleSync == Sync({})
RirSync == Sync({})
NamespaceSync == Sync({wants("location", "location"), wants("tenant", "tenant"),
                       wants("tenant_group", "tenantGroup")})
VlanGroupSync == Sync({wants("location", "location"), relates("ucvni_group", "ucvniGroup")})
VlanSync == Sync({needs("status", "status"), needs("role", "role"),
                  needs("location", "location"), wants("vlan_group", "vlanGroup"),
                  wants("tenant", "tenant"), wants("tenant_group", "tenantGroup"),
                  wants("locations", "location"), wants("tags", "tag")})
PrefixRefs == {needs("status", "status"), needs("namespace", "namespace"),
               needs("role", "role"), needs("rir", "rir"), needs("location", "location"),
               wants("vlan", "vlan"), wants("tenant", "tenant"),
               wants("tenant_group", "tenantGroup"), wants("vlan_group", "vlanGroup"),
               wants("vrfs", "vrf"), wants("locations", "location"), wants("tags", "tag")}
PrefixSync == [Sync(PrefixRefs) EXCEPT !.find = "id or key", !.obsolete = "id"]
PermissionGroupSync ==
  [Sync({makes("groups", "group")}) EXCEPT !.find = "key", !.obsolete = "never", !.always = TRUE]

-----------------------------------------------------------------------------
\* How a service finds objects (its preloaded collection first, or the API only)
\* and which of its changes check that the operator's user created the object.
Service(cached, guarded) == [cached |-> cached, guarded |-> guarded]
Crud == Service(TRUE, {"destroy"})

LocationTypeService == Crud
LocationService == Crud
RackGroupService == Crud
RackService == Crud
DeviceTypeService == Crud
DeviceService == Crud
ClusterTypeService == Crud
ClusterGroupService == Crud
ClusterService == Crud
TenantGroupService == Crud
TenantService == Crud
RoleService == Crud
RirService == Crud
NamespaceService == Crud
VlanGroupService == Crud
VlanService == Crud
PrefixService == Crud
PermissionService == Service(FALSE, {"destroy"})
\* Looked up only, or created on demand and never changed.
ManufacturerService == Service(TRUE, {})
GroupService == Service(FALSE, {})
StatusService == Service(TRUE, {})
UcvniGroupService == Service(TRUE, {})
VrfService == Service(TRUE, {})
TagService == Service(TRUE, {})

ServiceOf ==
  [locationTypes |-> LocationTypeService, location |-> LocationService,
   rackGroup |-> RackGroupService, rack |-> RackService, deviceType |-> DeviceTypeService,
   device |-> DeviceService, clusterType |-> ClusterTypeService,
   clusterGroup |-> ClusterGroupService, cluster |-> ClusterService,
   tenantGroup |-> TenantGroupService, tenant |-> TenantService, role |-> RoleService,
   rir |-> RirService, namespace |-> NamespaceService, vlanGroup |-> VlanGroupService,
   vlan |-> VlanService, prefix |-> PrefixService, permissionGroup |-> PermissionService,
   manufacturer |-> ManufacturerService, group |-> GroupService, status |-> StatusService,
   ucvniGroup |-> UcvniGroupService, vrf |-> VrfService, tag |-> TagService]

-----------------------------------------------------------------------------
SyncOf ==
  [locationTypes |-> LocationTypeSync, location |-> LocationSync, rackGroup |-> RackGroupSync,
   rack |-> RackSync, deviceType |-> DeviceTypeSync, device |-> DeviceSync,
   clusterType |-> ClusterTypeSync, clusterGroup |-> ClusterGroupSync,
   cluster |-> ClusterSync, tenantGroup |-> TenantGroupSync, tenant |-> TenantSync,
   role |-> RoleSync, rir |-> RirSync, namespace |-> NamespaceSync,
   vlanGroup |-> VlanGroupSync, vlan |-> VlanSync, prefix |-> PrefixSync,
   permissionGroup |-> PermissionGroupSync]

Kinds == DOMAIN SyncOf

\* The dependsOn lists of the controller's resources.
DependsOn ==
  [locationTypes |-> {}, rir |-> {}, role |-> {}, deviceType |-> {}, tenantGroup |-> {},
   clusterType |-> {}, clusterGroup |-> {}, permissionGroup |-> {},
   location |-> {"locationTypes"}, tenant |-> {"tenantGroup"},
   rackGroup |-> {"location"}, vlanGroup |-> {"location"},
   rack |-> {"location", "rackGroup"}, namespace |-> {"location", "tenant"},
   device |-> {"deviceType", "location", "rack", "role", "tenant"},
   vlan |-> {"vlanGroup", "location", "tenant", "role"},
   cluster |-> {"clusterType", "clusterGroup", "location", "device"},
   prefix |-> {"namespace", "rir", "location", "vlan", "tenant", "role"}]

\* sort.Strings on the kinds.
Alphabet ==
  <<"cluster", "clusterGroup", "clusterType", "device", "deviceType", "location",
    "locationTypes", "namespace", "permissionGroup", "prefix", "rack", "rackGroup",
    "rir", "role", "tenant", "tenantGroup", "vlan", "vlanGroup">>

\* Faulty variant: plain alphabetical order.
SortAlphabetical(deps) == SelectSeq(Alphabet, LAMBDA k : k \in DOMAIN deps)

\* topologicalSort: Kahn's algorithm.  The queue is kept sorted, so each round
\* takes the first kind of the alphabet all of whose dependencies are done; a
\* cycle leaves the result short.
TopologicalSort(deps) ==
  FoldLeft(LAMBDA done, round :
             LET queue == SelectSeq(Alphabet, LAMBDA k :
                            /\ k \in DOMAIN deps \ Range(done)
                            /\ deps[k] \subseteq Range(done))
             IN  IF queue = <<>> THEN done ELSE Append(done, Head(queue)),
           <<>>, Alphabet)

\* The order in which a reconcile syncs the kinds.
SyncOrder == TopologicalSort(DependsOn)
=============================================================================
