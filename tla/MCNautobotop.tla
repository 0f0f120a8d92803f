--------------------------- MODULE MCNautobotop -----------------------------
(* Environments for Nautobotop: parts of the resource graph. *)
EXTENDS Nautobotop

Item(k, name, refs) ==
  [id |-> <<k, name, "yaml">>, name |-> name, val |-> "v1", refs |-> refs, parent |-> None,
   parts |-> {}, members |-> {}]
Under(item, parent) == [item EXCEPT !.parent = parent]
Changed(item) == [item EXCEPT !.val = "v2"]

External(k, name) == [Blank(k, <<k, name>>, name) EXCEPT !.owned = FALSE]
Statuses == {External("status", "Active")}
Active == <<"status", "Active">>

Files(items) == Data("items", items)
Enabled(data) == [enabled |-> TRUE, data |-> data]
Disabled(data) == [enabled |-> FALSE, data |-> data]

Env(start, configs, held, faults, drift) ==
  [start |-> start, configs |-> configs, objects |-> held, faults |-> faults, drift |-> drift]

-----------------------------------------------------------------------------
\* Locations in a tree, and a rack in the child that is later removed; the
\* operator is also switched off, a ConfigMap is missing or malformed, or
\* the rack names a location that is not listed.
Site == Item("locationTypes", "site", {})
Campus == Item("location", "campus", {<<"location_type", "site">>, Active})
Hall == Under(Item("location", "hall", {<<"location_type", "site">>, Active}), "campus")
Row(l) == Item("rack", "row", {<<"location", l>>, Active})

Halls == [locationTypes |-> Files({Site}), location |-> Files({Campus, Hall}),
          rack |-> Files({Row("hall")})]
NoHall == [Halls EXCEPT !.location = Files({Campus}), !.rack = Files({Row("campus")})]
Emptied == [Halls EXCEPT !.location = Files({}), !.rack = Files({})]

Sites == Env(Enabled(Halls), {Enabled(NoHall), Enabled(Halls), Enabled(Emptied)}, Statuses,
             {"write", "lost", "list", "owner", "restart", "status"}, FALSE)
Unusable ==
  Env(Enabled(Halls), {Enabled([NoHall EXCEPT !.rack = Data("malformed", {})]),
                       Enabled([NoHall EXCEPT !.rack = Data("missing", {})]),
                       Enabled([Halls EXCEPT !.rack = Data("none", {})]),
                       Enabled([Halls EXCEPT !.rack = Files({Row("attic")})]),
                       Disabled(NoHall), Enabled(NoHall)}, Statuses, {}, FALSE)
\* A change of a location and of its rack that may be taken back.
Revised == [Halls EXCEPT !.location = Files({Changed(Campus), Hall}),
                         !.rack = Files({Changed(Row("hall"))})]
Reverting == Env(Enabled(Halls), {Enabled(Halls), Enabled(Revised)}, Statuses, {"write"}, FALSE)

\* Users change and destroy objects while the operator runs, or API lookups fail.
Drifting == Env(Enabled(Halls), {Enabled(NoHall)}, Statuses, {"restart"}, TRUE)
Blind == Env(Enabled(Halls), {Enabled([Halls EXCEPT !.rack = Files({Changed(Row("hall"))})])},
             Statuses, {"preload", "get", "lost"}, FALSE)

\* Tenants in groups that nest by name, VLANs, and prefixes: one is adopted by its
\* network because it has no id, one was made by somebody else.
Group(n, refs) == Item("tenantGroup", n, refs)
Tenant(g) == Item("tenant", "acme", {<<"tenant_group", g>>})
Network == [Item("prefix", "net", {<<"namespace", "global">>, <<"tenant", "acme">>, Active})
              EXCEPT !.id = None]
Ipam == [tenantGroup |-> Files({Group("all", {}), Group("dev", {<<"parent", "all">>})}),
         tenant |-> Files({Tenant("dev")}),
         namespace |-> Files({Item("namespace", "global", {<<"tenant", "acme">>})}),
         prefix |-> Files({Network})]
Ipam2 == [Ipam EXCEPT !.tenantGroup = Files({Group("all", {})}), !.tenant = Files({Tenant("all")}),
                      !.prefix = Files({Changed(Network)})]
Networks == Env(Enabled(Ipam), {Enabled(Ipam2)},
                Statuses \cup {External("prefix", "lab"), External("tenantGroup", "lab")},
                {"lost"}, FALSE)

\* Device types with templates, devices, and a cluster that changes its members.
Server(parts) == [Item("deviceType", "server", {<<"manufacturer", "dell">>}) EXCEPT !.parts = parts]
Device(n) == Item("device", n, {<<"device_type", "server">>, <<"role", "compute">>,
                           <<"location", "dc">>, Active})
Cluster(members) ==
  [Item("cluster", "kvm", {<<"cluster_type", "vm">>}) EXCEPT !.members = members]
Compute(parts, devices, members) ==
  [deviceType |-> Files({Server(parts)}), role |-> Files({Item("role", "compute", {})}),
   device |-> Files({Device(n) : n \in devices}), clusterType |-> Files({Item("clusterType", "vm", {})}),
   cluster |-> Files({Cluster(members)})]
Clusters == Env(Enabled(Compute({"eth0", "eth1"}, {"d1", "d2"}, {"d1"})),
                {Enabled(Compute({"eth0", "mgmt"}, {"d1", "d2"}, {"d2"})),
                 Enabled(Compute({"eth0"}, {"d2"}, {"d2"}))},
                Statuses \cup {External("location", "dc")}, {"parts"}, FALSE)

Templates == Env(Enabled([deviceType |-> Files({Server({"eth0", "eth1"})})]),
                 {Enabled([deviceType |-> Files({Server({"eth0"})})])}, {}, {"parts", "write"}, TRUE)

\* Permissions, always written again and never removed.
Perm(n, g) == [Item("permissionGroup", n, {<<"groups", g>>}) EXCEPT !.id = None]
Permissions == Env(Enabled([permissionGroup |-> Files({Perm("view", "staff"), Perm("edit", "staff")})]),
                   {Enabled([permissionGroup |-> Files({Perm("view", "ops")})])}, {},
                   {"write"}, TRUE)

\* One item of every kind, with every reference there is.
One(k) == Item(k, k, {<<r.field, r.to>> : r \in SyncOf[k].refs})
Everything == [k \in Kinds |-> Files({IF k = "tenantGroup" THEN Group(k, {}) ELSE One(k)})]
Graph == Env(Enabled(Everything), {Enabled([k \in Kinds |-> Files({})])},
             {External(k, k) : k \in {"status", "tag", "vrf", "ucvniGroup"}}, {}, FALSE)

RevertEnvironments == {Reverting}

MCEnvironments ==
  {Sites, Unusable, Reverting, Drifting, Blind, Networks, Clusters, Templates,
   Permissions, Graph}
=============================================================================
