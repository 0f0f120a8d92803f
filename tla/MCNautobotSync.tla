--------------------------- MODULE MCNautobotSync ---------------------------
(* Instances of NautobotSync: the environments of DeviceSync without tenants, *)
(* those of TenantSync with one device, and one of both.                      *)
EXTENDS MCDeviceSync, NautobotSync

CONSTANTS P1, P2, D0, N1, N2

Net(name, seg, of, ext, sub) ==
  [name |-> name, seg |-> seg, of |-> of, ext |-> ext, sub |-> sub]
Few == {Net("x", 1, P1, FALSE, TRUE), Net("y", 1, P1, FALSE, TRUE)}
\* With and without number and subnet; one becomes external.
Various == {Net("x", 1, P1, FALSE, TRUE), Net("y", 1, P1, TRUE, TRUE), Net("x", 0, P2, FALSE, TRUE),
            Net("x", 2, P2, FALSE, FALSE)}

\* Events in order: projects renamed, or deleted while devices belong to them.
Renaming == [serial |-> TRUE, ops |-> {"project", "rename"}, nets |-> {}, faults |-> {},
             changes |-> 4, resyncs |-> 0]
Leasing == [Renaming EXCEPT !.ops = {"project", "delete", "lease"}]
\* Networks deleted and their projects, too, with a resync in between.
Closing == [Renaming EXCEPT !.ops = {"project", "delete", "network", "remove"}, !.nets = Various,
              !.resyncs = 1]
\* All at once.
Crossing == [Renaming EXCEPT !.serial = FALSE, !.ops = {"project", "rename", "delete"},
               !.changes = 2, !.resyncs = 1]
\* Lost events, people at Nautobot, failing calls, and resyncs.
Growing == [Closing EXCEPT !.ops = {"project", "network", "drift"}, !.faults = {"lose"},
              !.changes = 3, !.resyncs = 2]
Stumbling == [Growing EXCEPT !.nets = Few, !.faults = {"call"}, !.changes = 2]
Rotting == [Stumbling EXCEPT !.ops = {"project", "network", "remove"}, !.faults = {"lose", "call"},
              !.nets = {Net("x", 1, P1, FALSE, TRUE)}, !.changes = 3, !.resyncs = 1]

NoTenants == [Renaming EXCEPT !.ops = {}]
NoNodes == [InOrder EXCEPT !.ops = {}, !.changes = 0, !.resyncs = 0]
Leaving == [InOrder EXCEPT !.ops = {"delete"}, !.changes = 1, !.resyncs = 0]

DeviceEnvs == AllEnvs \cup {NoNodes, Leaving}
WorldEnvs == {NoTenants, Renaming, Leasing, Closing, Crossing, Growing, Stumbling, Rotting}
Together == (AllEnvs \X {NoTenants}) \cup ({NoNodes} \X (WorldEnvs \ {NoTenants}))
            \cup {<<Leaving, Leasing>>}
=============================================================================
