---------------------------- MODULE NautobotSync ----------------------------
(***************************************************************************)
(* OpenStack in Nautobot: devices (DeviceSync), tenants and networks       *)
(* (TenantSync).  They meet in the tenant of a device, which the device    *)
(* sync writes and the deletion of a project clears; it goes when the      *)
(* device does.  TenantSync's devices are the nodes' here.                 *)
(***************************************************************************)
EXTENDS DeviceSync, TenantSync

CONSTANT Pairs   \* the environments of both that are considered together

syncVars == <<vars, tenantVars>>

SyncInit == Init /\ TenantInit /\ <<env, world>> \in Pairs

DeviceStep ==
  /\ Next
  /\ holder' = [n \in Nodes |-> IF device'[n] = None THEN Nothing ELSE holder[n]]
  /\ UNCHANGED <<world, openstack, tenant, space, ucvni, prefix, events, worker, run>>

TenantStep ==
  /\ \/ OpenStack \/ SyncStep
     \/ \E i \in TenantIds : ProjectStep(i)
     \/ \E n \in Nodes, p \in Projects : device[n] # None /\ SetHolder(n, p)
  /\ UNCHANGED vars

SyncNext == DeviceStep \/ TenantStep

SyncSpec == SyncInit /\ [][SyncNext]_syncVars
=============================================================================
