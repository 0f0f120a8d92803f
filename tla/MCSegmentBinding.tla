-------------------------- MODULE MCSegmentBinding --------------------------
(***************************************************************************)
(* Instances of SegmentBinding for TLC: two ports share a network and a    *)
(* vlan group, a third is on the provisioning network of another group,    *)
(* and two subports share a network.                                       *)
(***************************************************************************)
EXTENDS SegmentBinding, TLC
CONSTANTS p1, p2, p3, s1, s2, netA, netB, prov, x1, x2, h1, h2

MCPorts == {p1, p2, p3}
MCSubports == {s1, s2}
MCNets == {netA, netB, prov}
MCProvisioning == {prov}
MCPhysnets == {x1, x2}
MCNetOf == (p1 :> netA) @@ (p2 :> netA) @@ (p3 :> prov) @@ (s1 :> netB) @@ (s2 :> netB)
MCPhysOf == (p1 :> x1) @@ (p2 :> x1) @@ (p3 :> x2)
MCHostOf == (p1 :> h1) @@ (p2 :> h2) @@ (p3 :> h2)
MCStatic ==
  [g \in SegIds |-> CASE g = 1 -> [net |-> prov, phys |-> x1, dynamic |-> FALSE]
                      [] g = 2 -> [net |-> prov, phys |-> x2, dynamic |-> FALSE]
                      [] OTHER -> Free]

\* Requests on a network one after the other, with and without unbinding; and
\* overlapping ones of two ports, of a port and its subport, and of a port with
\* two subports; some of it also with one VLAN for two networks.
MCEnvs ==
  {[vlans |-> 2, serial |-> TRUE, tasks |-> Tasks \ {s2}, ops |-> Requests \ {"addTrunk"}],
   [vlans |-> 2, serial |-> TRUE, tasks |-> Tasks \ {p3}, ops |-> Requests \ {"unbind"}],
   [vlans |-> 2, serial |-> FALSE, tasks |-> {p1, p2}, ops |-> Requests],
   [vlans |-> 2, serial |-> FALSE, tasks |-> {p1, s1}, ops |-> Requests \ {"addTrunk"}],
   [vlans |-> 2, serial |-> FALSE, tasks |-> {p1, s1, s2}, ops |-> {"bind", "add", "remove"}],
   [vlans |-> 1, serial |-> TRUE, tasks |-> Tasks \ {s2}, ops |-> Requests],
   [vlans |-> 1, serial |-> TRUE, tasks |-> Tasks \ {p3}, ops |-> Requests \ {"unbind"}],
   [vlans |-> 1, serial |-> FALSE, tasks |-> {p1, s1}, ops |-> Requests]}

UnbindEnv == {[vlans |-> 2, serial |-> TRUE, tasks |-> {p1, p2}, ops |-> {"bind", "unbind"}]}
=============================================================================
