----------------------------- MODULE MCNodePool -----------------------------
(***************************************************************************)
(* Instances of NodePool for TLC.                                          *)
(***************************************************************************)
EXTENDS NodePool, TLC
CONSTANTS r1, r2, r3, n1, n2, n3, big, small, w1, w2

\* Two routers compete for the nodes of one class, a third has its own class.
MCRouters == {r1, r2, r3}
MCNodes == {n1, n2, n3}
MCClasses == {big, small}
MCClassOf == (r1 :> big) @@ (r2 :> big) @@ (r3 :> small)
MCNodeClass == (n1 :> big) @@ (n2 :> big) @@ (n3 :> small)

\* Everything may fail; or only what a create does before the adoption; or
\* creates are given up while Ironic works on, and enrolments die.
AllCalls == EarlyCalls \cup {"adopt", "wait", "txn", "get", "clear", "provide",
                             "undeploy", "crash"}
Impatient == {"enroll", "wait", "crash"}
MCFaultSets == {AllCalls, EarlyCalls, Impatient, {"enroll"}, {"save"}, {}}

\* No node is in maintenance.
NoneParked == {}

\* Requests for one node: as ordered, with one port moved to another switch port,
\* with a MAC moved to another label, and with another resource class.
MCWorkflows == {w1, w2}
WorkflowSymmetry == Permutations(MCWorkflows)
MCLabels == {"port1", "port2"}
Port(mac, peer, sid) == [mac |-> mac, net |-> "physnet", peer |-> peer, sid |-> sid]
FirewallRequest(fw, class1, info1, p1, p2) ==
  [node |-> n1, fw |-> fw, class |-> class1, info |-> info1,
   ports |-> ("port1" :> p1) @@ ("port2" :> p2)]
MCRequests == {"ordered", "moved", "swapped", "reclassed"}
MCAsks ==
  [ordered |-> FirewallRequest(TRUE, big, "mgmt1", Port("mac1", "eth1", "switch"),
                                           Port("mac2", "eth2", Unset)),
   moved |-> FirewallRequest(TRUE, big, "mgmt2", Port("mac1", "eth3", Unset),
                                         Port("mac2", "eth2", "switch")),
   swapped |-> FirewallRequest(FALSE, big, Unset, Port("mac2", "eth1", Unset),
                                          Port("mac1", "eth2", Unset)),
   reclassed |-> FirewallRequest(FALSE, small, Unset, Port("mac1", "eth1", Unset),
                                              Port("mac2", "eth2", Unset))]

\* A server with three NICs: cabled to two leaf switches and a storage switch,
\* cabled the other way round, to one leaf and a switch nobody knows, not at all.
MCNics == {"nic1", "nic2", "nic3"}
MCSwitches == {"leaf1", "leaf2", "storage", "odd"}
Cabling(s1, s2, s3) == ("nic1" :> s1) @@ ("nic2" :> s2) @@ ("nic3" :> s3)
MCCablings == {Cabling("leaf1", "leaf2", "storage"), Cabling("none", "leaf2", "leaf1"),
               Cabling("leaf1", "none", "odd"), Cabling("none", "none", "none")}
MCCategoryOf == [leaf1 |-> "network", leaf2 |-> "network", storage |-> "storage",
                 odd |-> "none"]
MCRackOf == [leaf1 |-> <<1, 1>>, leaf2 |-> <<1, 2>>, storage |-> <<1, 2>>, odd |-> <<1, 1>>]
MCRankOf == [leaf1 |-> 1, leaf2 |-> 2, storage |-> 3, odd |-> 4]

\* Routers alone: two of one class and two of different ones with all failures,
\* all three with the early ones; enrolments with two routers
\* and with one whose creates are given up; the server.
Scope(f, rs, qs, ns, p) ==
  [faults |-> f, routers |-> rs, requests |-> qs, absent |-> ns, bmc |-> p]
MCScopes ==
  {Scope(AllCalls, {r1, r2}, {}, {}, "none"), Scope(AllCalls, {r1, r3}, {}, {}, "none"),
   Scope(EarlyCalls, MCRouters, {}, {}, "none"),
   Scope({"enroll"}, {r1, r3}, MCRequests, MCNodes, "none"),
   Scope(Impatient, {r1}, {"ordered", "moved"}, MCNodes, "none"),
   Scope({}, {}, {}, {}, "old"), Scope({"save"}, {}, {}, {}, "factory")}
=============================================================================
