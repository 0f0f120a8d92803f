-------------------------- MODULE MCTenantStorage --------------------------
(***************************************************************************)
(* Instances of TenantStorage for TLC.                                     *)
(***************************************************************************)
EXTENDS TenantStorage, TLC
CONSTANTS p1, p2, t1, d1, d2

Keystone == {"created", "updated", "deleted"}
Cinder == {"add", "remove"}
Calls == {"connect", "find", "post", "root", "delete"}

MCNodesOf == [h \in Hosts |-> {1, 2}]
MCOwnerOf == d1 :> p1 @@ d2 :> p2
MCTypeOf == d1 :> t1 @@ d2 :> t1

\* Interfaces of two VLANs; N3 is a name that passes validation and has no node.
N1A == Interface(1, "A", 10, <<0, 1>>, "")
N2B == Interface(2, "B", 10, <<128, 1>>, "")
N2A == Interface(2, "A", 20, <<0, 1>>, "")
N3A == Interface(3, "A", 20, <<0, 1>>, "")
Flaws == {"addresses", "vlans", "name", "gateway"}

NoPlan == [p \in Projects |-> <<>>]
Plan(a, b) == p1 :> a @@ p2 :> b

Handling(serial, shared, ops, faults, max, nb, parts) ==
  [serial |-> serial, shared |-> shared, ops |-> ops, faults |-> faults, max |-> max,
   nb |-> nb, parts |-> parts]

\* The handlers alone.
Alone ==
  { Handling(TRUE, FALSE, Keystone \cup Cinder, {}, 4, NoPlan, {}),
    Handling(FALSE, FALSE, Keystone, {"post", "delete"}, 3, NoPlan, {}),
    Handling(TRUE, TRUE, {"updated"} \cup Cinder, Calls, 3, NoPlan, {}) }

\* With the network.
Net ==
  { Handling(TRUE, FALSE, {"created", "updated"}, {}, 3, Plan(<<N1A, N2B>>, <<N1A>>), {"net"}),
    Handling(FALSE, FALSE, {"created", "updated"}, {}, 2, Plan(<<N1A, N2B>>, <<N2A>>), {"net"}),
    Handling(TRUE, FALSE, {"updated"}, {"network", "nautobot", "find", "connect"}, 3,
             Plan(<<N1A, N2B>>, <<N1A, N3A>>), {"net"}) }
  \cup { Handling(TRUE, FALSE, {"created"}, {}, 2,
                  Plan(<<N1A, [N2B EXCEPT !.flaw = f]>>, <<>>), {"net"}) : f \in Flaws }

\* With the Cinder driver.
Driver ==
  { Handling(TRUE, TRUE, {"add", "updated"}, {}, 3, NoPlan, {"cinder"}),
    Handling(TRUE, FALSE, {"add", "remove"}, {"delete", "setup", "list", "operation", "stop"}, 2,
             NoPlan, {"cinder"}) }

MCEnvs == Alone \cup Net \cup Driver
=============================================================================
