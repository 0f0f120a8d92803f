---------------------------- MODULE MCDeviceSync ----------------------------
(* Instances of DeviceSync: n1 and n2 are two UUIDs of one machine, or two machines. *)
EXTENDS DeviceSync, TLC

CONSTANTS n1, n2, p1, p2, p3, g1, L1, L2

OneMachine == [n \in {n1, n2} |-> n1]
TwoMachines == [n \in {n1, n2} |-> n]
Owners == (p1 :> n1) @@ (p2 :> n1) @@ (p3 :> n2) @@ (g1 :> n1)

Port(name, link) == [name |-> name, link |-> link]
Running == [p \in Ports |-> IF p = p1 THEN Port("a", L1) ELSE None]
BothRunning == [Running EXCEPT ![p3] = Port("a", L2)]

\* Events one at a time, nothing lost.
InOrder == [serial |-> TRUE, ops |-> {"state", "delete", "port", "group", "place"},
            data |-> {Port("a", L1)}, faults |-> {}, machine |-> OneMachine,
            ports |-> Running, changes |-> 3, resyncs |-> 1]
\* One at a time, any call failing, events lost.
Failing == [InOrder EXCEPT !.ops = {"delete", "port", "state"},
              !.data = {Port("a", L1), Port("b", L1), Port("b", NoLink)},
              !.faults = {"lose", "busy", "error"}, !.changes = 2, !.resyncs = 2]
Bonding == [Failing EXCEPT !.ops = {"group"}]
\* One at a time, events lost, and a long history: the machine enrolled again,
\* or placed in a rack in between.
Lossy == [InOrder EXCEPT !.ops = {"delete", "port"}, !.faults = {"lose"}, !.changes = 4]
Moving == [Lossy EXCEPT !.ops = {"delete", "place"}]
\* All at once, a long history and a shorter one with node updates.
Racing == [InOrder EXCEPT !.serial = FALSE, !.ops = {"delete", "port"},
             !.data = {Port("a", L1), Port("b", L1)}]
Overtaking == [Failing EXCEPT !.serial = FALSE, !.faults = {"lose"}]
\* Two machines.
Pair == [Failing EXCEPT !.ops = {"port", "state", "resync"}, !.machine = TwoMachines,
           !.ports = BothRunning, !.changes = 1]
\* Cables moved between switch ports.
Recabled == [InOrder EXCEPT !.ops = {"port", "recable"}, !.data = PortData]
AllEnvs == {InOrder, Failing, Bonding, Lossy, Moving, Racing, Overtaking, Pair, Recabled}
Bonded == {[InOrder EXCEPT !.ops = {"state", "group"}]}
=============================================================================
