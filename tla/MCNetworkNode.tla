--------------------------- MODULE MCNetworkNode ---------------------------
(***************************************************************************)
(* An instance of NetworkNode for TLC.  A behaviour is about the uplink of *)
(* one network or about the chassis groups of three.                       *)
(***************************************************************************)
EXTENDS NetworkNode, TLC
CONSTANTS r1, r2, r3, c1, c2

ThreePorts == {r1, r2, r3}
TwoHosts == {c1, c2}

\* One request at a time, with both scripts in between: without and with a
\* flavored router, which may have a gateway only or be left from an earlier
\* release; then everything failing.
Plain == [serial |-> TRUE, ops |-> Requests, faults |-> {}, flavored |-> {}, gateways |-> {},
          legacy |-> FALSE, sweeps |-> Tools]
MCEnvs ==
  { Plain,
    [Plain EXCEPT !.flavored = {r1}],
    [Plain EXCEPT !.flavored = {r1}, !.gateways = {r1, r2}],
    [Plain EXCEPT !.flavored = {r1}, !.legacy = TRUE],
    [Plain EXCEPT !.flavored = {r1}, !.legacy = TRUE, !.faults = {"trunk", "txn", "ovn"},
                  !.ops = {"attach", "delete"}],
    [Plain EXCEPT !.sweeps = {}, !.faults = Calls \ {"ovn"}],
    [Plain EXCEPT !.sweeps = {}, !.faults = Calls, !.ops = {"attach", "delete"}],
    [Plain EXCEPT !.sweeps = {}, !.ops = {}] }

\* The script run undisturbed, with all of its phases, with calls that fail and
\* --force, with phase 1 alone, or without phase 2; then at any time, with short lists.
Repair == [hosts |-> {c1}, script |-> TRUE, events |-> 6, faults |-> {}, repopulate |-> TRUE, orphans |-> TRUE,
           force |-> FALSE, alone |-> TRUE]
MCConfs ==
  { Repair, [Repair EXCEPT !.hosts = {c1, c2}],
    [Repair EXCEPT !.faults = {"ovn", "list"}, !.force = TRUE],
    [Repair EXCEPT !.events = 5, !.repopulate = FALSE, !.orphans = FALSE],
    [Repair EXCEPT !.events = 5, !.repopulate = FALSE],
    [Repair EXCEPT !.events = 4, !.faults = {"list"}, !.alone = FALSE],
    [Repair EXCEPT !.events = 0, !.script = FALSE] }

MCInit == NodeInit /\ (env.ops = {} <=> conf.script)
MCSpec == MCInit /\ [][NodeNext]_nodeVars

NetworkSymmetry == Permutations(Networks)

=============================================================================
