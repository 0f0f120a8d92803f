---------------------------- MODULE NetworkNode ----------------------------
(***************************************************************************)
(* What the network nodes need for routing: the uplink of a network with   *)
(* the scripts that remove left-over ones (UplinkSweep), and the HA        *)
(* chassis groups with the script that repairs them (HaChassis).  They     *)
(* share the Northbound DB and no row of it.                               *)
(***************************************************************************)
EXTENDS UplinkSweep, HaChassis

NodeInit == UplinkInit /\ HaInit

NodeNext ==
  \/ UplinkNext /\ UNCHANGED haVars
  \/ HaNext /\ UNCHANGED uplinkVars

nodeVars == <<uplinkVars, haVars>>
NodeSpec == NodeInit /\ [][NodeNext]_nodeVars
=============================================================================
