-------------------------- MODULE MCVniAllocation --------------------------
(***************************************************************************)
(* Instances of VniAllocation for TLC.                                     *)
(***************************************************************************)
EXTENDS VniAllocation, TLC

MCVnis == 1..3
\* Ranges that move away from VNIs that may be in use or released.
MCRangeSets == {{1, 2}, {2, 3}, {3}}
=============================================================================
