--------------------------- MODULE MCSvmLifecycle ---------------------------
(***************************************************************************)
(* An instance of SvmLifecycle for TLC: two projects share a volume type.  *)
(***************************************************************************)
EXTENDS SvmLifecycle

SharedEnvs ==
  { [serial |-> TRUE, shared |-> TRUE, ops |-> {"created", "updated", "add", "remove"},
     faults |-> {}, max |-> 5] }
=============================================================================
