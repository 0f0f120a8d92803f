SPECIFICATION Spec
CONSTANTS
  None = None
  n1 = n1
  n2 = n2
  p1 = p1
  p2 = p2
  p3 = p3
  g1 = g1
  L1 = L1
  L2 = L2
  Nodes = {n1, n2}
  Ports = {p1, p2, p3}
  Groups = {g1}
  Owner <- Owners
  IfNames = {"a", "b"}
  Links = {L1, L2}
  Statuses = {"Staged", "Active"}
  MaxEvents = 5
  MaxAttempts = 2
  Envs <- Bonded
INVARIANT LagsAreMirrored
CHECK_DEADLOCK FALSE
