\* Both projects may have access to the volume type; one backend, five events.
SPECIFICATION Spec
CONSTANTS
  Projects = {p1, p2}
  VolumeTypes = {t1}
  Backends = 1
  MaxEvents = 5
  Envs <- SharedEnvs
INVARIANT GrantedVolumesKept
CHECK_DEADLOCK FALSE
