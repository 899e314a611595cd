SPECIFICATION ServersSpec
CONSTANTS
  c1 = c1
  c2 = c2
  sys = sys
  vfs = vfs
  SYSTEM = SYSTEM
  VFS = VFS
  n1 = n1
  n2 = n2
  None = None
  Nodes = {n1, n2}
  Procs <- OneClient
  Endpoints <- TwoEndpoints
  Owner <- TwoOwners
  Calls <- ClientCalls
  Forward <- VfsForwards
  BootOrder <- TwoBoot
PROPERTIES
  ServersAnswer
