SPECIFICATION CallsSpec
CONSTANTS
  c1 = c1
  c2 = c2
  sys = sys
  vfs = vfs
  SYSTEM = SYSTEM
  VFS = VFS
  n1 = n1
  n2 = n2
  None = None
  Nodes = {n1, n2}
  Procs <- TwoClients
  Endpoints <- OneEndpoint
  Owner <- OneOwner
  Calls <- MixedCalls
  Forward <- NoForward
  BootOrder <- OneBoot
INVARIANTS
  ReceiveFindsRequest
  ReplyGoesToReceived
  QueuedOnce
  NoLostWakeup
  RepliesSound
