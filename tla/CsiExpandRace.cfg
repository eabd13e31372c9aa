CONSTANTS
  p1 = p1
  d1 = d1
  Callers = {c1, c2}
  Procs = {p1}
  ProcOf <- OneProcess
  Names = {n1}
  Disks = {d1}
  VMs = {v1}
  Sizes = {1, 2}
  Workloads <- ExpandLoads
  NoVM = NoVM
  NoDisk = NoDisk
  NoName = NoName
  NoFence = NoFence
  NoCaller = NoCaller
SPECIFICATION Spec
PROPERTIES
  ResizeAfterSettled
