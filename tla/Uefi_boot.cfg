SPECIFICATION Spec
CONSTANTS
  Top = 7
  Machines <- McMachines
  MaxEntries = 5
  ImagePages = 1
  KernelMax = 2
  ResponsePage = 0
  KernelBase = 1
  DriverTypes <- McDriverTypes
  MaxEvents = 1
INVARIANTS
  SnapshotFits
  MapUsable
  ModeChosen
  HandoverIntact
  ExitsWithKey
