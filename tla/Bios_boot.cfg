SPECIFICATION Spec
CONSTANTS
  Machines <- McMachines
  MaxEntries = 5
  CountWrap = 16
  TableRoom = 7
  KernelBase = 2
  TempBuffer = 4
  ConfBuffer = 6
  BgBuffer = 7
  DtbBuffer = 8
  Top = 12
INVARIANTS
  HandoverIntact
  FittingKernelNotLost
  MapFaithful
