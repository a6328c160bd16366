SPECIFICATION Spec
CONSTANTS
  Top = 7
  Machines <- McKeyless
  MaxEntries = 5
  ImagePages = 1
  KernelMax = 2
  ResponsePage = 0
  KernelBase = 1
  DriverTypes <- McDriverTypes
  MaxEvents = 0
INVARIANTS
  BootServicesExited
