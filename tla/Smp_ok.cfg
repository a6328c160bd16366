SPECIFICATION Spec
CONSTANTS
  CpuList <- MCCpuList
  Rounds = 2
  DelayCovers = TRUE
INVARIANTS
  ApsRunTrampoline
  BootProcessorFate
PROPERTIES
  ApsPark
