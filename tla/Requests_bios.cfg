SPECIFICATION Spec
CONSTANTS
  Count = 18
  KernelWords = 24
  Images <- MCImages
  SizeOf <- MCSizeOf
  Payload <- MCPayload
  CmdLen = 5
  Cpus = {0, 1, 2}
  BspId = 0
  Rsdp = 983040
  ResponseBase = 524288
INVARIANTS
  TypeOK
  AllocationsDisjoint
  RangeMatchesMarkers
  HandoverComplete
  RefusalJustified
PROPERTIES
  OnlyResponseWordsWritten
  Terminates
  ImplementsHandover
