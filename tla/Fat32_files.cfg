SPECIFICATION Spec
CONSTANTS
  SectorBytes = 2
  EntPerSec = 3
  DirPerSec = 2
  MaxRunSectors = 4
  NameLen = 2
  ExtLen = 1
  EndMark = 100
  NoCluster = 101
  MaxSectors = 8
  Volumes <- McAllVolumes
  Filenames <- McAllNames
  Calls = 2
INVARIANTS
  CacheCoherent
  SectorsInPlace
  ReadComplete
  RequestsInFiles
PROPERTIES
  Returns
  FindsFirst
