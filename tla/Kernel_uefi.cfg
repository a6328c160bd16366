SPECIFICATION Spec
CONSTANTS
  Entries = 4
  Directories = 2
  Pml4 = 7
  Leftovers <- McLeftovers
  Loaders = {"uefi"}
  Machines <- McMachines
  Boots <- McBoots
  MapCounts = {0, 2}
  StackCounts = {0, 200}
  CmdlineSize = 3
  FbFrames = {0, 31}
INVARIANT
  HhdmMapped
