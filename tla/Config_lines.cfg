SPECIFICATION Spec
CONSTANTS
  MaxEntries = 2
  Files <- McFiles
  Undefined = undefined
  Default = default
  BuiltIn = "built-in"
INVARIANTS
  EntriesAreSections
  SettingsAreLast
