SPECIFICATION Spec
CONSTANTS
  Word <- MCWord
  Modes <- MCModes
  Samples <- MCSamples
  Counts = {1, 2, 3}
  Timeouts = {0, 2}
  TickMs = 1
  SecondMs = 4
  PollsPerDraw = 3
  CmdMax = 2
  a = a
  Chars = {a}
  Sentinel = white
  Backgrounds = {FALSE}
  Colors = {brown}
INVARIANTS
  ScreenCurrent
  BootsHighlighted
  EditorShowsText
PROPERTIES
  UnattendedBoot
  CountdownEnds
  SavesWhatIsShown
