SPECIFICATION HooksSpec
CONSTANTS
  h1 = h1
  h2 = h2
  Taps = {1, 2}
  Hooks = {h1, h2}
  Transcript <- Lines
  MaxResumes = 1
  MaxSlips = 1
CHECK_DEADLOCK FALSE
PROPERTIES TapRuns TitleLands
