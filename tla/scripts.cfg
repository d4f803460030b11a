SPECIFICATION Spec
CONSTANTS
  start1 = start1
  start2 = start2
  stop1 = stop1
  stop2 = stop2
  Starts <- MCStarts
  Stops <- MCStops
  Pids <- MCPids
  MaxPolls = 2
SYMMETRY ScriptSymmetry
INVARIANTS
  ScriptsInv
  NoOrphan
  OnlyProverSignalled
PROPERTY
  StopTellsTruth
