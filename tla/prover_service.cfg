SPECIFICATION ServiceSpec
CONSTANTS
  start1 = start1
  start2 = start2
  stop1 = stop1
  stop2 = stop2
  guest = guest
  Starts <- MCStarts
  Stops <- MCStops
  Pids <- MCPids
  MaxPolls = 2
  Elfs <- MCElfs
  Absent = Absent
  Torn = Torn
  MaxRuns = 2
SYMMETRY ScriptSymmetry
INVARIANT
  ServiceInv
PROPERTY
  ServiceRunsMain
