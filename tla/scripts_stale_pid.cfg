SPECIFICATION Spec
CONSTANTS
  start1 = start1
  start2 = start2
  stop1 = stop1
  stop2 = stop2
  Starts <- MCStarts
  Stops <- MCStops
  Pids <- MCPids
  MaxPolls = 2
PROPERTY
  RunningIsProver
