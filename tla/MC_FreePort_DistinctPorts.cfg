CONSTANTS
  g1 = g1
  g2 = g2
  g3 = g3
  Calls <- MCCalls
  Ports <- MCPorts
SPECIFICATION Spec
INVARIANT
  DistinctPorts
CHECK_DEADLOCK FALSE
