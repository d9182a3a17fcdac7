CONSTANTS
  g1 = g1
  g2 = g2
  g3 = g3
  Calls <- MCCalls
  Ports <- MCPorts
SPECIFICATION Spec
PROPERTY
  ContractSpec
\* Every call ends (returns or fails the test): the run stops there.
CHECK_DEADLOCK FALSE
