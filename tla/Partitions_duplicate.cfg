CONSTANTS
  p1 = p1
  g1 = g1
  g2 = g2
  h1 = h1
  Pkeys = {p1}
  Guids = {g1, g2}
  PortsOf <- MCPortsOf
  Held <- MCHeld
  Callers = {a, b}
  Refusals = {503}
  Inputs <- MCInputs
  MaxRequests = 3
  Loads <- MCLoads
SPECIFICATION Spec
PROPERTY CreateLeavesExistingAlone
CHECK_DEADLOCK FALSE
