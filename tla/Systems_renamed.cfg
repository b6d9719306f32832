SPECIFICATION Spec
CONSTANTS
  g1 = g1
  g2 = g2
  n1 = n1
  n2 = n2
  n3 = n3
  x = x
  p1 = p1
  Guids = {g1, g2}
  Names = {n1, n2, n3}
  Texts = {x}
  Ports = {p1}
  FirstName <- MCFirstName
  Callers = {a}
  Inputs <- MCInputs
  Refusals = {503}
  MaxRequests = 2
INVARIANT NotFoundChangesNothing
CHECK_DEADLOCK FALSE
