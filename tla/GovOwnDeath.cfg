CONSTANTS
  guardian = g
  estate = e
  Participant = {a, b, g, e}
  FounderA = a
  FounderB = b
  RolesOf <- MCRolesOf
  Hours72 = 1
  Days7 = 1
  Days30 = 1
  Days45 = 1
  Lacks = {"nothing"}
  ActedOn = {}
  MaxTime = 1
SPECIFICATION Spec
INVARIANTS SubjectNeverDeclares
