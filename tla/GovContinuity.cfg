CONSTANTS
  guardian = g
  estate = e
  Participant = {a, b, g, e}
  FounderA = a
  FounderB = b
  RolesOf <- MCRolesOf
  Hours72 = 1
  Days7 = 1
  Days30 = 2
  Days45 = 2
  Lacks = {"nothing", "mediation"}
  ActedOn = {"constitutional"}
  MaxTime = 3
SPECIFICATION Spec
INVARIANTS
  TakeoverNeedsTwo
  PassageTakesTime
  RivalQuorumsMeet
  SurvivorsCanLeave
  ActionsFitState
