CONSTANTS
  Role = {admin}
  Required = {admin}
  MaxWorlds = 2
SPECIFICATION FairRaceSpec
INVARIANTS
  PrivilegeIsHeld
  IdentityIsProven
  RefusalIsTrue
  DenialIsTrue
PROPERTY CallsDecided
