--------------------------- MODULE MCGovContinuity ---------------------------
(* GovContinuity with two founders, a guardian and an estate representative *)
(* who is the operator too.                                                 *)
EXTENDS GovContinuity

CONSTANTS guardian, estate

MCRolesOf == [p \in Participant |->
  (IF p = guardian THEN {"guardian"} ELSE {}) \cup
  (IF p \in {FounderA, FounderB} THEN {"founder"} ELSE {}) \cup
  (IF p = estate THEN {"estate_representative", "operator"} ELSE {})]

ASSUME MCRegistryAssumption == CoreRegistry
=============================================================================
