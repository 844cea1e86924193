\* A ship with generator, repair bay and cloaking device under fire.
SPECIFICATION FairSpec
CONSTANTS
  Kind <- FrigateKind
  DisabledBelow <- FrigateDisabledBelow
  MaxHp = 2
  HullMax = 1
  Facings = {bow, stern}
  ShieldMax = 1
  Recharge = 1
  Teams = 2
  MaxBackup = 1
  PowerOutput = 1
  CanCloak = TRUE
  CloakTicks = 2
  Damages = {2}
INVARIANT ShipIsSound
PROPERTIES
  ShieldsKeptUnderCloak
  DecloakEnds
  RepairGoesOn
