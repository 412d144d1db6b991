CONSTANTS
  r1 = r1
  r2 = r2
  r3 = r3
  s1 = s1
  s2 = s2
  NoShip = NoShip
  NoAttr = NoAttr
  NoProfile = NoProfile
  Rahs <- MCRahs
  Ships <- MCShips
  Unit <- MCUnit
  ShipReso <- MCShipReso
  RahReso <- MCRahReso
  ShiftAmount <- MCShift
  Duration <- MCDuration
  Change <- MCChange
  Profiles <- MCProfiles
  Penalty <- MCPenalty
  PenaltyUnit = 64
  MaxTicks = 7
  MaxRahs = 2
  MaxTweaks = 0
  ReadAttrs = {"em", "expl"}
SPECIFICATION RahSpec
INVARIANTS ResultsCurrent
