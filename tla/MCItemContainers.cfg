\* Two fits with all their containers; lists of up to four positions.
CONSTANTS
  None = None
  rack1 = rack1
  rack2 = rack2
  implants1 = implants1
  implants2 = implants2
  skills1 = skills1
  skills2 = skills2
  ship1 = ship1
  ship2 = ship2
  module1 = module1
  module2 = module2
  implant1 = implant1
  skill1 = skill1
  skill2 = skill2
  skill3 = skill3
  hull1 = hull1
  hull2 = hull2
  Lists = {rack1, rack2}
  Sets = {implants1, implants2}
  UniqueSets = {skills1, skills2}
  Slots = {ship1, ship2}
  Items = {module1, module2, implant1, skill1, skill2, skill3, hull1, hull2}
  Accepts <- MCAccepts
  TypeId <- MCTypeId
  FitOf <- MCFitOf
  MaxIndex = 2
  MaxLen = 4
  Careless = FALSE
SPECIFICATION Spec
INVARIANTS
  TypeOK
  HeldTrue
  AnnouncedTrue
PROPERTY RaisesUndone
