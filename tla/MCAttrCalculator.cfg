\* Two ships for one seat, a module, its charge; two sources, one without a
\* type for a ship; one attribute that gets overridden.
CONSTANTS
  None = None
  f = f
  s1 = s1
  s2 = s2
  m = m
  c = c
  hull = hull
  rack = rack
  hold = hold
  chair = chair
  Fits = {f}
  Items = {s1, s2, m, c}
  Seats = {hull, rack, hold, chair}
  FitOf <- MCFitOf
  SeatOf <- MCSeatOf
  Owner <- MCOwner
  ShipSeat <- MCShipSeat
  CharacterSeat <- MCCharacterSeat
  Attrs <- MCAttrs
  MaxAttr <- MCMaxAttr
  Cells <- MCCells
  Keys = {"inShip"}
  KeysOf <- MCKeysOf
  Effects <- MCEffects
  EffectsOf <- MCEffectsOf
  Modifiers <- MCModifiers
  Mass = "mass"
  Paste = {c}
  Depth <- MCDepth
  Compute <- MCCompute
  Sources = {"a", "b"}
  Known <- MCKnown
  LoadOrder <- MCLoadOrder
  Overridden <- MCOverridden
  Callbacks = {20}
SPECIFICATION Spec
INVARIANTS
  TypeOK
  Fresh
  Supported
  RegistersTrue
