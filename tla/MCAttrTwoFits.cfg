\* Two ancillary repairers on two fits, and paste for each.
CONSTANTS
  None = None
  f1 = f1
  f2 = f2
  m1 = m1
  m2 = m2
  c1 = c1
  c2 = c2
  rack1 = rack1
  rack2 = rack2
  hold1 = hold1
  hold2 = hold2
  none = none
  Fits = {f1, f2}
  Items = {m1, m2, c1, c2}
  Seats = {rack1, rack2, hold1, hold2, none}
  FitOf <- MCFitOf
  SeatOf <- MCSeatOf
  Owner <- MCOwner
  ShipSeat <- MCNoSeat
  CharacterSeat <- MCNoSeat
  Attrs <- MCAttrs
  MaxAttr <- MCMaxAttr
  Cells <- MCCells
  Keys = {}
  KeysOf <- MCKeysOf
  Effects <- MCEffects
  EffectsOf <- MCEffectsOf
  Modifiers <- MCModifiers
  Mass = "amount"
  Paste = {c1, c2}
  Depth <- MCDepth
  Compute <- MCCompute
  Sources = {"a"}
  Known <- MCKnown
  LoadOrder <- MCLoadOrder
  Overridden = {}
  Callbacks = {}
SPECIFICATION Spec
INVARIANT Fresh
