CONSTANTS
  None = None
  f1 = f1  f2 = f2  s1 = s1  s2 = s2  b1 = b1  b2 = b2  d2 = d2
  Fits = {f1, f2}
  Fleets = {wing}
  wing = wing
  Ships = {s1, s2}
  Boosters = {b1, b2}
  Gadgets = {d2}
  Home <- MCHome
  Templates <- MCTemplates
  Tuned = {b1}
  Levels = {1, 2}
SPECIFICATION FleetSpec
INVARIANTS TypeOK BuffsEntitled BuffsFresh BuffsReach
