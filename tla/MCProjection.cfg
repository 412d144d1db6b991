\* One gun, two ships and two fits; two levels of strength and resistance.
CONSTANTS
  None = None
  f1 = f1
  f2 = f2
  s1 = s1
  s2 = s2
  g1 = g1
  d2 = d2
  Fits = {f1, f2}
  Ships = {s1, s2}
  Guns = {g1}
  Gadgets = {d2}
  Home <- MCHome
  Sources = {"a"}
  Known <- MCKnown
  Shifted <- MCShifted
  Levels = {1, 2}
SPECIFICATION Spec
INVARIANTS
  TypeOK
  TargetsTrue
  ProjectionFresh
