\* Two guns, one charge, two fits, two sources; the user switches guns between
\* three states and overrides the run mode of one effect that needs 'online'.
CONSTANTS
  None = None
  m1 = m1
  m2 = m2
  c1 = c1
  f1 = f1
  f2 = f2
  Modules = {m1, m2}
  Charges = {c1}
  Fits = {f1, f2}
  Sources = {"a", "b"}
  TypeIds <- MCTypeIds
  Effects <- MCEffects
  Catalogue <- MCCatalogue
  EffectState <- MCEffectState
  UsageChance <- MCUsageChance
  OnlineEffect = "onl"
  ModuleType <- MCModuleType
  ChargeType <- MCChargeType
  UserStates = {1, 2, 4}
  UserModes = {"full_compliance", "force_run"}
  Overridable = {"passiveOnl"}
SPECIFICATION Spec
INVARIANTS
  TypeOK
  RunningIsResolved
  LoadedFromSource
  RegistersAgree
  CalculatorAgrees
  ChargeLinked
