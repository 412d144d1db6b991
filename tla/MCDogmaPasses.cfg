SPECIFICATION Spec
CONSTANTS
  None = None
  Unit <- MCUnit
  Types <- MCTypes
  CharType = 8
  NoType = 9
  GroupOf <- MCGroupOf
  Exempt <- MCExempt
  DogmaAttrs <- MCDogmaAttrs
  InfoAttrs <- MCInfoAttrs
  EffectsOf <- MCEffectsOf
  Default <- MCDefault
  Stackable <- MCStackable
  HighIsGood <- MCHighIsGood
  SkillAttrs <- MCSkillAttrs
  Level = "level"
  Need = "need"
  Peak = "peak"
  Capacity = "capacity"
  RechargeRate = "recharge"
  CycleTime = "cycle"
  DepletesIn = "depletes"
  Penalty <- MCPenalty
  Shares = {0, 32}
  MaxTime = 512000
  Fits <- MCFits
INVARIANTS TypeOK ValuesTrue RecursionEnds DrainTrue
