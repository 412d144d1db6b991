CONSTANTS
  NoState = NoState
  NoCharge = NoCharge
  NoSlot = NoSlot
  Texts <- MCTexts
  Letters <- MCLetters
  Types <- MCTypes
  NameOf <- MCNameOf
  EffectSlots <- MCEffectSlots
  EffectStates <- MCEffectStates
  NeedsCapacitor <- MCNeedsCapacitor
  GroupOf <- MCGroupOf
  OwnCategory <- MCOwnCategory
  GroupCategory <- MCGroupCategory
  PerRack = 2
SPECIFICATION Spec
INVARIANTS TypeOK SlotsTrue StacksKept StatesObeyed
