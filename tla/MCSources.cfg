SPECIFICATION Spec
CONSTANTS
  None = None
  Text = Text
  StrongCategories <- MCStrongCategories
  StrongGroups <- MCStrongGroups
  Radius <- MCRadius
  AmmoLoaded <- MCAmmoLoaded
  WarfareBuffs <- MCWarfareBuffs
  Racks <- MCRacks
  AbilityEffect <- MCAbilityEffect
  Aliases = {tq, sisi}
  Eos = {1, 2}
  FirstEos = 1
  Datas <- MCDatas
  FirstDatas <- MCFirstDatas
  PatchedDatas <- MCPatchedDatas
  MaxPatches = 1
  MaxRestarts = 1
INVARIANTS TypeOK CacheFresh ObjectsSound
PROPERTY Ends
