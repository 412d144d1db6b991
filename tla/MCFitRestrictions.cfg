SPECIFICATION Spec
CONSTANTS
    NoItem = NoItem
    NoSource = NoSource
    Items <- MCItems
    Class <- MCClass
    TypeId <- MCTypeId
    SkillLevel <- MCSkillLevel
    TgtResists <- MCTgtResists
    Sources = {"one", "two"}
    Catalogue <- MCCatalogue
    EffectState <- MCEffectState
    Boost <- MCBoost
    Toggled = {"rig1", "gun"}
    Casts <- MCCasts
    States = {1, 2, 3}
    MaxRack = 2
INVARIANTS TypeOK RackBlamed
PROPERTIES AnswersTrue
