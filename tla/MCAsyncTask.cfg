CONSTANTS
    Actions <- MixedActions
    MaxRepeat = 2
SPECIFICATION Spec
INVARIANTS
    TypeOK
    JoinedBeforeEnd
    ActivitiesPaired
    ActivitiesBalanced
    StopsSoon
PROPERTY TaskEnds
