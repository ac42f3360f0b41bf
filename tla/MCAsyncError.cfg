CONSTANTS
    Actions <- MixedActions
    MaxRepeat = 2
SPECIFICATION Spec
INVARIANT AsyncErrorFails
