CONSTANTS
    NCallbacks = 2
    CallbackTries = 5
    CallbackIntervalSeconds = 5
SPECIFICATION Spec
INVARIANTS
    CallbackTypeOK
    AttemptsBounded
    CallbackInductive
PROPERTIES
    CallbacksEnd
    ImplementsCallbackAbs
