SPECIFICATION Spec
CONSTANTS
    Listeners = {a, b}
    NoListener = NoListener
    MaxDepth = 2
    MaxLen = 3
INVARIANTS
    EveryListenerHears
