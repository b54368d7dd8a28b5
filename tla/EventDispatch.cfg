SPECIFICATION EventSpec
CONSTANTS
    fn1 = fn1
    fn2 = fn2
    e1 = e1
    e2 = e2
    Null = Null
    Root = 2
    Fn <- MCFn
    Options <- MCOptions
    Target <- MCTarget
    Event <- MCEvent
    Bubbles <- MCBubbles
    MaxDepth = 2
    MaxListeners = 2
INVARIANTS
    EventTypeOK
    ListenerSeesItsNode
    NoneSkipped
PROPERTIES
    StopIsObeyed
