\* Denials of a tool whose output has fields of its own (kb_health, kb_search, ...).
SPECIFICATION Spec
CONSTANTS
    expand = expand  health = health
    Callers = {c1}
    Keys = {expand, health}
    UpstreamKeys = {expand}
    RejectingKeys = {expand}
    SoftKeys = {expand}
    Threshold = 2
    Recovery = 2
    Burst = 2
    Rate = 1
    Cost = 2
    Horizon = 3
    NoBucket = NoBucket
INVARIANTS
    DeniedIsContract
