\* One call at a time of two tools; two failures open the circuit.
SPECIFICATION FairSpec
CONSTANTS
    expand = expand  health = health
    Callers = {c1}
    Keys = {expand, health}
    UpstreamKeys = {expand}
    RejectingKeys = {expand}
    SoftKeys = {expand}
    Threshold = 2
    Recovery = 2
    Burst = 2
    Rate = 1
    Cost = 2
    Horizon = 3
    NoBucket = NoBucket
INVARIANTS
    GatewayTypeOK
    TrippedIffFailing
    OpenMeansNoneInside
    RateBound
    WaitIsPaid
PROPERTIES
    Recovers
    ServesAgain
