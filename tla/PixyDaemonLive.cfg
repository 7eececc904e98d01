SPECIFICATION FairSpec
CONSTANTS
    Secondary <- BareSecondary
    Setting <- BareSetting
    Boot <- BareBoot
    Default <- BareDefault
    AutoPlans <- BareAutoPlans
    Threshold = 2
    MaxUevents = 1
    Faults = TRUE
    LateAnswers = TRUE
    Droppable = {"tracking"}
    None = None
INVARIANT IntentIsDurable
PROPERTIES BreakerHolds ImplementsIntent HidMuReleased VideoNoticed
