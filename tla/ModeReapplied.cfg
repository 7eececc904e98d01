SPECIFICATION Spec
CONSTANTS
    Secondary <- BareSecondary
    Setting <- BareSetting
    Boot <- BareBoot
    Default <- BareDefault
    AutoPlans <- BareAutoPlans
    Threshold = 3
    MaxUevents = 2
    Faults = FALSE
    LateAnswers = FALSE
    Droppable = {}
    None = None
INVARIANT ModeReapplied
