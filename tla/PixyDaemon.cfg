SPECIFICATION Spec
CONSTANTS
    Secondary <- MCSecondary
    Setting <- MCSetting
    Boot <- MCBoot
    Default <- MCDefault
    AutoPlans <- MCAutoPlans
    Threshold = 3
    MaxUevents = 2
    Faults = FALSE
    LateAnswers = TRUE
    Droppable = {"tracking"}
    None = None
INVARIANTS TypeOK SyncedBeliefAccurate
PROPERTIES ConnectivityKeepsMode
