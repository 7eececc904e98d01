SPECIFICATION Spec
CONSTANTS
    Reassert = {r1, r2}
    Delay = 2
    Window = 4
    Readback = 1
    MaxTransition = 2
    MaxTravel = 2
INVARIANTS TypeOK ClickLands PrivacyStands ExitKeepsIntent
CHECK_DEADLOCK FALSE
