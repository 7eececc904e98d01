SPECIFICATION FairSpec
CONSTANTS
    Program = {zoom, obs}
    DebounceCount = 3
INVARIANTS TypeOK VetoStands
PROPERTIES CallsAreReal AutoModeRespected CallNoticed ReleaseNoticed
