SPECIFICATION Spec
CONSTANTS
    Client = {c1, c2}
    EventLoop = EventLoop
    None = None
    pan = pan
    tilt = tilt
    left = left
    right = right
    c1 = c1
    c2 = c2
    hw1 = hw1
    hw2 = hw2
    hw3 = hw3
    Axis <- MCAxis
    Position <- MCPosition
    Home <- MCHome
    Rank <- MCRank
    InSlots <- MCInSlots
    Name = {hw1, hw2, hw3}
    Slots = 3
    Hw <- MCHw
    MaxPresets = 1
    MaxFailures = 2
SYMMETRY Clients
INVARIANTS TypeOK LocksNest PresetsSaved
PROPERTIES LoadIsWhole OnlyUsersChangePresets
