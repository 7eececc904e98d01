SPECIFICATION FairSpec
CONSTANTS
    Session = {s1, s2}
    Publisher = {loop, web}
    Web = {web}
    Buffer = 1
    MaxChanges = 3
INVARIANTS TypeOK WaitingIsCurrent
PROPERTY PageCatchesUp
CHECK_DEADLOCK FALSE
