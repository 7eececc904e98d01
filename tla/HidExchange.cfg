SPECIFICATION FairSpec
CONSTANTS
    Client = {web}
    EventLoop = loop
    None = None
    Failed = Failed
    CameraStates <- MCCameraStates
    Replies <- MCReplies
    SlotReplies <- MCSlotReplies
    Slots = 2
    MaxFailures = 2
    MaxLate = 1
INVARIANTS AnswersMatch ReadingsAreOwn
PROPERTY JobsEnd
