SPECIFICATION PanelFairSpec
CONSTANTS
    Session = {s1}
    Publisher = {checks, web}
    Web = {web}
    Checker = checks
    Buffer = 1
    MaxOther = 2
    MaxChanges = 6
    None = None
    Tag <- MCTag
    Build <- MCBuild
    Commit <- MCCommit
    Numbers <- MCNumbers
    Pre <- MCPre
    History <- MCHistory
    Follow <- MCFollow
INVARIANTS VerdictIsRight NoticeIsCurrent
PROPERTY NewestIsNoticed
CHECK_DEADLOCK FALSE
