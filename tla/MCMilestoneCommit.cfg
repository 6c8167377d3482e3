SPECIFICATION Spec
CONSTANTS
    None = None
    Broken = Broken
    Progress = Progress
    Other = Other
    t1 = t1
    bad = bad
    v1 = v1
    Task = {t1, bad}
    WaveOf <- MCWaveOf
    Content <- MCContent
    MaxEdits = 4
INVARIANTS PlanForetells
PROPERTIES LawfulCommit MessageTellsDiff OthersStayOut AcceptedOnDoneReport
