SPECIFICATION FairSpec
CONSTANTS
    None = None
    lead = lead
    peer = peer
    People = {lead, peer}
    Reviewer = lead
    MaxErrors = 1
    MaxReviews = 2
    MaxWaits = 1
INVARIANTS TypeOK DecisionIsNew TimedOutUnanswered
PROPERTIES WaitEnds
