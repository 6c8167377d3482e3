SPECIFICATION Spec
CONSTANTS
    None = None
    lead = lead
    peer = peer
    People = {lead, peer}
    Reviewer = lead
    MaxErrors = 1
    MaxReviews = 1
    MaxWaits = 2
INVARIANTS OneMoreWaitFinds
