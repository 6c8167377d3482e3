SPECIFICATION FairSpec
CONSTANTS
    None = None
    NoCaller = NoCaller
    sot = sot
    surface = surface
    plain = plain
    dev = dev
    lead = lead
    f1 = f1
    c1 = c1
    c2 = c2
    tree = tree
    unused = unused
    config = config
    Change = {tree, unused, config}
    JudgedPart <- MCJudgedPart
    SweptPart <- MCSweptPart
    PR = {plain}
    Actor = {dev, lead}
    Author <- MCAuthor
    Allowlist = {dev, lead}
    Human = {dev, lead}
    TouchesSot = {}
    TouchesSurface = {}
    Fork = {}
    SotRef = {}
    Finding = {f1}
    ConsistencyReport <- MCConsistencyReport
    CompletenessReport <- MCCompletenessReport
    Speaker = {lead}
    MaxHead <- ThreePushes
    RoleChanges = {}
    MaxComments = 0
    MaxApprovals <- OneApproval
    Caller = {c1, c2}
    MaxAttempts = 3
INVARIANTS RetriesNeedPushes
PROPERTIES CallsEnd
