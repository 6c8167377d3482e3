SPECIFICATION Spec
CONSTANTS
    None = None
    NoCaller = NoCaller
    sot = sot
    surface = surface
    plain = plain
    dev = dev
    lead = lead
    f1 = f1
    c1 = c1
    c2 = c2
    tree = tree
    unused = unused
    config = config
    Change = {tree, unused, config}
    JudgedPart <- MCJudgedPart
    SweptPart <- MCSweptPart
    PR = {sot}
    Actor = {dev, lead}
    Author <- MCAuthor
    Allowlist = {dev, lead}
    Human = {dev, lead}
    TouchesSot = {sot}
    TouchesSurface = {}
    Fork = {}
    SotRef = {sot}
    Finding = {f1}
    ConsistencyReport <- MCClearReport
    CompletenessReport <- MCCompletenessReport
    Speaker = {lead}
    MaxHead <- NoPush
    RoleChanges = {lead}
    MaxComments = 0
    MaxApprovals <- OneApproval
    Caller = {c1}
    MaxAttempts = 2
INVARIANTS EveryLandingRecorded
