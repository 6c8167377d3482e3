SPECIFICATION Spec
CONSTANTS
    None = None
    NoCaller = NoCaller
    sot = sot
    surface = surface
    plain = plain
    dev = dev
    lead = lead
    f1 = f1
    c1 = c1
    c2 = c2
    tree = tree
    unused = unused
    config = config
    Change = {tree, unused, config}
    JudgedPart <- MCJudgedPart
    SweptPart <- MCSweptPart
    PR = {sot, surface}
    Actor = {dev, lead}
    Author <- MCAuthor
    Allowlist = {dev, lead}
    Human = {dev, lead}
    TouchesSot = {sot}
    TouchesSurface = {surface}
    Fork = {}
    SotRef = {sot}
    Finding = {f1}
    ConsistencyReport <- MCConsistencyReport
    CompletenessReport <- MCCompletenessReport
    Speaker = {lead}
    MaxHead <- OnePush
    RoleChanges = {}
    MaxComments = 1
    MaxApprovals <- OneApproval
    Caller = {c1, c2}
    MaxAttempts = 2
SYMMETRY CallerSymmetry
INVARIANTS TypeOK FreshVerdict ApprovedLanding AuditJustifies
PROPERTIES ImplementsAuditedMain
