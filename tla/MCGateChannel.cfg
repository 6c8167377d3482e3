SPECIFICATION ChannelSpec
CONSTANTS
    None = None
    sot = sot
    surface = surface
    dev = dev
    lead = lead
    bot = bot
    f1 = f1
    tree = tree
    unused = unused
    Change = {tree, unused}
    JudgedPart <- MCJudgedPart
    SweptPart <- MCSweptPart
    PR = {sot}
    Actor = {dev, lead, bot}
    Author <- MCAuthor
    Allowlist = {dev, lead, bot}
    Human = {dev, lead}
    TouchesSot = {sot}
    TouchesSurface = {}
    Fork = {}
    SotRef = {sot}
    Finding = {f1}
    ConsistencyReport <- MCConsistencyReport
    CompletenessReport <- MCCompletenessReport
    Speaker = {dev, lead, bot}
    RoleChanges = {lead}
    MaxHead <- TwoCommits
    MaxComments = 2
    MaxApprovals <- MCMaxApprovals
INVARIANTS GreenExactlyWhenComplete
PROPERTIES BystandersMoveNothing GreenFollowsContent
