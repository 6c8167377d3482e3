SPECIFICATION Spec
CONSTANTS
    None = None
    Topics = {1, 2}
    RuleFiles = {1, 2}
    ReqIds = {"FR-1", "FR-2"}
    SpecIds = {"SP-1"}
    TestIds = {"TD-1"}
    Placeholder = "hole"
    Tree <- MCTree
    Lines <- MCLines
    FrontValues <- MCFrontValues
    ErrorCodes = {"E_READ", "E_YAML_MALFORMED"}
    MaxEdits = 2
INVARIANTS TypeOK QuietVerdictIsExact VanishedIsAnError LaterLinesHideNothing OthersAreNotCharged
