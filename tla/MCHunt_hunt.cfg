SPECIFICATION Spec
CONSTANTS
    Graph <- MCGraph
    RegistryChoices <- MCRegistries
    Catalog <- MCCatalog
    Age <- MCAge
    Approver = {op1, op2}
    Dispatcher = {d1, d2}
    Unit <- MCUnit
    ExtraFields <- MCExtra
    CoreViews <- MCViews
    Outcomes = {"CONSISTENT_WITH_PREDICTION", "INCONCLUSIVE"}
    Statuses <- MCStatuses
    Reporting <- MCReporting
    TopN = 1
    MaxCandidates = 2
    MAX_IDENTITIES_PER_NODE = 1
    MinimumSample = 1
    Threshold = 60
    MaxHyps = 2
    MaxReports = 1
    MaxRuns = 2
SYMMETRY Twins
INVARIANTS
    OnlyApprovedRuns
    UnitOncePerDispatcher
PROPERTIES
    OnlyStaleApprovalUnsettles
CHECK_DEADLOCK FALSE
