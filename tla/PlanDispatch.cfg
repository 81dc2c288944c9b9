CONSTANTS
    r1 = r1
    r2 = r2
    large = large
    small = small
    local = local
    other = other
    Unknown = Unknown
    NoOverride = NoOverride
    NoAgent = NoAgent
    Requests = {r1, r2}
    Configurations <- AllConfigurations
    Plugins = {"transaction", "agent_workbuddy"}
    FallbackModel = small
    Chains <- Standby
    FailoverEnabled = TRUE
    Asked <- Asking
    Reported = {large, other}
    MaxRetries = 2
    NoChain = NoChain
SYMMETRY Symmetry
SPECIFICATION Spec
INVARIANTS DispatchInv AnnouncedInOrder
PROPERTY FitsWhenSent
