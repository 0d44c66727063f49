SPECIFICATION Spec
CONSTANTS
    t1 = t1
    t2 = t2
    o1 = o1
    o2 = o2
    n1 = n1
    n2 = n2
    NoForm = NoForm
    Tabs = {t1, t2}
    Operators = {o1, o2}
    Names = {n1, n2}
    Forms <- MCForms
    Scenarios <- MCScenarios
    SessionTTL = 2
    CSRFTTL = 1
    MaxSecrets = 4
    MaxGroups = 3
    MaxSessions = 4
INVARIANTS
    TypeOK
    WithdrawnAccessEnds
    
PROPERTIES
    WithinRegistration
    CodeWasAllowed
    FreshLogin
    FlowsEnd
CHECK_DEADLOCK FALSE
