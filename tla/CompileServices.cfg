SPECIFICATION FairSpec
CONSTANTS
    None = None
    s1 = s1
    s2 = s2
    a1 = a1
    a2 = a2
    p1 = p1
    p2 = p2
    p3 = p3
    p4 = p4
    ShaderCalls = {s1, s2}
    AdapterCalls = {a1, a2}
    PipelineCalls = {p1, p2, p3, p4}
    Key <- MCKey
    Id <- MCId
    After <- MCAfter
    Workloads <- MCWorkloads
    MaxFence = 1
INVARIANTS
    AttachesAreCalledOnce
    TablesAgree
    ShutdownIsFinal
PROPERTIES
    RequestsAreAnswered
CHECK_DEADLOCK FALSE
