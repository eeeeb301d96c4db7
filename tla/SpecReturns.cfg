\* Liveness: two clients, one task, one grant, under the fairness of the calls.
SPECIFICATION FairSpec
CONSTANTS
    c1 = c1  c2 = c2  t1 = t1  t2 = t2  r1 = r1
    None = None
    Client = {c1, c2}
    Task = {t1}
    Req = {r1}
    Content = {a}
    TaskReqs <- OneReq
    TaskDeps <- OneDep
    Callable = {t1}
    TrivialLimit = 0
    MaxGrants = 1
    MaxSaves = 1
INVARIANTS OneAmendPerGrant
PROPERTIES CallsReturn
CHECK_DEADLOCK FALSE
