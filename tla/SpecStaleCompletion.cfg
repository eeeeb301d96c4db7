\* An amend while complete_task judges by the check it replaces.
SPECIFICATION FreshSpec
CONSTANTS
    c1 = c1  c2 = c2  t1 = t1  t2 = t2  r1 = r1
    None = None
    Client = {c1, c2}
    Task = {t1, t2}
    Req = {r1}
    Content = {a, b}
    TaskReqs <- SharedReqs
    TaskDeps <- ChainDeps
    Callable = {}
    TrivialLimit = 1
    MaxGrants = 0
    MaxSaves = 0
SYMMETRY Symmetry
INVARIANTS DoneReliesOnCurrentChecks
CHECK_DEADLOCK FALSE
