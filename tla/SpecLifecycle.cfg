\* Two clients; t1 and t2 answer to one requirement, t2 depends on t1; amends by the operator.
SPECIFICATION Spec
CONSTANTS
    c1 = c1  c2 = c2  t1 = t1  t2 = t2  r1 = r1
    None = None
    Client = {c1, c2}
    Task = {t1, t2}
    Req = {r1}
    Content = {a, b}
    TaskReqs <- SharedReqs
    TaskDeps <- ChainDeps
    Callable = {t1}
    TrivialLimit = 1
    MaxGrants = 0
    MaxSaves = 0
SYMMETRY Symmetry
INVARIANTS TypeOK StageCoherent DoneWasJudged Accounted VerifiedWasAccepted
PROPERTIES TaskListFixed AmendReopens AmendAccounted LifecycleKept
CHECK_DEADLOCK FALSE
