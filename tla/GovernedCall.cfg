\* One call, two policy files, a log that fails, two edits by the operator.
SPECIFICATION Spec
CONSTANTS
    None = None
    Call = {c1}
    Hash = {h1, h2}
    Rules <- SmallRules
    NumFiles = 2
    Configs <- SmallConfigs
    MaxEdits = 2
INVARIANTS TypeOK NothingUnrecorded PassMeansRun VerdictOfAMoment SwitchHolds
SYMMETRY HashSymmetry
CHECK_DEADLOCK FALSE
