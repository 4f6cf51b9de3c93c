\* Does a start apply the migrations when nobody overtakes it?
SPECIFICATION Spec
CHECK_DEADLOCK FALSE
CONSTANTS
    None = None
    Tenders = {t1}
    Commands = {i1, c1}
    Instances = {i1}
    Writers = {w1}
    DbMayFail = FALSE
    Environments <- CompleteOnly
INVARIANT UpgradesApply
