\* A start of the service, an alembic command by hand and a request of the release
\* before, over a database at any revision, with failures.
SPECIFICATION FairSpec
CHECK_DEADLOCK FALSE
CONSTANTS
    None = None
    Tenders = {t1}
    Commands = {i1, c1}
    Instances = {i1}
    Writers = {w1}
    DbMayFail = TRUE
    Environments <- AnyEnvironment
INVARIANTS
    DeploymentTypeOK
    SchemaMatchesRevision
    CirclesExplained
    UpgradeRefusalsExplained
    ServesOnlyWhenReady
    NothingLeftOpen
PROPERTIES
    UpgradeKeepsData
    CommandsEnd
    StartsAndStopsEnd
