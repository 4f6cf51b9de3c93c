\* Concurrent commands under failing statements, failing commits and a crash.
SPECIFICATION Spec
CONSTANTS
    None = None
    t1 = t1
    t2 = t2
    u1 = u1
    u2 = u2
    Requests = {r1, r2, r3}
    Tenders <- BothTenders
    Users <- BothUsers
    Seeded <- OneTender
    Seeder = u1
    Calls <- CommandCalls
    PoolSize = 2
    RedisMayFail = FALSE
    Foreign = Foreign
    Leftovers = FALSE
    DbMayFail = TRUE
    MaxCrashes = 1
SYMMETRY AnyOrder
INVARIANTS
    TypeOK
    NoLostUpdate
    AuditTrail
    ReplyMatchesLog
    SingleWinner
    ConnectionsReturned
    HoldersNeverWait
PROPERTY LedgerRefined
