\* Lists and histories while rows appear and change.
SPECIFICATION Spec
CONSTANTS
    None = None
    t1 = t1
    t2 = t2
    u1 = u1
    u2 = u2
    Requests = {r1, r2, r3}
    Tenders <- BothTenders
    Users <- OneUser
    Seeded <- OneTender
    Seeder = u1
    Calls <- QueryCalls
    PoolSize = 3
    RedisMayFail = FALSE
    Foreign = Foreign
    Leftovers = FALSE
    DbMayFail = FALSE
    MaxCrashes = 0
SYMMETRY AnyOrder
INVARIANTS
    QueriesSeeAnswers
    PageFitsTotal
