\* Reads and updates of one tender over a Redis that answers.
SPECIFICATION Spec
CONSTANTS
    None = None
    t1 = t1
    t2 = t2
    u1 = u1
    u2 = u2
    Requests = {r1, r2, r3}
    Tenders <- OneTender
    Users <- OneUser
    Seeded <- OneTender
    Seeder = u1
    Calls <- CacheCalls
    PoolSize = 2
    RedisMayFail = FALSE
    Foreign = Foreign
    Leftovers = TRUE
    DbMayFail = TRUE
    MaxCrashes = 1
SYMMETRY AnyOrder
INVARIANTS
    ReadsAreCommitted
    StaleCacheExplained
