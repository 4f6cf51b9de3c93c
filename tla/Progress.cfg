\* Waiting for rows and connections, a failing Redis, a crash.
SPECIFICATION FairSpec
CONSTANTS
    None = None
    t1 = t1
    t2 = t2
    u1 = u1
    u2 = u2
    Requests = {r1, r2, r3}
    Tenders <- OneTender
    Users <- OneUser
    Seeded <- OneTender
    Seeder = u1
    Calls <- CacheCalls
    PoolSize = 2
    RedisMayFail = TRUE
    Foreign = Foreign
    Leftovers = TRUE
    DbMayFail = FALSE
    MaxCrashes = 1
PROPERTIES
    EveryRequestAnswered
    StaleHeals
