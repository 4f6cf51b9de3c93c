\* A healthy system: is a get after an acknowledged update as new as it?
SPECIFICATION Spec
CONSTANTS
    None = None
    t1 = t1
    t2 = t2
    u1 = u1
    u2 = u2
    Requests = {r1, r2, r3}
    Tenders <- OneTender
    Users <- OneUser
    Seeded <- OneTender
    Seeder = u1
    Calls <- CacheCalls
    PoolSize = 3
    RedisMayFail = FALSE
    Foreign = Foreign
    Leftovers = FALSE
    DbMayFail = FALSE
    MaxCrashes = 0
SYMMETRY AnyOrder
INVARIANT ReadYourWrites
