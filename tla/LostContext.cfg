\* Does every record of a request name it?
SPECIFICATION Spec
CONSTANTS
    None = None
    c1 = c1
    Requests = {r1, r2, r3}
    ClientIds <- OneClientId
    MaxBodySize = 2
    Inputs <- AllInputs
SYMMETRY AnyOrder
INVARIANT RecordsHaveContext
