\* The same instance: which error does the client see?
SPECIFICATION Spec
CONSTANTS
    Merchants = {m1, m2}
    None = None
INVARIANTS
    HandlerErrorReachesClient
