SPECIFICATION Spec
CONSTANTS
    Conns = {c1}
    Insts = {i1}
    MaxClient = 2
    MaxInbox = 2
    MaxReqs = 2
INVARIANT CredentialsReused
CHECK_DEADLOCK FALSE
