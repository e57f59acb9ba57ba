CONSTANTS
    Proc = {p, q}
    NINODE = 3
    NINUM = 4
    NFILE = 1
    Name = {"a", "b"}
    Calls <- MCCalls
    MaxCalls <- MCMaxCalls
    MaxCrashes = 1
SPECIFICATION MCSpec
INVARIANTS RefExact AssertionsHold FreedUnused DiskSound
PROPERTIES WholeOperations
