SPECIFICATION StableSpec
CONSTANTS
    a = a
    b = b
    f1 = f1
    f2 = f2
    f3 = f3
    p1 = p1
    p2 = p2
    None = None
    Digests = {a, b}
    Entries = {1, 2}
    EntriesOf <- MCEntriesOf
    Exportable = {1}
    Paths = {p1}
    Written = {p1}
    MaxWorkers = 1
    Futures = {f1, f2, f3}
    MaxStamp = 1
PROPERTIES
    EveryCallSettles
    ImplementsService
