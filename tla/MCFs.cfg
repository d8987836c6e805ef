SPECIFICATION Spec
CONSTANTS
    Proc = {p1, p2}
    None = None
    Name = {"d", "f"}
    Calls <- MCCalls
    NINODES = 4
    NBLOCKS = 5
    NDIRECT = 1
    NINDIRECT = 1
    MaxCalls = 3
SYMMETRY Symmetry
INVARIANTS
    RecoversConsistent NoPanic RefsExact CacheCoherent
