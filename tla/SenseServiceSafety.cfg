CONSTANTS
    home = home  cabin = cabin  k1 = k1  k2 = k2
    None = None
    Lifespan = lifespan
    Handlers = {h1, h2, h3}
    Clients = {a, b}
    Configs = {home, cabin}
    Keys = {k1, k2}
    Entries <- MCEntries
SPECIFICATION SafetySpec
SYMMETRY Symmetry
INVARIANTS
    InductiveInv AtMostOneOpenClient NoLeakedClient OnePollerPerSession ReadsOpenSession ShutdownIsClean
PROPERTIES SlotIsPinned OnlyHolderReports KeepsSlot
