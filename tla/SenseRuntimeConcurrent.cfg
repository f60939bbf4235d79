CONSTANTS
    home = home  cabin = cabin  k1 = k1  k2 = k2
    None = None
    Lifespan = lifespan
    Handlers = {h1, h2}
    Writers = {h1, h2}
    Clients = {a, b}
    Configs = {home, cabin}
    Keys = {k1, k2}
    Entries <- MCEntries
SPECIFICATION RuntimeSpec
INVARIANTS SessionIsRegistered
