CONSTANTS
    home = home  cabin = cabin  k1 = k1  k2 = k2
    None = None
    Lifespan = lifespan
    Handlers = {h1, h2}
    Writers = {h1}
    Snapshots <- MCSnapshots
    Clients = {a, b}
    Configs = {home, cabin}
    Keys = {k1, k2}
    Entries <- MCEntries
SPECIFICATION RoutesSpec
INVARIANTS RuntimeTypeOK SessionIsRegistered EventsMatchRegistry SyncConverges SyncedSessionIsWanted AnswersAreTheirs
PROPERTIES ImplementsContract SyncReturns
