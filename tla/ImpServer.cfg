\* Two connections to a server that takes one.
SPECIFICATION FairSpec
CONSTANTS
    Capacity = 2
    Clients = {c1, c2}
    MaximumConnectedClients = 1
    NoClient = NoClient
INVARIANTS ClientsListed OwnEntriesLeave EndedClientsLeave
PROPERTIES ConnectionsSettle EndedClientsAreReported StopDisconnects
CHECK_DEADLOCK FALSE
