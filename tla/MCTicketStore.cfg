CONSTANTS
    Handlers = {h1, h2}
    Offers <- MCOffers
    NoTicket = NoTicket
    MaxEpoch = 1
    MaxReorgs = 1
    MaxCrashes = 1
    MaxSubmits = 3
SPECIFICATION Spec
CHECK_DEADLOCK FALSE
INVARIANTS
    TypeOK
    AcceptedTicketIsFound
    LastTicketIsKept
PROPERTIES
    LastTicketReachesTheTable
