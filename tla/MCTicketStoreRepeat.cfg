CONSTANTS
    Handlers = {h1}
    Offers <- MCOffers
    NoTicket = NoTicket
    MaxEpoch = 1
    MaxReorgs = 0
    MaxCrashes = 0
    MaxSubmits = 3
SPECIFICATION Spec
CHECK_DEADLOCK FALSE
PROPERTIES
    SameTicketIsNotAcceptedTwice
