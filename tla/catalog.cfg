SPECIFICATION FairSpec
CONSTANTS
    r1 = r1
    r2 = r2
    r3 = r3
    h = h
    Null = Null
    NoRow = NoRow
    NoInput = NoInput
    Requests <- MCRequests
    Inputs <- MCInputs
    Positions <- MCPositions
    Rates <- MCRates
    GivenHalls <- MCHalls
    GivenHall <- MCHall
    GivenSeats <- MCSeats
INVARIANTS
    TypeOK
    UniquePositions
    AllOrNothing
    NoLostPatch
    NoWaitCircle
PROPERTIES
    SeatsNeverReturn
    RequestsEnd
