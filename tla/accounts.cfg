SPECIFICATION FairSpec
CONSTANTS
    r1 = r1
    r2 = r2
    r3 = r3
    a = a
    b = b
    e1 = e1
    e2 = e2
    e3 = e3
    NoRow = NoRow
    NoOne = NoOne
    NoInput = NoInput
    Requests <- MCRequests
    Inputs <- MCInputs
    Emails <- MCEmails
    Clients <- MCUsers
    GivenUsers <- MCUsers
    GivenUser <- MCUser
INVARIANTS
    TypeOK
    UniqueEmails
    NoLostPatch
PROPERTIES
    AuthorityEnds
    RequestsEnd
