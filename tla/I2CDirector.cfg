SPECIFICATION FairSpec
CONSTANT MaxRequests = 6
INVARIANTS DriverMatches TransferAsked
PROPERTIES WishServed ListensAgain
CHECK_DEADLOCK FALSE
