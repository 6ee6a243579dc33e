CONSTANTS
  Params = 2
  Low <- MCLow
  High <- MCHigh
  Offered <- MCOffered
  Default <- MCDefault
  Attempts = 3
  MaxMessages = 2
  MaxRestarts = 1
SPECIFICATION FairSpec
INVARIANTS TypeOK CommittedIsValid AppliedIsBounded NothingUnasked WritesAreWhole
PROPERTIES ConfigTakesEffect CommandIsCarriedOut
