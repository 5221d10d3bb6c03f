SPECIFICATION FairSpec
CONSTANTS
  Clients = {c1, c2}
  None = none
INVARIANTS TypeOK CleanWhenOut RegistrationsNest OwnerWaits
PROPERTIES CallsReturn
CHECK_DEADLOCK FALSE
