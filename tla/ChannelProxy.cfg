SPECIFICATION FairSpec
CONSTANTS
  MaxFilters = 2
  MaxReceived = 2
  MaxSends = 1
  MaxCalls = 2
  MaxCloses = 1
  CreateNow = {FALSE, TRUE}
  Urgent = {2}
INVARIANTS
  TypeOK
  ListenerContract
  FilterContract
  FiltersReached
PROPERTIES
  EverythingHeard
  CloseCompletes
CHECK_DEADLOCK FALSE
