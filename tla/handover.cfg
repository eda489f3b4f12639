SPECIFICATION FairSpec
CONSTANTS
  Core = {c1, c2, c3}
  Nobody = Nobody
  MaxStrikes = 1
  MaxCrashes = 2
  Windows = {}
INVARIANTS OneWriter OneRenewer
PROPERTIES OneLeader LockStays NobodyHangs StoreOpens
CHECK_DEADLOCK FALSE
