CONSTANT EventCap = 3
SPECIFICATION FairSpec
INVARIANTS
  AddressWithStatus
  

  
