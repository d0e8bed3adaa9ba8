CONSTANTS
  NSlots = 2
  SlotSize = 3
  Sizes = {2, 3, 4}
  MaxHandles = 2
SPECIFICATION Spec
INVARIANTS
  TypeOK
  AccountsAgree
  RunningImageIntact
