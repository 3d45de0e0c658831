SPECIFICATION Spec
CONSTANTS
  LastPC = 4
  BtbEntries = 4
  Programs <- AllPrograms
INVARIANTS TypeOK FollowsIsa NextIsInFlight CommitsInstructions
PROPERTY AlwaysExecutes
