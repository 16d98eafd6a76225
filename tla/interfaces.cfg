SPECIFICATION Spec
CONSTANTS
  Indexes <- MCIndexes
  Links <- MCLinks
  CIDRs <- MCCIDRs
  InitLinks <- MCInitLinks
  MaxChanges = 2
INVARIANTS
  TypeOK
  EveryInterfaceOnce
  InIndexOrder
  AddressesWereHeld
PROPERTIES
  UnreadableIsNotFatal
  ImplementsListing
