CONSTANTS
  Sources = 2
  MaxBlocks = 2
  MaxWrites = 3
  MaxFaults = 2
SPECIFICATION Spec
INVARIANTS VerifiedIsReal EverySourceAccounted NothingUnverified AliasIsArchived
CHECK_DEADLOCK FALSE
