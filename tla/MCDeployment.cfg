SPECIFICATION FairSpec
CONSTANTS
  Input <- MCInput
  None = None
  Torn = Torn
  Elf = {1, 2}
  Client = {1, 2}
  Name = {1}
  MaxChanges = 1
  MaxFaults = 1
INVARIANTS TypeOK StartedIsEmbedded ConfigIsTested
PROPERTIES EmbeddedMatches InstallHeals
CHECK_DEADLOCK FALSE
