SPECIFICATION FairSpec
CONSTANTS
  Kinds = {"Digital", "Cabinet"}
  Talks = {0, 2, 3}
  MaxSequence <- SequenceBound
  MaxPresses = 1
  MaxFaults = 1

PROPERTY CabinetReconnects
