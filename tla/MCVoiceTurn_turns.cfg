SPECIFICATION FairSpec
CONSTANTS
  shapla = shapla nahid = nahid rahman = rahman w1 = w1 w2 = w2
  NoOne = NoOne
  Text = Text
  Callers = {shapla, nahid, rahman}
  Shapla = shapla Nahid = nahid Rahman = rahman
  Threads = {w1, w2}
  Scenes <- AllScenes
  MaxChunks = 2

INVARIANTS
  TypeOK AnswersAreOwn CancelledTurnFallsSilent NoOrphanProcesses
PROPERTIES
  EveryTurnEnds MutexIsReleased
