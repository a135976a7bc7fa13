SPECIFICATION Spec
CONSTANTS
  shapla = shapla nahid = nahid rahman = rahman w1 = w1 w2 = w2
  NoOne = NoOne
  Text = Text
  Callers = {shapla, nahid, rahman}
  Shapla = shapla Nahid = nahid Rahman = rahman
  Threads = {w1, w2}
  Scenes <- AllScenes
  MaxChunks = 2

PROPERTIES
  PenaltyNeedsATurn
