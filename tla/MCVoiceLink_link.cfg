SPECIFICATION FairSpec
CONSTANTS
  Scenes <- AllScenes
  ChunkCount = 2
  SocketBuffer = 1

INVARIANTS
  TypeOK RecordingsAreWhole
PROPERTIES
  ReleasedTurnIsHeard VoiceComesBack
