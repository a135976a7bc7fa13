SPECIFICATION FairSpec
CONSTANTS
  l0 = l0 l1 = l1 l2 = l2 l3 = l3 l4 = l4 l5 = l5 s1 = s1 s2 = s2
  Lines = {l0, l1, l2, l3}
  NoLine = NoLine OperatorPort = Operator RingPort = RingGenerator
  TapPort1 = Tap1 TapPort2 = Tap2
  Placeholder = l0
  PlaceholderCallers = {}
  HangUpCallers = {}
  BelaCallers = {}
  DogLine = l0 CatLine = l0
  Stories = {}
  NoStory = NoStory
  StoryOf <- NoStories
  StoryPairs = {}
  NeutralPairs <- DemoPairs
  Snapshots <- LiveSnapshots
  CallTarget = 2
  StoryCallTarget = 0
  PatienceValues = {1}
  RingDelays = {1}
  AudioOf <- DemoAudio
  RingGrace = 0
  DisconnectGrace = 1
  ShiftDuration = 2
  DebugAttached = FALSE


PROPERTIES HandlerReturns NobodyWaitsForever EndedAudioFinishes ShiftsSettle
