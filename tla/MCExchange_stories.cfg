SPECIFICATION Spec
CONSTANTS
  l0 = l0 l1 = l1 l2 = l2 l3 = l3 l4 = l4 l5 = l5 s1 = s1 s2 = s2
  Lines = {l0, l1, l2, l3, l4, l5}
  NoLine = NoLine OperatorPort = Operator RingPort = RingGenerator
  TapPort1 = Tap1 TapPort2 = Tap2
  Placeholder = l0
  PlaceholderCallers = {l1}
  HangUpCallers = {l1}
  BelaCallers = {l2}
  DogLine = l3 CatLine = l4
  Stories = {s1, s2}
  NoStory = NoStory
  StoryOf <- BothStories
  StoryPairs <- BothPairs
  NeutralPairs <- FillerPairs
  Snapshots <- StorySnapshots
  CallTarget = 2
  StoryCallTarget = 2
  PatienceValues = {1}
  RingDelays = {0}
  AudioOf <- StoryAudio
  RingGrace = 0
  DisconnectGrace = 1
  ShiftDuration = 1
  DebugAttached = FALSE

INVARIANTS LinesExclusive StoryGateHolds

PROPERTIES ConnectsWhatIsPatched ServedCallersAreKept ImplementsBoard
