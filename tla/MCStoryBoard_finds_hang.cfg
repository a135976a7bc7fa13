SPECIFICATION Spec
CONSTANTS
  l0 = l0 l1 = l1 l2 = l2 l3 = l3 l4 = l4 l5 = l5
  l6 = l6 l7 = l7 l8 = l8 l9 = l9 l10 = l10 l11 = l11
  Lines = {l0, l1, l2, l3, l4, l5, l6, l7, l8, l9, l10, l11}
  NoLine = NoLine
  Placeholder = l0
  Shapla = l1 Kashem = l2 Arnab = l3 DogLine = l4 CatLine = l5
  Rahman = l6 Farhana = l7 Nahid = l11
  Contacts = {l8, l9, l10}
  Victims = {l0, l1, l4, l5, l10}
  ScamLimit = 5
  CallTarget = 3
  StoryTargets = {3}
  OpenThreads <- SurveillanceLast

INVARIANT NeutralPairExists
