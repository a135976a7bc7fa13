---------------------------- MODULE MCStoryBoard ----------------------------
(* The exchange's story lines with two contacts and two victims; a run     *)
(* starts with one or two threads open, the others have ended.             *)
EXTENDS StoryBoard

CONSTANTS l0, l1, l2, l3, l4, l5, l6, l7, l8, l9, l10, l11

OpenAtFirst == {{"Shapla"}, {"DirtyWork"}, {"BelaBose", "Nahid"}}
SurveillanceLast == {{"DirtyWork"}}
=============================================================================
