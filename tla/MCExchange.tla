----------------------------- MODULE MCExchange -----------------------------
(* Small exchanges for TLC: the hardware demo (neutral calls with one      *)
(* second of audio) and a board with a story caller without destination,   *)
(* Arnab's call to the two Belas and neutral calls beside them.            *)
EXTENDS Exchange

CONSTANTS l0, l1, l2, l3, l4, l5, s1, s2

Panel(cords, tap, ring, selected) ==
  [cords |-> cords, tap |-> tap, ring_line |-> ring, selected |-> selected]

Empty == Panel({}, FALSE, NoLine, NoLine)
AtOperator(p) == Panel({{p[1], OperatorPort}}, FALSE, NoLine, p[2])
Cranked(p) ==
  Panel({{p[1], OperatorPort}, {p[2], RingPort}}, FALSE, p[2], p[2])
Patched(p) == Panel({{p[1], p[2]}}, FALSE, NoLine, p[2])
Unselected(p) == Panel({{p[1], p[2]}}, FALSE, NoLine, NoLine)
Tapped(p) == Panel({{p[1], TapPort1}, {p[2], TapPort2}}, TRUE, NoLine, p[2])
PatchedAndAnswering(p, q) ==
  Panel({{p[1], p[2]}, {q[1], OperatorPort}}, FALSE, NoLine, q[2])
PatchedAndCranked(p, q) ==
  Panel({{p[1], p[2]}, {q[2], RingPort}}, FALSE, q[2], p[2])

NoStories == [l \in Lines |-> NoStory]

(* Demo: two calls at a time between four lines, the debug surface beside *)
DemoPairs == {<<l0, l1>>, <<l2, l3>>}
DemoAudio == [p \in Lines \X Lines |-> 1]
DemoSnapshots ==
  {Empty, Cranked(<<l0, l1>>), Patched(<<l0, l1>>), Unselected(<<l0, l1>>),
   Tapped(<<l0, l1>>), AtOperator(<<l0, l1>>), Patched(<<l0, l3>>),
   PatchedAndCranked(<<l0, l1>>, <<l2, l3>>)}

(* Fewer panels for the liveness runs *)
LiveSnapshots ==
  {Empty, Cranked(<<l0, l1>>), Patched(<<l0, l1>>), AtOperator(<<l0, l1>>),
   PatchedAndAnswering(<<l0, l1>>, <<l2, l3>>)}

(* Stories: l1 is a caller without destination whom an empty panel         *)
(* releases (Shapla); l2 is Arnab, whose call starts towards one of the    *)
(* two Belas (l3, l4) and may be led to the other one, which a neutral     *)
(* call may be using; one neutral pair has the placeholder line as its     *)
(* destination, the other one calls from it.                               *)
BothStories == [l \in Lines |-> CASE l = l1 -> s1 [] l = l2 -> s2 [] OTHER -> NoStory]
BothPairs == {<<l1, l0>>, <<l2, l4>>}
FillerPairs == {<<l5, l0>>, <<l0, l3>>}
StoryAudio == [p \in Lines \X Lines |-> IF p[1] = l1 THEN Live ELSE 1]
StorySnapshots ==
  {Empty, Cranked(<<l2, l3>>), Patched(<<l2, l4>>), Cranked(<<l1, l0>>),
   Panel({{l2, l3}, {l0, RingPort}}, FALSE, l0, l4)}
=============================================================================
