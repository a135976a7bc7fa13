---------------------------- MODULE BoardProofs ----------------------------
(* Exchange implements LineBoard, for every board, panel and timing.       *)
EXTENDS ExchangeProofs

-----------------------------------------------------------------------------
(* The board behind the calls *)

OnBoard(c) == [phase |-> c.phase, callee |-> c.callee]
B == [l \in Lines |-> OnBoard(calls[l])]

(* A line without a call has no destination either. *)
QuietLinesAreBare == \A l \in Lines : calls[l].phase = "None" => calls[l].callee = NoLine

BoardInv == TypeOK /\ QuietLinesAreBare

(* Replacing a call replaces what is on its line. *)
LEMMA UpdateOnBoard ==
  ASSUME CallsTyped(calls), NEW f \in Lines, NEW c \in CallType,
         calls' = [calls EXCEPT ![f] = c]
  PROVE  B' = [B EXCEPT ![f] = OnBoard(c)]
BY DEF B, OnBoard, CallsTyped

(* Calls that are taken off leave their lines quiet. *)
LEMMA WithoutOnBoard ==
  ASSUME NEW gone \in SUBSET Lines, calls' = Without(calls, gone)
  PROVE  B' = [l \in Lines |-> IF l \in gone THEN Board!Quiet ELSE B[l]]
BY DEF B, OnBoard, Without, NoCall, Board!Quiet

(* The busy lines are those with a call. *)
LEMMA BusyIsActive == Board!Busy = Active(calls)
BY DEF Board!Busy, Active

(* One call that moves on is a move of the board. *)
LEMMA MoveOnBoard ==
  ASSUME CallsTyped(calls), NEW f \in Lines, calls[f].phase # "None",
         NEW c \in CallType, calls' = [calls EXCEPT ![f] = c],
         c.phase \in {calls[f].phase} \cup Board!MovesOn[calls[f].phase],
         c.callee \in Lines,
         c.callee = calls[f].callee \/ f \in BelaCallers
  PROVE  Board!Next
<1>1. B' = [B EXCEPT ![f] = [phase |-> c.phase, callee |-> c.callee]]
  BY UpdateOnBoard DEF OnBoard
<1>2. B[f].phase = calls[f].phase /\ B[f].callee = calls[f].callee
  BY DEF B, OnBoard
<1>3. f \in Board!Busy
  BY BusyIsActive DEF Active
<1>4. Board!Serve(f)
  BY <1>1, <1>2 DEF Board!Serve, B, OnBoard
<1> QED  BY <1>3, <1>4 DEF Board!Next

(* Calls that end together, end on the board. *)
LEMMA EndOnBoard ==
  ASSUME NEW gone \in SUBSET Active(calls), calls' = Without(calls, gone),
         \/ \E l \in gone : gone = {l}
         \/ \A l \in gone : calls[l].phase = "Waiting"
         \/ \A l \in gone : calls[l].phase \notin {"OperatorSession", "Connected"}
         \/ \A l \in gone : calls[l].phase = "Connected"
         \/ gone = Active(calls)
  PROVE  Board!Next
<1>1. gone \in SUBSET Lines
  BY DEF Active
<1>2. B' = [l \in Lines |-> IF l \in gone THEN Board!Quiet ELSE B[l]]
  BY <1>1, WithoutOnBoard
<1>3. Board!EndTogether(gone)
  BY <1>1, BusyIsActive DEF Board!EndTogether, Board!Served
<1>4. Board!End
  BY <1>2, <1>3, BusyIsActive DEF Board!End, B, OnBoard
<1> QED  BY <1>4 DEF Board!Next

-----------------------------------------------------------------------------
(* Each step is a step of the board or leaves it alone. *)

(* Whatever the operator does to the call in focus *)
LEMMA OperateOnBoard ==
  ASSUME TypeOK, NEW f \in Lines \cup {NoLine}, Operate(f)
  PROVE  Board!Next \/ UNCHANGED calls
<1>0. CallsTyped(calls)
  BY DEF TypeOK
<1>1. CASE NoFocusedCall(f) \/ Refuse(f)
  BY <1>1 DEF NoFocusedCall, Refuse
<1>2. CASE Misroute(f) \/ HangUp(f) \/ MisrouteRinging(f) \/ FinishFocused(f)
  <2>1. f \in Active(calls) /\ calls' = Without(calls, {f})
    BY <1>2 DEF Misroute, HangUp, MisrouteRinging, FinishFocused, Advances
  <2> QED  BY <2>1, EndOnBoard
<1>3. ASSUME Advances(f)
      PROVE  /\ f \in Lines /\ calls[f].phase # "None"
             /\ Retargeted(f) \in CallType
             /\ Retargeted(f).callee \in Lines
             /\ Retargeted(f).callee = calls[f].callee \/ f \in BelaCallers
             /\ Retargeted(f).phase = calls[f].phase
  BY <1>0, <1>3, RetargetedTyped DEF Advances, Active
<1>4. ASSUME NEW c \in CallType, Advances(f), Becomes(f, c),
             c.callee = Retargeted(f).callee,
             c.phase \in {calls[f].phase} \cup Board!MovesOn[calls[f].phase]
      PROVE  Board!Next
  BY <1>0, <1>3, <1>4, MoveOnBoard DEF Becomes
<1>5. CASE ConnectByTap(f) \/ ConnectDirect(f)
  <2>1. Advances(f) /\ Becomes(f, Connect(Retargeted(f), f))
        /\ calls[f].phase \in {"Waiting", "OperatorSession", "AwaitingRouting", "Ringing"}
    BY <1>5 DEF ConnectByTap, ConnectDirect, Routing
  <2>2. "Connected" \in Board!MovesOn[calls[f].phase]
    BY <2>1 DEF Board!MovesOn
  <2> QED  BY <1>3, <1>4, <2>1, <2>2, ConnectTyped
<1>6. CASE Answer(f)
  <2> DEFINE c == [Retargeted(f) EXCEPT !.phase = "OperatorSession", !.patience = 0]
  <2>1. c \in CallType /\ c.callee = Retargeted(f).callee /\ c.phase = "OperatorSession"
    BY <1>3, <1>6 DEF Answer, CallType, Phases
  <2>2. "OperatorSession" \in Board!MovesOn[calls[f].phase]
    BY <1>6 DEF Answer, Board!MovesOn
  <2> QED  BY <1>4, <1>6, <2>1, <2>2 DEF Answer
<1>7. CASE StartRing(f)
  <2> DEFINE c(d) == [Retargeted(f) EXCEPT !.phase = "Ringing", !.ring_ready = d,
                        !.ring_grace = RingGrace + 1,
                        !.rung = @ \cup {Retargeted(f).callee}]
  <2>1. PICK d \in RingDelays : Becomes(f, c(d))
    BY <1>7 DEF StartRing
  <2>2. RingGrace + 1 \in Timers /\ d \in Timers
    BY TimeAssumption DEF Timers
  <2>3. c(d) \in CallType /\ c(d).callee = Retargeted(f).callee /\ c(d).phase = "Ringing"
    BY <1>3, <1>7, <2>2 DEF StartRing, CallType, Phases
  <2>4. "Ringing" \in Board!MovesOn[calls[f].phase]
    BY <1>7 DEF StartRing, Routing, Board!MovesOn
  <2> QED  BY <1>4, <1>7, <2>1, <2>3, <2>4 DEF StartRing
<1>8. CASE LeaveOperator(f)
  <2> DEFINE c == [Retargeted(f) EXCEPT !.phase = "AwaitingRouting"]
  <2>1. c \in CallType /\ c.callee = Retargeted(f).callee /\ c.phase = "AwaitingRouting"
    BY <1>3, <1>8 DEF LeaveOperator, CallType, Phases
  <2>2. "AwaitingRouting" \in Board!MovesOn[calls[f].phase]
    BY <1>8 DEF LeaveOperator, Board!MovesOn
  <2> QED  BY <1>4, <1>8, <2>1, <2>2 DEF LeaveOperator
<1>9. CASE GiveUpRing(f)
  <2> DEFINE c == [Retargeted(f) EXCEPT !.phase = "AwaitingRouting", !.ring_grace = Never]
  <2>1. c \in CallType /\ c.callee = Retargeted(f).callee /\ c.phase = "AwaitingRouting"
    BY <1>3, <1>9 DEF GiveUpRing, CallType, Phases, Timers
  <2>2. "AwaitingRouting" \in Board!MovesOn[calls[f].phase]
    BY <1>9 DEF GiveUpRing, Board!MovesOn
  <2> QED  BY <1>4, <1>9, <2>1, <2>2 DEF GiveUpRing
<1>10. CASE KeepCircuit(f)
  <2> DEFINE c == [Retargeted(f) EXCEPT !.disconnect = Never]
  <2>1. c \in CallType /\ c.callee = Retargeted(f).callee /\ c.phase = calls[f].phase
    BY <1>3, <1>10 DEF KeepCircuit, CallType, Timers
  <2> QED  BY <1>4, <1>10, <2>1 DEF KeepCircuit
<1>11. CASE BreakCircuit(f)
  <2> DEFINE c == [Retargeted(f) EXCEPT
                     !.disconnect = IF @ = Never THEN DisconnectGrace ELSE @]
  <2>1. DisconnectGrace \in Timers
    BY TimeAssumption DEF Timers
  <2>2. c \in CallType /\ c.callee = Retargeted(f).callee /\ c.phase = calls[f].phase
    BY <1>3, <1>11, <2>1 DEF BreakCircuit, CallType
  <2> QED  BY <1>4, <1>11, <2>2 DEF BreakCircuit
<1>12. CASE Stay(f)
  BY <1>3, <1>4, <1>12 DEF Stay
<1> QED  BY <1>1, <1>2, <1>5, <1>6, <1>7, <1>8, <1>9, <1>10, <1>11, <1>12 DEF Operate

(* A new call is put on free lines. *)
LEMMA OffersOnBoard ==
  ASSUME TypeOK, NEW caller \in Lines, NEW callee \in Lines, OffersCall(caller, callee)
  PROVE  Board!Next
<1>1. PICK t \in PatienceValues : calls' = [calls EXCEPT ![caller] = NewCall(callee, t)]
  BY DEF OffersCall
<1>2. NewCall(callee, t) \in CallType
  BY TimeAssumption, NewCallTyped
<1>3. OnBoard(NewCall(callee, t)) = [phase |-> "Waiting", callee |-> callee]
  BY DEF OnBoard, NewCall, NoCall
<1>4. B' = [B EXCEPT ![caller] = [phase |-> "Waiting", callee |-> callee]]
  BY <1>1, <1>2, <1>3, UpdateOnBoard DEF TypeOK
<1>5. ASSUME NEW l \in Lines, LineIsFree(calls, l) PROVE Board!IsFree(l)
  BY <1>5, BusyIsActive DEF LineIsFree, CallUsesLine, Board!IsFree, Board!Uses, Active
<1>6. Board!Offer(caller, callee)
  BY <1>4, <1>5 DEF OffersCall, Board!Offer, B, OnBoard
<1> QED  BY <1>6 DEF Board!Next

(* Whoever offers a call, offers it on free lines. *)
LEMMA OffersAreOffers ==
  ASSUME TypeOK,
         \/ \E p \in StoryPairs : OfferStory(p[1], p[2])
         \/ \E p \in NeutralPairs : OfferNeutral(p[1], p[2])
         \/ \E p \in Pairs : InjectCall(p[1], p[2])
  PROVE  \E p \in Pairs : OffersCall(p[1], p[2])
<1>1. ASSUME NEW p \in StoryPairs, OfferStory(p[1], p[2])
      PROVE  OffersCall(p[1], p[2])
  BY <1>1, CallAssumption DEF OfferStory, OffersCall
<1>2. ASSUME NEW p \in NeutralPairs, OfferNeutral(p[1], p[2])
      PROVE  OffersCall(p[1], p[2])
  BY <1>2, CallAssumption DEF OfferNeutral, OffersCall
<1>3. ASSUME NEW p \in Pairs, InjectCall(p[1], p[2])
      PROVE  OffersCall(p[1], p[2])
  BY <1>3, CallAssumption DEF InjectCall, OffersCall, LineIsFree, CallUsesLine
<1> QED  BY <1>1, <1>2, <1>3, CallAssumption

(* Every step of the exchange is a step of the board or leaves it alone. *)
LEMMA StepsOnBoard ==
  ASSUME BoardInv, [Next]_vars
  PROVE  Board!Next \/ B' = B
<1>0. TypeOK /\ CallsTyped(calls)
  BY DEF BoardInv, TypeOK
<1>1. CASE UNCHANGED calls
  BY <1>1 DEF B, OnBoard
<1>2. CASE StartNeutral \/ EndRefill \/ KeepShift \/ SetDebugSwitches \/ UNCHANGED vars
  BY <1>1, <1>2 DEF StartNeutral, EndRefill, KeepShift, SetDebugSwitches, vars
<1>3. ASSUME NEW f \in Lines \cup {NoLine}, Operate(f) PROVE Board!Next \/ B' = B
  BY <1>0, <1>1, <1>3, OperateOnBoard
<1>4. CASE UpdateRingActivation
  <2>1. ASSUME NEW l \in CrankedCalls, calls' = [calls EXCEPT ![l].ring_activated = TRUE]
        PROVE  B' = B
    BY <1>0, <2>1 DEF B, OnBoard, CallsTyped, CallType
  <2> QED  BY <1>1, <1>4, <2>1 DEF UpdateRingActivation
<1>5. CASE ConnectReadyDirectCalls
  <2> DEFINE through == {l \in Lines : ReadyToConnect(l)}
  <2>1. through \in SUBSET {l \in Board!Busy : B[l].phase = "Ringing"}
    BY BusyIsActive DEF ReadyToConnect, B, OnBoard, Active
  <2>2. ASSUME NEW l \in through
        PROVE  OnBoard(calls'[l]) = [OnBoard(calls[l]) EXCEPT !.phase = "Connected"]
    <3>1. calls'[l] = Connect(calls[l], l)
      BY <1>5 DEF ConnectReadyDirectCalls
    <3>2. calls[l] \in CallType /\ calls[l].callee \in Lines
      BY <1>0 DEF CallsTyped, ReadyToConnect
    <3> QED  BY <3>1, <3>2, ConnectTyped DEF OnBoard
  <2>3. ASSUME NEW l \in Lines \ through PROVE calls'[l] = calls[l]
    BY <1>5 DEF ConnectReadyDirectCalls
  <2>4. B' = [l \in Lines |-> IF l \in through
                             THEN [B[l] EXCEPT !.phase = "Connected"] ELSE B[l]]
    BY <2>2, <2>3 DEF B
  <2> HIDE DEF through
  <2>5. Board!PatchThrough
    BY <2>1, <2>4 DEF Board!PatchThrough, B, OnBoard
  <2> QED  BY <2>5 DEF Board!Next
<1>6. CASE FinishReadyConnectedCalls
  <2>1. ReadyToFinish \subseteq Active(calls) /\ calls' = Without(calls, ReadyToFinish)
        /\ \A l \in ReadyToFinish : calls[l].phase = "Connected"
    BY <1>6 DEF FinishReadyConnectedCalls, ReadyToFinish, Active
  <2> QED  BY <2>1, EndOnBoard
<1>7. CASE Snapshot \/ DebugSnapshot
  <2>1. Expired(calls) \subseteq Active(calls) /\ calls' = Without(calls, Expired(calls))
        /\ \A l \in Expired(calls) : calls[l].phase = "Waiting"
    BY <1>7 DEF Snapshot, Receive, DebugSnapshot, Expired, Active
  <2> QED  BY <2>1, EndOnBoard
<1>8. CASE SettleShift \/ ResetRun
  <2>1. B' = [l \in Lines |-> Board!Quiet]
    BY <1>8 DEF SettleShift, ResetRun, Without, NoCall, B, OnBoard, Board!Quiet
  <2>2. \A l \in Lines \ Active(calls) : B[l] = Board!Quiet
    BY DEF BoardInv, QuietLinesAreBare, Active, B, OnBoard, Board!Quiet
  <2>3. B' = [l \in Lines |-> IF l \in Board!Busy THEN Board!Quiet ELSE B[l]]
    BY <2>1, <2>2, BusyIsActive
  <2>4. Board!EndTogether(Board!Busy)
    BY DEF Board!EndTogether
  <2>5. Board!End
    BY <2>3, <2>4 DEF Board!End, B, OnBoard
  <2> QED  BY <2>5 DEF Board!Next
<1>9. CASE Tick
  <2>1. \A l \in Lines : OnBoard(calls'[l]) = OnBoard(calls[l])
    BY <1>0, <1>9, OlderTyped DEF Tick, CallsTyped, OnBoard
  <2> QED  BY <2>1 DEF B
<1>10. ASSUME NEW p \in Pairs, OffersCall(p[1], p[2]) PROVE Board!Next
  BY <1>0, <1>10, OffersOnBoard DEF Pairs
<1>11. CASE \E p \in Pairs : OffersCall(p[1], p[2])
  BY <1>10, <1>11
<1>12. CASE (\E p \in StoryPairs : OfferStory(p[1], p[2]))
             \/ (\E p \in NeutralPairs : OfferNeutral(p[1], p[2]))
             \/ (\E p \in Pairs : InjectCall(p[1], p[2]))
  BY <1>0, <1>11, <1>12, OffersAreOffers
<1> QED  BY <1>2, <1>3, <1>4, <1>5, <1>6, <1>7, <1>8, <1>9, <1>12 DEF Next, Handle, Debug

(* The board's moves keep quiet lines bare, so the exchange does. *)
LEMMA BoardKeepsLinesBare ==
  ASSUME BoardInv, Board!Next \/ B' = B
  PROVE  QuietLinesAreBare'
<1>1. \A l \in Lines : B[l].phase = calls[l].phase /\ B[l].callee = calls[l].callee
  BY DEF B, OnBoard
<1>2. \A l \in Lines : B'[l].phase = calls'[l].phase /\ B'[l].callee = calls'[l].callee
  BY DEF B, OnBoard
<1>3. \A l \in Lines : B[l] = [phase |-> B[l].phase, callee |-> B[l].callee]
  BY DEF B, OnBoard
<1> SUFFICES ASSUME NEW l \in Lines, B'[l].phase = "None" PROVE B'[l].callee = NoLine
  BY <1>2 DEF QuietLinesAreBare
<1>4. B[l].phase = "None" => B[l].callee = NoLine
  BY <1>1 DEF BoardInv, QuietLinesAreBare
<1>5. CASE B' = B
  BY <1>4, <1>5
<1>6. CASE \E k \in Board!Busy : Board!Serve(k)
  <2>1. PICK k \in Board!Busy : Board!Serve(k)
    BY <1>6
  <2>2. k \in Lines /\ calls[k].phase \in Phases
    BY <2>1, BusyIsActive DEF BoardInv, TypeOK, CallsTyped, CallType, Active
  <2>3. PICK phase \in {calls[k].phase} \cup Board!MovesOn[calls[k].phase],
             callee \in {calls[k].callee} \cup (IF k \in BelaCallers THEN Lines ELSE {}) :
          B' = [B EXCEPT ![k] = [phase |-> phase, callee |-> callee]]
    BY <2>1, <2>2, <1>1 DEF Board!Serve, B, OnBoard
  <2>4. phase # "None"
    BY <2>2, <2>3 DEF Board!MovesOn, Phases
  <2>5. B'[l] = IF l = k THEN [phase |-> phase, callee |-> callee] ELSE B[l]
    BY <2>3 DEF B
  <2> QED  BY <1>4, <2>4, <2>5
<1>7. CASE Board!PatchThrough
  <2>1. PICK through \in SUBSET Lines :
          B' = [k \in Lines |-> IF k \in through
                               THEN [B[k] EXCEPT !.phase = "Connected"] ELSE B[k]]
    BY <1>7 DEF Board!PatchThrough, Board!Busy, B, OnBoard
  <2>2. B'[l] = IF l \in through THEN [phase |-> "Connected", callee |-> B[l].callee] ELSE B[l]
    BY <2>1, <1>3
  <2> QED  BY <1>4, <2>2
<1>8. CASE Board!End
  <2>1. PICK gone \in SUBSET Lines :
          B' = [k \in Lines |-> IF k \in gone THEN Board!Quiet ELSE B[k]]
    BY <1>8 DEF Board!End, Board!Busy, B, OnBoard
  <2> QED  BY <1>4, <2>1 DEF Board!Quiet
<1>9. CASE \E caller, callee \in Lines : Board!Offer(caller, callee)
  <2>1. PICK caller \in Lines, callee \in Lines :
          B' = [B EXCEPT ![caller] = [phase |-> "Waiting", callee |-> callee]]
    BY <1>9 DEF Board!Offer, B, OnBoard
  <2>2. B'[l] = IF l = caller THEN [phase |-> "Waiting", callee |-> callee] ELSE B[l]
    BY <2>1 DEF B
  <2> QED  BY <1>4, <2>2
<1> QED  BY <1>5, <1>6, <1>7, <1>8, <1>9 DEF Board!Next

(* To its subscribers the exchange is a LineBoard (refill_calls, advance,  *)
(* connect_ready_direct_calls, expire_calls, settle_shift and the debug    *)
(* commands of lib.rs): calls come on free lines, are served in order and  *)
(* are not swept away with another one that is served.                     *)
THEOREM ExchangeImplementsBoard == Spec => ImplementsBoard
<1>1. ASSUME Init PROVE Board!Init /\ QuietLinesAreBare
  BY <1>1 DEF Init, Board!Init, Board!Quiet, QuietLinesAreBare, NoCall
<1>2. ASSUME BoardInv, [Next]_vars PROVE [Board!Next]_B /\ QuietLinesAreBare'
  BY <1>2, StepsOnBoard, BoardKeepsLinesBare
<1>3. Spec => []QuietLinesAreBare
  <2>1. TypeOK /\ QuietLinesAreBare /\ [Next]_vars => QuietLinesAreBare'
    BY <1>2 DEF BoardInv
  <2>2. Init => QuietLinesAreBare
    BY <1>1
  <2> QED  BY <2>1, <2>2, TypeCorrect, PTL DEF Spec
<1>4. TypeOK /\ QuietLinesAreBare /\ [Next]_vars => [Board!Next]_B
  BY <1>2 DEF BoardInv
<1>5. Init => Board!Init
  BY <1>1
<1>6. [Board!Next]_B =>
        [Board!Next]_[l \in Lines |-> [phase |-> calls[l].phase, callee |-> calls[l].callee]]
  BY DEF B, OnBoard
<1> QED  BY <1>3, <1>4, <1>5, <1>6, TypeCorrect, PTL DEF Spec, ImplementsBoard, Board!Spec
=============================================================================
