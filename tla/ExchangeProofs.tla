--------------------------- MODULE ExchangeProofs ---------------------------
(* Theorems of Exchange, for every board, panel and timing. *)
EXTENDS Exchange, TLAPS

-----------------------------------------------------------------------------
(* What the operators on call tables return. *)

(* Taking calls off the board leaves a call table. *)
LEMMA WithoutTyped ==
  ASSUME NEW cs, CallsTyped(cs), NEW gone
  PROVE  CallsTyped(Without(cs, gone))
BY DEF CallsTyped, Without, NoCall, CallType, Phases, Timers, Never

(* So does putting a typed call in. *)
LEMMA UpdateTyped ==
  ASSUME NEW cs, CallsTyped(cs), NEW f \in Lines, NEW c \in CallType,
         c.phase # "None" => c.callee \in Lines
  PROVE  CallsTyped([cs EXCEPT ![f] = c])
BY DEF CallsTyped

(* A new call is a call. *)
LEMMA NewCallTyped ==
  ASSUME NEW callee \in Lines, NEW patience \in Nat
  PROVE  /\ NewCall(callee, patience) \in CallType
         /\ NewCall(callee, patience).callee = callee
BY DEF NewCall, NoCall, CallType, Phases, Timers, Never

(* Adding a new call to the board leaves a call table. *)
LEMMA OfferTyped ==
  ASSUME NEW cs, CallsTyped(cs), NEW caller \in Lines, NEW callee \in Lines,
         NEW patience \in Nat
  PROVE  CallsTyped([cs EXCEPT ![caller] = NewCall(callee, patience)])
BY NewCallTyped, UpdateTyped

(* Completing a circuit keeps the type and the destination. *)
LEMMA ConnectTyped ==
  ASSUME NEW c \in CallType, NEW caller \in Lines, c.callee \in Lines
  PROVE  /\ Connect(c, caller) \in CallType
         /\ Connect(c, caller).callee = c.callee
         /\ Connect(c, caller).phase = "Connected"
         /\ Connect(c, caller).rung = c.rung
<1>1. AudioOf[<<caller, c.callee>>] \in Timers
  BY TimeAssumption DEF Pairs
<1> QED  BY <1>1 DEF Connect, CallType, Phases, Timers, Never

(* A call that is led to a Bela stays a call in the same phase. *)
LEMMA RetargetedTyped ==
  ASSUME CallsTyped(calls), NEW f \in Lines, calls[f].phase # "None"
  PROVE  /\ Retargeted(f) \in CallType
         /\ Retargeted(f).callee \in Lines
         /\ \/ Retargeted(f).callee = calls[f].callee
            \/ f \in BelaCallers /\ Retargeted(f).callee \in Belas
         /\ Retargeted(f).phase = calls[f].phase
         /\ Retargeted(f).rung = calls[f].rung
         /\ Retargeted(f).ring_ready = calls[f].ring_ready
<1>1. calls[f] \in CallType /\ calls[f].callee \in Lines
  BY DEF CallsTyped
<1>2. CatLine \in Lines /\ DogLine \in Lines
  BY LineAssumption
<1>3. Destination(f) \in Lines
      /\ (Destination(f) = calls[f].callee \/ (f \in BelaCallers /\ Destination(f) \in Belas))
  BY <1>1, <1>2 DEF Destination, Follows, Belas
<1> QED  BY <1>1, <1>3 DEF Retargeted, CallType

(* A finished call gates its story with its own circuit. *)
LEMMA GateTyped ==
  ASSUME NEW cs, CallsTyped(cs), NEW done \in SUBSET Lines,
         gates \in [Stories -> Pairs \cup {NoGate}]
  PROVE  GateAfter(cs, done) \in [Stories -> Pairs \cup {NoGate}]
<1> SUFFICES ASSUME NEW s \in Stories
             PROVE  GateAfter(cs, done)[s] \in Pairs \cup {NoGate}
  BY DEF GateAfter
<1>1. CASE Finished(cs, done, s) = {}
  BY <1>1 DEF GateAfter
<1>2. CASE Finished(cs, done, s) # {}
  <2> DEFINE k == CHOOSE l \in Finished(cs, done, s) : TRUE
  <2>1. k \in Lines /\ cs[k].phase = "Connected"
    BY <1>2 DEF Finished
  <2>2. GateAfter(cs, done)[s] = <<k, cs[k].callee>>
    BY <1>2 DEF GateAfter
  <2> HIDE DEF k
  <2>3. cs[k].callee \in Lines
    BY <2>1 DEF CallsTyped
  <2> QED  BY <2>1, <2>2, <2>3 DEF Pairs
<1> QED  BY <1>1, <1>2

(* The focus of a snapshot is a line or none. *)
LEMMA FocusTyped ==
  ASSUME TypeOK
  PROVE  FocusChoices \subseteq Lines \cup {NoLine}
BY DEF TypeOK, FocusChoices, OperatorLines

(* Time keeps the type. *)
LEMMA OlderTyped ==
  ASSUME NEW c \in CallType
  PROVE  /\ Older(c) \in CallType
         /\ Older(c).phase = c.phase
         /\ Older(c).callee = c.callee
         /\ Older(c).rung = c.rung
         /\ c.ring_ready = 0 => Older(c).ring_ready = 0
<1>1. \A t \in Timers : Countdown(t) \in Timers
  BY DEF Timers, Countdown, Never
<1>2. \A t \in Nat : Countdown(t) \in Nat
  BY DEF Countdown
<1>3. Older(c).ring_ready = Countdown(c.ring_ready)
  BY DEF Older, CallType
<1>4. Countdown(0) = 0
  BY DEF Countdown
<1> QED  BY <1>1, <1>2, <1>3, <1>4 DEF Older, CallType

(* The moves of the operator on the call in focus keep the type of the     *)
(* board: each replaces the call, drops it or finishes it.                 *)
LEMMA OperateTyped ==
  ASSUME TypeOK, NEW f \in Lines \cup {NoLine}, Operate(f)
  PROVE  /\ CallsTyped(calls')
         /\ gates' \in [Stories -> Pairs \cup {NoGate}]
<1> USE DEF Becomes
<1>0. CallsTyped(calls) /\ gates \in [Stories -> Pairs \cup {NoGate}]
  BY DEF TypeOK
<1>1. \A l \in Active(calls) : l \in Lines /\ calls[l].phase # "None"
  BY DEF Active
<1>2. ASSUME NEW c \in CallType, c.phase # "None" => c.callee \in Lines,
             f \in Lines, Becomes(f, c)
      PROVE  CallsTyped(calls')
  BY <1>0, <1>2, UpdateTyped
<1>3. CASE NoFocusedCall(f) \/ Refuse(f)
  BY <1>0, <1>3 DEF NoFocusedCall, Refuse
<1>4. CASE Misroute(f) \/ HangUp(f) \/ MisrouteRinging(f)
  BY <1>0, <1>4, WithoutTyped DEF Misroute, HangUp, MisrouteRinging
<1>5. ASSUME Advances(f)
      PROVE  /\ f \in Lines /\ calls[f].phase # "None"
             /\ Retargeted(f) \in CallType
             /\ Retargeted(f).callee \in Lines
             /\ Retargeted(f).phase = calls[f].phase
  BY <1>0, <1>1, <1>5, RetargetedTyped DEF Advances
<1>6. CASE ConnectByTap(f)
  <2>1. Advances(f) /\ Becomes(f, Connect(Retargeted(f), f))
    BY <1>6 DEF ConnectByTap
  <2> QED  BY <1>0, <1>2, <1>5, <2>1, ConnectTyped
<1>7. CASE ConnectDirect(f)
  <2>1. Advances(f) /\ Becomes(f, Connect(Retargeted(f), f))
    BY <1>7 DEF ConnectDirect
  <2> QED  BY <1>0, <1>2, <1>5, <2>1, ConnectTyped
<1>8. CASE Answer(f)
  <2>1. Advances(f)
    BY <1>8 DEF Answer
  <2>2. [Retargeted(f) EXCEPT !.phase = "OperatorSession", !.patience = 0] \in CallType
    BY <1>5, <2>1 DEF CallType, Phases
  <2> QED  BY <1>0, <1>2, <1>5, <1>8, <2>1, <2>2 DEF Answer, CallType
<1>9. CASE StartRing(f)
  <2>1. Advances(f)
    BY <1>9 DEF StartRing
  <2>2. PICK d \in RingDelays :
          Becomes(f, [Retargeted(f) EXCEPT !.phase = "Ringing", !.ring_ready = d,
                                           !.ring_grace = RingGrace + 1,
                                           !.rung = @ \cup {Retargeted(f).callee}])
    BY <1>9 DEF StartRing
  <2>3. d \in Timers /\ RingGrace + 1 \in Timers
    BY TimeAssumption DEF Timers
  <2>4. [Retargeted(f) EXCEPT !.phase = "Ringing", !.ring_ready = d,
                              !.ring_grace = RingGrace + 1,
                              !.rung = @ \cup {Retargeted(f).callee}] \in CallType
    BY <1>5, <2>1, <2>3 DEF CallType, Phases
  <2> QED  BY <1>0, <1>2, <1>5, <1>9, <2>1, <2>2, <2>4 DEF StartRing, CallType
<1>10. CASE LeaveOperator(f)
  <2>1. Advances(f)
    BY <1>10 DEF LeaveOperator
  <2>2. [Retargeted(f) EXCEPT !.phase = "AwaitingRouting"] \in CallType
    BY <1>5, <2>1 DEF CallType, Phases
  <2> QED  BY <1>0, <1>2, <1>5, <1>10, <2>1, <2>2 DEF LeaveOperator, CallType
<1>11. CASE GiveUpRing(f)
  <2>1. Advances(f)
    BY <1>11 DEF GiveUpRing
  <2>2. [Retargeted(f) EXCEPT !.phase = "AwaitingRouting", !.ring_grace = Never,
                              !.ring_ready = Never] \in CallType
    BY <1>5, <2>1 DEF CallType, Phases, Timers
  <2> QED  BY <1>0, <1>2, <1>5, <1>11, <2>1, <2>2 DEF GiveUpRing, CallType
<1>12. CASE KeepCircuit(f)
  <2>1. Advances(f)
    BY <1>12 DEF KeepCircuit
  <2>2. [Retargeted(f) EXCEPT !.disconnect = Never] \in CallType
    BY <1>5, <2>1 DEF CallType, Timers
  <2> QED  BY <1>0, <1>2, <1>5, <1>12, <2>1, <2>2 DEF KeepCircuit, CallType
<1>13. CASE BreakCircuit(f)
  <2>1. Advances(f)
    BY <1>13 DEF BreakCircuit
  <2>2. DisconnectGrace \in Timers
    BY TimeAssumption DEF Timers
  <2>3. [Retargeted(f) EXCEPT
           !.disconnect = IF @ = Never THEN DisconnectGrace ELSE @] \in CallType
    BY <1>5, <2>1, <2>2 DEF CallType
  <2> QED  BY <1>0, <1>2, <1>5, <1>13, <2>1, <2>3 DEF BreakCircuit, CallType
<1>14. CASE FinishFocused(f)
  <2>1. Advances(f) /\ calls' = Without(calls, {f})
        /\ gates' = GateAfter([calls EXCEPT ![f] = Retargeted(f)], {f})
    BY <1>14 DEF FinishFocused
  <2>2. CallsTyped([calls EXCEPT ![f] = Retargeted(f)])
    BY <1>0, <1>5, <2>1, UpdateTyped
  <2> QED  BY <1>0, <1>5, <2>1, <2>2, WithoutTyped, GateTyped
<1>15. CASE Stay(f)
  BY <1>0, <1>2, <1>5, <1>15 DEF Stay
<1> QED  BY <1>3, <1>4, <1>6, <1>7, <1>8, <1>9, <1>10, <1>11, <1>12, <1>13,
            <1>14, <1>15 DEF Operate

-----------------------------------------------------------------------------
(* Type correctness *)

LEMMA InitTyped ==
  ASSUME Init PROVE TypeOK
<1>1. CallsTyped(calls)
  BY DEF Init, CallsTyped, NoCall, CallType, Phases, Timers, Never
<1>2. shift \in [number : 1..4, phase : {"Ready", "Active", "Settled"}, left : Nat]
  BY TimeAssumption DEF Init
<1>3. input \in SnapshotType
  BY DEF Init, SnapshotType
<1>4. gates \in [Stories -> Pairs \cup {NoGate}]
  BY DEF Init
<1> QED  BY <1>1, <1>2, <1>3, <1>4 DEF Init, TypeOK

(* The stages of refill_calls. *)
LEMMA RefillTyped ==
  ASSUME TypeOK,
         \/ \E p \in StoryPairs : OfferStory(p[1], p[2])
         \/ StartNeutral
         \/ \E p \in NeutralPairs : OfferNeutral(p[1], p[2])
         \/ EndRefill
  PROVE  TypeOK'
<1> USE DEF TypeOK, debug_vars
<1>1. ASSUME NEW p \in StoryPairs, OfferStory(p[1], p[2])
      PROVE  TypeOK'
  <2>1. PICK t \in PatienceValues : calls' = [calls EXCEPT ![p[1]] = NewCall(p[2], t)]
    BY <1>1 DEF OfferStory
  <2>2. p[1] \in Lines /\ p[2] \in Lines /\ t \in Nat
    BY CallAssumption, TimeAssumption DEF Pairs
  <2>3. CallsTyped(calls')
    BY <2>1, <2>2, OfferTyped
  <2> QED  BY <1>1, <2>3 DEF OfferStory
<1>2. CASE StartNeutral
  <2>1. RefilledShift \in [number : 1..4, phase : {"Ready", "Active", "Settled"}, left : Nat]
    BY TimeAssumption DEF RefilledShift
  <2> QED  BY <1>2, <2>1 DEF StartNeutral
<1>3. ASSUME NEW p \in NeutralPairs, OfferNeutral(p[1], p[2])
      PROVE  TypeOK'
  <2>1. PICK t \in PatienceValues : calls' = [calls EXCEPT ![p[1]] = NewCall(p[2], t)]
    BY <1>3 DEF OfferNeutral
  <2>2. p[1] \in Lines /\ p[2] \in Lines /\ t \in Nat
    BY CallAssumption, TimeAssumption DEF Pairs
  <2>3. CallsTyped(calls')
    BY <2>1, <2>2, OfferTyped
  <2> QED  BY <1>3, <2>3 DEF OfferNeutral
<1>4. CASE EndRefill
  BY <1>4 DEF EndRefill
<1> QED  BY <1>1, <1>2, <1>3, <1>4

(* The stages that look at every call. *)
LEMMA ProgressTyped ==
  ASSUME TypeOK,
         \/ UpdateRingActivation
         \/ ConnectReadyDirectCalls
         \/ FinishReadyConnectedCalls
         \/ SettleShift
         \/ KeepShift
  PROVE  TypeOK'
<1> USE DEF TypeOK, debug_vars
<1>1. CASE UpdateRingActivation
  <2>1. CASE CrankedCalls = {} /\ ring_active_line' = NoLine /\ calls' = calls
    BY <1>1, <2>1 DEF UpdateRingActivation
  <2>2. ASSUME NEW l \in CrankedCalls,
               ring_active_line' = calls[l].callee,
               calls' = [calls EXCEPT ![l].ring_activated = TRUE]
        PROVE  TypeOK'
    <3>1. l \in Lines /\ calls[l].phase = "Ringing"
      BY DEF CrankedCalls
    <3>2. calls[l].callee \in Lines /\ calls[l] \in CallType
      BY <3>1 DEF CallsTyped
    <3>3. calls' = [calls EXCEPT ![l] = [calls[l] EXCEPT !.ring_activated = TRUE]]
      BY <2>2
    <3>4. [calls[l] EXCEPT !.ring_activated = TRUE] \in CallType
      BY <3>2 DEF CallType
    <3>5. CallsTyped(calls')
      BY <3>1, <3>2, <3>3, <3>4, UpdateTyped DEF CallType
    <3> QED  BY <1>1, <2>2, <3>2, <3>5 DEF UpdateRingActivation
  <2>3. CASE UNCHANGED <<ring_active_line, calls>>
    BY <1>1, <2>3 DEF UpdateRingActivation
  <2> QED  BY <1>1, <2>1, <2>2, <2>3 DEF UpdateRingActivation
<1>2. CASE ConnectReadyDirectCalls
  <2>1. ASSUME NEW l \in Lines
        PROVE  /\ calls'[l] \in CallType
               /\ calls'[l].phase # "None" => calls'[l].callee \in Lines
    <3>1. calls[l] \in CallType /\ (calls[l].phase # "None" => calls[l].callee \in Lines)
      BY DEF CallsTyped
    <3>2. CASE ReadyToConnect(l)
      BY <1>2, <3>1, <3>2, ConnectTyped DEF ConnectReadyDirectCalls, ReadyToConnect
    <3>3. CASE ~ReadyToConnect(l)
      BY <1>2, <3>1, <3>3 DEF ConnectReadyDirectCalls
    <3> QED  BY <3>2, <3>3
  <2>2. CallsTyped(calls')
    BY <1>2, <2>1 DEF ConnectReadyDirectCalls, CallsTyped
  <2> QED  BY <1>2, <2>2 DEF ConnectReadyDirectCalls
<1>3. CASE FinishReadyConnectedCalls
  <2>1. ReadyToFinish \in SUBSET Lines
    BY DEF ReadyToFinish
  <2>2. CallsTyped(calls') /\ gates' \in [Stories -> Pairs \cup {NoGate}]
    BY <1>3, <2>1, WithoutTyped, GateTyped DEF FinishReadyConnectedCalls
  <2> QED  BY <1>3, <2>2 DEF FinishReadyConnectedCalls
<1>4. CASE SettleShift
  <2>1. CallsTyped(calls')
    BY <1>4, WithoutTyped DEF SettleShift
  <2> QED  BY <1>4, <2>1 DEF SettleShift
<1>5. CASE KeepShift
  BY <1>5 DEF KeepShift
<1> QED  BY <1>1, <1>2, <1>3, <1>4, <1>5

(* Snapshots, resets, the debug surface and time. *)
LEMMA OutsideTyped ==
  ASSUME TypeOK, Snapshot \/ ResetRun \/ Debug \/ Tick
  PROVE  TypeOK'
<1> USE DEF TypeOK, debug_vars
<1>1. ASSUME NEW in \in Snapshots, Receive(in)
      PROVE  TypeOK'
  <2>1. in \in SnapshotType
    BY SnapshotAssumption
  <2>2. CallsTyped(calls')
    BY <1>1, WithoutTyped DEF Receive
  <2> QED  BY <1>1, <2>1, <2>2 DEF Receive
<1>2. CASE ResetRun
  <2>1. CallsTyped(calls')
    BY <1>2 DEF ResetRun, CallsTyped, NoCall, CallType, Phases, Timers, Never
  <2>2. shift' \in [number : 1..4, phase : {"Ready", "Active", "Settled"}, left : Nat]
    BY <1>2, TimeAssumption DEF ResetRun
  <2>3. gates' \in [Stories -> Pairs \cup {NoGate}]
    BY <1>2 DEF ResetRun
  <2> QED  BY <1>2, <2>1, <2>2, <2>3 DEF ResetRun
<1>3. CASE DebugSnapshot
  <2>1. CallsTyped(calls')
    BY <1>3, WithoutTyped DEF DebugSnapshot
  <2> QED  BY <1>3, <2>1 DEF DebugSnapshot
<1>4. ASSUME NEW p \in Pairs, InjectCall(p[1], p[2])
      PROVE  TypeOK'
  <2>1. PICK t \in PatienceValues : calls' = [calls EXCEPT ![p[1]] = NewCall(p[2], t)]
    BY <1>4 DEF InjectCall
  <2>2. p[1] \in Lines /\ p[2] \in Lines /\ t \in Nat
    BY CallAssumption, TimeAssumption DEF Pairs
  <2>3. CallsTyped(calls')
    BY <2>1, <2>2, OfferTyped
  <2> QED  BY <1>4, <2>3 DEF InjectCall
<1>5. CASE SetDebugSwitches
  BY <1>5 DEF SetDebugSwitches
<1>6. CASE Tick
  <2>1. CallsTyped(calls')
    BY <1>6, OlderTyped DEF Tick, CallsTyped
  <2>2. shift' \in [number : 1..4, phase : {"Ready", "Active", "Settled"}, left : Nat]
    BY <1>6 DEF Tick, Countdown
  <2> QED  BY <1>6, <2>1, <2>2 DEF Tick
<1> QED  BY <1>1, <1>2, <1>3, <1>4, <1>5, <1>6 DEF Snapshot, Debug

(* Every step keeps the types. *)
LEMMA NextTyped ==
  ASSUME TypeOK, [Next]_vars PROVE TypeOK'
<1>1. ASSUME NEW f \in Lines \cup {NoLine}, Operate(f)
      PROVE  TypeOK'
  <2>1. CallsTyped(calls') /\ gates' \in [Stories -> Pairs \cup {NoGate}]
    BY <1>1, OperateTyped
  <2>2. Operates(f)
    BY <1>1 DEF Operate, NoFocusedCall, Refuse, Misroute, HangUp, ConnectByTap,
      Answer, StartRing, LeaveOperator, ConnectDirect, MisrouteRinging,
      GiveUpRing, KeepCircuit, BreakCircuit, FinishFocused, Stay, Advances
  <2> QED  BY <1>1, <2>1, <2>2 DEF TypeOK, Operates, debug_vars
<1>2. CASE UNCHANGED vars
  BY <1>2 DEF vars, TypeOK, CallsTyped
<1> QED
  BY <1>1, <1>2, RefillTyped, ProgressTyped, OutsideTyped DEF Next, Handle

(* The variables of Exchange hold values of their types in every run: the  *)
(* calls on the board have a destination on it, gates and focus name lines *)
(* of the board, timers do not run below zero (apply_input).               *)
THEOREM TypeCorrect == Spec => []TypeOK
BY InitTyped, NextTyped, PTL DEF Spec

-----------------------------------------------------------------------------
(* How a step changes the board: it drops calls and moves calls on without *)
(* a new destination (or leads Arnab's to the other Bela), or it puts      *)
(* one new call on it.                                                     *)

DropsCalls ==
  \A l \in Lines : calls'[l].phase # "None" =>
    /\ calls[l].phase # "None"
    /\ \/ calls'[l].callee = calls[l].callee
       \/ l \in BelaCallers /\ calls'[l].callee \in Belas

(* The new call takes lines that no other call uses. *)
OffersCall(caller, callee) ==
  /\ caller # callee
  /\ \E t \in PatienceValues : calls' = [calls EXCEPT ![caller] = NewCall(callee, t)]
  /\ LineIsFree(calls, caller)
  /\ \/ LineIsFree(calls, callee)
     \/ caller \in PlaceholderCallers /\ callee = Placeholder

LEMMA OperateDropsCalls ==
  ASSUME TypeOK, NEW f \in Lines \cup {NoLine}, Operate(f)
  PROVE  DropsCalls
<1>0. CallsTyped(calls)
  BY DEF TypeOK
<1>1. CASE NoFocusedCall(f) \/ Refuse(f)
  BY <1>1 DEF NoFocusedCall, Refuse, DropsCalls
<1>2. CASE Misroute(f) \/ HangUp(f) \/ MisrouteRinging(f) \/ FinishFocused(f)
  BY <1>2 DEF Misroute, HangUp, MisrouteRinging, FinishFocused, Without, NoCall, DropsCalls
<1>3. ASSUME Advances(f)
      PROVE  /\ f \in Lines /\ calls[f].phase # "None"
             /\ Retargeted(f) \in CallType
             /\ \/ Retargeted(f).callee = calls[f].callee
                \/ f \in BelaCallers /\ Retargeted(f).callee \in Belas
             /\ Retargeted(f).callee \in Lines
  BY <1>0, <1>3, RetargetedTyped DEF Advances, Active, CallsTyped
<1>4. ASSUME NEW c, f \in Lines, calls[f].phase # "None",
             c.callee = calls[f].callee \/ (f \in BelaCallers /\ c.callee \in Belas), Becomes(f, c)
      PROVE  DropsCalls
  BY <1>0, <1>4 DEF Becomes, DropsCalls, CallsTyped
<1>5. CASE ConnectByTap(f) \/ ConnectDirect(f)
  BY <1>3, <1>4, <1>5, ConnectTyped DEF ConnectByTap, ConnectDirect
<1>6. CASE Answer(f)
  BY <1>3, <1>4, <1>6 DEF Answer, CallType
<1>7. CASE StartRing(f)
  <2>1. PICK d \in RingDelays :
          Becomes(f, [Retargeted(f) EXCEPT !.phase = "Ringing", !.ring_ready = d,
                                           !.ring_grace = RingGrace + 1,
                                           !.rung = @ \cup {Retargeted(f).callee}])
    BY <1>7 DEF StartRing
  <2> QED  BY <1>3, <1>4, <1>7, <2>1 DEF StartRing, CallType
<1>8. CASE LeaveOperator(f)
  BY <1>3, <1>4, <1>8 DEF LeaveOperator, CallType
<1>9. CASE GiveUpRing(f)
  BY <1>3, <1>4, <1>9 DEF GiveUpRing, CallType
<1>10. CASE KeepCircuit(f)
  BY <1>3, <1>4, <1>10 DEF KeepCircuit, CallType
<1>11. CASE BreakCircuit(f)
  BY <1>3, <1>4, <1>11 DEF BreakCircuit, CallType
<1>12. CASE Stay(f)
  BY <1>3, <1>4, <1>12 DEF Stay
<1> QED  BY <1>1, <1>2, <1>5, <1>6, <1>7, <1>8, <1>9, <1>10, <1>11, <1>12 DEF Operate

LEMMA StepsDropOrOffer ==
  ASSUME TypeOK, [Next]_vars
  PROVE  \/ DropsCalls
         \/ \E p \in StoryPairs : OfferStory(p[1], p[2])
         \/ \E p \in NeutralPairs : OfferNeutral(p[1], p[2])
         \/ \E p \in Pairs : InjectCall(p[1], p[2])
<1>0. CallsTyped(calls)
  BY DEF TypeOK
<1>4. CASE StartNeutral \/ EndRefill \/ KeepShift \/ SetDebugSwitches \/ UNCHANGED vars
  BY <1>4 DEF StartNeutral, EndRefill, KeepShift, SetDebugSwitches, vars, DropsCalls
<1>5. CASE UpdateRingActivation
  <2>1. CASE UNCHANGED calls
    BY <2>1 DEF DropsCalls
  <2>2. ASSUME NEW l \in CrankedCalls, calls' = [calls EXCEPT ![l].ring_activated = TRUE]
        PROVE  DropsCalls
    BY <1>0, <2>2 DEF DropsCalls, CallsTyped, CallType
  <2> QED  BY <1>5, <2>1, <2>2 DEF UpdateRingActivation
<1>6. CASE ConnectReadyDirectCalls
  <2>1. ASSUME NEW l \in Lines, calls'[l].phase # "None"
        PROVE  calls[l].phase # "None" /\ calls'[l].callee = calls[l].callee
    BY <1>0, <1>6, <2>1, ConnectTyped
       DEF ConnectReadyDirectCalls, ReadyToConnect, CallsTyped
  <2> QED  BY <2>1 DEF DropsCalls
<1>7. CASE FinishReadyConnectedCalls \/ SettleShift \/ DebugSnapshot \/ Snapshot
  BY <1>7 DEF FinishReadyConnectedCalls, SettleShift, DebugSnapshot, Snapshot, Receive,
    Without, NoCall, DropsCalls
<1>8. CASE ResetRun
  BY <1>8 DEF ResetRun, NoCall, DropsCalls
<1>9. CASE Tick
  BY <1>0, <1>9, OlderTyped DEF Tick, CallsTyped, DropsCalls
<1> QED
  BY <1>4, <1>5, <1>6, <1>7, <1>8, <1>9, OperateDropsCalls DEF Next, Handle, Debug

LEMMA StepsOnTheBoard ==
  ASSUME TypeOK, [Next]_vars
  PROVE  DropsCalls \/ \E p \in Pairs : OffersCall(p[1], p[2])
<1>1. ASSUME NEW p \in StoryPairs, OfferStory(p[1], p[2])
      PROVE  OffersCall(p[1], p[2])
  BY <1>1, CallAssumption DEF OfferStory, OffersCall
<1>2. ASSUME NEW p \in NeutralPairs, OfferNeutral(p[1], p[2])
      PROVE  OffersCall(p[1], p[2])
  BY <1>2, CallAssumption DEF OfferNeutral, OffersCall
<1>3. ASSUME NEW p \in Pairs, InjectCall(p[1], p[2])
      PROVE  OffersCall(p[1], p[2])
  BY <1>3, CallAssumption DEF InjectCall, OffersCall, LineIsFree, CallUsesLine
<1> QED  BY <1>1, <1>2, <1>3, StepsDropOrOffer, CallAssumption

-----------------------------------------------------------------------------
(* Exclusive lines *)

(* Other calls stay as they are, and none shares a line with the new one.  *)
LEMMA OfferedSharesNothing ==
  ASSUME TypeOK, NEW caller \in Lines, NEW callee \in Lines, OffersCall(caller, callee),
         NEW k \in Active(calls'), NEW m \in Active(calls'), k # m
  PROVE  \/ /\ k \in Active(calls) /\ calls'[k] = calls[k]
            /\ m \in Active(calls) /\ calls'[m] = calls[m]
         \/ /\ ~CallUsesLine(calls', k, m)
            /\ HasDestination(m)' => ~CallUsesLine(calls', k, calls'[m].callee)
<1>1. PICK t \in PatienceValues : calls' = [calls EXCEPT ![caller] = NewCall(callee, t)]
  BY DEF OffersCall
<1>2. calls'[caller].callee = callee
  BY <1>1 DEF TypeOK, CallsTyped, NewCall, NoCall
<1>3. \A l \in Lines \ {caller} : calls'[l] = calls[l]
  BY <1>1 DEF TypeOK, CallsTyped
<1>4. Active(calls') \subseteq Active(calls) \cup {caller}
  BY <1>3 DEF Active
<1>5. CASE k # caller /\ m # caller
  BY <1>3, <1>4, <1>5 DEF Active
<1>6. CASE k = caller
  <2>1. m \in Active(calls) /\ m \in Lines /\ calls'[m] = calls[m]
    BY <1>3, <1>4, <1>6 DEF Active
  <2>2. ~CallUsesLine(calls, m, caller)
    BY <2>1 DEF OffersCall, LineIsFree
  <2>3. ~CallUsesLine(calls, m, callee) \/ (caller \in PlaceholderCallers /\ callee = Placeholder)
    BY <2>1 DEF OffersCall, LineIsFree
  <2> QED  BY <1>2, <1>6, <2>1, <2>2, <2>3 DEF CallUsesLine, HasDestination
<1>7. CASE m = caller
  <2>1. k \in Active(calls) /\ k \in Lines /\ calls'[k] = calls[k]
    BY <1>3, <1>4, <1>7 DEF Active
  <2>2. ~CallUsesLine(calls, k, caller)
    BY <2>1 DEF OffersCall, LineIsFree
  <2>3. ~CallUsesLine(calls, k, callee) \/ (caller \in PlaceholderCallers /\ callee = Placeholder)
    BY <2>1 DEF OffersCall, LineIsFree
  <2> QED  BY <1>2, <1>7, <2>1, <2>2, <2>3 DEF CallUsesLine, HasDestination
<1> QED  BY <1>5, <1>6, <1>7

LEMMA DroppingKeepsExclusive ==
  ASSUME LinesExclusive, DropsCalls PROVE LinesExclusive'
<1> SUFFICES ASSUME NEW k \in Active(calls'), NEW m \in Active(calls'), k # m
             PROVE  /\ CallUsesLine(calls', k, m) => k \in BelaCallers /\ m \in Belas
                    /\ HasDestination(m)' /\ CallUsesLine(calls', k, calls'[m].callee)
                         => /\ calls'[m].callee \in Belas
                            /\ k \in BelaCallers \/ m \in BelaCallers
  BY DEF LinesExclusive
<1>1. /\ k \in Active(calls) /\ m \in Active(calls) /\ k \in Lines /\ m \in Lines
      /\ calls'[k].callee = calls[k].callee \/ (k \in BelaCallers /\ calls'[k].callee \in Belas)
      /\ calls'[m].callee = calls[m].callee \/ (m \in BelaCallers /\ calls'[m].callee \in Belas)
  BY DEF DropsCalls, Active
<1>2. CallUsesLine(calls', k, m) => k \in BelaCallers /\ m \in Belas
  BY <1>1 DEF LinesExclusive, CallUsesLine
<1>3. ASSUME HasDestination(m)', CallUsesLine(calls', k, calls'[m].callee)
      PROVE  calls'[m].callee \in Belas /\ (k \in BelaCallers \/ m \in BelaCallers)
  BY <1>1, <1>3 DEF LinesExclusive, CallUsesLine, HasDestination
<1> QED  BY <1>2, <1>3

LEMMA OfferingKeepsExclusive ==
  ASSUME TypeOK, LinesExclusive, NEW caller \in Lines, NEW callee \in Lines,
         OffersCall(caller, callee)
  PROVE  LinesExclusive'
<1> SUFFICES ASSUME NEW k \in Active(calls'), NEW m \in Active(calls'), k # m
             PROVE  /\ CallUsesLine(calls', k, m) => k \in BelaCallers /\ m \in Belas
                    /\ HasDestination(m)' /\ CallUsesLine(calls', k, calls'[m].callee)
                         => /\ calls'[m].callee \in Belas
                            /\ k \in BelaCallers \/ m \in BelaCallers
  BY DEF LinesExclusive
<1>1. CASE /\ k \in Active(calls) /\ calls'[k] = calls[k]
           /\ m \in Active(calls) /\ calls'[m] = calls[m]
  BY <1>1 DEF LinesExclusive, CallUsesLine, HasDestination, Active
<1> QED  BY <1>1, OfferedSharesNothing

(* On any board, the real one included, no two active calls share a line   *)
(* unless the cord has led Arnab's to a Bela whose line the other uses:    *)
(* ensure_story_call, next_call and InjectCall check every active call     *)
(* before they push one, and only advance gives a call another line.       *)
THEOREM ExclusiveLines == Spec => []LinesExclusive
<1>1. ASSUME Init PROVE LinesExclusive
  BY <1>1 DEF Init, LinesExclusive, Active, NoCall
<1>2. ASSUME TypeOK, LinesExclusive, [Next]_vars PROVE LinesExclusive'
  <2>1. \A p \in Pairs : p[1] \in Lines /\ p[2] \in Lines
    BY CallAssumption DEF Pairs
  <2> QED  BY <1>2, <2>1, StepsOnTheBoard, DroppingKeepsExclusive, OfferingKeepsExclusive
<1> QED  BY <1>1, <1>2, TypeCorrect, PTL DEF Spec

-----------------------------------------------------------------------------
(* Gated stories *)

(* A gate is kept, opened, or set for a connected call that leaves.        *)
GatesFollowCalls ==
  \A s \in Stories :
    \/ gates'[s] \in {gates[s], NoGate}
    \/ \E l \in Lines : /\ StoryOf[l] = s /\ calls[l].phase # "None"
                       /\ calls'[l].phase = "None"

LEMMA GateAfterFollows ==
  ASSUME NEW cs, NEW done \in SUBSET Lines, calls' = Without(calls, done),
         gates' = GateAfter(cs, done),
         \A l \in done : cs[l].phase = "Connected" => calls[l].phase # "None"
  PROVE  GatesFollowCalls
<1> SUFFICES ASSUME NEW s \in Stories, gates'[s] # gates[s]
             PROVE  \E l \in Lines : /\ StoryOf[l] = s /\ calls[l].phase # "None"
                                   /\ calls'[l].phase = "None"
  BY DEF GatesFollowCalls
<1>1. PICK l \in done : cs[l].phase = "Connected" /\ StoryOf[l] = s
  BY DEF GateAfter, Finished
<1> QED  BY <1>1 DEF Without, NoCall

LEMMA StepsOnTheGates ==
  ASSUME TypeOK, [Next]_vars PROVE GatesFollowCalls
<1>1. CASE UNCHANGED gates
  BY <1>1 DEF GatesFollowCalls
<1>2. ASSUME NEW f \in Lines \cup {NoLine}, Operate(f)
      PROVE  GatesFollowCalls
  <2>1. CASE FinishFocused(f)
    <3>1. /\ f \in Lines /\ calls[f].phase = "Connected"
          /\ calls' = Without(calls, {f})
          /\ gates' = GateAfter([calls EXCEPT ![f] = Retargeted(f)], {f})
      BY <2>1 DEF FinishFocused, Advances, Active
    <3> QED  BY <3>1, GateAfterFollows
  <2>2. CASE ~FinishFocused(f)
    BY <1>1, <1>2, <2>2 DEF Operate, NoFocusedCall, Refuse, Misroute, HangUp,
      ConnectByTap, Answer, StartRing, LeaveOperator, ConnectDirect, MisrouteRinging,
      GiveUpRing, KeepCircuit, BreakCircuit, Stay, Becomes
  <2> QED  BY <2>1, <2>2
<1>3. CASE FinishReadyConnectedCalls
  <2>1. ReadyToFinish \in SUBSET Lines
    BY DEF ReadyToFinish
  <2>2. \A l \in ReadyToFinish : calls[l].phase # "None"
    BY DEF ReadyToFinish
  <2> QED  BY <1>3, <2>1, <2>2, GateAfterFollows DEF FinishReadyConnectedCalls
<1>4. CASE Snapshot \/ ResetRun
  BY <1>4 DEF Snapshot, Receive, ResetRun, GatesFollowCalls
<1> QED
  BY <1>1, <1>2, <1>3, <1>4 DEF Next, Handle, Debug, vars, OfferStory, StartNeutral,
    OfferNeutral, EndRefill, UpdateRingActivation, ConnectReadyDirectCalls,
    SettleShift, KeepShift, DebugSnapshot, InjectCall, SetDebugSwitches, Tick

(* A step that only drops calls keeps the gates right. *)
LEMMA DroppingKeepsGates ==
  ASSUME TypeOK, StoryGateHolds, DropsCalls, GatesFollowCalls
  PROVE  StoryGateHolds'
<1> SUFFICES ASSUME NEW k \in StoryCalls(calls')
             PROVE  /\ gates'[StoryOf[k]] = NoGate
                    /\ \A m \in StoryCalls(calls') : StoryOf[m] = StoryOf[k] => m = k
  BY DEF StoryGateHolds
<1>1. StoryCalls(calls') \subseteq StoryCalls(calls)
  BY DEF StoryCalls, Active, DropsCalls
<1>2. /\ gates[StoryOf[k]] = NoGate /\ StoryOf[k] \in Stories
      /\ \A m \in StoryCalls(calls) : StoryOf[m] = StoryOf[k] => m = k
  BY <1>1, CallAssumption DEF StoryGateHolds, StoryCalls, Active
<1>3. gates'[StoryOf[k]] = NoGate
  BY <1>2 DEF GatesFollowCalls, StoryCalls, Active
<1> QED  BY <1>1, <1>2, <1>3

(* Unless the debug surface injects a call, a story thread never has two   *)
(* calls, nor one while the circuit of its last one still gates it:        *)
(* ensure_story_call looks at both before it pushes a call, and finish_call*)
(* sets the gate in the step that removes the call.                        *)
THEOREM GatedStoriesAreSilent ==
  ASSUME ~DebugAttached PROVE Spec => []StoryGateHolds
<1>1. ASSUME Init PROVE StoryGateHolds
  BY <1>1 DEF Init, StoryGateHolds, StoryCalls, Active, NoCall
<1>2. ASSUME TypeOK, StoryGateHolds, [Next]_vars PROVE StoryGateHolds'
  <2>1. GatesFollowCalls
    BY <1>2, StepsOnTheGates
  <2>2. CASE DropsCalls
    BY <1>2, <2>1, <2>2, DroppingKeepsGates
  <2>3. ASSUME NEW p \in StoryPairs, OfferStory(p[1], p[2])
        PROVE  StoryGateHolds'
    <3>1. PICK t \in PatienceValues : calls' = [calls EXCEPT ![p[1]] = NewCall(p[2], t)]
      BY <2>3 DEF OfferStory
    <3>2. StoryCalls(calls') \subseteq StoryCalls(calls) \cup {p[1]}
      BY <1>2, <3>1 DEF StoryCalls, Active, TypeOK, CallsTyped
    <3>3. gates' = gates /\ gates[StoryOf[p[1]]] = NoGate
          /\ \A l \in StoryCalls(calls) : StoryOf[l] # StoryOf[p[1]]
      BY <2>3 DEF OfferStory, StoryConnectionIsBlocked
    <3> QED  BY <1>2, <3>2, <3>3 DEF StoryGateHolds
  <2>4. ASSUME NEW p \in NeutralPairs, OfferNeutral(p[1], p[2])
        PROVE  StoryGateHolds'
    <3>1. PICK t \in PatienceValues : calls' = [calls EXCEPT ![p[1]] = NewCall(p[2], t)]
      BY <2>4 DEF OfferNeutral
    <3>2. StoryCalls(calls') \subseteq StoryCalls(calls)
      BY <1>2, <3>1, CallAssumption DEF StoryCalls, Active, TypeOK, CallsTyped
    <3> QED  BY <1>2, <2>4, <3>2 DEF OfferNeutral, StoryGateHolds
  <2>5. DropsCalls \/ (\E p \in StoryPairs : OfferStory(p[1], p[2]))
                  \/ (\E p \in NeutralPairs : OfferNeutral(p[1], p[2]))
    BY <1>2, StepsDropOrOffer DEF InjectCall
  <2> QED  BY <2>2, <2>3, <2>4, <2>5
<1> QED  BY <1>1, <1>2, TypeCorrect, PTL DEF Spec

-----------------------------------------------------------------------------
(* Rings and connections *)

(* A ringing call has had the Ring Generator on the line it rings, except  *)
(* Arnab's, which may have been led to the other Bela.                     *)
RingingWasRung ==
  \A l \in Lines \ BelaCallers :
    calls[l].phase = "Ringing" => calls[l].callee \in calls[l].rung

(* The ring a call goes on with, or goes into a circuit with *)
SameRing(l) ==
  /\ calls[l].phase = "Ringing"
  /\ calls'[l].rung = calls[l].rung
  /\ \/ calls'[l].callee = calls[l].callee
     \/ l \in BelaCallers /\ calls'[l].callee \in Belas

(* A ring that starts in this step, on the line that is cranked *)
NewRing(l) ==
  /\ pc = "operate" /\ calls[l].phase \notin {"None", "Ringing"}
  /\ calls'[l].callee \in calls'[l].rung
  /\ calls'[l].callee = RequestedRingLine(input)
  /\ UNCHANGED ring_active_line
  /\ \A k \in Lines \ {l} : calls'[k] = calls[k]

RingStep(l) ==
  calls'[l].phase = "Ringing" =>
    \/ SameRing(l) /\ (calls[l].ring_ready = 0 => calls'[l].ring_ready = 0)
    \/ NewRing(l)

ConnectStep(l) ==
  calls[l].phase # "Connected" /\ calls'[l].phase = "Connected" =>
    /\ SameRing(l) \/ (input.tap /\ ValidTapCircuit(input, l, calls'[l].callee))
    /\ ValidConnectedCircuit(input, l, calls'[l].callee)

LEMMA OperateRings ==
  ASSUME TypeOK, NEW f \in Lines \cup {NoLine}, Operate(f), NEW l \in Lines
  PROVE  RingStep(l) /\ ConnectStep(l)
<1> USE DEF RingStep, ConnectStep, SameRing, Becomes
<1>0. CallsTyped(calls)
  BY DEF TypeOK
<1>1. CASE calls'[l] = calls[l]
  <2> QED  BY <1>0, <1>1 DEF CallsTyped
<1>2. CASE NoFocusedCall(f) \/ Refuse(f)
  BY <1>1, <1>2 DEF NoFocusedCall, Refuse
<1>3. CASE Misroute(f) \/ HangUp(f) \/ MisrouteRinging(f) \/ FinishFocused(f)
  BY <1>1, <1>3 DEF Misroute, HangUp, MisrouteRinging, FinishFocused, Without, NoCall
<1>4. ASSUME NEW c, Becomes(f, c), l # f
      PROVE  RingStep(l) /\ ConnectStep(l)
  BY <1>0, <1>1, <1>4 DEF CallsTyped
<1>5. ASSUME Advances(f)
      PROVE  /\ f \in Lines /\ calls[f].phase # "None"
             /\ Retargeted(f) \in CallType
             /\ \/ Retargeted(f).callee = calls[f].callee
                \/ f \in BelaCallers /\ Retargeted(f).callee \in Belas
             /\ Retargeted(f).callee \in Lines
             /\ Retargeted(f).phase = calls[f].phase
             /\ Retargeted(f).rung = calls[f].rung
             /\ Retargeted(f).ring_ready = calls[f].ring_ready
  BY <1>0, <1>5, RetargetedTyped DEF Advances, Active
<1>6. ASSUME NEW c, Advances(f), Becomes(f, c)
      PROVE  calls'[f] = c
  BY <1>0, <1>5, <1>6 DEF CallsTyped
<1>7. CASE ConnectByTap(f)
  <2>1. Advances(f) /\ Becomes(f, Connect(Retargeted(f), f)) /\ TapRoute(f)
    BY <1>7 DEF ConnectByTap
  <2>2. CASE l = f
    BY <1>5, <1>6, <2>1, <2>2, ConnectTyped DEF TapRoute, ValidConnectedCircuit
  <2> QED  BY <1>4, <2>1, <2>2
<1>8. CASE ConnectDirect(f)
  <2>1. /\ Advances(f) /\ Becomes(f, Connect(Retargeted(f), f)) /\ calls[f].phase = "Ringing"
        /\ ValidDirectCircuit(input, f, Retargeted(f).callee)
    BY <1>8 DEF ConnectDirect
  <2>2. CASE l = f
    BY <1>5, <1>6, <2>1, <2>2, ConnectTyped DEF ValidConnectedCircuit
  <2> QED  BY <1>4, <2>1, <2>2
<1>9. CASE Answer(f) \/ LeaveOperator(f) \/ GiveUpRing(f)
  <2>1. ASSUME NEW c, Advances(f), Becomes(f, c), c.phase \in Routing
        PROVE  RingStep(l) /\ ConnectStep(l)
    <3>1. CASE l = f
      BY <1>6, <2>1, <3>1 DEF Routing
    <3> QED  BY <1>4, <2>1, <3>1
  <2>2. CASE Answer(f)
    BY <1>5, <2>1, <2>2 DEF Answer, CallType, Routing
  <2>3. CASE LeaveOperator(f)
    BY <1>5, <2>1, <2>3 DEF LeaveOperator, CallType, Routing
  <2>4. CASE GiveUpRing(f)
    BY <1>5, <2>1, <2>4 DEF GiveUpRing, CallType, Routing
  <2> QED  BY <1>9, <2>2, <2>3, <2>4
<1>10. CASE StartRing(f)
  <2>1. PICK d \in RingDelays :
          Becomes(f, [Retargeted(f) EXCEPT !.phase = "Ringing", !.ring_ready = d,
                                           !.ring_grace = RingGrace + 1,
                                           !.rung = @ \cup {Retargeted(f).callee}])
    BY <1>10 DEF StartRing
  <2>2. /\ Advances(f) /\ calls[f].phase \in Routing
        /\ ValidRingingCircuit(input, f, Retargeted(f).callee)
    BY <1>10 DEF StartRing
  <2>3. CASE l = f
    <3>1. /\ calls'[f].callee \in calls'[f].rung
          /\ calls'[f].callee = Retargeted(f).callee /\ calls'[f].phase = "Ringing"
      <4> DEFINE r == Retargeted(f)
      <4>1. r \in CallType
        BY <1>5, <2>2
      <4>2. calls'[f] = [r EXCEPT !.phase = "Ringing", !.ring_ready = d,
                                  !.ring_grace = RingGrace + 1, !.rung = @ \cup {r.callee}]
        BY <1>6, <2>1, <2>2
      <4> HIDE DEF r
      <4>3. /\ calls'[f].callee = r.callee /\ calls'[f].phase = "Ringing"
            /\ calls'[f].rung = r.rung \cup {r.callee}
        BY <4>1, <4>2 DEF CallType
      <4> QED  BY <4>3 DEF r
    <3>2. RequestedRingLine(input) = Retargeted(f).callee
      BY <2>2 DEF ValidRingingCircuit, RequestedRingLine
    <3>3. pc = "operate" /\ UNCHANGED ring_active_line
      BY <2>2 DEF Advances, Operates
    <3>4. \A k \in Lines \ {f} : calls'[k] = calls[k]
      BY <1>0, <2>1 DEF CallsTyped
    <3> QED  BY <2>2, <2>3, <3>1, <3>2, <3>3, <3>4 DEF NewRing, Routing
  <2> QED  BY <1>4, <2>1, <2>3
<1>11. CASE KeepCircuit(f) \/ BreakCircuit(f)
  <2>1. CASE l = f
    BY <1>5, <1>6, <1>11, <2>1 DEF KeepCircuit, BreakCircuit, CallType
  <2> QED  BY <1>4, <1>11, <2>1 DEF KeepCircuit, BreakCircuit
<1>12. CASE Stay(f)
  <2>1. Advances(f) /\ Becomes(f, Retargeted(f)) /\ Stays(f)
    BY <1>12 DEF Stay
  <2>2. CASE l = f
    BY <1>5, <1>6, <2>1, <2>2
  <2> QED  BY <1>4, <2>1, <2>2
<1> QED  BY <1>2, <1>3, <1>7, <1>8, <1>9, <1>10, <1>11, <1>12 DEF Operate

LEMMA StepsOnRings ==
  ASSUME TypeOK, [Next]_vars, NEW l \in Lines
  PROVE  RingStep(l) /\ ConnectStep(l)
<1> USE DEF RingStep, ConnectStep, SameRing
<1>0. CallsTyped(calls)
  BY DEF TypeOK
<1>1. CASE UNCHANGED calls
  BY <1>1
<1>2. ASSUME NEW gone, calls' = Without(calls, gone)
      PROVE  RingStep(l) /\ ConnectStep(l)
  BY <1>2 DEF Without, NoCall
<1>3. ASSUME NEW caller \in Lines, NEW callee \in Lines, NEW t \in Nat,
             calls' = [calls EXCEPT ![caller] = NewCall(callee, t)]
      PROVE  RingStep(l) /\ ConnectStep(l)
  BY <1>0, <1>3 DEF CallsTyped, NewCall, NoCall
<1>4. CASE UpdateRingActivation
  <2>1. ASSUME NEW k \in CrankedCalls, calls' = [calls EXCEPT ![k].ring_activated = TRUE]
        PROVE  RingStep(l) /\ ConnectStep(l)
    BY <1>0, <2>1 DEF CallsTyped, CallType
  <2> QED  BY <1>1, <1>4, <2>1 DEF UpdateRingActivation
<1>5. CASE ConnectReadyDirectCalls
  <2>1. calls[l].phase # "None" => calls[l] \in CallType /\ calls[l].callee \in Lines
    BY <1>0 DEF CallsTyped
  <2> QED  BY <1>5, <2>1, ConnectTyped
           DEF ConnectReadyDirectCalls, ReadyToConnect, ValidConnectedCircuit
<1>6. CASE ResetRun
  BY <1>6 DEF ResetRun, NoCall
<1>7. CASE Tick
  BY <1>0, <1>7, OlderTyped DEF Tick, CallsTyped
<1>8. \A p \in Pairs : p[1] \in Lines /\ p[2] \in Lines
  BY CallAssumption DEF Pairs
<1>9. ASSUME NEW p \in Pairs,
             OfferStory(p[1], p[2]) \/ OfferNeutral(p[1], p[2]) \/ InjectCall(p[1], p[2])
      PROVE  RingStep(l) /\ ConnectStep(l)
  BY <1>3, <1>8, <1>9, TimeAssumption DEF OfferStory, OfferNeutral, InjectCall
<1>10. CASE StartNeutral \/ EndRefill \/ KeepShift \/ SetDebugSwitches \/ UNCHANGED vars
  BY <1>1, <1>10 DEF StartNeutral, EndRefill, KeepShift, SetDebugSwitches, vars
<1>11. CASE FinishReadyConnectedCalls \/ SettleShift \/ DebugSnapshot \/ Snapshot
  BY <1>2, <1>11 DEF FinishReadyConnectedCalls, SettleShift, DebugSnapshot, Snapshot, Receive
<1> QED
  BY <1>4, <1>5, <1>6, <1>7, <1>9, <1>10, <1>11, OperateRings, CallAssumption DEF Next, Handle, Debug

(* A direct cord puts a call through only to a line that the Ring          *)
(* Generator called for it (Arnab's excepted), under every interleaving of *)
(* snapshots, resets, debug switches and time (lib.rs,                     *)
(* connect_ready_direct_calls and advance).                                *)
THEOREM DirectConnectionsWereRung == Spec => DirectConnectionWasRung
<1>1. ASSUME Init PROVE RingingWasRung
  BY <1>1 DEF Init, RingingWasRung, NoCall
<1>2. ASSUME TypeOK, RingingWasRung, [Next]_vars PROVE RingingWasRung'
  BY <1>2, StepsOnRings DEF RingingWasRung, RingStep, SameRing, NewRing
<1>3. ASSUME TypeOK, RingingWasRung, [Next]_vars
      PROVE  \A l \in Lines \ BelaCallers :
               calls[l].phase # "Connected" /\ calls'[l].phase = "Connected" =>
                 \/ calls'[l].callee \in calls'[l].rung
                 \/ input.tap /\ ValidTapCircuit(input, l, calls'[l].callee)
  BY <1>3, StepsOnRings DEF RingingWasRung, ConnectStep, SameRing
<1> QED  BY <1>1, <1>2, <1>3, TypeCorrect, PTL DEF Spec, DirectConnectionWasRung

(* The circuit of every call that a step connects is on the panel of the   *)
(* snapshot that is handled, to the destination the call has after the     *)
(* step, whichever stage connects it (connect_ready_direct_calls, advance).*)
THEOREM ConnectionsArePatched == Spec => ConnectsWhatIsPatched
<1>1. ASSUME TypeOK, [Next]_vars
      PROVE  \A l \in Lines :
               calls[l].phase # "Connected" /\ calls'[l].phase = "Connected" =>
                 ValidConnectedCircuit(input, l, calls'[l].callee)
  BY <1>1, StepsOnRings DEF ConnectStep
<1> QED  BY <1>1, TypeCorrect, PTL DEF Spec, ConnectsWhatIsPatched

-----------------------------------------------------------------------------
(* The Ring Generator *)

(* A ring on the line the generator is left on has been ready before,      *)
(* unless calls may share that line.                                       *)
LeftOnReadyLine ==
  ring_active_line # NoLine /\ ~MayBeShared(ring_active_line) =>
    \A l \in Lines :
      calls[l].phase = "Ringing" /\ calls[l].callee = ring_active_line
      => calls[l].ring_ready = 0

(* From update_ring_activation to the operator's move: the generator is    *)
(* off, or a call rings on the line that is cranked.                       *)
RingsForSomebody ==
  \E l \in Lines :
    /\ calls[l].phase = "Ringing" /\ calls[l].callee = RequestedRingLine(input)
    /\ ring_active_line = RequestedRingLine(input) =>
         calls[l].ring_ready = 0 \/ MayBeShared(ring_active_line)
AfterUpdate == pc \in {"connect", "finish", "settle", "operate"}
UpdateHolds ==
  AfterUpdate /\ ring_active_line # NoLine =>
    RingsForSomebody \/ (pc = "operate" /\ Active(calls) = {})

GeneratorInv == LeftOnReadyLine /\ UpdateHolds

(* Two calls do not name a line as their destination that is not shared. *)
LEMMA OneCallPerLine ==
  ASSUME LinesExclusive, NEW line, ~MayBeShared(line),
         NEW k \in Lines, NEW m \in Lines,
         calls[k].phase # "None", calls[m].phase # "None",
         calls[k].callee = line, calls[m].callee = line
  PROVE  k = m
BY DEF LinesExclusive, MayBeShared, Active, HasDestination, CallUsesLine

LEMMA RequestedIsCranked ==
  ASSUME RequestedRingLine(input) # NoLine
  PROVE  /\ RequestedRingLine(input) = input.ring_line
         /\ HasCord(input, RequestedRingLine(input), RingPort)
         /\ RequestedRingLine(input) \in Lines
<1>1. /\ RequestedRingLine(input) = input.ring_line
      /\ RequestedRingLine(input) = PhysicalRingLine(input)
  BY DEF RequestedRingLine
<1>2. /\ HasCord(input, PhysicalRingLine(input), RingPort)
      /\ PhysicalRingLine(input) \in Lines
  BY <1>1 DEF PhysicalRingLine
<1> QED  BY <1>1, <1>2

LEMMA UpdateGenerator ==
  ASSUME TypeOK, LinesExclusive, GeneratorInv, UpdateRingActivation
  PROVE  GeneratorInv'
<1>0. CallsTyped(calls) /\ input' = input /\ pc' = "connect"
  BY DEF TypeOK, UpdateRingActivation
<1>1. CASE ring_active_line' = NoLine
  BY <1>1 DEF GeneratorInv, LeftOnReadyLine, UpdateHolds
<1>2. ASSUME NEW l \in CrankedCalls,
             IF calls[l].ring_ready = 0
             THEN /\ ring_active_line' = calls[l].callee
                  /\ calls' = [calls EXCEPT ![l].ring_activated = TRUE]
             ELSE UNCHANGED <<ring_active_line, calls>>
      PROVE  GeneratorInv'
  <2>1. /\ l \in Lines /\ calls[l].phase = "Ringing"
        /\ calls[l].callee = RequestedRingLine(input) /\ RequestedRingLine(input) # NoLine
    BY DEF CrankedCalls
  <2>2. ASSUME NEW k \in Lines
        PROVE  /\ calls'[k].phase = calls[k].phase /\ calls'[k].callee = calls[k].callee
               /\ calls'[k].ring_ready = calls[k].ring_ready
    BY <1>0, <1>2, <2>1 DEF CallsTyped, CallType
  <2>3. RequestedRingLine(input)' = RequestedRingLine(input)
    BY <1>0
  <2>4. CASE calls[l].ring_ready = 0
    <3>1. ring_active_line' = calls[l].callee
      BY <1>2, <2>4
    <3>2. UpdateHolds'
      BY <2>1, <2>2, <2>3, <2>4 DEF UpdateHolds, RingsForSomebody
    <3>3. ASSUME NEW k \in Lines, calls[k].phase = "Ringing", ~MayBeShared(calls[l].callee),
                 calls[k].callee = calls[l].callee
          PROVE  calls[k].ring_ready = 0
      <4>1. k = l
        BY <2>1, <3>3, OneCallPerLine
      <4> QED  BY <2>4, <4>1
    <3>4. LeftOnReadyLine'
      BY <2>2, <3>1, <3>3 DEF LeftOnReadyLine, MayBeShared
    <3> QED  BY <3>2, <3>4 DEF GeneratorInv
  <2>5. CASE calls[l].ring_ready # 0
    <3>1. UNCHANGED <<ring_active_line, calls>>
      BY <1>2, <2>5
    <3>2. LeftOnReadyLine'
      BY <3>1 DEF GeneratorInv, LeftOnReadyLine, MayBeShared
    <3>3. ring_active_line # RequestedRingLine(input) \/ MayBeShared(ring_active_line)
      BY <2>1, <2>5 DEF GeneratorInv, LeftOnReadyLine
    <3>4. UpdateHolds'
      BY <2>1, <2>3, <3>1, <3>3 DEF UpdateHolds, RingsForSomebody, MayBeShared
    <3> QED  BY <3>2, <3>4 DEF GeneratorInv
  <2> QED  BY <2>4, <2>5
<1> QED  BY <1>1, <1>2 DEF UpdateRingActivation

LEMMA GeneratorElsewhere ==
  ASSUME TypeOK, [Next]_vars
  PROVE  UpdateRingActivation \/ ring_active_line' \in {ring_active_line, NoLine}
<1>1. ASSUME NEW f, Operate(f) PROVE ring_active_line' = ring_active_line
  BY <1>1 DEF Operate, Operates, NoFocusedCall, Refuse, Misroute, HangUp, ConnectByTap,
    Answer, StartRing, LeaveOperator, ConnectDirect, MisrouteRinging,
    GiveUpRing, KeepCircuit, BreakCircuit, FinishFocused, Stay, Advances
<1>2. CASE UNCHANGED vars
  BY <1>2 DEF vars
<1>3. CASE Snapshot \/ Tick \/ ResetRun \/ Debug
  BY <1>3 DEF Snapshot, Receive, Tick, ResetRun, Debug, DebugSnapshot, InjectCall,
    SetDebugSwitches
<1>4. CASE Handle
  BY <1>1, <1>4 DEF Handle, OfferStory, StartNeutral, OfferNeutral, EndRefill,
    ConnectReadyDirectCalls, FinishReadyConnectedCalls, SettleShift, KeepShift
<1> QED  BY <1>2, <1>3, <1>4 DEF Next

(* What happens between the update and the operator's move *)
LEMMA StepsAfterUpdate ==
  ASSUME TypeOK, [Next]_vars, AfterUpdate'
  PROVE  \/ UpdateRingActivation
         \/ AfterUpdate /\ input' = input /\ pc' # "connect" /\ ConnectReadyDirectCalls
         \/ AfterUpdate /\ input' = input /\ FinishReadyConnectedCalls
         \/ AfterUpdate /\ input' = input /\ SettleShift
         \/ AfterUpdate /\ input' = input /\ pc' = pc /\ Tick
         \/ AfterUpdate /\ input' = input /\ pc # "operate" /\ UNCHANGED calls
         \/ AfterUpdate /\ input' = input /\ pc' = pc /\ UNCHANGED calls
<1>1. ASSUME NEW f, Operate(f) PROVE pc' = "stories"
  BY <1>1 DEF Operate, Operates, NoFocusedCall, Refuse, Misroute, HangUp, ConnectByTap,
    Answer, StartRing, LeaveOperator, ConnectDirect, MisrouteRinging,
    GiveUpRing, KeepCircuit, BreakCircuit, FinishFocused, Stay, Advances
<1>2. CASE UNCHANGED vars
  BY <1>2 DEF vars, AfterUpdate
<1>3. CASE Snapshot \/ ResetRun \/ Debug
  BY <1>3 DEF Snapshot, Receive, ResetRun, Debug, DebugSnapshot, InjectCall,
    SetDebugSwitches, AfterUpdate
<1>4. CASE Tick
  BY <1>4 DEF Tick, AfterUpdate
<1>5. CASE EndRefill
  BY <1>5 DEF EndRefill, AfterUpdate, TypeOK
<1>6. CASE Handle
  BY <1>1, <1>5, <1>6 DEF Handle, OfferStory, StartNeutral, OfferNeutral,
    ConnectReadyDirectCalls, FinishReadyConnectedCalls, SettleShift, KeepShift, AfterUpdate
<1> QED  BY <1>2, <1>3, <1>4, <1>6 DEF Next

(* The line with the Ring Generator's cord has no direct cord. *)
LEMMA CrankedLineIsNotDirect ==
  ASSUME NEW l \in Lines, RequestedRingLine(input) # NoLine
  PROVE  ~ValidDirectCircuit(input, l, RequestedRingLine(input))
<1> DEFINE line == RequestedRingLine(input)
<1>1. {line, RingPort} \in input.cords
  BY RequestedIsCranked DEF HasCord
<1>2. RingPort \notin Lines /\ line \in Lines
  BY LineAssumption, RequestedIsCranked
<1>3. RingPort \notin {TapPort1, TapPort2} /\ line \notin {TapPort1, TapPort2}
  BY <1>2, LineAssumption
<1>4. {line, RingPort} # {l, line} /\ {line, RingPort} \cap {TapPort1, TapPort2} = {}
  BY <1>2, <1>3
<1>5. {line, RingPort} \cap {l, line} # {}
  OBVIOUS
<1> QED  BY <1>1, <1>4, <1>5 DEF ValidDirectCircuit

LEMMA LeftOnReadyLineSteps ==
  ASSUME TypeOK, LinesExclusive', GeneratorInv, [Next]_vars, ~UpdateRingActivation
  PROVE  LeftOnReadyLine'
<1> SUFFICES ASSUME ring_active_line' # NoLine, ~MayBeShared(ring_active_line'),
                    NEW l \in Lines, calls'[l].phase = "Ringing",
                    calls'[l].callee = ring_active_line'
             PROVE  calls'[l].ring_ready = 0
  BY DEF LeftOnReadyLine, MayBeShared
<1>1. ring_active_line' = ring_active_line
  BY GeneratorElsewhere
<1>2. RingStep(l)
  BY StepsOnRings
<1>3. CASE SameRing(l) /\ (calls[l].ring_ready = 0 => calls'[l].ring_ready = 0)
  <2>1. calls[l].phase = "Ringing" /\ calls[l].callee = ring_active_line
    BY <1>1, <1>3 DEF SameRing, MayBeShared
  <2> QED  BY <1>1, <1>3, <2>1 DEF GeneratorInv, LeftOnReadyLine
<1>4. CASE NewRing(l)
  <2>1. pc = "operate" /\ l \in Active(calls)
    BY <1>4 DEF NewRing, Active
  <2>2. PICK k \in Lines : /\ calls[k].phase = "Ringing"
                           /\ calls[k].callee = RequestedRingLine(input)
    BY <1>1, <2>1 DEF GeneratorInv, UpdateHolds, AfterUpdate, RingsForSomebody
  <2>3. k # l /\ calls'[k] = calls[k] /\ calls'[l].callee = RequestedRingLine(input)
    BY <1>4, <2>2 DEF NewRing
  <2>4. ~MayBeShared(calls'[l].callee)
    OBVIOUS
  <2> QED  BY <2>2, <2>3, <2>4
           DEF LinesExclusive, MayBeShared, Active, HasDestination, CallUsesLine
<1> QED  BY <1>2, <1>3, <1>4 DEF RingStep

LEMMA UpdateHoldsSteps ==
  ASSUME TypeOK, GeneratorInv, [Next]_vars, ~UpdateRingActivation
  PROVE  UpdateHolds'
<1> SUFFICES ASSUME AfterUpdate', ring_active_line' # NoLine
             PROVE  RingsForSomebody' \/ (pc' = "operate" /\ Active(calls') = {})
  BY DEF UpdateHolds
<1>0. CallsTyped(calls) /\ ring_active_line' = ring_active_line
  BY GeneratorElsewhere DEF TypeOK
<1>1. ASSUME AfterUpdate, input' = input, RingsForSomebody,
             \A l \in Lines :
               calls[l].phase = "Ringing" /\ calls[l].callee = RequestedRingLine(input) =>
                 /\ calls'[l].phase = "Ringing" /\ calls'[l].callee = calls[l].callee
                 /\ calls[l].ring_ready = 0 => calls'[l].ring_ready = 0
      PROVE  RingsForSomebody'
  BY <1>0, <1>1 DEF RingsForSomebody
<1>2. CASE /\ AfterUpdate /\ input' = input /\ pc' # "connect" /\ ConnectReadyDirectCalls
  <2>1. pc = "connect" /\ RingsForSomebody
    BY <1>0, <1>2 DEF ConnectReadyDirectCalls, GeneratorInv, UpdateHolds
  <2>2. ASSUME NEW l \in Lines, calls[l].phase = "Ringing",
               calls[l].callee = RequestedRingLine(input)
        PROVE  calls'[l] = calls[l]
    <3>1. RequestedRingLine(input) # NoLine
      BY <1>0, <2>2, LineAssumption DEF CallsTyped
    <3>2. ~ReadyToConnect(l)
      BY <2>2, <3>1, CrankedLineIsNotDirect DEF ReadyToConnect
    <3> QED  BY <1>2, <3>2 DEF ConnectReadyDirectCalls
  <2> QED  BY <1>1, <1>2, <2>1, <2>2
<1>3. CASE AfterUpdate /\ input' = input /\ FinishReadyConnectedCalls
  <2>1. RingsForSomebody
    BY <1>0, <1>3 DEF FinishReadyConnectedCalls, GeneratorInv, UpdateHolds
  <2>2. \A l \in Lines : calls[l].phase = "Ringing" => calls'[l] = calls[l]
    BY <1>3 DEF FinishReadyConnectedCalls, ReadyToFinish, Without
  <2> QED  BY <1>1, <1>3, <2>1, <2>2
<1>4. CASE SettleShift
  BY <1>4 DEF SettleShift, Without, NoCall, Active
<1>5. CASE AfterUpdate /\ input' = input /\ pc' = pc /\ Tick
  <2>1. ASSUME NEW l \in Lines
        PROVE  /\ calls'[l].phase = calls[l].phase /\ calls'[l].callee = calls[l].callee
               /\ calls[l].ring_ready = 0 => calls'[l].ring_ready = 0
    BY <1>0, <1>5, OlderTyped DEF Tick, CallsTyped
  <2>2. CASE RingsForSomebody
    BY <1>1, <1>5, <2>1, <2>2
  <2>3. CASE pc = "operate" /\ Active(calls) = {}
    BY <1>5, <2>1, <2>3 DEF Active
  <2> QED  BY <1>0, <1>5, <2>2, <2>3 DEF GeneratorInv, UpdateHolds
<1>6. CASE /\ AfterUpdate /\ input' = input /\ UNCHANGED calls
           /\ pc # "operate" \/ pc' = pc
  BY <1>0, <1>1, <1>6 DEF GeneratorInv, UpdateHolds
<1> QED  BY <1>2, <1>3, <1>4, <1>5, <1>6, StepsAfterUpdate

(* The Ring Generator is never reported on a line that no call rings, nor  *)
(* on one where the ring is not ready unless two calls may share it: what  *)
(* an earlier ring left behind is cleared before a new ring can meet it    *)
(* (update_ring_activation).                                               *)
THEOREM GeneratorIsNotLeftOver == Spec => []GeneratorRingsReadyCall
<1>1. ASSUME Init PROVE GeneratorInv
  BY <1>1 DEF Init, GeneratorInv, LeftOnReadyLine, UpdateHolds
<1>2. ASSUME TypeOK, LinesExclusive, LinesExclusive', GeneratorInv, [Next]_vars
      PROVE  GeneratorInv'
  BY <1>2, UpdateGenerator, LeftOnReadyLineSteps, UpdateHoldsSteps DEF GeneratorInv
<1>3. ASSUME TypeOK, GeneratorInv PROVE GeneratorRingsReadyCall
  BY <1>3 DEF GeneratorInv, UpdateHolds, AfterUpdate, RingsForSomebody,
              GeneratorRingsReadyCall, EffectiveRingLine
<1> QED  BY <1>1, <1>2, <1>3, TypeCorrect, ExclusiveLines, PTL DEF Spec

(* Every step leaves a served call alone unless it is a move on that call, *)
(* the end of its audio in a standing circuit, or the end of the run.      *)
THEOREM ServedCallersStay == Spec => ServedCallersAreKept
<1> DEFINE Keeps(l) ==
      /\ calls[l].phase \in {"OperatorSession", "Connected"}
      /\ calls'[l].phase = "None"
      => \/ pc = "operate" /\ focused' = l
         \/ /\ calls[l].audio = 0
            /\ ValidConnectedCircuit(input, l, calls[l].callee)
         \/ shift'.number = 1 /\ shift'.phase = "Ready"
<1>1. ASSUME TypeOK, [Next]_vars, NEW l \in Lines PROVE Keeps(l)
  <2>0. CallsTyped(calls)
    BY <1>1 DEF TypeOK
  <2>1. CASE UNCHANGED calls
    BY <2>1
  <2>2. ASSUME NEW f \in Lines \cup {NoLine}, Operate(f) PROVE Keeps(l)
    <3>1. pc = "operate" /\ focused' = f
      BY <2>2 DEF Operate, Operates, NoFocusedCall, Refuse, Misroute, HangUp, ConnectByTap,
        Answer, StartRing, LeaveOperator, ConnectDirect, MisrouteRinging,
        GiveUpRing, KeepCircuit, BreakCircuit, FinishFocused, Stay, Advances
    <3>2. l # f => calls'[l] = calls[l]
      BY <2>0, <2>2 DEF Operate, NoFocusedCall, Refuse, Misroute, HangUp, ConnectByTap,
        Answer, StartRing, LeaveOperator, ConnectDirect, MisrouteRinging,
        GiveUpRing, KeepCircuit, BreakCircuit, FinishFocused, Stay, Becomes, Without,
        CallsTyped
    <3> QED  BY <3>1, <3>2
  <2>3. CASE ResetRun
    BY <2>3 DEF ResetRun
  <2>4. CASE Snapshot \/ DebugSnapshot
    BY <2>4 DEF Snapshot, Receive, DebugSnapshot, Expired, Without
  <2>5. CASE FinishReadyConnectedCalls
    BY <2>5 DEF FinishReadyConnectedCalls, ReadyToFinish, Without
  <2>6. CASE SettleShift
    BY <2>6 DEF SettleShift, SettleDue
  <2>7. CASE Tick
    BY <2>0, <2>7, OlderTyped DEF Tick, CallsTyped
  <2>8. CASE ConnectReadyDirectCalls
    <3>1. calls[l].phase # "None" => calls[l] \in CallType /\ calls[l].callee \in Lines
      BY <2>0 DEF CallsTyped
    <3> QED  BY <2>8, <3>1, ConnectTyped DEF ConnectReadyDirectCalls
  <2>9. CASE UpdateRingActivation
    <3>1. ASSUME NEW k \in CrankedCalls, calls' = [calls EXCEPT ![k].ring_activated = TRUE]
          PROVE  calls'[l].phase = calls[l].phase
      BY <2>0, <3>1 DEF CallsTyped, CallType
    <3> QED  BY <2>1, <2>9, <3>1 DEF UpdateRingActivation
  <2>10. ASSUME NEW p \in Pairs,
                OfferStory(p[1], p[2]) \/ OfferNeutral(p[1], p[2]) \/ InjectCall(p[1], p[2])
         PROVE  Keeps(l)
    <3>1. PICK t \in PatienceValues : calls' = [calls EXCEPT ![p[1]] = NewCall(p[2], t)]
      BY <2>10 DEF OfferStory, OfferNeutral, InjectCall
    <3>2. calls'[l] = calls[l] \/ calls'[l].phase = "Waiting"
      BY <2>0, <3>1 DEF CallsTyped, NewCall, NoCall
    <3> QED  BY <3>2
  <2>11. CASE StartNeutral \/ EndRefill \/ KeepShift \/ SetDebugSwitches \/ UNCHANGED vars
    BY <2>1, <2>11 DEF StartNeutral, EndRefill, KeepShift, SetDebugSwitches, vars
  <2> QED
    BY <1>1, <2>2, <2>3, <2>4, <2>5, <2>6, <2>7, <2>8, <2>9, <2>10, <2>11, CallAssumption
       DEF Next, Handle, Debug
<1>2. ASSUME TypeOK, [Next]_vars PROVE \A l \in Lines : Keeps(l)
  BY <1>1, <1>2
<1> QED  BY <1>2, TypeCorrect, PTL DEF Spec, ServedCallersAreKept
=============================================================================
