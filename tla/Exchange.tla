------------------------------ MODULE Exchange ------------------------------
(***************************************************************************)
(* The life of the calls on the switchboard: what the backend's            *)
(* Backend::apply_input does to its active calls when a panel snapshot     *)
(* arrives, stage by stage, while the clock runs.                          *)
(*                                                                         *)
(* The backend mutex is held from "received" until the handler returns to  *)
(* "idle", so only the clock moves between two stages.  Absolute deadlines *)
(* of the code are countdowns here (deadline <= now is a countdown at 0):  *)
(* the two are interchangeable because the code only ever compares them    *)
(* with the current time.  Which story call may ring, and what a finished  *)
(* call pays, belong to StoryBoard: here a story call may be offered       *)
(* whenever its lines and its gate allow it.                               *)
(***************************************************************************)
EXTENDS Integers, FiniteSets

CONSTANTS
  Lines,               \* subscriber lines
  NoLine,              \* the -1 / None of the code
  OperatorPort, RingPort, TapPort1, TapPort2,
  Placeholder,         \* line 0, the destination of calls that have none
  PlaceholderCallers,  \* callers whose call has no destination (Shapla, Rahman)
  HangUpCallers,       \* callers released by an empty panel (Shapla, Rahman, Nahid)
  BelaCallers,         \* callers who may go to either Bela (Arnab)
  DogLine, CatLine,    \* the lines of the two Belas
  Stories, NoStory,
  StoryOf,             \* [Lines -> Stories \cup {NoStory}]
  StoryPairs,          \* <<caller, callee>> the story selector may offer
  NeutralPairs,        \* <<caller, callee>> next_call may draw
  Snapshots,           \* panel snapshots the frontend may send
  CallTarget, StoryCallTarget,
  PatienceValues,      \* seconds a caller may wait
  RingDelays,          \* seconds until a cranked line is ready
  AudioOf,             \* [Lines \X Lines -> seconds of audio, or Live]
  RingGrace, DisconnectGrace, ShiftDuration,
  DebugAttached        \* is the debug surface connected?

Never == -1            \* a countdown that is not running (None)
Live  == -1            \* u64::MAX: audio that never ends by itself

Timers == Nat \cup {Never}
Phases == {"Waiting", "OperatorSession", "AwaitingRouting", "Ringing", "Connected"}
NoGate == <<NoLine, NoLine>>

Pairs == Lines \X Lines
Ports == Lines \cup {OperatorPort, RingPort, TapPort1, TapPort2}

(* A panel snapshot: the cords, the held TAP key, the cranked line and the *)
(* directory selection.  The protocol allows an endpoint in one cord only. *)
SnapshotType ==
  [cords : SUBSET {{p, q} : p, q \in Ports}, tap : BOOLEAN,
   ring_line : Lines \cup {NoLine}, selected : Lines \cup {NoLine}]

ASSUME LineAssumption ==
  /\ NoLine \notin Lines
  /\ Placeholder \in Lines
  /\ PlaceholderCallers \subseteq Lines \ {Placeholder}
  /\ HangUpCallers \subseteq Lines
  /\ BelaCallers \subseteq Lines /\ {DogLine, CatLine} \subseteq Lines
  /\ {OperatorPort, RingPort, TapPort1, TapPort2} \cap (Lines \cup {NoLine}) = {}
  /\ RingPort \notin {TapPort1, TapPort2}

ASSUME CallAssumption ==
  /\ NoStory \notin Stories
  /\ StoryOf \in [Lines -> Stories \cup {NoStory}]
  /\ StoryPairs \subseteq {p \in Pairs : p[1] # p[2]}
  /\ NeutralPairs \subseteq {p \in Pairs : p[1] # p[2]}
  /\ \A p \in StoryPairs : StoryOf[p[1]] # NoStory
  /\ \A p \in NeutralPairs : StoryOf[p[1]] = NoStory
  /\ \A p \in StoryPairs : p[1] \in PlaceholderCallers => p[2] = Placeholder

ASSUME SnapshotAssumption ==
  /\ Snapshots \subseteq SnapshotType
  /\ Snapshots # {}
  /\ \A s \in Snapshots : \A c, d \in s.cords : c # d => c \cap d = {}

ASSUME TimeAssumption ==
  /\ CallTarget \in Nat /\ StoryCallTarget \in Nat
  /\ PatienceValues \subseteq Nat /\ PatienceValues # {}
  /\ RingDelays \subseteq Nat /\ RingDelays # {}
  /\ AudioOf \in [Pairs -> Timers]
  /\ RingGrace \in Nat /\ DisconnectGrace \in Nat /\ ShiftDuration \in Nat
  /\ DebugAttached \in BOOLEAN

VARIABLES
  calls,        \* [Lines -> Call]: the active call of each caller line
  gates,        \* story_connections_pending_disconnect
  shift,        \* [number, phase, left]
  game_phase,
  ring_active_line,
  focus,        \* state.call: the caller line published last
  focused,      \* the caller line this snapshot operates on
  input,        \* the snapshot being handled, the last one when idle
  pc, ret,      \* handler stage, and the stage after refill_calls
  godmode, bypass_restrictions

vars == <<calls, gates, shift, game_phase, ring_active_line, focus, focused,
          input, pc, ret, godmode, bypass_restrictions>>
debug_vars == <<godmode, bypass_restrictions>>

(* One active call.  rung is history: the lines the Ring Generator has     *)
(* called for it.                                                          *)
CallType ==
  [phase : Phases \cup {"None"}, callee : Lines \cup {NoLine},
   patience : Nat, ring_ready : Timers, ring_grace : Timers,
   ring_activated : BOOLEAN, audio : Timers, disconnect : Timers,
   rung : SUBSET Lines]

NoCall ==
  [phase |-> "None", callee |-> NoLine, patience |-> 0, ring_ready |-> Never,
   ring_grace |-> Never, ring_activated |-> FALSE, audio |-> 0,
   disconnect |-> Never, rung |-> {}]

NewCall(callee, patience) ==
  [NoCall EXCEPT !.phase = "Waiting", !.callee = callee, !.patience = patience]

-----------------------------------------------------------------------------
(* Circuits, as hardware.rs reads them from a snapshot. *)

HasCord(in, p, q) == {p, q} \in in.cords

OperatorLines(in) == {l \in Lines : HasCord(in, l, OperatorPort)}

PhysicalRingLine(in) ==
  IF \E l \in Lines : HasCord(in, l, RingPort)
  THEN CHOOSE l \in Lines : HasCord(in, l, RingPort)
  ELSE NoLine

(* hardware::effective_ring_line: the crank counts for the corded line only *)
RequestedRingLine(in) ==
  IF in.ring_line = PhysicalRingLine(in) THEN in.ring_line ELSE NoLine

Direct(in, caller, callee) == HasCord(in, caller, callee)

ValidDirectCircuit(in, caller, callee) ==
  /\ Direct(in, caller, callee)
  /\ \A cord \in in.cords :
       cord \cap {caller, callee} # {} =>
         cord = {caller, callee} \/ cord \cap {TapPort1, TapPort2} # {}

ValidTapCircuit(in, caller, callee) ==
  \/ in.cords = {{caller, TapPort1}, {callee, TapPort2}}
  \/ in.cords = {{caller, TapPort2}, {callee, TapPort1}}

ValidConnectedCircuit(in, caller, callee) ==
  ValidDirectCircuit(in, caller, callee) \/ ValidTapCircuit(in, caller, callee)

ValidRingingCircuit(in, caller, callee) ==
  /\ HasCord(in, caller, OperatorPort)
  /\ PhysicalRingLine(in) = callee
  /\ in.ring_line = callee

HasDirectCircuitForCaller(in, caller) == \E l \in Lines : Direct(in, caller, l)

HasWrongDirectCircuit(in, caller, callee) ==
  \E l \in Lines \ {callee} : Direct(in, caller, l)

TouchesTap(in, line) == HasCord(in, line, TapPort1) \/ HasCord(in, line, TapPort2)

EffectiveRingLine(in) ==
  IF ring_active_line = RequestedRingLine(in) THEN ring_active_line ELSE NoLine

-----------------------------------------------------------------------------
(* The board. *)

Active(cs) == {l \in Lines : cs[l].phase # "None"}

CallUsesLine(cs, caller, line) ==
  \/ caller = line
  \/ /\ cs[caller].callee = line
     /\ ~(line = Placeholder /\ caller \in PlaceholderCallers)

\* Mutant: a line in use as a destination counts as free
LineIsFree_CallersOnly(cs, line) == line \notin Active(cs)

LineIsFree(cs, line) == \A k \in Active(cs) : ~CallUsesLine(cs, k, line)

StoryCalls(cs) == {l \in Active(cs) : StoryOf[l] # NoStory}

(* connect_call: the audio starts now.  Patience and ring times are only    *)
(* read before a call is connected, so they are cleared here.              *)
Connect(c, caller) ==
  [c EXCEPT !.phase = "Connected", !.audio = AudioOf[<<caller, c.callee>>],
            !.patience = 0, !.ring_ready = Never, !.ring_grace = Never]

(* finish_call, the part that concerns the board: a completed story call   *)
(* keeps its thread gated until its circuit is taken down.                 *)
Finished(cs, done, story) ==
  {l \in done : cs[l].phase = "Connected" /\ StoryOf[l] = story}

GateAfter(cs, done) ==
  [s \in Stories |->
     IF Finished(cs, done, s) = {} THEN gates[s]
     ELSE LET l == CHOOSE k \in Finished(cs, done, s) : TRUE
          IN <<l, cs[l].callee>>]

Without(cs, gone) == [l \in Lines |-> IF l \in gone THEN NoCall ELSE cs[l]]

\* Mutant: the call the operator looks at does not expire
Expired_NotFocused(cs) ==
  {l \in Lines : cs[l].phase = "Waiting" /\ cs[l].patience = 0 /\ l # focus}

(* expire_calls: callers that waited past their deadline are missed *)
Expired(cs) ==
  IF godmode THEN {}
  ELSE {l \in Lines : cs[l].phase = "Waiting" /\ cs[l].patience = 0}

-----------------------------------------------------------------------------
Init ==
  /\ calls = [l \in Lines |-> NoCall]
  /\ gates = [s \in Stories |-> NoGate]
  /\ shift = [number |-> 1, phase |-> "Ready", left |-> ShiftDuration]
  /\ game_phase = "Ready"
  /\ ring_active_line = NoLine
  /\ focus = NoLine
  /\ focused = NoLine
  /\ input = [cords |-> {}, tap |-> FALSE, ring_line |-> NoLine, selected |-> NoLine]
  /\ pc = "stories"
  /\ ret = "idle"
  /\ godmode = FALSE
  /\ bypass_restrictions = FALSE

(* A snapshot that passed the protocol checks: the gates of circuits that  *)
(* are no longer patched open, then waiting callers expire, then the board *)
(* is refilled.                                                            *)
StillPatched(in, gate) ==
  \/ ValidDirectCircuit(in, gate[1], gate[2])
  \/ TouchesTap(in, gate[1])
  \/ TouchesTap(in, gate[2])

Receive(in) ==
  /\ pc = "idle"
  /\ input' = in
  /\ gates' = [s \in Stories |->
                 IF gates[s] # NoGate /\ StillPatched(in, gates[s])
                 THEN gates[s] ELSE NoGate]
  /\ calls' = Without(calls, Expired(calls))
  /\ pc' = "stories"
  /\ ret' = "progress"
  /\ UNCHANGED <<shift, game_phase, ring_active_line, focus, focused, debug_vars>>

-----------------------------------------------------------------------------
(* refill_calls *)

\* Mutant: the gate is forgotten
StoryConnectionIsBlocked_Never(story) == FALSE

StoryConnectionIsBlocked(story) == gates[story] # NoGate

(* ensure_story_call: at most one call per story, none while the story is  *)
(* gated, none on a line in use, up to the story target.                   *)
OfferStory(caller, callee) ==
  /\ pc = "stories"
  /\ Cardinality(StoryCalls(calls)) < StoryCallTarget
  /\ ~StoryConnectionIsBlocked(StoryOf[caller])
  /\ \A l \in StoryCalls(calls) : StoryOf[l] # StoryOf[caller]
  /\ LineIsFree(calls, caller)
  /\ caller \in PlaceholderCallers \/ LineIsFree(calls, callee)
  /\ \E p \in PatienceValues :
       calls' = [calls EXCEPT ![caller] = NewCall(callee, p)]
  /\ UNCHANGED <<gates, shift, game_phase, ring_active_line, focus, focused,
                 input, pc, ret, debug_vars>>

\* Mutant: every refill starts the shift clock again
RefilledShift_Restarts ==
  [number |-> IF shift.phase = "Settled" /\ shift.number < 4
              THEN shift.number + 1 ELSE shift.number,
   phase |-> "Ready", left |-> ShiftDuration]

(* A settled shift turns into the next one and the shift clock starts.     *)
(* The code compares the shift number with 3 only, so 4 stands for more.   *)
RefilledShift ==
  IF shift.phase = "Active" THEN shift
  ELSE [number |-> IF shift.phase = "Settled" /\ shift.number < 4
                   THEN shift.number + 1 ELSE shift.number,
        phase |-> "Ready", left |-> ShiftDuration]

(* The story threads are served. *)
StartNeutral ==
  /\ pc = "stories"
  /\ pc' = "neutral"
  /\ shift' = RefilledShift
  /\ UNCHANGED <<calls, gates, game_phase, ring_active_line, focus, focused,
                 input, ret, debug_vars>>

\* with stories the board is filled to three calls at most
TargetCount == IF Stories # {} /\ CallTarget > 3 THEN 3 ELSE CallTarget

\* Mutant: one call too many
NeutralWanted_OneMore == Cardinality(Active(calls)) <= TargetCount /\ shift.number <= 3

(* The code also spaces arrivals by call_arrival_interval_seconds, which   *)
(* is 0 in exchange.toml: the next arrival is then never in the future.    *)
NeutralWanted == Cardinality(Active(calls)) < TargetCount /\ shift.number <= 3

\* Mutant: the line of the destination may be in use
OfferNeutral_CallerOnly(caller, callee) ==
  /\ pc = "neutral"
  /\ NeutralWanted
  /\ LineIsFree(calls, caller)
  /\ \E p \in PatienceValues :
       calls' = [calls EXCEPT ![caller] = NewCall(callee, p)]
  /\ UNCHANGED <<gates, shift, game_phase, ring_active_line, focus, focused,
                 input, pc, ret, debug_vars>>

(* next_call draws pairs until both lines are free; without such a pair it *)
(* never returns, and neither does the handler.                            *)
OfferNeutral(caller, callee) ==
  /\ pc = "neutral"
  /\ NeutralWanted
  /\ LineIsFree(calls, caller)
  /\ LineIsFree(calls, callee)
  /\ \E p \in PatienceValues :
       calls' = [calls EXCEPT ![caller] = NewCall(callee, p)]
  /\ UNCHANGED <<gates, shift, game_phase, ring_active_line, focus, focused,
                 input, pc, ret, debug_vars>>

(* The board is full: the shift runs.  The last refill of a snapshot is    *)
(* followed by publishing the focused call.                                *)
EndRefill ==
  /\ pc = "neutral"
  /\ ~NeutralWanted
  /\ shift' = [shift EXCEPT !.phase = "Active"]
  /\ game_phase' = "Shift"
  /\ pc' = IF ret = "publish" THEN "idle" ELSE ret
  /\ focus' = IF ret # "publish" THEN focus
              ELSE IF focused \in Active(calls) THEN focused ELSE NoLine
  /\ focused' = NoLine
  /\ ret' = "idle"
  /\ UNCHANGED <<calls, gates, ring_active_line, input, debug_vars>>

-----------------------------------------------------------------------------
(* Progress that does not depend on the operator's focus. *)

(* update_ring_activation: the first ringing call on the cranked line gets *)
(* ready when its delay has passed; every other case stops the generator,  *)
(* except a line that is not ready yet, which leaves it as it was.         *)
CrankedCalls ==
  IF RequestedRingLine(input) = NoLine THEN {}
  ELSE {l \in Lines : /\ calls[l].phase = "Ringing"
                      /\ calls[l].callee = RequestedRingLine(input)}

\* Mutant: a generator that nobody needs is not stopped
UpdateRingActivation_KeepsRinging ==
  /\ pc = "progress"
  /\ \/ CrankedCalls = {} /\ UNCHANGED <<ring_active_line, calls>>
     \/ \E l \in CrankedCalls :
          IF calls[l].ring_ready = 0
          THEN /\ ring_active_line' = calls[l].callee
               /\ calls' = [calls EXCEPT ![l].ring_activated = TRUE]
          ELSE UNCHANGED <<ring_active_line, calls>>
  /\ pc' = "connect"
  /\ UNCHANGED <<gates, shift, game_phase, focus, focused, input, ret, debug_vars>>

UpdateRingActivation ==
  /\ pc = "progress"
  /\ \/ /\ CrankedCalls = {}
        /\ ring_active_line' = NoLine
        /\ calls' = calls
     \/ \E l \in CrankedCalls :
          IF calls[l].ring_ready = 0
          THEN /\ ring_active_line' = calls[l].callee
               /\ calls' = [calls EXCEPT ![l].ring_activated = TRUE]
          ELSE UNCHANGED <<ring_active_line, calls>>
  /\ pc' = "connect"
  /\ UNCHANGED <<gates, shift, game_phase, focus, focused, input, ret, debug_vars>>

(* connect_ready_direct_calls: every ringing call whose direct circuit is  *)
(* patched while no generator rings.                                       *)
\* Mutant: a patched call need not ring
ReadyToConnect_Unrung(l) ==
  /\ calls[l].phase \in {"AwaitingRouting", "Ringing"}
  /\ EffectiveRingLine(input) = NoLine
  /\ ValidDirectCircuit(input, l, calls[l].callee)

\* Mutant: any of the caller's destinations will do, whichever is called
ReadyToConnect_AnyAlternate(l) ==
  /\ calls[l].phase = "Ringing"
  /\ EffectiveRingLine(input) = NoLine
  /\ HasDirectCircuitForCaller(input, l)

ReadyToConnect(l) ==
  /\ calls[l].phase = "Ringing"
  /\ EffectiveRingLine(input) = NoLine
  /\ calls[l].ring_grace # Never
  /\ ValidDirectCircuit(input, l, calls[l].callee)

ConnectReadyDirectCalls ==
  /\ pc = "connect"
  /\ calls' = [l \in Lines |->
                 IF ReadyToConnect(l) THEN Connect(calls[l], l) ELSE calls[l]]
  /\ pc' = "finish"
  /\ UNCHANGED <<gates, shift, game_phase, ring_active_line, focus, focused,
                 input, ret, debug_vars>>

(* finish_ready_connected_calls: every connected call whose audio has      *)
(* ended and whose circuit is still in place, focused or not.              *)
\* Mutant: only the call in focus is looked at
ReadyToFinish_Focused ==
  {l \in Lines : /\ calls[l].phase = "Connected"
                 /\ calls[l].audio = 0
                 /\ l = focus
                 /\ ValidConnectedCircuit(input, l, calls[l].callee)}

ReadyToFinish ==
  {l \in Lines : /\ calls[l].phase = "Connected"
                 /\ calls[l].audio = 0
                 /\ ValidConnectedCircuit(input, l, calls[l].callee)}

FinishReadyConnectedCalls ==
  /\ pc = "finish"
  /\ calls' = Without(calls, ReadyToFinish)
  /\ gates' = GateAfter(calls, ReadyToFinish)
  /\ pc' = "settle"
  /\ UNCHANGED <<shift, game_phase, ring_active_line, focus, focused, input,
                 ret, debug_vars>>

(* The shift settles when its time is up and nobody is being served:       *)
(* settle_shift drops every call, unpaid.                                  *)
\* Mutant: the caller at the operator is forgotten
SettleDue_OnlyConnected ==
  /\ shift.phase = "Active"
  /\ shift.left = 0
  /\ \A l \in Lines : calls[l].phase # "Connected"

SettleDue ==
  /\ shift.phase = "Active"
  /\ shift.left = 0
  /\ \A l \in Lines : calls[l].phase \notin {"OperatorSession", "Connected"}

SettleShift ==
  /\ pc = "settle"
  /\ SettleDue
  /\ calls' = Without(calls, Lines)
  /\ shift' = [shift EXCEPT !.phase = "Settled"]
  /\ game_phase' = IF shift.number >= 3 THEN "Ended" ELSE game_phase
  /\ focus' = NoLine
  /\ pc' = "operate"
  /\ UNCHANGED <<gates, ring_active_line, focused, input, ret, debug_vars>>

KeepShift ==
  /\ pc = "settle"
  /\ ~SettleDue
  /\ pc' = "operate"
  /\ UNCHANGED <<calls, gates, shift, game_phase, ring_active_line, focus,
                 focused, input, ret, debug_vars>>

-----------------------------------------------------------------------------
(* The operator's move on the focused call: the checks of apply_input and  *)
(* the call's part of advance.                                             *)

(* The line at the Operator jack, else the call published last, else some  *)
(* connected call.                                                         *)
FocusChoices ==
  LET connected == {l \in Lines : calls[l].phase = "Connected"} IN
  CASE OperatorLines(input) # {} -> OperatorLines(input)
    [] OperatorLines(input) = {} /\ focus # NoLine -> {focus}
    [] OTHER -> IF connected = {} THEN {NoLine} ELSE connected

Belas == {DogLine, CatLine}

DestinationIsAllowed(caller) ==
  input.selected \in IF caller \in BelaCallers THEN Belas ELSE {calls[caller].callee}

StoryDirectDestinationAllowed(caller) ==
  caller \in BelaCallers /\ \E l \in Belas : Direct(input, caller, l)

(* The reasons for which a snapshot is refused before it operates the call *)
DirectorySelectionRequired(f) ==
  Direct(input, f, calls[f].callee) /\ ~DestinationIsAllowed(f)

WrongDestination(f) ==
  /\ ~DirectorySelectionRequired(f)
  /\ HasWrongDirectCircuit(input, f, calls[f].callee)
  /\ ~StoryDirectDestinationAllowed(f)

InvalidConnectedTopology(f) ==
  /\ calls[f].phase = "Connected"
  /\ input.cords # {}
  /\ ~ValidConnectedCircuit(input, f, calls[f].callee)

Refused(f) ==
  DirectorySelectionRequired(f) \/ WrongDestination(f) \/ InvalidConnectedTopology(f)

(* advance lets Arnab's call follow the Bela line that is cranked, or that *)
(* is selected and patched; the cat comes last in the code's loop and wins.*)
Follows(f, l) ==
  /\ f \in BelaCallers
  /\ RequestedRingLine(input) = l \/ (input.selected = l /\ Direct(input, f, l))

Destination(f) ==
  IF Follows(f, CatLine) THEN CatLine
  ELSE IF Follows(f, DogLine) THEN DogLine ELSE calls[f].callee

Retargeted(f) == [calls[f] EXCEPT !.callee = Destination(f)]

(* Every branch ends the same way: remember the focus and refill.          *)
Operates(f) ==
  /\ pc = "operate"
  /\ f \in FocusChoices
  /\ focused' = f
  /\ pc' = "stories"
  /\ ret' = "publish"
  /\ UNCHANGED <<shift, game_phase, ring_active_line, focus, input, debug_vars>>

NoFocusedCall(f) ==
  /\ Operates(f)
  /\ f \notin Active(calls)
  /\ UNCHANGED <<calls, gates>>

Refuse(f) ==
  /\ Operates(f)
  /\ f \in Active(calls)
  /\ Refused(f)
  /\ WrongDestination(f) => bypass_restrictions
  /\ UNCHANGED <<calls, gates>>

(* fail_call: a cord to a line nobody asked for loses the call *)
Misroute(f) ==
  /\ Operates(f)
  /\ f \in Active(calls)
  /\ WrongDestination(f)
  /\ ~bypass_restrictions
  /\ calls' = Without(calls, {f})
  /\ gates' = gates

HangsUp(f) == f \in HangUpCallers /\ input.cords = {}

HangUp(f) ==
  /\ Operates(f)
  /\ f \in Active(calls)
  /\ ~Refused(f)
  /\ HangsUp(f)
  /\ calls' = Without(calls, {f})
  /\ gates' = gates

(* The remaining branches of advance replace the call (or finish it).      *)
Advances(f) ==
  /\ Operates(f)
  /\ f \in Active(calls)
  /\ ~Refused(f)
  /\ ~HangsUp(f)

Becomes(f, c) == calls' = [calls EXCEPT ![f] = c] /\ gates' = gates

TapRoute(f) == input.tap /\ ValidTapCircuit(input, f, Retargeted(f).callee)

RingRequested(f) == RequestedRingLine(input) = Retargeted(f).callee

DirectRoute(f) == Direct(input, f, Retargeted(f).callee)

Routing == {"OperatorSession", "AwaitingRouting"}

(* TAP held on the exact tap circuit connects a call that is not ringing,  *)
(* and a ringing one once its line is ready.                               *)
ConnectByTap(f) ==
  /\ Advances(f)
  /\ TapRoute(f)
  /\ \/ calls[f].phase \in {"Waiting"} \cup Routing
     \/ calls[f].phase = "Ringing" /\ calls[f].ring_activated
  /\ Becomes(f, Connect(Retargeted(f), f))

Answer(f) ==
  /\ Advances(f)
  /\ calls[f].phase = "Waiting"
  /\ ~TapRoute(f)
  /\ HasCord(input, f, OperatorPort)
  /\ Becomes(f, [Retargeted(f) EXCEPT !.phase = "OperatorSession", !.patience = 0])

StartRing(f) ==
  /\ Advances(f)
  /\ calls[f].phase \in Routing
  /\ ~TapRoute(f)
  /\ ~HasDirectCircuitForCaller(input, f)
  /\ ValidRingingCircuit(input, f, Retargeted(f).callee)
  /\ \E d \in RingDelays :
       Becomes(f, [Retargeted(f) EXCEPT !.phase = "Ringing", !.ring_ready = d,
                                        !.ring_grace = RingGrace + 1,
                                        !.rung = @ \cup {Retargeted(f).callee}])

LeaveOperator(f) ==
  /\ Advances(f)
  /\ calls[f].phase = "OperatorSession"
  /\ input.cords = {}
  /\ Becomes(f, [Retargeted(f) EXCEPT !.phase = "AwaitingRouting"])

(* The direct cord of a ringing call, when the ready-call stage did not    *)
(* take it: the line must be ready and the selection right.                *)
ConnectDirect(f) ==
  /\ Advances(f)
  /\ calls[f].phase = "Ringing"
  /\ ~TapRoute(f)
  /\ ~RingRequested(f)
  /\ DirectRoute(f)
  /\ input.selected = Retargeted(f).callee
  /\ calls[f].ring_activated
  /\ calls[f].ring_grace # Never
  /\ ValidDirectCircuit(input, f, Retargeted(f).callee)
  /\ Becomes(f, Connect(Retargeted(f), f))

(* Patched to one alternate with the other one selected *)
MisrouteRinging(f) ==
  /\ Advances(f)
  /\ calls[f].phase = "Ringing"
  /\ ~TapRoute(f)
  /\ ~RingRequested(f)
  /\ DirectRoute(f)
  /\ input.selected # Retargeted(f).callee
  /\ ~bypass_restrictions
  /\ calls' = Without(calls, {f})
  /\ gates' = gates

(* Ring grace: ring_activated and the ready time are left as they are; the *)
(* next ring overwrites the ready time only.                               *)
GiveUpRing(f) ==
  /\ Advances(f)
  /\ calls[f].phase = "Ringing"
  /\ ~TapRoute(f)
  /\ ~RingRequested(f)
  /\ ~DirectRoute(f)
  /\ calls[f].ring_grace \in {0, Never}
  /\ Becomes(f, [Retargeted(f) EXCEPT !.phase = "AwaitingRouting",
                                      !.ring_grace = Never])

KeepCircuit(f) ==
  /\ Advances(f)
  /\ calls[f].phase = "Connected"
  /\ ValidConnectedCircuit(input, f, Retargeted(f).callee)
  /\ calls[f].audio # 0
  /\ Becomes(f, [Retargeted(f) EXCEPT !.disconnect = Never])

(* A circuit that is down starts the disconnect clock; at its end the call *)
(* counts as completed.                                                    *)
BreakCircuit(f) ==
  /\ Advances(f)
  /\ calls[f].phase = "Connected"
  /\ ~ValidConnectedCircuit(input, f, Retargeted(f).callee)
  /\ (IF calls[f].disconnect = Never THEN DisconnectGrace ELSE calls[f].disconnect) > 0
  /\ Becomes(f, [Retargeted(f) EXCEPT
                   !.disconnect = IF @ = Never THEN DisconnectGrace ELSE @])

FinishFocused(f) ==
  /\ Advances(f)
  /\ calls[f].phase = "Connected"
  /\ \/ /\ ValidConnectedCircuit(input, f, Retargeted(f).callee)
        /\ calls[f].audio = 0
     \/ /\ ~ValidConnectedCircuit(input, f, Retargeted(f).callee)
        /\ calls[f].disconnect = 0
  /\ calls' = Without(calls, {f})
  /\ gates' = GateAfter([calls EXCEPT ![f] = Retargeted(f)], {f})

(* Everything else leaves the phase alone: a call nobody answers, a ring   *)
(* in progress, and the refused routings (premature direct cord, line not  *)
(* ready, invalid topology).                                               *)
Stays(f) ==
  CASE calls[f].phase = "Waiting" -> ~TapRoute(f) /\ ~HasCord(input, f, OperatorPort)
    [] calls[f].phase \in Routing ->
         /\ ~TapRoute(f)
         /\ \/ HasDirectCircuitForCaller(input, f)
            \/ ~ValidRingingCircuit(input, f, Retargeted(f).callee)
         /\ calls[f].phase = "OperatorSession" => input.cords # {}
    [] calls[f].phase = "Ringing" ->
         \/ TapRoute(f) /\ ~calls[f].ring_activated
         \/ ~TapRoute(f) /\ RingRequested(f)
         \/ /\ ~TapRoute(f) /\ ~RingRequested(f) /\ DirectRoute(f)
            /\ IF input.selected = Retargeted(f).callee
               THEN \/ ~calls[f].ring_activated
                    \/ calls[f].ring_grace = Never
                    \/ ~ValidDirectCircuit(input, f, Retargeted(f).callee)
               ELSE bypass_restrictions
         \/ /\ ~TapRoute(f) /\ ~RingRequested(f) /\ ~DirectRoute(f)
            /\ calls[f].ring_grace \notin {0, Never}
    [] OTHER -> FALSE

Stay(f) ==
  /\ Advances(f)
  /\ Stays(f)
  /\ Becomes(f, Retargeted(f))

Operate(f) ==
  \/ NoFocusedCall(f) \/ Refuse(f) \/ Misroute(f) \/ HangUp(f)
  \/ ConnectByTap(f) \/ Answer(f) \/ StartRing(f) \/ LeaveOperator(f)
  \/ ConnectDirect(f) \/ MisrouteRinging(f) \/ GiveUpRing(f)
  \/ KeepCircuit(f) \/ BreakCircuit(f) \/ FinishFocused(f) \/ Stay(f)

-----------------------------------------------------------------------------
(* reset_run: the three talk buttons, or the debug surface *)
ResetRun ==
  /\ pc = "idle"
  /\ calls' = [l \in Lines |-> NoCall]
  /\ gates' = [s \in Stories |-> NoGate]
  /\ shift' = [number |-> 1, phase |-> "Ready", left |-> ShiftDuration]
  /\ game_phase' = "Ready"
  /\ ring_active_line' = NoLine
  /\ focus' = NoLine
  /\ pc' = "stories"
  /\ ret' = "idle"
  /\ godmode' = FALSE
  /\ bypass_restrictions' = FALSE
  /\ UNCHANGED <<focused, input>>

(* DebugCommand::Snapshot, and AdvanceTime after its ticks *)
DebugSnapshot ==
  /\ DebugAttached
  /\ pc = "idle"
  /\ calls' = Without(calls, Expired(calls))
  /\ pc' = "stories"
  /\ ret' = "idle"
  /\ UNCHANGED <<gates, shift, game_phase, ring_active_line, focus, focused,
                 input, debug_vars>>

\* Mutant: only the callers are compared
InjectCall_CallersOnly(caller, callee) ==
  /\ DebugAttached
  /\ pc = "idle"
  /\ caller # callee
  /\ Cardinality(Active(calls)) < CallTarget
  /\ caller \notin Active(calls) /\ callee \notin Active(calls)
  /\ \E p \in PatienceValues :
       calls' = [calls EXCEPT ![caller] = NewCall(callee, p)]
  /\ UNCHANGED <<gates, shift, game_phase, ring_active_line, focus, focused,
                 input, pc, ret, debug_vars>>

(* DebugCommand::InjectCall compares lines without the placeholder rule *)
InjectCall(caller, callee) ==
  /\ DebugAttached
  /\ pc = "idle"
  /\ caller # callee
  /\ Cardinality(Active(calls)) < CallTarget
  /\ \A l \in Active(calls) : {l, calls[l].callee} \cap {caller, callee} = {}
  /\ \E p \in PatienceValues :
       calls' = [calls EXCEPT ![caller] = NewCall(callee, p)]
  /\ UNCHANGED <<gates, shift, game_phase, ring_active_line, focus, focused,
                 input, pc, ret, debug_vars>>

SetDebugSwitches ==
  /\ DebugAttached
  /\ pc = "idle"
  /\ godmode' \in BOOLEAN
  /\ bypass_restrictions' \in BOOLEAN
  /\ UNCHANGED <<calls, gates, shift, game_phase, ring_active_line, focus,
                 focused, input, pc, ret>>

-----------------------------------------------------------------------------
\* Mutant: a deadline that has passed keeps running
Countdown_Below(t) == t - 1

Countdown(t) == IF t > 0 THEN t - 1 ELSE t

Older(c) ==
  [c EXCEPT !.patience = Countdown(@), !.ring_ready = Countdown(@),
            !.ring_grace = Countdown(@), !.audio = Countdown(@),
            !.disconnect = Countdown(@)]

(* A second passes, between two stages of a handler as well *)
Tick ==
  /\ calls' = [l \in Lines |-> Older(calls[l])]
  /\ shift' = [shift EXCEPT !.left = Countdown(@)]
  /\ UNCHANGED <<gates, game_phase, ring_active_line, focus, focused, input,
                 pc, ret, debug_vars>>

(* The stages of a handler, run to its end under the mutex *)
Handle ==
  \/ \E p \in StoryPairs : OfferStory(p[1], p[2])
  \/ StartNeutral
  \/ \E p \in NeutralPairs : OfferNeutral(p[1], p[2])
  \/ EndRefill
  \/ UpdateRingActivation
  \/ ConnectReadyDirectCalls
  \/ FinishReadyConnectedCalls
  \/ SettleShift
  \/ KeepShift
  \/ \E f \in Lines \cup {NoLine} : Operate(f)

Snapshot == \E in \in Snapshots : Receive(in)

Debug ==
  \/ DebugSnapshot
  \/ \E p \in Pairs : InjectCall(p[1], p[2])
  \/ SetDebugSwitches

Next == Snapshot \/ Handle \/ Tick \/ ResetRun \/ Debug

Spec == Init /\ [][Next]_vars

(* The clock runs, a handler that can go on goes on, and the frontend      *)
(* keeps sending snapshots (every 20 ms).                                  *)
FairSpec == Spec /\ WF_vars(Tick) /\ WF_vars(Handle) /\ WF_vars(Snapshot)
-----------------------------------------------------------------------------
(* Every variable holds a value the code could hold. *)
CallsTyped(cs) ==
  /\ cs \in [Lines -> CallType]
  /\ \A l \in Lines : cs[l].phase # "None" => cs[l].callee \in Lines

TypeOK ==
  /\ CallsTyped(calls)
  /\ gates \in [Stories -> Pairs \cup {NoGate}]
  /\ shift \in [number : 1..4, phase : {"Ready", "Active", "Settled"}, left : Nat]
  /\ game_phase \in {"Ready", "Shift", "Ended"}
  /\ ring_active_line \in Lines \cup {NoLine}
  /\ focus \in Lines \cup {NoLine}
  /\ focused \in Lines \cup {NoLine}
  /\ input \in SnapshotType
  /\ pc \in {"idle", "stories", "neutral", "progress", "connect", "finish",
             "settle", "operate"}
  /\ ret \in {"idle", "progress", "publish"}
  /\ godmode \in BOOLEAN
  /\ bypass_restrictions \in BOOLEAN

(* Two active calls share a subscriber line only if it is a Bela's and the *)
(* call of Arnab, whose destination follows the cord (advance), is one of  *)
(* them; the destination of a call without destination does not count.     *)
(* Everybody else's lines are exclusive, as gameplay.md:122 has it for all: *)
(* the selector, next_call and InjectCall look at every active call before *)
(* they push one.                                                          *)
HasDestination(l) == ~(calls[l].callee = Placeholder /\ l \in PlaceholderCallers)

LinesExclusive ==
  \A k, m \in Lines :
    k # m /\ k \in Active(calls) /\ m \in Active(calls) =>
      /\ CallUsesLine(calls, k, m) => k \in BelaCallers /\ m \in Belas
      /\ HasDestination(m) /\ CallUsesLine(calls, k, calls[m].callee)
           => calls[m].callee \in Belas /\ (k \in BelaCallers \/ m \in BelaCallers)

(* A story thread has one call at most, and none while the circuit of its  *)
(* previous call still gates it (story_connections_pending_disconnect).    *)
StoryGateHolds ==
  \A k \in StoryCalls(calls) :
    /\ gates[StoryOf[k]] = NoGate
    /\ \A m \in StoryCalls(calls) : StoryOf[m] = StoryOf[k] => m = k

(* However many snapshots pass, a call is patched to its destination by a  *)
(* direct cord only after the Ring Generator called that line for it       *)
(* (Arnab's call excepted, which follows the cord to the Bela that was not *)
(* called).                                                                *)
DirectConnectionWasRung ==
  [][\A l \in Lines \ BelaCallers :
       calls[l].phase # "Connected" /\ calls'[l].phase = "Connected" =>
         \/ calls'[l].callee \in calls'[l].rung
         \/ input.tap /\ ValidTapCircuit(input, l, calls'[l].callee)]_vars

(* Whichever stage completes a circuit, it is the one on the panel: the    *)
(* ready-call stage works with the destination the call had, advance with  *)
(* the one Arnab's call has been led to in the same snapshot.              *)
ConnectsWhatIsPatched ==
  [][\A l \in Lines :
       calls[l].phase # "Connected" /\ calls'[l].phase = "Connected" =>
         ValidConnectedCircuit(input, l, calls'[l].callee)]_vars

(* Nobody who is being served is lost to what happens on another line or   *)
(* to the clock: expiry, refills, the end of the shift and the operator's  *)
(* moves elsewhere leave a call in OperatorSession or Connected alone.  It *)
(* ends by a move on itself, by its audio in a circuit that stands, or     *)
(* with the run.                                                           *)
ServedCallersAreKept ==
  [][\A l \in Lines :
       /\ calls[l].phase \in {"OperatorSession", "Connected"}
       /\ calls'[l].phase = "None"
       => \/ pc = "operate" /\ focused' = l
          \/ /\ calls[l].audio = 0
             /\ ValidConnectedCircuit(input, l, calls[l].callee)
          \/ shift'.number = 1 /\ shift'.phase = "Ready"]_vars

(* While the backend reports the Ring Generator on a line, some call to    *)
(* that line rings, and it has served its ring delay unless two calls may  *)
(* have rung there: update_ring_activation leaves the reported line as it  *)
(* was while a new ring is not ready, so a line left over from an earlier  *)
(* ring would light its lamp and block every circuit.                      *)
MayBeShared(line) ==
  \/ line \in Belas /\ BelaCallers # {}
  \/ line = Placeholder /\ PlaceholderCallers # {}

GeneratorRingsReadyCall ==
  pc = "connect" /\ EffectiveRingLine(input) # NoLine =>
    \E l \in Lines :
      /\ calls[l].phase = "Ringing" /\ calls[l].callee = EffectiveRingLine(input)
      /\ calls[l].ring_ready = 0 \/ MayBeShared(EffectiveRingLine(input))

(* A handler returns: it never keeps the mutex for ever. *)
HandlerReturns == pc # "idle" ~> pc = "idle"

(* A waiting caller is answered or missed, whatever else the operator does *)
(* (godmode, which stops expiry, excepted).                                *)
NobodyWaitsForever ==
  \A l \in Lines : calls[l].phase = "Waiting" ~> (calls[l].phase # "Waiting" \/ godmode)

(* A connected call whose audio has ended and whose circuit is left in     *)
(* place is finished even if the operator works on other lines.            *)
EndedAudioFinishes ==
  \A l \in Lines :
    ~<>[](/\ calls[l].phase = "Connected"
          /\ calls[l].audio = 0
          /\ ValidConnectedCircuit(input, l, calls[l].callee))

(* Shifts keep settling, unless somebody is served again and again or the  *)
(* run is reset again and again.                                           *)
ShiftsSettle ==
  \/ []<>(shift.phase = "Settled")
  \/ []<>(\E l \in Lines : calls[l].phase \in {"OperatorSession", "Connected"})
  \/ []<>(shift.number = 1 /\ shift.phase = "Ready")

-----------------------------------------------------------------------------
(* To the subscribers the exchange is a LineBoard: whatever stage, deadline *)
(* or debug command touches the calls, a call comes on free lines, is       *)
(* served in order and is not swept away with another one that is served.   *)
Board ==
  INSTANCE LineBoard WITH
    board <- [l \in Lines |-> [phase |-> calls[l].phase, callee |-> calls[l].callee]]

ImplementsBoard == Board!Spec

-----------------------------------------------------------------------------
(* What the documentation says of the backend and the code does not do:    *)
(* each of the following is violated (the runs named exchange_finds_...).  *)

(* gameplay.md: "After shift three, the game enters `Ended`".  The refill  *)
(* at the end of the same snapshot puts game_phase back to Shift.          *)
RetirementIsPublished ==
  pc = "idle" /\ shift.number > 3 => game_phase = "Ended"

(* gameplay.md: "If its connected topology is invalid for five seconds,    *)
(* the backend also finishes it as completed".  The disconnect clock only  *)
(* starts for the focused call, and not while other cords are plugged.     *)
BrokenCircuitFinishes ==
  \A l \in Lines :
    ~<>[](/\ calls[l].phase = "Connected"
          /\ ~ValidConnectedCircuit(input, l, calls[l].callee))
=============================================================================
