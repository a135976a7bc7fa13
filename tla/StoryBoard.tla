----------------------------- MODULE StoryBoard -----------------------------
(***************************************************************************)
(* Which calls the backend puts on the board: the four story threads with  *)
(* their beats, what the end of a call does to its thread (finish_call,    *)
(* fail_call and the hang-ups of advance), and the selector that refills   *)
(* the board (ensure_story_call, next_call).                               *)
(*                                                                         *)
(* The circuits and the clock belong to Exchange: here a call waits, is in *)
(* an operator session (which stands for the routing and the ringing too)  *)
(* or is connected, and ends in any way its phase allows.  Voice and       *)
(* text answers reach the threads at any time between two handlers: a      *)
(* worker does not ask what became of the call it was started for, and     *)
(* Shapla's line can be spoken to without a call.                          *)
(***************************************************************************)
EXTENDS Integers, FiniteSets

CONSTANTS
  Lines, NoLine,
  Placeholder,                \* line 0, callee of calls without destination
  Shapla, Kashem, Arnab, DogLine, CatLine, Rahman, Farhana, Nahid,
  Contacts,                   \* the three callers to Farhana
  Victims,                    \* the lines Nahid calls
  ScamLimit,                  \* 5: the completed scam that is penalised
  CallTarget, StoryTargets,   \* active_calls; the values of story_call_target
  OpenThreads                 \* the sets of threads a run may start with

Stories == {"Shapla", "BelaBose", "DirtyWork", "Nahid"}
StoryCallerLines == {Shapla, Kashem, Arnab, Rahman, Nahid} \cup Contacts
NonStoryLines == Lines \ StoryCallerLines

ASSUME LinesAssumption ==
  /\ IsFiniteSet(Lines)
  /\ NoLine \notin Lines
  /\ StoryCallerLines \subseteq Lines
  /\ Cardinality({Shapla, Kashem, Arnab, Rahman, Nahid}) = 5
  /\ {Shapla, Kashem, Arnab, Rahman, Nahid} \cap Contacts = {}
  /\ Contacts # {}
  /\ {Placeholder, DogLine, CatLine, Farhana} \subseteq NonStoryLines
  /\ DogLine # CatLine
  /\ Victims \subseteq Lines \ {Nahid}

ASSUME ThreadAssumption ==
  /\ ScamLimit \in Nat \ {0} /\ ScamLimit <= Cardinality(Victims)
  /\ {"Instruction", "Interrogation", "Ended"} \cap Contacts = {}
  /\ CallTarget \in Nat /\ StoryTargets \subseteq 0..CallTarget
  /\ OpenThreads \subseteq SUBSET Stories

VARIABLES
  calls,    \* [Lines -> [phase, callee]]
  gates,    \* story_connections_pending_disconnect: the gated threads
  shapla,   \* story_beat and the flags of the Fallen Mother thread
  neel,     \* neel_story_beat
  dirty,    \* dirty_work_beat, completed and deferred contacts
  nahid,    \* nahid_beat, scam count, victims, deferred victims
  ledger,   \* how often each story payment was booked
  target,   \* story_call_target
  retired,  \* is the shift number above three?
  panel,    \* are there cords in the snapshot being handled?
  pc, then  \* stage of the handler that holds the mutex, and the one after refill

threads == <<shapla, neel, dirty, nahid, ledger>>
board == <<calls, gates>>
stage == <<panel, pc, then>>
vars == <<calls, gates, shapla, neel, dirty, nahid, ledger, target, retired,
          panel, pc, then>>

Payments == {"ShaplaReward", "ShaplaPenalty", "BelaReward", "NahidPenalty"}
Routes == Contacts \cup {"Instruction", "Interrogation"}

NoCall == [phase |-> "None", callee |-> NoLine]

\* Mutant: a call without destination has no line at all
NewCall_Undirected(callee) ==
  [phase |-> "Waiting", callee |-> IF callee = Placeholder THEN NoLine ELSE callee]

NewCall(callee) == [phase |-> "Waiting", callee |-> callee]

Active == {l \in Lines : calls[l].phase # "None"}

StoryIdForCaller(l) ==
  IF l = Shapla THEN "Shapla"
  ELSE IF l \in {Kashem, Arnab} THEN "BelaBose"
  ELSE IF l \in {Rahman} \cup Contacts THEN "DirtyWork"
  ELSE IF l = Nahid THEN "Nahid"
  ELSE "None"

StoryCalls == {l \in Active : StoryIdForCaller(l) # "None"}

CallUsesLine(caller, line) ==
  \/ caller = line
  \/ /\ calls[caller].callee = line
     /\ ~(line = Placeholder /\ caller \in {Shapla, Rahman})

LineIsFree(line) == \A k \in Active : ~CallUsesLine(k, line)

Without(l) == calls' = [calls EXCEPT ![l] = NoCall]

Book(ps) == [p \in Payments |-> IF p \in ps THEN ledger[p] + 1 ELSE ledger[p]]

-----------------------------------------------------------------------------
(* A run: reset_run.  A thread outside open is one that has ended already. *)
FreshShapla(open) ==
  [beat |-> IF "Shapla" \in open THEN "EmergencyCall" ELSE "NeutralFollowup",
   heard |-> "Shapla" \notin open, followup_started |-> FALSE,
   completed |-> "Shapla" \notin open, reward_paid |-> FALSE]
FreshNeel(open) == IF "BelaBose" \in open THEN "ProfessorRouting" ELSE "BadEnding"
FreshDirty(open) ==
  IF "DirtyWork" \in open
  THEN [beat |-> "Instruction", completed |-> {}, count |-> 0, deferred |-> {}]
  ELSE [beat |-> "Ended", completed |-> Contacts, count |-> Cardinality(Contacts),
        deferred |-> {}]
FreshNahid(open) ==
  [beat |-> IF "Nahid" \in open THEN "Scamming" ELSE "Stopped",
   count |-> 0, victims |-> {}, deferred |-> {}]

Init ==
  \E open \in OpenThreads :
    /\ calls = [l \in Lines |-> NoCall]
    /\ gates = {}
    /\ shapla = FreshShapla(open)
    /\ neel = FreshNeel(open)
    /\ dirty = FreshDirty(open)
    /\ nahid = FreshNahid(open)
    /\ ledger = [p \in Payments |-> 0]
    /\ target \in StoryTargets
    /\ retired = FALSE
    /\ panel = "empty"
    /\ pc = "stories"
    /\ then = "idle"

\* Mutant: the contacts already served are not forgotten
ResetRun_KeepsContacts ==
  /\ pc = "idle"
  /\ \E open \in OpenThreads :
       /\ shapla' = FreshShapla(open)
       /\ neel' = FreshNeel(open)
       /\ dirty' = [FreshDirty(open) EXCEPT !.completed = dirty.completed]
       /\ nahid' = FreshNahid(open)
  /\ calls' = [l \in Lines |-> NoCall]
  /\ gates' = {}
  /\ ledger' = [p \in Payments |-> 0]
  /\ target' \in StoryTargets
  /\ retired' = FALSE
  /\ pc' = "stories"
  /\ then' = "idle"
  /\ UNCHANGED panel

ResetRun ==
  /\ pc = "idle"
  /\ \E open \in OpenThreads :
       /\ shapla' = FreshShapla(open)
       /\ neel' = FreshNeel(open)
       /\ dirty' = FreshDirty(open)
       /\ nahid' = FreshNahid(open)
  /\ calls' = [l \in Lines |-> NoCall]
  /\ gates' = {}
  /\ ledger' = [p \in Payments |-> 0]
  /\ target' \in StoryTargets
  /\ retired' = FALSE
  /\ pc' = "stories"
  /\ then' = "idle"
  /\ UNCHANGED panel

-----------------------------------------------------------------------------
(* The threads. *)

\* Mutant: completed contacts are drawn again
NextDirtyWorkContact_Any(completed, deferred) ==
  {[beat |-> c, deferred |-> deferred] : c \in Contacts \ deferred}

(* next_dirty_work_contact: a random contact that is neither completed nor *)
(* deferred; when there is none the deferred ones get another turn.        *)
NextDirtyWorkContact(completed, deferred) ==
  LET remaining == Contacts \ (completed \cup deferred) IN
  IF remaining # {}
  THEN {[beat |-> c, deferred |-> deferred] : c \in remaining}
  ELSE {[beat |-> c, deferred |-> {}] : c \in Contacts \ completed}

(* finish_call(missed): the deferred lists, and the price of an emergency  *)
(* nobody answered.                                                        *)
MissedVictim(l) ==
  nahid' = IF l = Nahid
           THEN [nahid EXCEPT !.deferred = @ \cup {calls[l].callee}]
           ELSE nahid

MissedContact(l) ==
  IF l \in Contacts
  THEN LET deferred == dirty.deferred \cup {l} IN
       IF l = dirty.beat
       THEN \E next \in NextDirtyWorkContact(dirty.completed, deferred) :
              dirty' = [dirty EXCEPT !.beat = next.beat, !.deferred = next.deferred]
       ELSE dirty' = [dirty EXCEPT !.deferred = deferred]
  ELSE dirty' = dirty

Abandon(l) ==
  IF l = Shapla /\ shapla.beat = "EmergencyCall"
  THEN /\ shapla' = [shapla EXCEPT !.beat = "BadFollowup"]
       /\ ledger' = Book({"ShaplaPenalty"})
  ELSE UNCHANGED <<shapla, ledger>>

(* expire_calls *)
Expire(l) ==
  /\ pc = "expire"
  /\ calls[l].phase = "Waiting"
  /\ Without(l)
  /\ MissedVictim(l)
  /\ MissedContact(l)
  /\ Abandon(l)
  /\ UNCHANGED <<gates, neel, target, retired, stage>>

(* finish_call(completed) on Nahid's thread: the victim is spent, and each *)
(* scam counts while he is not stopped.                                    *)
AfterScam(l) ==
  IF l # Nahid THEN nahid
  ELSE LET count == IF nahid.beat = "Scamming" THEN nahid.count + 1 ELSE nahid.count IN
       [beat |-> IF nahid.beat = "Scamming" /\ count >= ScamLimit
                 THEN "Penalized" ELSE nahid.beat,
        count |-> count,
        victims |-> nahid.victims \cup {calls[l].callee},
        deferred |-> nahid.deferred \ {calls[l].callee}]

(* next_beat_after_directory_connection *)
AfterConnection(l) ==
  IF neel = "ProfessorRouting" /\ l = Kashem /\ calls[l].callee = Arnab
  THEN "ArnabDirectory"
  ELSE IF neel = "ArnabDirectory" /\ l = Arnab /\ calls[l].callee \in {CatLine, DogLine}
  THEN IF calls[l].callee = CatLine THEN "Completed" ELSE "BadEnding"
  ELSE neel

(* finish_call(completed) on the surveillance thread *)
AfterContact(l) ==
  IF l \in Contacts /\ l = dirty.beat
  THEN LET completed == dirty.completed \cup {l}
           deferred == dirty.deferred \ {l}
           nexts == IF dirty.count + 1 = Cardinality(Contacts)
                    THEN {[beat |-> "Interrogation", deferred |-> deferred]}
                    ELSE NextDirtyWorkContact(completed, deferred)
       IN {[beat |-> next.beat, completed |-> completed, count |-> dirty.count + 1,
            deferred |-> next.deferred] : next \in nexts}
  ELSE {dirty}

EarnedBy(l) ==
  {p \in Payments :
     \/ p = "BelaReward" /\ AfterConnection(l) = "Completed" /\ neel # "Completed"
     \/ p = "NahidPenalty" /\ AfterScam(l).beat = "Penalized"
                           /\ nahid.beat = "Scamming"}

(* advance moves the focused call once; then the board is refilled *)
Operates ==
  /\ pc = "operate"
  /\ pc' = "stories"
  /\ then' = "publish"
  /\ UNCHANGED panel

(* finish_call(completed): a connected story call leaves its thread gated. *)
Complete(l) ==
  /\ calls[l].phase = "Connected"
  /\ Without(l)
  /\ gates' = gates \cup ({StoryIdForCaller(l)} \cap Stories)
  /\ nahid' = AfterScam(l)
  /\ neel' = AfterConnection(l)
  /\ dirty' \in AfterContact(l)
  /\ ledger' = Book(EarnedBy(l))
  /\ UNCHANGED <<shapla, target, retired>>

(* finish_ready_connected_calls wants the circuit on the panel; advance    *)
(* also finishes the focused call whose circuit has been down for too long *)
FinishReady(l) ==
  /\ pc = "progress"
  /\ panel = "patched"
  /\ Complete(l)
  /\ UNCHANGED stage

FinishFocused(l) ==
  /\ Operates
  /\ Complete(l)

(* fail_call: a wrong destination costs money and leaves the thread alone *)
Fail(l) ==
  /\ Operates
  /\ panel = "patched"
  /\ l \in Active
  /\ Without(l)
  /\ UNCHANGED <<gates, threads, target, retired>>

(* advance with an empty panel: the operator hangs up on a caller who has  *)
(* no destination, or on Nahid.                                            *)
HangUpRahman ==
  /\ Operates
  /\ panel = "empty"
  /\ Rahman \in Active
  /\ Without(Rahman)
  /\ IF dirty.beat = "Instruction"
     THEN \E next \in NextDirtyWorkContact(dirty.completed, dirty.deferred) :
            dirty' = [dirty EXCEPT !.beat = next.beat, !.deferred = next.deferred]
     ELSE dirty' = dirty
  /\ UNCHANGED <<gates, shapla, neel, nahid, ledger, target, retired>>

HangUpNahid ==
  /\ Operates
  /\ panel = "empty"
  /\ Nahid \in Active
  /\ Without(Nahid)
  /\ UNCHANGED <<gates, threads, target, retired>>

HangUpShapla ==
  /\ Operates
  /\ panel = "empty"
  /\ Shapla \in Active
  /\ Without(Shapla)
  /\ shapla' =
       IF shapla.beat # "EmergencyCall"
       THEN [shapla EXCEPT !.completed = @ \/ shapla.followup_started]
       ELSE IF shapla.heard
       THEN [shapla EXCEPT !.beat = "BadFollowup",
                           !.completed = @ \/ shapla.followup_started]
       ELSE shapla
  /\ UNCHANGED <<gates, neel, dirty, nahid, ledger, target, retired>>

(* cancel_voice_if_operator_disconnected while Shapla's voice turn runs *)
CutOffShapla ==
  /\ pc = "publish"
  /\ calls[Shapla].phase # "Connected"
  /\ shapla.beat = "EmergencyCall"
  /\ shapla' = [shapla EXCEPT !.beat = "BadFollowup"]
  /\ ledger' = Book({"ShaplaPenalty"})
  /\ pc' = "idle"
  /\ UNCHANGED <<board, neel, dirty, nahid, target, retired, panel, then>>

Publish ==
  /\ pc = "publish"
  /\ pc' = "idle"
  /\ UNCHANGED <<board, threads, target, retired, panel, then>>

-----------------------------------------------------------------------------
(* The operator's moves that do not end a call. *)

(* A snapshot takes the mutex; the gates of circuits taken down open. *)
Receive ==
  /\ pc = "idle"
  /\ panel' \in {"empty", "patched"}
  /\ gates' \in IF panel' = "empty" THEN {{}} ELSE SUBSET gates
  /\ pc' = "expire"
  /\ then' = "progress"
  /\ UNCHANGED <<calls, threads, target, retired>>

Answer(l) ==
  /\ Operates
  /\ panel = "patched"
  /\ calls[l].phase = "Waiting"
  /\ calls' = [calls EXCEPT ![l].phase = "OperatorSession"]
  /\ UNCHANGED <<gates, threads, target, retired>>

(* connect_ready_direct_calls, and the tap and direct routes of advance *)
ConnectReady(l) ==
  /\ pc = "progress"
  /\ panel = "patched"
  /\ calls[l].phase = "OperatorSession"
  /\ calls' = [calls EXCEPT ![l].phase = "Connected"]
  /\ UNCHANGED <<gates, threads, target, retired, stage>>

ConnectFocused(l) ==
  /\ Operates
  /\ panel = "patched"
  /\ calls[l].phase \in {"Waiting", "OperatorSession"}
  /\ calls' = [calls EXCEPT ![l].phase = "Connected"]
  /\ UNCHANGED <<gates, threads, target, retired>>

(* Arnab's call follows the Bela line that is cranked or patched *)
FollowBela(b) ==
  /\ pc = "operate"
  /\ panel = "patched"
  /\ neel = "ArnabDirectory"
  /\ Arnab \in Active
  /\ calls' = [calls EXCEPT ![Arnab].callee = b]
  /\ UNCHANGED <<gates, threads, target, retired, stage>>

(* Nothing to do for the focused call, or its routing is refused *)
Stay ==
  /\ Operates
  /\ UNCHANGED <<board, threads, target, retired>>

(* settle_shift drops every call; the third one retires the operator *)
SettleShift ==
  /\ pc = "progress"
  /\ \A l \in Lines : calls[l].phase # "Connected"
  /\ calls' = [l \in Lines |-> NoCall]
  /\ retired' \in {retired, TRUE}
  /\ pc' = "operate"
  /\ UNCHANGED <<gates, threads, target, panel, then>>

KeepShift ==
  /\ pc = "progress"
  /\ pc' = "operate"
  /\ UNCHANGED <<board, threads, target, retired, panel, then>>

(* The answers of voice workers and text turns *)

(* apply_story_classification *)
ClassifyShapla(next) ==
  /\ pc = "idle"
  /\ shapla.beat = "EmergencyCall"
  /\ shapla' = [shapla EXCEPT !.beat = next]
  /\ UNCHANGED <<board, neel, dirty, nahid, ledger, target, retired, stage>>

\* Mutant: the thank-you money is paid with every answer
AnswerShapla_Again ==
  /\ pc = "idle"
  /\ shapla' = [shapla EXCEPT
       !.heard = TRUE,
       !.completed = @ \/ shapla.beat \in {"HappyFollowup", "NeutralFollowup"}]
  /\ ledger' = Book(IF shapla.beat = "HappyFollowup" THEN {"ShaplaReward"} ELSE {})
  /\ UNCHANGED <<board, neel, dirty, nahid, target, retired, stage>>

(* record_story_turn and complete_story_followup after a generated answer *)
AnswerShapla ==
  /\ pc = "idle"
  /\ shapla' = [shapla EXCEPT
       !.heard = TRUE,
       !.completed = @ \/ shapla.beat \in {"HappyFollowup", "NeutralFollowup"},
       !.reward_paid = @ \/ shapla.beat = "HappyFollowup"]
  /\ ledger' = Book(IF shapla.beat = "HappyFollowup" /\ ~shapla.reward_paid
                    THEN {"ShaplaReward"} ELSE {})
  /\ UNCHANGED <<board, neel, dirty, nahid, target, retired, stage>>

(* stop_nahid_after_police_report *)
ReportNahid ==
  /\ pc = "idle"
  /\ nahid.beat = "Scamming"
  /\ nahid' = [nahid EXCEPT !.beat = "Stopped"]
  /\ UNCHANGED <<board, shapla, neel, dirty, ledger, target, retired, stage>>

(* The interrogation ends in one of three endings, all "Ended" here *)
ReportToRahman ==
  /\ pc = "idle"
  /\ dirty.beat = "Interrogation"
  /\ dirty' = [dirty EXCEPT !.beat = "Ended"]
  /\ UNCHANGED <<board, shapla, neel, nahid, ledger, target, retired, stage>>

-----------------------------------------------------------------------------
(* refill_calls *)

Refill ==
  /\ pc = "expire"
  /\ pc' = "stories"
  /\ UNCHANGED <<board, threads, target, retired, panel, then>>

Eligible(story) ==
  /\ story \notin gates
  /\ \A l \in StoryCalls : StoryIdForCaller(l) # story
  /\ CASE story = "Shapla" -> ~shapla.completed
       [] story = "BelaBose" -> neel \notin {"Completed", "BadEnding"}
       [] story = "DirtyWork" -> dirty.beat # "Ended"
       [] story = "Nahid" -> nahid.beat = "Scamming"

NeelCaller == IF neel = "ProfessorRouting" THEN Kashem ELSE Arnab
NeelCallee == IF neel = "ProfessorRouting" THEN Arnab ELSE DogLine
DirtyWorkCaller == IF dirty.beat \in Contacts THEN dirty.beat ELSE Rahman
DirtyWorkCallee == IF dirty.beat \in Contacts THEN Farhana ELSE Placeholder

\* Mutant: a victim who paid already is called again
FindVictims_Again(deferred) == {v \in Victims \ deferred : LineIsFree(v)}

(* next_nahid_victim: the victims that are neither spent nor deferred and  *)
(* whose line is free                                                      *)
FindVictims(deferred) ==
  {v \in Victims \ (nahid.victims \cup deferred) : LineIsFree(v)}

Candidates(story) ==
  CASE story = "Shapla" -> {<<Shapla, Placeholder>>}
    [] story = "BelaBose" -> {<<NeelCaller, NeelCallee>>}
    [] story = "DirtyWork" -> {<<DirtyWorkCaller, DirtyWorkCallee>>}
    [] story = "Nahid" -> {Nahid} \X (IF FindVictims(nahid.deferred) # {}
                                      THEN FindVictims(nahid.deferred)
                                      ELSE FindVictims({}))

HasDestination(caller) ==
  caller # Shapla /\ (caller = Rahman => dirty.beat \in Contacts)

\* Mutant: only the line of the caller is looked at
Offerable_AnyCallee(story) == {c \in Candidates(story) : LineIsFree(c[1])}

(* ensure_story_call offers a candidate whose lines are free; looking for  *)
(* a victim in vain gives the deferred ones another turn.                  *)
Offerable(story) ==
  {c \in Candidates(story) :
     LineIsFree(c[1]) /\ (HasDestination(c[1]) => LineIsFree(c[2]))}

DeferredAfterSearch ==
  IF FindVictims(nahid.deferred) # {} THEN nahid.deferred ELSE {}

OfferStory(story) ==
  /\ pc = "stories"
  /\ Cardinality(StoryCalls) < target
  /\ Eligible(story)
  /\ \E c \in Offerable(story) : calls' = [calls EXCEPT ![c[1]] = NewCall(c[2])]
  /\ shapla' = [shapla EXCEPT
       !.followup_started = @ \/ (story = "Shapla" /\ shapla.beat = "HappyFollowup")]
  /\ nahid' = IF story = "Nahid"
              THEN [nahid EXCEPT !.deferred = DeferredAfterSearch] ELSE nahid
  /\ UNCHANGED <<gates, neel, dirty, ledger, target, retired, stage>>

NoVictim ==
  /\ pc = "stories"
  /\ Cardinality(StoryCalls) < target
  /\ Eligible("Nahid")
  /\ Offerable("Nahid") = {}
  /\ nahid.deferred # {}
  /\ nahid' = [nahid EXCEPT !.deferred = DeferredAfterSearch]
  /\ UNCHANGED <<board, shapla, neel, dirty, ledger, target, retired, stage>>

(* Every thread was looked at, or the board holds its share of stories *)
StartNeutral ==
  /\ pc = "stories"
  /\ \/ Cardinality(StoryCalls) >= target
     \/ \A story \in Stories : Eligible(story) => Offerable(story) = {}
  /\ pc' = "neutral"
  /\ UNCHANGED <<board, threads, target, retired, panel, then>>

\* with stories the board is filled to three calls at most
TargetCount == IF CallTarget > 3 THEN 3 ELSE CallTarget

(* The code also spaces arrivals by call_arrival_interval_seconds, which   *)
(* is 0 in exchange.toml: the next arrival is then never in the future.    *)
NeutralWanted == Cardinality(Active) < TargetCount /\ ~retired

\* Mutant: story callers may be drawn as neutral ones
FreePairs_AnyLine ==
  {p \in Lines \X Lines : p[1] # p[2] /\ p[1] \notin Active /\ p[2] \notin Active}

(* The pairs next_call can return; it draws until it meets one of them. *)
FreePairs ==
  {p \in NonStoryLines \X NonStoryLines :
     p[1] # p[2] /\ LineIsFree(p[1]) /\ LineIsFree(p[2])}

OfferNeutral ==
  /\ pc = "neutral"
  /\ NeutralWanted
  /\ \E p \in FreePairs : calls' = [calls EXCEPT ![p[1]] = NewCall(p[2])]
  /\ UNCHANGED <<gates, threads, target, retired, stage>>

EndRefill ==
  /\ pc = "neutral"
  /\ ~NeutralWanted
  /\ pc' = then
  /\ UNCHANGED <<board, threads, target, retired, panel, then>>

-----------------------------------------------------------------------------
Progress ==
  \/ \E l \in Lines : Expire(l) \/ ConnectReady(l) \/ FinishReady(l)
  \/ SettleShift \/ KeepShift

Operate ==
  \/ \E l \in Lines : Answer(l) \/ ConnectFocused(l) \/ FinishFocused(l) \/ Fail(l)
  \/ \E b \in {DogLine, CatLine} : FollowBela(b)
  \/ HangUpRahman \/ HangUpNahid \/ HangUpShapla \/ Stay

Answers ==
  \/ \E next \in {"HappyFollowup", "NeutralFollowup", "BadFollowup"} : ClassifyShapla(next)
  \/ AnswerShapla \/ ReportNahid \/ ReportToRahman

Selector ==
  \/ Refill
  \/ \E story \in Stories : OfferStory(story)
  \/ NoVictim \/ StartNeutral \/ OfferNeutral \/ EndRefill

Next ==
  \/ Receive \/ Progress \/ Operate \/ Selector \/ CutOffShapla \/ Publish
  \/ Answers \/ ResetRun

Spec == Init /\ [][Next]_vars
-----------------------------------------------------------------------------
(* Every variable holds a value the code could hold. *)
TypeOK ==
  /\ calls \in [Lines -> [phase : {"None", "Waiting", "OperatorSession", "Connected"},
                          callee : Lines \cup {NoLine}]]
  /\ \A l \in Lines : calls[l].phase = "None" <=> calls[l].callee = NoLine
  /\ gates \in SUBSET Stories
  /\ shapla \in [beat : {"EmergencyCall", "HappyFollowup", "NeutralFollowup", "BadFollowup"},
                 heard : BOOLEAN, followup_started : BOOLEAN,
                 completed : BOOLEAN, reward_paid : BOOLEAN]
  /\ neel \in {"ProfessorRouting", "ArnabDirectory", "Completed", "BadEnding"}
  /\ dirty \in [beat : Routes \cup {"Ended"}, completed : SUBSET Contacts,
                count : Nat, deferred : SUBSET Contacts]
  /\ nahid \in [beat : {"Scamming", "Stopped", "Penalized"}, count : Nat,
                victims : SUBSET Lines, deferred : SUBSET Lines]
  /\ ledger \in [Payments -> Nat]
  /\ target \in StoryTargets
  /\ retired \in BOOLEAN
  /\ panel \in {"empty", "patched"}
  /\ pc \in {"idle", "expire", "stories", "neutral", "progress", "operate", "publish"}
  /\ then \in {"idle", "progress", "publish"}

(* Each story payment is booked once in a run, and Shapla never both pays  *)
(* and is abandoned, although four paths lead out of her emergency         *)
(* (expiry, a voice turn cut off, a hang-up, a classification) and answers *)
(* arrive when they like.                                                  *)
StoryMoneyOnce ==
  /\ \A p \in Payments : ledger[p] <= 1
  /\ ledger["ShaplaReward"] + ledger["ShaplaPenalty"] <= 1

(* Every scam that counts has a victim of its own, so the penalty means    *)
(* ScamLimit people: neither a missed call nor a second round of deferred  *)
(* victims brings anybody back.                                            *)
ScamsHaveDistinctVictims ==
  /\ nahid.beat = "Scamming" => nahid.count = Cardinality(nahid.victims)
  /\ nahid.count <= Cardinality(nahid.victims)
  /\ nahid.beat = "Penalized" <=> nahid.count = ScamLimit

(* The interrogation comes after every contact was served exactly once,    *)
(* and the contact that is due is one that is still open: the list         *)
(* next_dirty_work_contact draws from is never empty.                      *)
ContactsServedOnce ==
  /\ dirty.count = Cardinality(dirty.completed)
  /\ dirty.beat \notin dirty.completed
  /\ dirty.beat \in {"Interrogation", "Ended"} <=> dirty.completed = Contacts

(* No call holds a thread that has nothing more to say: a contact's call   *)
(* is the one that is due, so its end moves the thread on.                 *)
ThreadCallsAreDue ==
  \A l \in Active :
    /\ l \in Contacts => l = dirty.beat
    /\ l = Kashem => neel = "ProfessorRouting"
    /\ l = Arnab => neel = "ArnabDirectory" /\ calls[l].callee \in {DogLine, CatLine}
    /\ l = Nahid => calls[l].callee \notin nahid.victims

(* The three places that draw a contact have one to draw: after a missed   *)
(* call, after Rahman's instruction, and after a call that was served and  *)
(* was not the last.  next_dirty_work_contact takes a random index modulo  *)
(* the number of candidates, which two lists and a counter must keep above *)
(* zero, whatever is deferred.                                             *)
ContactToDraw ==
  /\ dirty.beat \in Contacts \cup {"Instruction"} =>
       \A deferred \in SUBSET Contacts : NextDirtyWorkContact(dirty.completed, deferred) # {}
  /\ dirty.beat \in Contacts /\ dirty.count + 1 # Cardinality(Contacts) =>
       \A deferred \in SUBSET Contacts :
         NextDirtyWorkContact(dirty.completed \cup {dirty.beat}, deferred) # {}

(* gameplay.md: "Neutral calls fill any remaining configured call          *)
(* capacity."  next_call finds a pair whenever it is asked for one, so the *)
(* handler does not keep the mutex for ever.                               *)
NeutralPairExists == pc = "neutral" /\ NeutralWanted => FreePairs # {}

(* To the subscribers the story board is the LineBoard that Exchange       *)
(* implements too.  A story call without destination may name the          *)
(* placeholder while others use it; every other call comes on two free     *)
(* lines (ensure_story_call, next_call).                                   *)
Board ==
  INSTANCE LineBoard WITH
    PlaceholderCallers <- {Shapla, Rahman}, BelaCallers <- {Arnab},
    board <- calls

ImplementsBoard == Board!Spec
=============================================================================
