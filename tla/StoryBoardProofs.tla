-------------------------- MODULE StoryBoardProofs --------------------------
(***************************************************************************)
(* The selector and the four threads, for any number of lines, contacts,   *)
(* victims and calls: types; which calls are due; the contacts, the scams  *)
(* and the payments; and that the calls are calls of LineBoard.            *)
(***************************************************************************)
EXTENDS StoryBoard, FiniteSetTheorems, TLAPS

Phases == {"None", "Waiting", "OperatorSession", "Connected"}
CallType == [phase : Phases, callee : Lines \cup {NoLine}]
ShaplaType ==
  [beat : {"EmergencyCall", "HappyFollowup", "NeutralFollowup", "BadFollowup"},
   heard : BOOLEAN, followup_started : BOOLEAN, completed : BOOLEAN, reward_paid : BOOLEAN]
DirtyType ==
  [beat : Routes \cup {"Ended"}, completed : SUBSET Contacts, count : Nat,
   deferred : SUBSET Contacts]
NahidType ==
  [beat : {"Scamming", "Stopped", "Penalized"}, count : Nat,
   victims : SUBSET Lines, deferred : SUBSET Lines]

(* TypeOK in parts *)
CallsTyped ==
  /\ calls \in [Lines -> CallType]
  /\ \A l \in Lines : calls[l].phase = "None" <=> calls[l].callee = NoLine
NeelTyped == neel \in {"ProfessorRouting", "ArnabDirectory", "Completed", "BadEnding"}
StageTyped ==
  /\ gates \in SUBSET Stories
  /\ target \in StoryTargets
  /\ retired \in BOOLEAN
  /\ panel \in {"empty", "patched"}
  /\ pc \in {"idle", "expire", "stories", "neutral", "progress", "operate", "publish"}
  /\ then \in {"idle", "progress", "publish"}

LEMMA TypeParts ==
  TypeOK <=> /\ CallsTyped /\ shapla \in ShaplaType /\ NeelTyped /\ dirty \in DirtyType
             /\ nahid \in NahidType /\ ledger \in [Payments -> Nat] /\ StageTyped
BY DEF TypeOK, CallsTyped, ShaplaType, NeelTyped, DirtyType, NahidType, StageTyped,
       CallType, Phases

-----------------------------------------------------------------------------
(* What a step does to the board *)

Ends(l) == l \in Active /\ Without(l)
EndsAll == calls' = [l \in Lines |-> NoCall]
MovesTo(l, phase) ==
  /\ l \in Active
  /\ phase = "OperatorSession" => calls[l].phase = "Waiting"
  /\ phase = "Connected" => calls[l].phase \in {"Waiting", "OperatorSession"}
  /\ calls' = [calls EXCEPT ![l].phase = phase]
Retargets(b) ==
  /\ neel = "ArnabDirectory" /\ UNCHANGED neel
  /\ Arnab \in Active
  /\ calls' = [calls EXCEPT ![Arnab].callee = b]
Offers(story, l, callee) ==
  /\ LineIsFree(l)
  /\ calls' = [calls EXCEPT ![l] = NewCall(callee)]
  /\ \/ /\ story = "None" /\ callee \in NonStoryLines /\ LineIsFree(callee)
        /\ l \in NonStoryLines /\ l # callee
        /\ UNCHANGED threads
     \/ /\ story \in Stories /\ Eligible(story)
        /\ <<l, callee>> \in Candidates(story)
        /\ HasDestination(l) => LineIsFree(callee)
        /\ UNCHANGED <<neel, dirty, ledger>>
        /\ UNCHANGED <<shapla.beat, nahid.victims>>

(* Where the calls of the stories go *)
LEMMA CandidatesTyped ==
  ASSUME TypeOK, NEW story \in Stories, NEW c \in Candidates(story)
  PROVE  /\ c = <<c[1], c[2]>> /\ c[1] \in Lines /\ c[2] \in Lines
         /\ story = "Shapla" => c = <<Shapla, Placeholder>>
         /\ story = "BelaBose" => c = <<NeelCaller, NeelCallee>>
         /\ story = "DirtyWork" => c = <<DirtyWorkCaller, DirtyWorkCallee>>
         /\ story = "Nahid" => c[1] = Nahid /\ c[2] \in Victims \ nahid.victims
<1>1. CASE story = "Shapla"
  BY <1>1, LinesAssumption DEF Candidates, StoryCallerLines, NonStoryLines
<1>2. CASE story = "BelaBose"
  BY <1>2, LinesAssumption DEF Candidates, StoryCallerLines, NonStoryLines, NeelCaller, NeelCallee
<1>3. CASE story = "DirtyWork"
  BY <1>3, LinesAssumption
  DEF Candidates, StoryCallerLines, NonStoryLines, DirtyWorkCaller, DirtyWorkCallee
<1>4. CASE story = "Nahid"
  <2>1. c \in {Nahid} \X (Victims \ nahid.victims)
    BY <1>4 DEF Candidates, FindVictims
  <2> QED  BY <1>4, <2>1, LinesAssumption DEF StoryCallerLines
<1> QED  BY <1>1, <1>2, <1>3, <1>4 DEF Stories

(* The five callers with a thread's first or only line are five lines. *)
LEMMA FourAtMost == ASSUME NEW a, NEW b, NEW c, NEW d PROVE Cardinality({a, b, c, d}) <= 4
<1>1. /\ IsFiniteSet({a}) /\ Cardinality({a}) = 1
  BY FS_Singleton
<1>2. /\ IsFiniteSet({a} \cup {b}) /\ Cardinality({a} \cup {b}) \in 1..2
  BY <1>1, FS_AddElement
<1>3. /\ IsFiniteSet({a} \cup {b} \cup {c}) /\ Cardinality({a} \cup {b} \cup {c}) \in 1..3
  BY <1>2, FS_AddElement
<1>4. Cardinality({a} \cup {b} \cup {c} \cup {d}) \in 1..4
  BY <1>3, FS_AddElement
<1>5. {a} \cup {b} \cup {c} \cup {d} = {a, b, c, d}
  OBVIOUS
<1> QED  BY <1>4, <1>5

LEMMA FiveCallers ==
  /\ Shapla \notin {Kashem, Arnab, Rahman, Nahid}
  /\ Kashem \notin {Arnab, Rahman, Nahid}
  /\ Arnab \notin {Rahman, Nahid}
  /\ Rahman # Nahid
<1> DEFINE Five == {Shapla, Kashem, Arnab, Rahman, Nahid}
<1>1. ASSUME NEW a \in Five, NEW b \in Five, NEW c \in Five, NEW d \in Five,
             Five = {a, b, c, d}
      PROVE  FALSE
  <2>1. Cardinality(Five) = 5
    BY LinesAssumption
  <2>2. Cardinality({a, b, c, d}) <= 4
    BY FourAtMost
  <2> HIDE DEF Five
  <2>3. Cardinality(Five) <= 4
    BY <1>1, <2>2, Zenon
  <2> QED  BY <2>1, <2>3, SMT
<1>2. Shapla \in Five /\ Kashem \in Five /\ Arnab \in Five /\ Rahman \in Five /\ Nahid \in Five
  OBVIOUS
<1>3. Shapla \notin {Kashem, Arnab, Rahman, Nahid}
  BY <1>1, <1>2
<1>4. Kashem \notin {Arnab, Rahman, Nahid}
  BY <1>1, <1>2
<1>5. Arnab \notin {Rahman, Nahid}
  BY <1>1, <1>2
<1>6. Rahman # Nahid
  BY <1>1, <1>2
<1> QED  BY <1>3, <1>4, <1>5, <1>6

(* The lines of different threads are different lines. *)
LEMMA ThreadLines ==
  /\ \A l \in Lines : StoryIdForCaller(l) \in Stories \cup {"None"}
  /\ \A l \in Lines : StoryIdForCaller(l) = "None" <=> l \in NonStoryLines
  /\ \A l \in Lines : StoryIdForCaller(l) = "Shapla" <=> l = Shapla
  /\ \A l \in Lines : StoryIdForCaller(l) = "BelaBose" <=> l \in {Kashem, Arnab}
  /\ \A l \in Lines : StoryIdForCaller(l) = "DirtyWork" <=> l \in {Rahman} \cup Contacts
  /\ \A l \in Lines : StoryIdForCaller(l) = "Nahid" <=> l = Nahid
BY FiveCallers, LinesAssumption
DEF StoryIdForCaller, Stories, NonStoryLines, StoryCallerLines

LEMMA ActiveHere ==
  ASSUME CallsTyped, NEW l \in Lines
  PROVE  /\ l \in Active <=> calls[l].phase # "None"
         /\ l \in Active <=> calls[l].callee # NoLine
         /\ l \in Active => calls[l].callee \in Lines
BY DEF Active, CallsTyped, CallType

LEMMA OperateOnTheBoard ==
  ASSUME CallsTyped, Operate
  PROVE  \/ UNCHANGED calls
         \/ \E l \in Lines : Ends(l)
         \/ \E l \in Lines, phase \in {"OperatorSession", "Connected"} : MovesTo(l, phase)
         \/ \E b \in {DogLine, CatLine} : Retargets(b)
<1>1. ASSUME NEW l \in Lines, Answer(l) \/ ConnectFocused(l) PROVE \E phase \in {"OperatorSession", "Connected"} : MovesTo(l, phase)
  BY <1>1 DEF Answer, ConnectFocused, MovesTo, Phases, Active
<1>2. ASSUME NEW l \in Lines, FinishFocused(l) \/ Fail(l) PROVE Ends(l)
  BY <1>2 DEF FinishFocused, Complete, Fail, Ends, Active
<1>3. ASSUME NEW b \in {DogLine, CatLine}, FollowBela(b) PROVE Retargets(b)
  BY <1>3 DEF FollowBela, Retargets, threads
<1>4. ASSUME HangUpRahman \/ HangUpNahid \/ HangUpShapla PROVE \E l \in Lines : Ends(l)
  BY <1>4 DEF HangUpRahman, HangUpNahid, HangUpShapla, Ends, Active
<1>5. ASSUME Stay PROVE UNCHANGED calls
  BY <1>5 DEF Stay, board
<1> QED  BY <1>1, <1>2, <1>3, <1>4, <1>5 DEF Operate

LEMMA ProgressOnTheBoard ==
  ASSUME CallsTyped, Progress
  PROVE  \/ UNCHANGED calls
         \/ \E l \in Lines : Ends(l)
         \/ \E l \in Lines, phase \in {"OperatorSession", "Connected"} : MovesTo(l, phase)
         \/ EndsAll
<1>1. ASSUME NEW l \in Lines, Expire(l) \/ FinishReady(l) PROVE Ends(l)
  BY <1>1 DEF Expire, FinishReady, Complete, Ends, Active
<1>2. ASSUME NEW l \in Lines, ConnectReady(l) PROVE MovesTo(l, "Connected")
  BY <1>2 DEF ConnectReady, MovesTo, Active
<1>3. ASSUME SettleShift \/ KeepShift PROVE EndsAll \/ UNCHANGED calls
  BY <1>3 DEF SettleShift, KeepShift, EndsAll, board
<1> QED  BY <1>1, <1>2, <1>3 DEF Progress, Phases

LEMMA SelectorOnTheBoard ==
  ASSUME TypeOK, Selector
  PROVE  \/ UNCHANGED calls
         \/ \E story \in Stories \cup {"None"}, l \in Lines, callee \in Lines :
              Offers(story, l, callee)
<1>1. ASSUME NEW story \in Stories, OfferStory(story)
      PROVE  \E l \in Lines, callee \in Lines : Offers(story, l, callee)
  <2>1. PICK c \in Offerable(story) : calls' = [calls EXCEPT ![c[1]] = NewCall(c[2])]
    BY <1>1 DEF OfferStory
  <2>2. c \in Candidates(story) /\ LineIsFree(c[1]) /\ (HasDestination(c[1]) => LineIsFree(c[2]))
    BY <2>1 DEF Offerable
  <2>3. c = <<c[1], c[2]>> /\ c[1] \in Lines /\ c[2] \in Lines
    BY <2>2, CandidatesTyped
  <2>4. shapla'.beat = shapla.beat /\ nahid'.victims = nahid.victims
    BY <1>1, TypeParts DEF OfferStory, ShaplaType, NahidType
  <2>5. UNCHANGED <<neel, dirty, ledger>> /\ Eligible(story)
    BY <1>1 DEF OfferStory
  <2> QED  BY <2>1, <2>2, <2>3, <2>4, <2>5 DEF Offers
<1>2. ASSUME OfferNeutral
      PROVE  \E l \in Lines, callee \in Lines : Offers("None", l, callee)
  <2>1. PICK p \in FreePairs : calls' = [calls EXCEPT ![p[1]] = NewCall(p[2])]
    BY <1>2 DEF OfferNeutral
  <2>2. /\ p[1] \in NonStoryLines /\ p[2] \in NonStoryLines /\ p[1] # p[2]
        /\ LineIsFree(p[1]) /\ LineIsFree(p[2])
    BY DEF FreePairs
  <2> QED  BY <1>2, <2>1, <2>2 DEF OfferNeutral, Offers, NonStoryLines
<1>3. ASSUME Refill \/ NoVictim \/ StartNeutral \/ EndRefill PROVE UNCHANGED calls
  BY <1>3 DEF Refill, NoVictim, StartNeutral, EndRefill, board
<1> QED  BY <1>1, <1>2, <1>3 DEF Selector

(* Calls change one at a time, or all of them end. *)
LEMMA StepsOnTheBoard ==
  ASSUME TypeOK, Next
  PROVE  \/ UNCHANGED calls
         \/ \E l \in Lines : Ends(l)
         \/ \E l \in Lines, phase \in {"OperatorSession", "Connected"} : MovesTo(l, phase)
         \/ \E b \in {DogLine, CatLine} : Retargets(b)
         \/ EndsAll
         \/ \E story \in Stories \cup {"None"}, l \in Lines, callee \in Lines :
              Offers(story, l, callee)
<1>1. CASE Receive \/ CutOffShapla \/ Publish \/ Answers
  BY <1>1 DEF Receive, CutOffShapla, Publish, Answers, ClassifyShapla, AnswerShapla,
              ReportNahid, ReportToRahman, board
<1>2. CASE Progress
  BY <1>2, ProgressOnTheBoard, TypeParts
<1>3. CASE Operate
  BY <1>3, OperateOnTheBoard, TypeParts
<1>4. CASE Selector
  BY <1>4, SelectorOnTheBoard
<1>5. CASE ResetRun
  BY <1>5 DEF ResetRun, EndsAll
<1> QED  BY <1>1, <1>2, <1>3, <1>4, <1>5 DEF Next

-----------------------------------------------------------------------------
(* What a step does to each thread *)

(* A contact that is drawn is one that is still open. *)
LEMMA DrawsAnOpenContact ==
  ASSUME NEW completed \in SUBSET Contacts, NEW deferred \in SUBSET Contacts,
         NEW next \in NextDirtyWorkContact(completed, deferred)
  PROVE  next.beat \in Contacts \ completed /\ next.deferred \in SUBSET Contacts
BY DEF NextDirtyWorkContact

KeepsContacts == UNCHANGED <<dirty.beat, dirty.completed, dirty.count>>
DueEnds == /\ dirty.beat \in Contacts \cap Active
           /\ Without(dirty.beat)
DefersContact ==
  /\ DueEnds
  /\ dirty'.beat \in Contacts \ dirty.completed
  /\ UNCHANGED <<dirty.completed, dirty.count>>
ServesContact ==
  /\ DueEnds
  /\ dirty'.completed = dirty.completed \cup {dirty.beat}
  /\ dirty'.count = dirty.count + 1
  /\ IF dirty'.count = Cardinality(Contacts)
     THEN dirty'.beat = "Interrogation"
     ELSE dirty'.beat \in Contacts \ dirty'.completed
FirstContact ==
  /\ dirty.beat = "Instruction"
  /\ Ends(Rahman)
  /\ dirty'.beat \in Contacts \ dirty.completed
  /\ UNCHANGED <<dirty.completed, dirty.count>>
EndsInterrogation ==
  /\ dirty.beat = "Interrogation"
  /\ dirty'.beat = "Ended"
  /\ UNCHANGED <<calls, dirty.completed, dirty.count>>

LEMMA MissedContactStep ==
  ASSUME TypeOK, NEW l \in Active, MissedContact(l), Without(l)
  PROVE  dirty' \in DirtyType /\ (KeepsContacts \/ DefersContact)
<1>0. dirty \in DirtyType
  BY TypeParts
<1>1. CASE l \notin Contacts
  BY <1>0, <1>1 DEF MissedContact, KeepsContacts
<1>2. CASE l \in Contacts /\ l # dirty.beat
  BY <1>0, <1>2 DEF MissedContact, KeepsContacts, DirtyType
<1>3. CASE l \in Contacts /\ l = dirty.beat
  <2>1. PICK next \in NextDirtyWorkContact(dirty.completed, dirty.deferred \cup {l}) :
          dirty' = [dirty EXCEPT !.beat = next.beat, !.deferred = next.deferred]
    BY <1>3 DEF MissedContact
  <2>a. dirty.completed \in SUBSET Contacts /\ dirty.deferred \cup {l} \in SUBSET Contacts
    BY <1>0, <1>3 DEF DirtyType
  <2>2. next.beat \in Contacts \ dirty.completed /\ next.deferred \in SUBSET Contacts
    BY <2>a, DrawsAnOpenContact, Zenon
  <2>3. dirty' \in DirtyType
    BY <1>0, <2>1, <2>2 DEF DirtyType, Routes
  <2>4. DefersContact
    BY <1>0, <1>3, <2>1, <2>2 DEF DefersContact, DueEnds, DirtyType
  <2> QED  BY <2>3, <2>4
<1> QED  BY <1>1, <1>2, <1>3

LEMMA AfterContactStep ==
  ASSUME TypeOK, NEW l \in Active, dirty' \in AfterContact(l), Without(l)
  PROVE  dirty' \in DirtyType /\ (KeepsContacts \/ ServesContact)
<1>0. dirty \in DirtyType
  BY TypeParts
<1>1. CASE l \notin Contacts \/ l # dirty.beat
  BY <1>0, <1>1 DEF AfterContact, KeepsContacts
<1>2. CASE l \in Contacts /\ l = dirty.beat
  <2> DEFINE completed == dirty.completed \cup {l}
             deferred == dirty.deferred \ {l}
             last == [beat |-> "Interrogation", deferred |-> deferred]
             nexts == IF dirty.count + 1 = Cardinality(Contacts)
                      THEN {last} ELSE NextDirtyWorkContact(completed, deferred)
  <2>1. /\ completed \in SUBSET Contacts /\ deferred \in SUBSET Contacts
        /\ dirty.count + 1 \in Nat
    BY <1>0, <1>2 DEF DirtyType
  <2>2. PICK next \in nexts :
          dirty' = [beat |-> next.beat, completed |-> completed,
                    count |-> dirty.count + 1, deferred |-> next.deferred]
    BY <1>2 DEF AfterContact
  <2>3. /\ next.deferred \in SUBSET Contacts
        /\ IF dirty.count + 1 = Cardinality(Contacts)
           THEN next.beat = "Interrogation" ELSE next.beat \in Contacts \ completed
    <3>1. CASE dirty.count + 1 = Cardinality(Contacts)
      BY <2>1, <2>2, <3>1
    <3>2. CASE dirty.count + 1 # Cardinality(Contacts)
      <4> HIDE DEF completed, deferred
      <4>1. next \in NextDirtyWorkContact(completed, deferred)
        BY <2>2, <3>2
      <4> QED  BY <2>1, <3>2, <4>1, DrawsAnOpenContact, Zenon
    <3> QED  BY <3>1, <3>2
  <2>4. /\ dirty'.beat = next.beat /\ dirty'.completed = completed
        /\ dirty'.count = dirty.count + 1
    BY <2>2
  <2>5. dirty' \in DirtyType
    <3> HIDE DEF completed
    <3> QED  BY <2>1, <2>2, <2>3 DEF DirtyType, Routes
  <2>6. ServesContact
    BY <1>2, <2>3, <2>4 DEF ServesContact, DueEnds
  <2> QED  BY <2>5, <2>6
<1> QED  BY <1>1, <1>2

(* The surveillance thread goes from contact to contact, each time with    *)
(* the call that ends.                                                     *)
LEMMA StepsOfTheSurveillance ==
  ASSUME TypeOK, Next
  PROVE  \/ ResetRun
         \/ /\ dirty' \in DirtyType
            /\ \/ KeepsContacts \/ DefersContact \/ ServesContact
               \/ FirstContact \/ EndsInterrogation
<1>0. dirty \in DirtyType /\ CallsTyped
  BY TypeParts
<1>1. ASSUME NEW l \in Lines, Expire(l) PROVE dirty' \in DirtyType /\ (KeepsContacts \/ DefersContact)
  <2>1. l \in Active /\ MissedContact(l) /\ Without(l)
    BY <1>1 DEF Expire, Active
  <2> QED  BY <2>1, MissedContactStep
<1>2. ASSUME NEW l \in Lines, Complete(l) PROVE dirty' \in DirtyType /\ (KeepsContacts \/ ServesContact)
  <2>1. l \in Active /\ dirty' \in AfterContact(l) /\ Without(l)
    BY <1>2 DEF Complete, Active
  <2> QED  BY <2>1, AfterContactStep
<1>3. ASSUME HangUpRahman PROVE dirty' \in DirtyType /\ (KeepsContacts \/ FirstContact)
  <2>1. CASE dirty.beat = "Instruction"
    <3>1. PICK next \in NextDirtyWorkContact(dirty.completed, dirty.deferred) :
            dirty' = [dirty EXCEPT !.beat = next.beat, !.deferred = next.deferred]
      BY <1>3, <2>1 DEF HangUpRahman
    <3>2. next.beat \in Contacts \ dirty.completed /\ next.deferred \in SUBSET Contacts
      BY <1>0, <3>1, DrawsAnOpenContact DEF DirtyType
    <3>3. dirty' \in DirtyType
      BY <1>0, <3>1, <3>2 DEF DirtyType, Routes
    <3>4. FirstContact
      BY <1>0, <1>3, <2>1, <3>1, <3>2 DEF FirstContact, HangUpRahman, Ends, DirtyType
    <3> QED  BY <3>3, <3>4
  <2>2. CASE dirty.beat # "Instruction"
    BY <1>0, <1>3, <2>2 DEF HangUpRahman, KeepsContacts
  <2> QED  BY <2>1, <2>2
<1>4. ASSUME ReportToRahman PROVE dirty' \in DirtyType /\ EndsInterrogation
  BY <1>0, <1>4 DEF ReportToRahman, EndsInterrogation, DirtyType, board
<1>5. ASSUME UNCHANGED dirty PROVE dirty' \in DirtyType /\ KeepsContacts
  BY <1>0, <1>5 DEF KeepsContacts
<1>6. CASE Receive \/ CutOffShapla \/ Publish
  BY <1>5, <1>6 DEF Receive, CutOffShapla, Publish, threads
<1>7. CASE Answers
  BY <1>4, <1>5, <1>7 DEF Answers, ClassifyShapla, AnswerShapla, ReportNahid
<1>8. CASE Progress
  BY <1>1, <1>2, <1>5, <1>8
  DEF Progress, ConnectReady, FinishReady, SettleShift, KeepShift, threads
<1>9. CASE Operate
  BY <1>2, <1>3, <1>5, <1>9
  DEF Operate, Answer, ConnectFocused, FinishFocused, Fail, FollowBela, HangUpNahid,
      HangUpShapla, Stay, threads
<1>10. CASE Selector
  BY <1>5, <1>10
  DEF Selector, Refill, OfferStory, NoVictim, StartNeutral, OfferNeutral, EndRefill, threads
<1> QED  BY <1>6, <1>7, <1>8, <1>9, <1>10 DEF Next

(* Neel's thread moves with the call that ends. *)
ReachesArnab ==
  /\ neel = "ProfessorRouting" /\ neel' = "ArnabDirectory"
  /\ Ends(Kashem)
ReachesBela ==
  /\ neel = "ArnabDirectory" /\ neel' \in {"Completed", "BadEnding"}
  /\ Ends(Arnab)

LEMMA StepsOfNeel ==
  ASSUME TypeOK, Next
  PROVE  \/ ResetRun
         \/ NeelTyped' /\ (UNCHANGED neel \/ ReachesArnab \/ ReachesBela)
<1>0. NeelTyped
  BY TypeParts
<1>1. ASSUME NEW l \in Lines, Complete(l)
      PROVE  NeelTyped' /\ (UNCHANGED neel \/ ReachesArnab \/ ReachesBela)
  BY <1>0, <1>1 DEF Complete, AfterConnection, NeelTyped, ReachesArnab, ReachesBela, Ends, Active
<1>2. ASSUME UNCHANGED neel PROVE NeelTyped'
  BY <1>0, <1>2 DEF NeelTyped
<1>3. CASE Receive \/ CutOffShapla \/ Publish \/ Answers
  BY <1>2, <1>3 DEF Receive, CutOffShapla, Publish, threads, Answers, ClassifyShapla,
                    AnswerShapla, ReportNahid, ReportToRahman
<1>4. CASE Progress
  BY <1>1, <1>2, <1>4
  DEF Progress, Expire, ConnectReady, FinishReady, SettleShift, KeepShift, threads
<1>5. CASE Operate
  BY <1>1, <1>2, <1>5
  DEF Operate, Answer, ConnectFocused, FinishFocused, Fail, FollowBela, HangUpRahman,
      HangUpNahid, HangUpShapla, Stay, threads
<1>6. CASE Selector
  BY <1>2, <1>6
  DEF Selector, Refill, OfferStory, NoVictim, StartNeutral, OfferNeutral, EndRefill, threads
<1> QED  BY <1>3, <1>4, <1>5, <1>6 DEF Next

(* A scam is the end of Nahid's connected call. *)
KeepsScams == UNCHANGED <<nahid.beat, nahid.count, nahid.victims>>
Scams ==
  /\ Ends(Nahid)
  /\ nahid'.victims = nahid.victims \cup {calls[Nahid].callee}
  /\ IF nahid.beat = "Scamming"
     THEN /\ nahid'.count = nahid.count + 1
          /\ nahid'.beat = IF nahid.count + 1 >= ScamLimit THEN "Penalized" ELSE "Scamming"
     ELSE UNCHANGED <<nahid.count, nahid.beat>>
IsReported ==
  /\ nahid.beat = "Scamming" /\ nahid'.beat = "Stopped"
  /\ UNCHANGED <<calls, nahid.count, nahid.victims>>

LEMMA AfterScamStep ==
  ASSUME TypeOK, NEW l \in Active, nahid' = AfterScam(l), Without(l)
  PROVE  nahid' \in NahidType /\ (KeepsScams \/ Scams)
<1>0. nahid \in NahidType /\ calls[l].callee \in Lines
  BY TypeParts, ActiveHere DEF Active
<1>1. CASE l # Nahid
  BY <1>0, <1>1 DEF AfterScam, KeepsScams
<1>2. CASE l = Nahid
  <2> DEFINE count == IF nahid.beat = "Scamming" THEN nahid.count + 1 ELSE nahid.count
             beat == IF nahid.beat = "Scamming" /\ count >= ScamLimit
                     THEN "Penalized" ELSE nahid.beat
             victims == nahid.victims \cup {calls[l].callee}
             deferred == nahid.deferred \ {calls[l].callee}
  <2>1. /\ count \in Nat /\ beat \in {"Scamming", "Stopped", "Penalized"}
        /\ victims \in SUBSET Lines /\ deferred \in SUBSET Lines
    BY <1>0 DEF NahidType
  <2>2. nahid' = [beat |-> beat, count |-> count, victims |-> victims, deferred |-> deferred]
    BY <1>2 DEF AfterScam
  <2>3. nahid' \in NahidType
    <3> HIDE DEF count, beat, victims, deferred
    <3> QED  BY <2>1, <2>2 DEF NahidType
  <2>4. nahid'.beat = beat /\ nahid'.count = count /\ nahid'.victims = victims
    BY <2>2
  <2>5. Scams
    BY <1>2, <2>4 DEF Scams, Ends
  <2> QED  BY <2>3, <2>5
<1> QED  BY <1>1, <1>2

LEMMA StepsOfNahid ==
  ASSUME TypeOK, Next
  PROVE  \/ ResetRun
         \/ nahid' \in NahidType /\ (KeepsScams \/ Scams \/ IsReported)
<1>0. nahid \in NahidType /\ CallsTyped
  BY TypeParts
<1>1. ASSUME NEW l \in Lines, Expire(l) PROVE nahid' \in NahidType /\ KeepsScams
  <2>1. calls[l].callee \in Lines
    BY <1>0, <1>1, ActiveHere DEF Expire
  <2> QED  BY <1>0, <1>1, <2>1 DEF Expire, MissedVictim, KeepsScams, NahidType
<1>2. ASSUME NEW l \in Lines, Complete(l) PROVE nahid' \in NahidType /\ (KeepsScams \/ Scams)
  <2>1. l \in Active /\ nahid' = AfterScam(l) /\ Without(l)
    BY <1>2 DEF Complete, Active
  <2> QED  BY <2>1, AfterScamStep
<1>3. DeferredAfterSearch \in SUBSET Lines
  BY <1>0 DEF DeferredAfterSearch, NahidType
<1>4. ASSUME NEW story \in Stories, OfferStory(story) PROVE nahid' \in NahidType /\ KeepsScams
  <2> HIDE DEF DeferredAfterSearch
  <2> QED  BY <1>0, <1>3, <1>4 DEF OfferStory, KeepsScams, NahidType
<1>5. ASSUME NoVictim PROVE nahid' \in NahidType /\ KeepsScams
  BY <1>0, <1>3, <1>5 DEF NoVictim, KeepsScams, NahidType
<1>6. ASSUME ReportNahid PROVE nahid' \in NahidType /\ IsReported
  BY <1>0, <1>6 DEF ReportNahid, IsReported, NahidType, board
<1>7. ASSUME UNCHANGED nahid PROVE nahid' \in NahidType /\ KeepsScams
  BY <1>0, <1>7 DEF KeepsScams
<1>8. CASE Receive \/ CutOffShapla \/ Publish \/ Answers
  BY <1>6, <1>7, <1>8 DEF Receive, CutOffShapla, Publish, threads, Answers, ClassifyShapla,
                          AnswerShapla, ReportToRahman
<1>9. CASE Progress
  BY <1>1, <1>2, <1>7, <1>9
  DEF Progress, ConnectReady, FinishReady, SettleShift, KeepShift, threads
<1>10. CASE Operate
  BY <1>2, <1>7, <1>10
  DEF Operate, Answer, ConnectFocused, FinishFocused, Fail, FollowBela, HangUpRahman,
      HangUpNahid, HangUpShapla, Stay, threads
<1>11. CASE Selector
  BY <1>4, <1>5, <1>7, <1>11
  DEF Selector, Refill, StartNeutral, OfferNeutral, EndRefill, threads
<1> QED  BY <1>8, <1>9, <1>10, <1>11 DEF Next

(* Shapla leaves her emergency once; money moves when she is abandoned, a  *)
(* call is completed, or she says thank you.                               *)
KeepsShapla == UNCHANGED <<shapla.beat, shapla.reward_paid>>
LeavesEmergency ==
  /\ shapla.beat = "EmergencyCall" /\ shapla'.beat # "EmergencyCall"
  /\ UNCHANGED shapla.reward_paid
IsAbandoned ==
  /\ LeavesEmergency
  /\ shapla'.beat = "BadFollowup"
  /\ ledger' = Book({"ShaplaPenalty"})
Thanks ==
  /\ shapla.beat = "HappyFollowup" /\ UNCHANGED shapla.beat
  /\ shapla'.reward_paid = TRUE
  /\ ledger' = Book(IF shapla.reward_paid THEN {} ELSE {"ShaplaReward"})
Pays(l) ==
  /\ ledger' = Book(EarnedBy(l))
  /\ neel' = AfterConnection(l) /\ nahid' = AfterScam(l)

ShaplaSteps ==
  \/ UNCHANGED <<ledger, neel, nahid.beat>> /\ (KeepsShapla \/ LeavesEmergency)
  \/ UNCHANGED <<neel, nahid.beat>> /\ (IsAbandoned \/ Thanks)
  \/ KeepsShapla /\ \E l \in Lines : Pays(l)
  \/ KeepsShapla /\ IsReported /\ UNCHANGED <<ledger, neel>>

LEMMA Booked ==
  ASSUME ledger \in [Payments -> Nat], NEW ps
  PROVE  /\ Book(ps) \in [Payments -> Nat]
         /\ \A p \in Payments : Book(ps)[p] = IF p \in ps THEN ledger[p] + 1 ELSE ledger[p]
BY DEF Book

LEMMA StepsOfTheMoney ==
  ASSUME TypeOK, Next
  PROVE  \/ ResetRun
         \/ shapla' \in ShaplaType /\ ledger' \in [Payments -> Nat] /\ ShaplaSteps
<1> DEFINE Good == shapla' \in ShaplaType /\ ledger' \in [Payments -> Nat] /\ ShaplaSteps
<1>0. shapla \in ShaplaType /\ ledger \in [Payments -> Nat] /\ nahid \in NahidType
  BY TypeParts
<1>1. ASSUME UNCHANGED <<shapla, ledger, neel, nahid.beat>> PROVE Good
  BY <1>0, <1>1 DEF ShaplaSteps, KeepsShapla
<1>2. ASSUME NEW l \in Lines, Expire(l) PROVE Good
  <2>1. UNCHANGED <<neel, nahid.beat>>
    BY <1>0, <1>2 DEF Expire, MissedVictim, NahidType
  <2>2. CASE l = Shapla /\ shapla.beat = "EmergencyCall"
    <3>1. shapla' = [shapla EXCEPT !.beat = "BadFollowup"] /\ ledger' = Book({"ShaplaPenalty"})
      BY <1>2, <2>2 DEF Expire, Abandon
    <3>2. shapla' \in ShaplaType /\ IsAbandoned
      BY <1>0, <2>2, <3>1 DEF ShaplaType, IsAbandoned, LeavesEmergency
    <3> QED  BY <1>0, <2>1, <3>1, <3>2, Booked DEF ShaplaSteps
  <2>3. CASE ~(l = Shapla /\ shapla.beat = "EmergencyCall")
    BY <1>1, <1>2, <2>1, <2>3 DEF Expire, Abandon
  <2> QED  BY <2>2, <2>3
<1>3. ASSUME NEW l \in Lines, Complete(l) PROVE Good
  <2>1. Pays(l) /\ UNCHANGED shapla
    BY <1>3 DEF Complete, Pays
  <2>2. ledger' \in [Payments -> Nat]
    BY <1>0, <2>1, Booked DEF Pays
  <2> QED  BY <1>0, <2>1, <2>2 DEF ShaplaSteps, KeepsShapla
<1>4. ASSUME CutOffShapla PROVE Good
  <2>1. shapla' \in ShaplaType /\ IsAbandoned
    BY <1>0, <1>4 DEF CutOffShapla, ShaplaType, IsAbandoned, LeavesEmergency
  <2> QED  BY <1>0, <1>4, <2>1, Booked DEF CutOffShapla, ShaplaSteps
<1>5. ASSUME AnswerShapla PROVE Good
  <2>1. shapla' \in ShaplaType /\ UNCHANGED <<shapla.beat, neel, nahid>>
    BY <1>0, <1>5 DEF AnswerShapla, ShaplaType
  <2>2. CASE shapla.beat = "HappyFollowup"
    <3>1. ledger' = Book(IF shapla.reward_paid THEN {} ELSE {"ShaplaReward"})
      BY <1>0, <1>5, <2>2 DEF AnswerShapla, ShaplaType
    <3>2. shapla'.reward_paid = TRUE
      BY <1>0, <1>5, <2>2 DEF AnswerShapla, ShaplaType
    <3> QED  BY <1>0, <2>1, <2>2, <3>1, <3>2, Booked DEF ShaplaSteps, Thanks
  <2>3. CASE shapla.beat # "HappyFollowup"
    <3>1. ledger' = Book({})
      BY <1>5, <2>3 DEF AnswerShapla
    <3>2. ledger' = ledger
      BY <1>0, <3>1 DEF Book
    <3>3. UNCHANGED shapla.reward_paid
      BY <1>0, <1>5, <2>3 DEF AnswerShapla, ShaplaType
    <3> QED  BY <1>0, <2>1, <3>2, <3>3 DEF ShaplaSteps, KeepsShapla
  <2> QED  BY <2>2, <2>3
<1>6. ASSUME NEW next \in {"HappyFollowup", "NeutralFollowup", "BadFollowup"},
             ClassifyShapla(next)
      PROVE  Good
  <2>1. shapla' \in ShaplaType /\ LeavesEmergency
    BY <1>0, <1>6 DEF ClassifyShapla, ShaplaType, LeavesEmergency
  <2> QED  BY <1>0, <1>6, <2>1 DEF ClassifyShapla, ShaplaSteps
<1>7. ASSUME HangUpShapla PROVE Good
  <2>1. UNCHANGED <<neel, nahid, ledger>>
    BY <1>7 DEF HangUpShapla
  <2>2. shapla' \in ShaplaType /\ (KeepsShapla \/ LeavesEmergency)
    BY <1>0, <1>7 DEF HangUpShapla, ShaplaType, KeepsShapla, LeavesEmergency
  <2> QED  BY <1>0, <2>1, <2>2 DEF ShaplaSteps
<1>8. ASSUME NEW story \in Stories, OfferStory(story) PROVE Good
  <2>1. UNCHANGED <<neel, ledger, nahid.beat>>
    BY <1>0, <1>8 DEF OfferStory, NahidType
  <2>2. shapla' \in ShaplaType /\ KeepsShapla
    BY <1>0, <1>8 DEF OfferStory, ShaplaType, KeepsShapla
  <2> QED  BY <1>0, <2>1, <2>2 DEF ShaplaSteps
<1>9. ASSUME NoVictim PROVE Good
  <2>1. UNCHANGED <<shapla, neel, ledger, nahid.beat>>
    BY <1>0, <1>9 DEF NoVictim, NahidType
  <2> QED  BY <1>1, <2>1
<1>10. ASSUME ReportNahid PROVE Good
  <2>1. IsReported /\ UNCHANGED <<shapla, neel, ledger>>
    BY <1>0, <1>10 DEF ReportNahid, IsReported, NahidType, board
  <2> QED  BY <1>0, <2>1 DEF ShaplaSteps, KeepsShapla
<1>c. ASSUME UNCHANGED <<shapla, ledger, neel, nahid>> PROVE Good
  BY <1>1, <1>c
<1>11. CASE Receive \/ CutOffShapla \/ Publish
  BY <1>c, <1>4, <1>11 DEF Receive, Publish, threads
<1>12. CASE Answers
  BY <1>c, <1>5, <1>6, <1>10, <1>12 DEF Answers, ReportToRahman
<1>13. CASE Progress
  BY <1>c, <1>2, <1>3, <1>13
  DEF Progress, ConnectReady, FinishReady, SettleShift, KeepShift, threads
<1>14. CASE Operate
  BY <1>c, <1>3, <1>7, <1>14
  DEF Operate, Answer, ConnectFocused, FinishFocused, Fail, FollowBela, HangUpRahman,
      HangUpNahid, Stay, threads
<1>15. CASE Selector
  BY <1>c, <1>8, <1>9, <1>15
  DEF Selector, Refill, StartNeutral, OfferNeutral, EndRefill, threads
<1> QED  BY <1>11, <1>12, <1>13, <1>14, <1>15 DEF Next, Good

-----------------------------------------------------------------------------
(* Types *)

LEMMA FreshTyped ==
  ASSUME NEW open \in SUBSET Stories
  PROVE  /\ FreshShapla(open) \in ShaplaType
         /\ FreshNeel(open) \in {"ProfessorRouting", "BadEnding"}
         /\ FreshDirty(open) \in DirtyType
         /\ FreshNahid(open) \in NahidType
<1>1. Cardinality(Contacts) \in Nat
  BY LinesAssumption, FS_Subset, FS_CardinalityType DEF StoryCallerLines
<1> QED  BY <1>1 DEF FreshShapla, FreshNeel, FreshDirty, FreshNahid, ShaplaType, DirtyType,
                     NahidType, Routes

LEMMA EmptyBoardTyped == ASSUME EndsAll PROVE CallsTyped'
BY LinesAssumption DEF EndsAll, CallsTyped, CallType, Phases, NoCall

LEMMA TypeInit == Init => TypeOK
<1> SUFFICES ASSUME Init PROVE TypeOK
  OBVIOUS
<1>1. PICK open \in OpenThreads :
        /\ shapla = FreshShapla(open) /\ neel = FreshNeel(open)
        /\ dirty = FreshDirty(open) /\ nahid = FreshNahid(open)
  BY DEF Init
<1>2. /\ shapla \in ShaplaType /\ NeelTyped /\ dirty \in DirtyType /\ nahid \in NahidType
  BY <1>1, FreshTyped, ThreadAssumption DEF NeelTyped
<1>3. CallsTyped
  BY LinesAssumption DEF Init, CallsTyped, CallType, Phases, NoCall
<1>4. ledger \in [Payments -> Nat]
  BY DEF Init
<1>5. StageTyped
  <2>1. gates = {} /\ target \in StoryTargets /\ retired = FALSE
    BY DEF Init
  <2>2. panel = "empty" /\ pc = "stories" /\ then = "idle"
    BY DEF Init
  <2> QED  BY <2>1, <2>2 DEF StageTyped
<1> QED  BY <1>2, <1>3, <1>4, <1>5, TypeParts

LEMMA CallsTypedNext == ASSUME TypeOK, Next PROVE CallsTyped'
<1>0. CallsTyped
  BY TypeParts
<1>1. CASE UNCHANGED calls
  BY <1>0, <1>1 DEF CallsTyped
<1>2. ASSUME NEW l \in Lines, Ends(l) PROVE CallsTyped'
  BY <1>0, <1>2, LinesAssumption DEF CallsTyped, CallType, Phases, Ends, Without, NoCall
<1>3. ASSUME NEW l \in Lines, NEW phase \in {"OperatorSession", "Connected"}, MovesTo(l, phase)
      PROVE  CallsTyped'
  BY <1>0, <1>3 DEF CallsTyped, CallType, Phases, MovesTo, Active
<1>4. ASSUME NEW b \in {DogLine, CatLine}, Retargets(b) PROVE CallsTyped'
  <2>1. b \in Lines /\ b # NoLine /\ Arnab \in Lines
    BY LinesAssumption DEF NonStoryLines, StoryCallerLines
  <2> QED  BY <1>0, <1>4, <2>1 DEF CallsTyped, CallType, Phases, Retargets, Active
<1>5. CASE EndsAll
  BY <1>5, EmptyBoardTyped
<1>6. ASSUME NEW story \in Stories \cup {"None"}, NEW l \in Lines, NEW callee \in Lines,
             Offers(story, l, callee)
      PROVE  CallsTyped'
  BY <1>0, <1>6, LinesAssumption DEF CallsTyped, CallType, Phases, Offers, NewCall
<1> QED  BY <1>1, <1>2, <1>3, <1>4, <1>5, <1>6, StepsOnTheBoard

LEMMA StageTypedNext == ASSUME TypeOK, Next PROVE StageTyped'
<1>0. StageTyped
  BY TypeParts
<1>1. ASSUME NEW l \in Lines, Complete(l)
      PROVE  gates' \in SUBSET Stories /\ UNCHANGED <<target, retired>>
  BY <1>0, <1>1 DEF Complete, StageTyped
<1>2. CASE Receive \/ CutOffShapla \/ Publish
  BY <1>0, <1>2 DEF Receive, CutOffShapla, Publish, board, StageTyped
<1>3. CASE Answers
  BY <1>0, <1>3 DEF Answers, ClassifyShapla, AnswerShapla, ReportNahid, ReportToRahman,
                    board, stage, StageTyped
<1>4. CASE Progress
  BY <1>0, <1>1, <1>4
  DEF Progress, Expire, ConnectReady, FinishReady, SettleShift, KeepShift, board, stage, StageTyped
<1>5. CASE Operate
  BY <1>0, <1>1, <1>5
  DEF Operate, Operates, Answer, ConnectFocused, FinishFocused, Fail, FollowBela, HangUpRahman,
      HangUpNahid, HangUpShapla, Stay, board, stage, StageTyped
<1>6. CASE Selector
  BY <1>0, <1>6
  DEF Selector, Refill, OfferStory, NoVictim, StartNeutral, OfferNeutral, EndRefill,
      board, stage, StageTyped
<1>7. CASE ResetRun
  BY <1>0, <1>7 DEF ResetRun, StageTyped
<1> QED  BY <1>2, <1>3, <1>4, <1>5, <1>6, <1>7 DEF Next

LEMMA ResetTyped ==
  ASSUME ResetRun
  PROVE  /\ shapla' \in ShaplaType /\ NeelTyped' /\ dirty' \in DirtyType
         /\ nahid' \in NahidType /\ ledger' \in [Payments -> Nat]
<1>1. PICK open \in OpenThreads :
        /\ shapla' = FreshShapla(open) /\ neel' = FreshNeel(open)
        /\ dirty' = FreshDirty(open) /\ nahid' = FreshNahid(open)
  BY DEF ResetRun
<1>2. shapla' \in ShaplaType /\ NeelTyped' /\ dirty' \in DirtyType /\ nahid' \in NahidType
  BY <1>1, FreshTyped, ThreadAssumption DEF NeelTyped
<1> QED  BY <1>2 DEF ResetRun

LEMMA TypeNext == TypeOK /\ [Next]_vars => TypeOK'
<1>1. ASSUME TypeOK, Next PROVE TypeOK'
  <2>1. /\ shapla' \in ShaplaType /\ NeelTyped' /\ dirty' \in DirtyType
        /\ nahid' \in NahidType /\ ledger' \in [Payments -> Nat]
    BY <1>1, ResetTyped, StepsOfTheSurveillance, StepsOfNeel, StepsOfNahid, StepsOfTheMoney
  <2>2. /\ CallsTyped' /\ shapla' \in ShaplaType /\ NeelTyped' /\ dirty' \in DirtyType
        /\ nahid' \in NahidType /\ ledger' \in [Payments -> Nat] /\ StageTyped'
    BY <1>1, <2>1, CallsTypedNext, StageTypedNext
  <2> QED  BY <2>2 DEF TypeOK, CallsTyped, ShaplaType, NeelTyped, DirtyType, NahidType,
                       StageTyped, CallType, Phases
<1>2. ASSUME TypeOK, UNCHANGED vars PROVE TypeOK'
  BY <1>2 DEF TypeOK, vars
<1> QED  BY <1>1, <1>2

(* Every variable holds a value of its type, whatever the lines are. *)
THEOREM TypeCorrect == Spec => []TypeOK
BY TypeInit, TypeNext, PTL DEF Spec

-----------------------------------------------------------------------------
(* Which calls are due *)

LEMMA NewCallsAreOffered ==
  ASSUME TypeOK, Next, NEW l \in Lines, calls'[l].phase # "None"
  PROVE  \/ /\ l \in Active
            /\ \/ calls'[l].callee = calls[l].callee
               \/ /\ l = Arnab /\ calls'[l].callee \in {DogLine, CatLine}
                  /\ UNCHANGED neel
         \/ \E story \in Stories \cup {"None"}, callee \in Lines :
              Offers(story, l, callee) /\ calls'[l].callee = callee
<1>0. CallsTyped
  BY TypeParts
<1>1. CASE UNCHANGED calls
  BY <1>0, <1>1, ActiveHere
<1>2. ASSUME NEW k \in Lines, Ends(k)
      PROVE  l \in Active /\ calls'[l] = calls[l]
  BY <1>0, <1>2 DEF Ends, Without, NoCall, CallsTyped, CallType, Active
<1>3. ASSUME NEW k \in Lines, NEW phase \in {"OperatorSession", "Connected"}, MovesTo(k, phase)
      PROVE  l \in Active /\ calls'[l].callee = calls[l].callee
  BY <1>0, <1>3 DEF MovesTo, CallsTyped, CallType, Active
<1>4. ASSUME NEW b \in {DogLine, CatLine}, Retargets(b)
      PROVE  /\ l \in Active
             /\ \/ calls'[l].callee = calls[l].callee
                \/ l = Arnab /\ calls'[l].callee = b /\ UNCHANGED neel
  BY <1>0, <1>4, LinesAssumption DEF Retargets, CallsTyped, CallType, Active, StoryCallerLines
<1>5. CASE EndsAll
  BY <1>5 DEF EndsAll, NoCall
<1>6. ASSUME NEW story \in Stories \cup {"None"}, NEW k \in Lines, NEW callee \in Lines,
             Offers(story, k, callee)
      PROVE  \/ l \in Active /\ calls'[l].callee = calls[l].callee
             \/ Offers(story, l, callee) /\ calls'[l].callee = callee
  <2>1. CASE k = l
    BY <1>0, <1>6, <2>1 DEF Offers, NewCall, CallsTyped, CallType
  <2>2. CASE k # l
    BY <1>0, <1>6, <2>2 DEF Offers, NewCall, CallsTyped, CallType, Active
  <2> QED  BY <2>1, <2>2
<1> QED  BY <1>1, <1>2, <1>3, <1>4, <1>5, <1>6, StepsOnTheBoard

LEMMA EndedIsOver ==
  ASSUME TypeOK, NEW l \in Lines, Ends(l)
  PROVE  calls'[l].phase = "None" /\ calls' # calls
BY TypeParts DEF Ends, Without, NoCall, CallsTyped, CallType, Active

LEMMA OfferedIsDue ==
  ASSUME TypeOK, NEW story \in Stories \cup {"None"}, NEW l \in Lines, NEW callee \in Lines,
         Offers(story, l, callee)
  PROVE  /\ l \in Contacts => l = dirty.beat /\ UNCHANGED dirty
         /\ l = Kashem => neel = "ProfessorRouting" /\ UNCHANGED neel
         /\ l = Arnab => neel = "ArnabDirectory" /\ UNCHANGED neel /\ callee = DogLine
         /\ l = Nahid => callee \notin nahid.victims /\ UNCHANGED nahid.victims
<1>1. CASE story = "None"
  BY <1>1, LinesAssumption DEF Offers, NonStoryLines, StoryCallerLines, Stories
<1>2. CASE story \in Stories
  <2>1. /\ <<l, callee>> \in Candidates(story) /\ Eligible(story)
        /\ UNCHANGED <<neel, dirty, nahid.victims>>
    BY <1>2 DEF Offers, Stories
  <2>2. /\ story = "Shapla" => l = Shapla
        /\ story = "BelaBose" => l = NeelCaller /\ callee = NeelCallee
        /\ story = "DirtyWork" => l = DirtyWorkCaller /\ callee = DirtyWorkCallee
        /\ story = "Nahid" => l = Nahid /\ callee \in Victims \ nahid.victims
    BY <1>2, <2>1, CandidatesTyped
  <2>3. story = "BelaBose" => neel \in {"ProfessorRouting", "ArnabDirectory"}
    BY <2>1, TypeParts DEF Eligible, NeelTyped
  <2>4. {Shapla, Kashem, Arnab, Rahman, Nahid} \cap Contacts = {}
    BY LinesAssumption
  <2>5. CASE story = "Shapla"
    BY <2>2, <2>4, <2>5, FiveCallers
  <2>6. CASE story = "BelaBose"
    BY <2>1, <2>2, <2>3, <2>4, <2>6, FiveCallers DEF NeelCaller, NeelCallee
  <2>7. CASE story = "DirtyWork"
    BY <2>1, <2>2, <2>4, <2>7, FiveCallers DEF DirtyWorkCaller
  <2>8. CASE story = "Nahid"
    BY <2>1, <2>2, <2>4, <2>8, FiveCallers
  <2> QED  BY <1>2, <2>5, <2>6, <2>7, <2>8 DEF Stories
<1> QED  BY <1>1, <1>2

ContactsAreDue == \A l \in Active : l \in Contacts => l = dirty.beat
NeelIsDue ==
  \A l \in Active :
    /\ l = Kashem => neel = "ProfessorRouting"
    /\ l = Arnab => neel = "ArnabDirectory" /\ calls[l].callee \in {DogLine, CatLine}
ScamsAreDue == \A l \in Active : l = Nahid => calls[l].callee \notin nahid.victims

LEMMA DueInit == Init => ThreadCallsAreDue
BY DEF Init, ThreadCallsAreDue, Active, NoCall

LEMMA ContactsDueNext ==
  ASSUME TypeOK, ContactsAreDue, Next
  PROVE  ContactsAreDue'
<1> SUFFICES ASSUME NEW l \in Lines, calls'[l].phase # "None", l \in Contacts
             PROVE  l = dirty'.beat
  BY DEF ContactsAreDue, Active
<1>1. \/ l \in Active /\ l = dirty.beat
      \/ l = dirty.beat /\ UNCHANGED dirty
  BY NewCallsAreOffered, OfferedIsDue DEF ContactsAreDue
<1>2. CASE l \in Active /\ l = dirty.beat
  <2>1. ~ResetRun
    BY DEF ResetRun, NoCall
  <2>2. ~Ends(l)
    BY EndedIsOver
  <2>3. dirty.beat \notin {"Instruction", "Interrogation"}
    BY <1>2, ThreadAssumption
  <2> QED  BY <1>2, <2>1, <2>2, <2>3, StepsOfTheSurveillance
           DEF KeepsContacts, DefersContact, ServesContact, DueEnds, FirstContact,
               EndsInterrogation, Ends
<1> QED  BY <1>1, <1>2

LEMMA NeelDueNext ==
  ASSUME TypeOK, NeelIsDue, Next
  PROVE  NeelIsDue'
<1> SUFFICES ASSUME NEW l \in Lines, calls'[l].phase # "None"
             PROVE  /\ l = Kashem => neel' = "ProfessorRouting"
                    /\ l = Arnab => neel' = "ArnabDirectory" /\ calls'[l].callee \in {DogLine, CatLine}
  BY DEF NeelIsDue, Active
<1>1. /\ l = Kashem => neel = "ProfessorRouting"
      /\ l = Arnab => neel = "ArnabDirectory" /\ calls'[l].callee \in {DogLine, CatLine}
  BY NewCallsAreOffered, OfferedIsDue DEF NeelIsDue
<1>2. ~ResetRun
  BY DEF ResetRun, NoCall
<1>3. ~Ends(l)
  BY EndedIsOver
<1> QED  BY <1>1, <1>2, <1>3, StepsOfNeel DEF ReachesArnab, ReachesBela

LEMMA ScamsDueNext ==
  ASSUME TypeOK, ScamsAreDue, Next
  PROVE  ScamsAreDue'
<1> SUFFICES ASSUME calls'[Nahid].phase # "None"
             PROVE  calls'[Nahid].callee \notin nahid'.victims
  BY DEF ScamsAreDue, Active
<1>0. Nahid \in Lines
  BY LinesAssumption DEF StoryCallerLines
<1>1. calls'[Nahid].callee \notin nahid.victims
  BY <1>0, NewCallsAreOffered, OfferedIsDue, FiveCallers DEF ScamsAreDue
<1>2. ~ResetRun
  BY <1>0 DEF ResetRun, NoCall
<1>3. ~Ends(Nahid)
  BY <1>0, EndedIsOver
<1> QED  BY <1>1, <1>2, <1>3, StepsOfNahid DEF KeepsScams, Scams, IsReported

LEMMA DueNext == TypeOK /\ ThreadCallsAreDue /\ [Next]_vars => ThreadCallsAreDue'
<1>1. ThreadCallsAreDue <=> ContactsAreDue /\ NeelIsDue /\ ScamsAreDue
  BY DEF ThreadCallsAreDue, ContactsAreDue, NeelIsDue, ScamsAreDue
<1>2. ASSUME TypeOK, ThreadCallsAreDue, Next PROVE ThreadCallsAreDue'
  <2>1. ContactsAreDue' /\ NeelIsDue' /\ ScamsAreDue'
    BY <1>1, <1>2, ContactsDueNext, NeelDueNext, ScamsDueNext
  <2> QED  BY <2>1 DEF ThreadCallsAreDue, ContactsAreDue, NeelIsDue, ScamsAreDue
<1>3. ASSUME ThreadCallsAreDue, UNCHANGED vars PROVE ThreadCallsAreDue'
  BY <1>3 DEF ThreadCallsAreDue, vars, Active
<1> QED  BY <1>2, <1>3

(* Whatever answers, misses and hang-ups come between a call's offer and   *)
(* its end, the thread is still at the beat the call was offered for.      *)
THEOREM CallsAreDue == Spec => []ThreadCallsAreDue
BY TypeInit, TypeNext, DueInit, DueNext, PTL DEF Spec

-----------------------------------------------------------------------------
(* Every contact once *)

LEMMA FiniteSides ==
  /\ \A S \in SUBSET Contacts : IsFiniteSet(S) /\ Cardinality(S) \in Nat
  /\ \A S \in SUBSET Lines : IsFiniteSet(S) /\ Cardinality(S) \in Nat
  /\ \A S \in SUBSET Contacts : Cardinality(S) = Cardinality(Contacts) => S = Contacts
<1>1. IsFiniteSet(Lines) /\ Contacts \subseteq Lines
  BY LinesAssumption DEF StoryCallerLines
<1>2. IsFiniteSet(Contacts)
  BY <1>1, FS_Subset
<1> QED  BY <1>1, <1>2, FS_Subset, FS_CardinalityType

LEMMA FreshContacts ==
  ASSUME NEW open \in SUBSET Stories, NEW d, d = FreshDirty(open)
  PROVE  /\ d.count = Cardinality(d.completed)
         /\ d.beat \notin d.completed
         /\ d.beat \in {"Interrogation", "Ended"} <=> d.completed = Contacts
<1>1. Cardinality({}) = 0
  BY FS_EmptySet
<1>2. Contacts # {} /\ {"Instruction", "Ended"} \cap Contacts = {}
  BY LinesAssumption, ThreadAssumption
<1>3. CASE "DirtyWork" \in open
  BY <1>1, <1>2, <1>3 DEF FreshDirty
<1>4. CASE "DirtyWork" \notin open
  BY <1>2, <1>4 DEF FreshDirty
<1> QED  BY <1>3, <1>4

LEMMA ContactsInit == Init => ContactsServedOnce
BY FreshContacts, ThreadAssumption DEF Init, ContactsServedOnce

LEMMA ContactsNext == TypeOK /\ ContactsServedOnce /\ [Next]_vars => ContactsServedOnce'
<1> SUFFICES ASSUME TypeOK, ContactsServedOnce, [Next]_vars PROVE ContactsServedOnce'
  OBVIOUS
<1>0. dirty \in DirtyType
  BY TypeParts
<1>1. CASE UNCHANGED vars
  BY <1>1 DEF vars, ContactsServedOnce
<1>2. CASE ResetRun
  BY <1>2, FreshContacts, ThreadAssumption DEF ResetRun, ContactsServedOnce
<1>3. CASE KeepsContacts
  BY <1>3 DEF KeepsContacts, ContactsServedOnce
<1>4. CASE DefersContact \/ FirstContact
  <2>1. dirty.completed # Contacts
    BY <1>4, ThreadAssumption DEF DefersContact, DueEnds, FirstContact, ContactsServedOnce
  <2>2. dirty'.beat \notin {"Interrogation", "Ended"} /\ dirty'.beat \notin dirty.completed
    BY <1>4, ThreadAssumption DEF DefersContact, FirstContact
  <2> QED  BY <1>4, <2>1, <2>2 DEF DefersContact, FirstContact, ContactsServedOnce
<1>5. CASE ServesContact
  <2>1. /\ dirty.beat \in Contacts \ dirty.completed
        /\ dirty'.completed = dirty.completed \cup {dirty.beat}
        /\ dirty'.count = dirty.count + 1
    BY <1>5 DEF ServesContact, DueEnds, ContactsServedOnce
  <2>2. dirty'.completed \in SUBSET Contacts
    BY <1>0, <2>1 DEF DirtyType
  <2>3. dirty'.count = Cardinality(dirty'.completed)
    BY <1>0, <2>1, FiniteSides, FS_AddElement DEF DirtyType, ContactsServedOnce
  <2>4. dirty'.count = Cardinality(Contacts) <=> dirty'.completed = Contacts
    BY <2>2, <2>3, FiniteSides
  <2>5. CASE dirty'.count = Cardinality(Contacts)
    BY <1>5, <2>2, <2>3, <2>4, <2>5, ThreadAssumption DEF ServesContact, ContactsServedOnce
  <2>6. CASE dirty'.count # Cardinality(Contacts)
    BY <1>5, <2>2, <2>3, <2>4, <2>6, ThreadAssumption DEF ServesContact, ContactsServedOnce
  <2> QED  BY <2>5, <2>6
<1>6. CASE EndsInterrogation
  BY <1>0, <1>6, ThreadAssumption DEF EndsInterrogation, ContactsServedOnce, DirtyType
<1> QED  BY <1>1, <1>2, <1>3, <1>4, <1>5, <1>6, StepsOfTheSurveillance

(* The interrogation comes after each contact was served once, in any      *)
(* order of missed, finished and repeated calls.                           *)
THEOREM ContactsOnce == Spec => []ContactsServedOnce
BY TypeInit, TypeNext, ContactsInit, ContactsNext, PTL DEF Spec

LEMMA OpenContactDrawn ==
  ASSUME NEW completed \in SUBSET Contacts, completed # Contacts, NEW deferred
  PROVE  NextDirtyWorkContact(completed, deferred) # {}
<1>1. CASE Contacts \ (completed \cup deferred) # {}
  <2>1. PICK c \in Contacts \ (completed \cup deferred) : TRUE
    BY <1>1
  <2>2. [beat |-> c, deferred |-> deferred] \in NextDirtyWorkContact(completed, deferred)
    BY <1>1, <2>1 DEF NextDirtyWorkContact
  <2> QED  BY <2>2
<1>2. CASE Contacts \ (completed \cup deferred) = {}
  <2>1. PICK c \in Contacts \ completed : TRUE
    OBVIOUS
  <2>2. [beat |-> c, deferred |-> {}] \in NextDirtyWorkContact(completed, deferred)
    BY <1>2, <2>1 DEF NextDirtyWorkContact
  <2> QED  BY <2>2
<1> QED  BY <1>1, <1>2

LEMMA ServedDraws == TypeOK /\ ContactsServedOnce => ContactToDraw
<1> SUFFICES ASSUME TypeOK, ContactsServedOnce PROVE ContactToDraw
  OBVIOUS
<1>0. dirty \in DirtyType
  BY TypeParts
<1>1. ASSUME dirty.beat \in Contacts \cup {"Instruction"}
      PROVE  dirty.completed \in SUBSET Contacts /\ dirty.completed # Contacts
  BY <1>0, <1>1, ThreadAssumption DEF ContactsServedOnce, DirtyType
<1>2. ASSUME dirty.beat \in Contacts, dirty.count + 1 # Cardinality(Contacts)
      PROVE  /\ dirty.completed \cup {dirty.beat} \in SUBSET Contacts
             /\ dirty.completed \cup {dirty.beat} # Contacts
  BY <1>0, <1>2, FiniteSides, FS_AddElement DEF ContactsServedOnce, DirtyType
<1> QED  BY <1>1, <1>2, OpenContactDrawn DEF ContactToDraw

(* Drawing the next contact never fails: what next_dirty_work_contact      *)
(* takes the modulo by is not zero, in any order of missed, served and     *)
(* hung-up calls.                                                          *)
THEOREM AContactIsLeft == Spec => []ContactToDraw
BY TypeInit, TypeNext, ContactsInit, ContactsNext, ServedDraws, PTL DEF Spec

-----------------------------------------------------------------------------
(* Every victim once *)

(* The scams that count never exceed the limit: the one that reaches it    *)
(* ends the thread.                                                        *)
ScamsAreLimited == ScamsHaveDistinctVictims /\ nahid.count <= ScamLimit

LEMMA FreshScams ==
  ASSUME NEW open \in SUBSET Stories, NEW n, n = FreshNahid(open)
  PROVE  /\ n.count = 0 /\ n.victims = {} /\ n.beat # "Penalized"
         /\ n.count = Cardinality(n.victims)
BY FS_EmptySet DEF FreshNahid

LEMMA ScamsInit == Init => ScamsAreLimited
BY FreshScams, ThreadAssumption DEF Init, ScamsAreLimited, ScamsHaveDistinctVictims

LEMMA ScamsNext ==
  TypeOK /\ ThreadCallsAreDue /\ ScamsAreLimited /\ [Next]_vars => ScamsAreLimited'
<1> SUFFICES ASSUME TypeOK, ThreadCallsAreDue, ScamsAreLimited, [Next]_vars
             PROVE  ScamsAreLimited'
  OBVIOUS
<1>0. nahid \in NahidType
  BY TypeParts
<1>1. CASE UNCHANGED vars
  BY <1>1 DEF vars, ScamsAreLimited, ScamsHaveDistinctVictims
<1>2. CASE ResetRun
  BY <1>2, FreshScams, ThreadAssumption DEF ResetRun, ScamsAreLimited, ScamsHaveDistinctVictims
<1>3. CASE KeepsScams
  BY <1>3 DEF KeepsScams, ScamsAreLimited, ScamsHaveDistinctVictims
<1>4. CASE Scams
  <2>1. calls[Nahid].callee \notin nahid.victims
    BY <1>4 DEF Scams, Ends, ThreadCallsAreDue
  <2>2. Cardinality(nahid'.victims) = Cardinality(nahid.victims) + 1
    BY <1>0, <1>4, <2>1, FiniteSides, FS_AddElement DEF Scams, NahidType
  <2>3. Cardinality(nahid.victims) \in Nat /\ nahid.count \in Nat /\ ScamLimit \in Nat
    BY <1>0, FiniteSides, ThreadAssumption DEF NahidType
  <2>4. CASE nahid.beat = "Scamming"
    BY <1>4, <2>2, <2>3, <2>4 DEF Scams, ScamsAreLimited, ScamsHaveDistinctVictims
  <2>5. CASE nahid.beat # "Scamming"
    BY <1>4, <2>2, <2>3, <2>5 DEF Scams, ScamsAreLimited, ScamsHaveDistinctVictims
  <2> QED  BY <2>4, <2>5
<1>5. CASE IsReported
  BY <1>0, <1>5 DEF IsReported, ScamsAreLimited, ScamsHaveDistinctVictims
<1> QED  BY <1>1, <1>2, <1>3, <1>4, <1>5, StepsOfNahid

(* The penalty is for ScamLimit different people: no missed call, second   *)
(* round of deferred victims or report by the police counts anybody twice. *)
THEOREM ScamsDistinct == Spec => []ScamsHaveDistinctVictims
<1>1. ScamsAreLimited => ScamsHaveDistinctVictims
  BY DEF ScamsAreLimited
<1> QED  BY <1>1, TypeInit, TypeNext, DueInit, DueNext, ScamsInit, ScamsNext, PTL DEF Spec

-----------------------------------------------------------------------------
(* Every payment once *)

(* The ledger is a function of where the threads are; only the penalty for *)
(* Shapla is not, because two of the ways into BadFollowup are free.       *)
LedgerMatches ==
  /\ ledger["BelaReward"] = IF neel = "Completed" THEN 1 ELSE 0
  /\ ledger["NahidPenalty"] = IF nahid.beat = "Penalized" THEN 1 ELSE 0
  /\ ledger["ShaplaReward"] = IF shapla.reward_paid THEN 1 ELSE 0
  /\ shapla.reward_paid => shapla.beat = "HappyFollowup"
  /\ ledger["ShaplaPenalty"] \in {0, 1}
  /\ ledger["ShaplaPenalty"] = 1 => shapla.beat = "BadFollowup"

LEMMA LedgerPays == TypeOK /\ LedgerMatches => StoryMoneyOnce
BY DEF LedgerMatches, StoryMoneyOnce, Payments

LEMMA FreshLedger ==
  ASSUME NEW open \in SUBSET Stories
  PROVE  /\ ~FreshShapla(open).reward_paid
         /\ FreshNeel(open) # "Completed"
         /\ FreshNahid(open).beat # "Penalized"
BY DEF FreshShapla, FreshNeel, FreshNahid

LEMMA LedgerInit == Init => LedgerMatches
<1> SUFFICES ASSUME Init PROVE LedgerMatches
  OBVIOUS
<1>1. PICK open \in SUBSET Stories :
        shapla = FreshShapla(open) /\ neel = FreshNeel(open) /\ nahid = FreshNahid(open)
  BY ThreadAssumption DEF Init
<1>2. \A p \in Payments : ledger[p] = 0
  BY DEF Init
<1> QED  BY <1>1, <1>2, FreshLedger DEF LedgerMatches, Payments

LEMMA LedgerNext == TypeOK /\ LedgerMatches /\ [Next]_vars => LedgerMatches'
<1> SUFFICES ASSUME TypeOK, LedgerMatches, [Next]_vars PROVE LedgerMatches'
  OBVIOUS
<1>0. ledger \in [Payments -> Nat] /\ shapla \in ShaplaType /\ nahid \in NahidType
  BY TypeParts
<1>1. CASE UNCHANGED vars
  BY <1>1 DEF vars, LedgerMatches
<1>2. CASE ResetRun
  <2>1. PICK open \in SUBSET Stories :
          /\ shapla' = FreshShapla(open) /\ neel' = FreshNeel(open)
          /\ nahid' = FreshNahid(open)
    BY <1>2, ThreadAssumption DEF ResetRun
  <2>2. \A p \in Payments : ledger'[p] = 0
    BY <1>2 DEF ResetRun
  <2> QED  BY <2>1, <2>2, FreshLedger DEF LedgerMatches, Payments
<1>3. CASE UNCHANGED <<ledger, neel, nahid.beat>> /\ (KeepsShapla \/ LeavesEmergency)
  BY <1>0, <1>3 DEF KeepsShapla, LeavesEmergency, LedgerMatches
<1>4. CASE UNCHANGED <<neel, nahid.beat>> /\ IsAbandoned
  <2>1. \A p \in Payments : ledger'[p] = IF p = "ShaplaPenalty" THEN ledger[p] + 1 ELSE ledger[p]
    BY <1>0, <1>4, Booked DEF IsAbandoned
  <2> QED  BY <1>0, <1>4, <2>1 DEF IsAbandoned, LeavesEmergency, LedgerMatches, Payments
<1>5. CASE UNCHANGED <<neel, nahid.beat>> /\ Thanks
  <2>1. \A p \in Payments :
          ledger'[p] = IF p = "ShaplaReward" /\ ~shapla.reward_paid THEN ledger[p] + 1 ELSE ledger[p]
    BY <1>0, <1>5, Booked DEF Thanks
  <2> QED  BY <1>0, <1>5, <2>1 DEF Thanks, LedgerMatches, Payments
<1>6. ASSUME KeepsShapla, NEW l \in Lines, Pays(l) PROVE LedgerMatches'
  <2>1. \A p \in Payments : ledger'[p] = IF p \in EarnedBy(l) THEN ledger[p] + 1 ELSE ledger[p]
    BY <1>0, <1>6, Booked DEF Pays
  <2>2. /\ "BelaReward" \in EarnedBy(l) <=> neel' = "Completed" /\ neel # "Completed"
        /\ "NahidPenalty" \in EarnedBy(l) <=> nahid'.beat = "Penalized" /\ nahid.beat = "Scamming"
        /\ "ShaplaReward" \notin EarnedBy(l) /\ "ShaplaPenalty" \notin EarnedBy(l)
    BY <1>6 DEF EarnedBy, Pays, Payments
  <2>3. neel = "Completed" => neel' = "Completed"
    BY <1>6 DEF Pays, AfterConnection
  <2>4. nahid.beat # "Scamming" => nahid'.beat = nahid.beat
    BY <1>0, <1>6 DEF Pays, AfterScam
  <2>5. ledger'["BelaReward"] = IF neel' = "Completed" THEN 1 ELSE 0
    BY <2>1, <2>2, <2>3 DEF LedgerMatches, Payments
  <2>6. ledger'["NahidPenalty"] = IF nahid'.beat = "Penalized" THEN 1 ELSE 0
    <3>1. CASE nahid.beat = "Scamming"
      BY <2>1, <2>2, <3>1 DEF LedgerMatches, Payments
    <3>2. CASE nahid.beat # "Scamming"
      BY <2>1, <2>2, <2>4, <3>2 DEF LedgerMatches, Payments
    <3> QED  BY <3>1, <3>2
  <2>7. UNCHANGED <<ledger["ShaplaReward"], ledger["ShaplaPenalty"]>>
    BY <2>1, <2>2 DEF Payments
  <2> QED  BY <1>6, <2>5, <2>6, <2>7 DEF KeepsShapla, LedgerMatches
<1>7. CASE KeepsShapla /\ IsReported /\ UNCHANGED <<ledger, neel>>
  BY <1>7 DEF KeepsShapla, IsReported, LedgerMatches
<1> QED  BY <1>1, <1>2, <1>3, <1>4, <1>5, <1>6, <1>7, StepsOfTheMoney DEF ShaplaSteps

(* No payment of a story is booked twice in a run, and Shapla is not both  *)
(* thankful and abandoned.                                                 *)
THEOREM MoneyOnce == Spec => []StoryMoneyOnce
BY TypeInit, TypeNext, LedgerInit, LedgerNext, LedgerPays, PTL DEF Spec

-----------------------------------------------------------------------------
(* The board of the subscribers *)

LEMMA OffersOnBoard ==
  ASSUME TypeOK, NEW story \in Stories \cup {"None"}, NEW l \in Lines, NEW callee \in Lines,
         Offers(story, l, callee)
  PROVE  Board!Offer(l, callee)
<1>1. ASSUME NEW line \in Lines, LineIsFree(line) PROVE Board!IsFree(line)
  BY <1>1 DEF LineIsFree, CallUsesLine, Active, Board!IsFree, Board!Uses, Board!Busy
<1>2. LineIsFree(callee) \/ (l \in {Shapla, Rahman} /\ callee = Placeholder)
  <2>1. CASE story = "None"
    BY <2>1 DEF Offers, Stories
  <2>2. CASE story \in Stories /\ HasDestination(l)
    BY <2>2 DEF Offers, Stories
  <2>3. CASE story \in Stories /\ ~HasDestination(l)
    <3>1. /\ <<l, callee>> \in Candidates(story)
          /\ l = Shapla \/ (l = Rahman /\ dirty.beat \notin Contacts)
      BY <2>3 DEF Offers, HasDestination, Stories
    <3>2. /\ story = "Shapla" => callee = Placeholder
          /\ story = "BelaBose" => l = NeelCaller
          /\ story = "DirtyWork" => l = DirtyWorkCaller /\ callee = DirtyWorkCallee
          /\ story = "Nahid" => l = Nahid
      BY <2>3, <3>1, CandidatesTyped
    <3>3. {Shapla, Rahman} \cap Contacts = {}
      BY LinesAssumption
    <3>4. story \in {"Shapla", "DirtyWork"}
      BY <2>3, <3>1, <3>2, FiveCallers DEF Stories, NeelCaller
    <3> QED  BY <3>1, <3>2, <3>3, <3>4 DEF DirtyWorkCaller, DirtyWorkCallee
  <2> QED  BY <2>1, <2>2, <2>3
<1> QED  BY <1>1, <1>2 DEF Offers, NewCall, Board!Offer

LEMMA StepsOnBoard == ASSUME TypeOK, [Next]_vars PROVE [Board!Next]_calls
<1>0. CallsTyped
  BY TypeParts
<1>1. CASE UNCHANGED calls
  BY <1>1
<1>2. \A l \in Lines \ Active : calls[l] = Board!Quiet
  BY <1>0 DEF CallsTyped, CallType, Active, Board!Quiet
<1>3. Board!Busy = Active
  BY DEF Board!Busy, Active
<1>4. ASSUME NEW l \in Lines, Ends(l) PROVE Board!Next
  <2>1. calls' = [k \in Lines |-> IF k \in {l} THEN Board!Quiet ELSE calls[k]]
    BY <1>0, <1>4 DEF Ends, Without, NoCall, Board!Quiet, CallsTyped
  <2>2. {l} \in SUBSET Board!Busy /\ Board!EndTogether({l})
    BY <1>3, <1>4 DEF Ends, Board!EndTogether
  <2> QED  BY <2>1, <2>2 DEF Board!End, Board!Next
<1>5. CASE EndsAll
  <2>1. calls' = [k \in Lines |-> IF k \in Board!Busy THEN Board!Quiet ELSE calls[k]]
    BY <1>2, <1>3, <1>5 DEF EndsAll, NoCall, Board!Quiet
  <2>2. Board!EndTogether(Board!Busy)
    BY DEF Board!EndTogether
  <2> QED  BY <2>1, <2>2 DEF Board!End, Board!Next
<1>6. ASSUME NEW l \in Lines, NEW phase \in {"OperatorSession", "Connected"}, MovesTo(l, phase)
      PROVE  Board!Next
  <2>1. calls' = [calls EXCEPT ![l] = [phase |-> phase, callee |-> calls[l].callee]]
    <3>1. calls[l] \in CallType /\ calls' = [calls EXCEPT ![l].phase = phase]
      BY <1>0, <1>6 DEF MovesTo, CallsTyped
    <3>2. [calls[l] EXCEPT !.phase = phase] = [phase |-> phase, callee |-> calls[l].callee]
      BY <3>1 DEF CallType
    <3> QED  BY <3>1, <3>2
  <2>2. phase \in Board!MovesOn[calls[l].phase]
    BY <1>6 DEF MovesTo, Board!MovesOn
  <2>3. Board!Serve(l)
    BY <2>1, <2>2 DEF Board!Serve
  <2> QED  BY <1>3, <1>6, <2>3 DEF MovesTo, Board!Next
<1>7. ASSUME NEW b \in {DogLine, CatLine}, Retargets(b) PROVE Board!Next
  <2>1. b \in Lines /\ Arnab \in Lines
    BY LinesAssumption DEF NonStoryLines, StoryCallerLines
  <2>2. calls' = [calls EXCEPT ![Arnab] = [phase |-> calls[Arnab].phase, callee |-> b]]
    <3>1. calls[Arnab] \in CallType /\ calls' = [calls EXCEPT ![Arnab].callee = b]
      BY <1>0, <1>7, <2>1 DEF Retargets, CallsTyped
    <3>2. [calls[Arnab] EXCEPT !.callee = b] = [phase |-> calls[Arnab].phase, callee |-> b]
      BY <3>1 DEF CallType
    <3> QED  BY <3>1, <3>2
  <2>3. Board!Serve(Arnab)
    BY <2>1, <2>2 DEF Board!Serve
  <2> QED  BY <1>3, <1>7, <2>3 DEF Retargets, Board!Next
<1>8. ASSUME NEW story \in Stories \cup {"None"}, NEW l \in Lines, NEW callee \in Lines,
             Offers(story, l, callee)
      PROVE  Board!Next
  BY <1>8, OffersOnBoard DEF Board!Next
<1>9. CASE UNCHANGED vars
  BY <1>9 DEF vars
<1> QED  BY <1>1, <1>4, <1>5, <1>6, <1>7, <1>8, <1>9, StepsOnTheBoard

(* The calls the selector and the threads put on the board, move and take  *)
(* off are calls of a LineBoard: on free lines, served in order, one at a  *)
(* time or all at once.                                                    *)
THEOREM StoryBoardImplementsBoard == Spec => ImplementsBoard
<1>1. Init => Board!Init
  BY DEF Init, NoCall, Board!Init, Board!Quiet
<1>2. TypeOK /\ [Next]_vars => [Board!Next]_calls
  BY StepsOnBoard
<1> QED  BY <1>1, <1>2, TypeInit, TypeNext, PTL DEF Spec, ImplementsBoard, Board!Spec
=============================================================================
