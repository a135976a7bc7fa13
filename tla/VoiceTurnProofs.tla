-------------------------- MODULE VoiceTurnProofs --------------------------
(* Theorems of VoiceTurn, for every set of callers, threads and scenes.    *)
EXTENDS VoiceTurn, TLAPS

-----------------------------------------------------------------------------
(* The parts of the type invariant *)

SceneTyped == scene \in SceneType

SessionTyped ==
  /\ turn \in Nat /\ held \in BOOLEAN /\ controls \in Buttons
  /\ cancelled \in Nat \cup {NoTurn}
  /\ line \in Callers \cup {NoOne} /\ callee \in BOOLEAN /\ session \in {0, 1}
  /\ owed \in BOOLEAN

VoiceTyped == active \in BOOLEAN /\ speaker \in BOOLEAN

StoryTyped == story \in [shapla : Beats, interrogation : BOOLEAN]

LoopType ==
  [pc : {"Idle", "Context", "Service", "Kind", "Spawn"}, turn : Nat,
   caller : Callers \cup {NoOne}, service : BOOLEAN, kind : Kinds, empty : BOOLEAN]

Marks == {"Live", "Cancelled", "Revived"}

WorkerType ==
  [pc : WorkerPcs, turn : Nat, caller : Callers \cup {NoOne},
   service : BOOLEAN, kind : Kinds, sent : {0, 1}, late : 0..2, mark : Marks]

TextType == [pc : {"Read", "Controls", "Judge", "Ask", "Answer", "Apply"}, kind : Buttons]

ProcType ==
  [holder : Actors \cup {NoOne}, serves : Actors \cup {NoOne}, made : Nat, out : Seq(Frames)]

ProcTyped == proc \in [Processes -> ProcType]
CommandTyped == command \in [Actors -> {"None", "Running", "Good", "Bad"}]
MutexTyped == mutex \in Actors \cup {NoOne}

LEMMA TypeParts ==
  TypeOK <=> /\ SceneTyped /\ SessionTyped /\ VoiceTyped /\ StoryTyped
             /\ loop \in LoopType /\ worker \in [Threads -> WorkerType] /\ text \in TextType
             /\ MutexTyped /\ ProcTyped /\ CommandTyped
BY DEF TypeOK, SceneTyped, SessionTyped, VoiceTyped, StoryTyped, LoopType, WorkerType, Marks,
       TextType, MutexTyped, ProcTyped, ProcType, CommandTyped

-----------------------------------------------------------------------------
(* The operators the steps are built from *)

(* A process nobody uses is a process. *)
LEMMA FreeProcessTyped == FreeProcess \in ProcType
<1>1. <<>> \in Seq(Frames)
  OBVIOUS
<1> QED  BY <1>1 DEF FreeProcess, ProcType

(* Whatever is done to a process leaves two processes. *)
LEMMA ProcKept ==
  ASSUME ProcTyped, NEW p \in Processes
  PROVE  /\ \A a \in Actors : Acquire(p, a) => ProcTyped'
         /\ \A a \in Actors : AcquireFails(p, a) => ProcTyped'
         /\ \A rest : Discard(p, rest) => ProcTyped'
         /\ proc[p].out # <<>> /\ Consume(p) => ProcTyped'
         /\ proc[p].out # <<>> /\ Release(p) => ProcTyped'
         /\ ProcessWrites(p) => ProcTyped'
<1>1. proc[p] \in ProcType /\ proc[p].out \in Seq(Frames)
  BY DEF ProcTyped, ProcType
<1>2. ASSUME NEW q \in ProcType, proc' = [proc EXCEPT ![p] = q] PROVE ProcTyped'
  BY <1>2 DEF ProcTyped
<1>3. ASSUME NEW a \in Actors, Acquire(p, a) PROVE ProcTyped'
  BY <1>1, <1>3 DEF Acquire, ProcTyped, ProcType
<1>4. ASSUME NEW a \in Actors, AcquireFails(p, a) PROVE ProcTyped'
  BY <1>2, <1>4, FreeProcessTyped DEF AcquireFails
<1>5. ASSUME NEW rest, Discard(p, rest) PROVE ProcTyped'
  BY <1>2, <1>5, FreeProcessTyped DEF Discard
<1>6. proc[p].out # <<>> => Tail(proc[p].out) \in Seq(Frames)
  BY <1>1
<1>7. ASSUME proc[p].out # <<>>, Consume(p) PROVE ProcTyped'
  BY <1>1, <1>6, <1>7 DEF Consume, ProcTyped, ProcType
<1>8. ASSUME proc[p].out # <<>>, Release(p) PROVE ProcTyped'
  BY <1>1, <1>6, <1>8 DEF Release, ProcTyped, ProcType
<1>9. ASSUME ProcessWrites(p) PROVE ProcTyped'
  <2>1. proc[p].serves \in Actors
    BY <1>1, <1>9 DEF ProcessWrites, ProcType
  <2>2. <<proc[p].serves>> \in Seq(Frames) /\ <<"End">> \in Seq(Frames) /\ <<"Bad">> \in Seq(Frames)
    BY <2>1 DEF Frames
  <2>3. proc[p].made + 1 \in Nat
    BY <1>1 DEF ProcType
  <2>4. CASE proc' = [proc EXCEPT ![p].out = <<proc[p].serves>>, ![p].made = @ + 1,
                       ![p].serves = IF p = "dialogue" THEN NoOne ELSE @]
    BY <1>1, <2>1, <2>2, <2>3, <2>4 DEF ProcTyped, ProcType
  <2>5. ASSUME NEW last \in {"End", "Bad"},
               proc' = [proc EXCEPT ![p].out = <<last>>, ![p].serves = NoOne]
        PROVE  ProcTyped'
    BY <1>1, <2>2, <2>5 DEF ProcTyped, ProcType
  <2> QED  BY <1>9, <2>4, <2>5 DEF ProcessWrites
<1> QED  BY <1>3, <1>4, <1>5, <1>7, <1>8, <1>9

(* A command that starts, ends or is reaped is a command. *)
LEMMA CommandKept ==
  ASSUME CommandTyped, NEW a \in Actors,
         StartCommand(a) \/ CommandExits(a) \/ CommandFails(a) \/ CommandSucceeds(a)
  PROVE  CommandTyped'
BY DEF CommandTyped, StartCommand, CommandExits, CommandFails, CommandSucceeds, Reaped

(* A thread that has ended is a worker, and has sent nothing late. *)
LEMMA IdleWorkerTyped ==
  IdleWorker \in WorkerType /\ IdleWorker.late = 0 /\ IdleWorker.mark = "Live"
BY DEF IdleWorker, WorkerType, WorkerPcs, Kinds, Marks

(* A snapshot or a reset moves the marks of the workers and nothing else. *)
LEMMA WorkersMarked ==
  ASSUME worker \in [Threads -> WorkerType], MarkWorkers
  PROVE  /\ worker' \in [Threads -> WorkerType]
         /\ \A w \in Threads :
              /\ worker'[w].pc = worker[w].pc /\ worker'[w].turn = worker[w].turn
              /\ worker'[w].late = worker[w].late /\ worker'[w].mark = Mark(w)
<1>1. ASSUME NEW w \in Threads PROVE worker[w] \in WorkerType /\ Mark(w) \in Marks
  BY DEF WorkerType, Mark, Marks
<1> HIDE DEF Mark
<1> QED  BY <1>1 DEF MarkWorkers, WorkerType

(* A recording gets a thread that was idle. *)
LEMMA WorkerSpawned ==
  ASSUME SceneTyped, loop \in LoopType, worker \in [Threads -> WorkerType], SpawnWorker
  PROVE  \E w \in Threads, new \in WorkerType :
           /\ worker[w].pc = "Idle" /\ new.pc \in {"Stt", "Complete"} /\ new.late = 0
           /\ new.mark = "Cancelled" => cancelled = new.turn
           /\ worker' = [worker EXCEPT ![w] = new]
<1> DEFINE t == CHOOSE t \in FreeThreads : TRUE
           new == [IdleWorker EXCEPT !.pc = IF loop.empty THEN "Complete" ELSE "Stt",
                                     !.turn = loop.turn, !.caller = loop.caller,
                                     !.service = loop.service, !.kind = loop.kind,
                                     !.mark = IF cancelled = loop.turn THEN "Cancelled"
                                              ELSE "Live"]
<1>1. t \in FreeThreads
  BY DEF SpawnWorker
<1>2. t \in Threads /\ worker[t].pc = "Idle"
  BY <1>1 DEF FreeThreads, SceneTyped, SceneType
<1>3. /\ new \in WorkerType /\ new.pc \in {"Stt", "Complete"} /\ new.late = 0
      /\ new.mark = "Cancelled" => cancelled = new.turn
  BY IdleWorkerTyped DEF LoopType, WorkerType, WorkerPcs, Marks
<1>4. worker' = [worker EXCEPT ![t] = new]
  BY DEF SpawnWorker
<1> HIDE DEF t, new
<1> QED  BY <1>2, <1>3, <1>4

(* A worker that moves on is a worker. *)
LEMMA WorkerKept ==
  ASSUME worker \in [Threads -> WorkerType], NEW w \in Threads
  PROVE  /\ \A pc \in WorkerPcs : Goto(w, pc) => worker' \in [Threads -> WorkerType]
         /\ \A pc \in WorkerPcs : Ends(w, pc) => worker' \in [Threads -> WorkerType]
         /\ \A pc \in WorkerPcs : Heard(w, pc) => worker' \in [Threads -> WorkerType]
         /\ Said(w) => worker' \in [Threads -> WorkerType]
         /\ Free(w) => worker' \in [Threads -> WorkerType]
<1>1. "Idle" \in WorkerPcs /\ "Check" \in WorkerPcs /\ "None" \in Kinds
  BY DEF WorkerPcs, Kinds
<1>2. ASSUME NEW pc \in WorkerPcs, Ends(w, pc) PROVE worker' \in [Threads -> WorkerType]
  <2>1. [IdleWorker EXCEPT !.pc = pc] \in WorkerType
    BY IdleWorkerTyped DEF WorkerType
  <2> QED  BY <1>2, <2>1 DEF Ends
<1>3. ASSUME NEW pc \in WorkerPcs, Goto(w, pc) PROVE worker' \in [Threads -> WorkerType]
  BY <1>3 DEF Goto, WorkerType
<1>4. ASSUME NEW pc \in WorkerPcs, Heard(w, pc) PROVE worker' \in [Threads -> WorkerType]
  BY <1>1, <1>4 DEF Heard, WorkerType
<1>5. ASSUME Said(w) PROVE worker' \in [Threads -> WorkerType]
  BY <1>1, <1>5 DEF Said, WorkerType
<1> QED  BY <1>1, <1>2, <1>3, <1>4, <1>5 DEF Free

-----------------------------------------------------------------------------
(* What a step may do to the persistent processes and to the commands *)

ProcessStep ==
  \/ UNCHANGED proc
  \/ \E p \in Processes, a \in Actors :
       \/ Acquire(p, a)
       \/ AcquireFails(p, a)
       \/ Discard(p, <<>>)
       \/ p = "tts" /\ AnswerIsGood(p, a) /\ Consume(p)
       \/ p = "tts" /\ AnswerIsLast(p, a) /\ Release(p)
       \/ p = "dialogue" /\ AnswerIsGood(p, a) /\ Release(p)
  \/ \E p \in Processes : ProcessWrites(p)

(* The processes are used by the requests, the answers and the chunks of the *)
(* turns, and by nothing else. *)
LEMMA ProcessSteps == ASSUME Next PROVE ProcessStep
<1>1. CASE \E w \in Threads : Work(w)
  <2>1. PICK w \in Threads : Work(w)
    BY <1>1
  <2>2. w \in Actors /\ "tts" \in Processes /\ "dialogue" \in Processes
    BY DEF Actors, Processes
  <2>3. CASE AskDialogue(w) \/ AskSpeech(w)
    BY <2>2, <2>3 DEF AskDialogue, AskSpeech, Request, ProcessStep
  <2>4. CASE TakeAnswer(w)
    BY <2>2, <2>4 DEF TakeAnswer, ProcessStep
  <2>5. CASE TakeChunk(w)
    BY <2>2, <2>5 DEF TakeChunk, ProcessStep
  <2>6. CASE CheckChunk(w) \/ SendChunk(w)
    BY <2>2, <2>6 DEF CheckChunk, SendChunk, Discard, ProcessStep
  <2>7. CASE \/ StartStt(w) \/ Transcribe(w) \/ Transcript(w) \/ Judge(w)
             \/ CheckResult(w) \/ ApplyResult(w) \/ CheckLast(w) \/ EndTurn(w)
    BY <2>7 DEF StartStt, Transcribe, Transcript, Judge, CheckResult, ApplyResult,
                CheckLast, EndTurn, ProcessStep
  <2> QED  BY <2>1, <2>3, <2>4, <2>5, <2>6, <2>7 DEF Work
<1>2. CASE TextTurn
  <2>1. Text \in Actors /\ "dialogue" \in Processes
    BY DEF Actors, Processes
  <2>2. CASE AskText \/ TakeTextAnswer
    BY <2>1, <2>2 DEF AskText, TakeTextAnswer, ProcessStep
  <2>3. CASE SetTextControls \/ JudgeText \/ ApplyText
    BY <2>3 DEF SetTextControls, JudgeText, ApplyText, ProcessStep
  <2> QED  BY <1>2, <2>2, <2>3 DEF TextTurn
<1>3. CASE \E p \in Processes : ProcessWrites(p)
  BY <1>3 DEF ProcessStep
<1>4. ASSUME NEW in, Snapshot(in) PROVE ProcessStep
  BY <1>4 DEF Snapshot, ProcessStep
<1>5. CASE ResetRun
  BY <1>5 DEF ResetRun, ProcessStep
<1>6. ASSUME NEW terminal, FrontendStatus(terminal) PROVE ProcessStep
  BY <1>6 DEF FrontendStatus, ProcessStep
<1>7. ASSUME NEW empty, RecordingComplete(empty) PROVE ProcessStep
  BY <1>7 DEF RecordingComplete, ProcessStep
<1>8. CASE VoiceLoop
  BY <1>8 DEF VoiceLoop, TakeContext, ReadService, ReadKind, SpawnWorker, ProcessStep
<1>9. ASSUME NEW kind, ReadText(kind) PROVE ProcessStep
  BY <1>9 DEF ReadText, ProcessStep
<1>10. ASSUME NEW a, CommandExits(a) PROVE ProcessStep
  BY <1>10 DEF CommandExits, ProcessStep
<1> QED
  BY <1>1, <1>2, <1>3, <1>4, <1>5, <1>6, <1>7, <1>8, <1>9, <1>10 DEF Next

-----------------------------------------------------------------------------
(* Answers *)

(* What is left in a pipe has one reader, and an operation that succeeds has *)
(* read the last of it. *)
PipeIsClean(p) ==
  /\ proc[p].serves \in {proc[p].holder, NoOne}
  /\ \/ proc[p].out = <<>>
     \/ /\ proc[p].holder # NoOne
        /\ \E x \in {proc[p].holder, "End", "Bad"} :
             /\ proc[p].out = <<x>>
             /\ p = "dialogue" \/ x = "End" => proc[p].serves = NoOne

PipesAreClean == \A p \in Processes : PipeIsClean(p)

LEMMA PipesStayClean ==
  ASSUME ProcTyped, PipesAreClean, ProcessStep
  PROVE  PipesAreClean'
<1> SUFFICES ASSUME NEW q \in Processes PROVE PipeIsClean(q)'
  BY DEF PipesAreClean
<1>1. PipeIsClean(q)
  BY DEF PipesAreClean
<1>2. proc \in [Processes -> ProcType]
  BY DEF ProcTyped
<1>3. CASE UNCHANGED proc
  BY <1>1, <1>3 DEF PipeIsClean
<1>4. ASSUME NEW p \in Processes, NEW a \in Actors, Acquire(p, a) PROVE PipeIsClean(q)'
  BY <1>1, <1>2, <1>4 DEF Acquire, PipeIsClean, ProcType
<1>5. ASSUME NEW p \in Processes, NEW a \in Actors, AcquireFails(p, a) \/ Discard(p, <<>>)
      PROVE  PipeIsClean(q)'
  BY <1>1, <1>2, <1>5 DEF AcquireFails, Discard, FreeProcess, PipeIsClean
<1>6. ASSUME NEW a \in Actors, AnswerIsGood("tts", a), Consume("tts") PROVE PipeIsClean(q)'
  BY <1>1, <1>2, <1>6 DEF AnswerIsGood, Answer, Consume, PipeIsClean, ProcType
<1>7. ASSUME NEW p \in Processes, NEW a \in Actors,
             \/ p = "tts" /\ AnswerIsLast(p, a)
             \/ p = "dialogue" /\ AnswerIsGood(p, a),
             Release(p)
      PROVE  PipeIsClean(q)'
  BY <1>1, <1>2, <1>7 DEF AnswerIsGood, AnswerIsLast, Answer, Release, PipeIsClean, ProcType
<1>8. ASSUME NEW p \in Processes, ProcessWrites(p) PROVE PipeIsClean(q)'
  <2>1. CASE p # q
    BY <1>1, <1>2, <1>8, <2>1 DEF ProcessWrites, PipeIsClean
  <2>2. CASE p = q
    <3>1. /\ proc[q].serves = proc[q].holder /\ proc[q].holder # NoOne
          /\ proc[q].serves \in Actors /\ proc[q].serves # "End"
      BY <1>1, <1>2, <1>8, <2>2, PeopleAssumption
      DEF ProcessWrites, PipeIsClean, ProcType, Actors
    <3>2. CASE \E last \in {"End", "Bad"} :
                 proc' = [proc EXCEPT ![p].out = <<last>>, ![p].serves = NoOne]
      BY <1>2, <2>2, <3>1, <3>2 DEF PipeIsClean, ProcType
    <3>3. CASE /\ p = "dialogue" \/ proc[p].made < MaxChunks
               /\ proc' = [proc EXCEPT ![p].out = <<proc[p].serves>>, ![p].made = @ + 1,
                                       ![p].serves = IF p = "dialogue" THEN NoOne ELSE @]
      BY <1>2, <2>2, <3>1, <3>3 DEF PipeIsClean, ProcType
    <3> QED  BY <1>8, <3>2, <3>3 DEF ProcessWrites
  <2> QED  BY <2>1, <2>2
<1> QED  BY <1>3, <1>4, <1>5, <1>6, <1>7, <1>8 DEF ProcessStep

-----------------------------------------------------------------------------
(* Commands and their threads *)

(* A command belongs to a thread that is at the step waiting for it. *)
LEMMA CommandsAreAwaited ==
  ASSUME SceneTyped, loop \in LoopType, worker \in [Threads -> WorkerType], text \in TextType,
         CommandTyped, NoOrphanProcesses, Next
  PROVE  NoOrphanProcesses'
<1> USE PeopleAssumption
<1> SUFFICES ASSUME NEW b \in Actors, command'[b] # "None" PROVE AwaitsCommand(b)'
  BY DEF NoOrphanProcesses
<1>1. command[b] # "None" => AwaitsCommand(b)
  BY DEF NoOrphanProcesses
<1>2. b # Text => b \in Threads
  BY DEF Actors
<1>3. ASSUME UNCHANGED <<command, text>>, \A t \in Threads : worker'[t].pc = worker[t].pc
      PROVE  AwaitsCommand(b)'
  BY <1>1, <1>2, <1>3 DEF AwaitsCommand
<1>4. ASSUME NEW in, Snapshot(in) PROVE AwaitsCommand(b)'
  BY <1>3, <1>4, WorkersMarked DEF Snapshot
<1>5. CASE ResetRun
  BY <1>3, <1>5, WorkersMarked DEF ResetRun
<1>6. ASSUME NEW terminal, FrontendStatus(terminal) PROVE AwaitsCommand(b)'
  BY <1>3, <1>6 DEF FrontendStatus
<1>7. ASSUME NEW empty, RecordingComplete(empty) PROVE AwaitsCommand(b)'
  BY <1>3, <1>7 DEF RecordingComplete
<1>8. CASE VoiceLoop
  <2>1. CASE TakeContext \/ ReadService \/ ReadKind
    BY <1>3, <2>1 DEF TakeContext, ReadService, ReadKind
  <2>2. CASE SpawnWorker
    <3>1. PICK w \in Threads, new \in WorkerType :
            worker[w].pc = "Idle" /\ worker' = [worker EXCEPT ![w] = new]
      BY <2>2, WorkerSpawned
    <3> QED  BY <1>1, <1>2, <2>2, <3>1 DEF SpawnWorker, AwaitsCommand
  <2> QED  BY <1>8, <2>1, <2>2 DEF VoiceLoop
<1>9. ASSUME NEW kind, ReadText(kind) PROVE AwaitsCommand(b)'
  BY <1>1, <1>2, <1>9 DEF ReadText, AwaitsCommand, TextAt
<1>10. CASE TextTurn
  <2>1. UNCHANGED worker
    BY <1>10 DEF TextTurn, SetTextControls, JudgeText, AskText, TakeTextAnswer, ApplyText
  <2>2. CASE b # Text
    <3>1. command'[b] = command[b]
      BY <1>10, <2>2 DEF TextTurn, SetTextControls, JudgeText, AskText, TakeTextAnswer,
         ApplyText, Classify, StartCommand, CommandFails, CommandSucceeds, Reaped, CommandTyped
    <3> QED  BY <1>1, <2>1, <2>2, <3>1 DEF AwaitsCommand
  <2>3. CASE b = Text
    <3>1. CASE SetTextControls
      BY <1>1, <2>3, <3>1 DEF SetTextControls, TextAt, TextGoto, AwaitsCommand, TextType
    <3>2. CASE JudgeText
      BY <2>3, <3>2 DEF JudgeText, CommandFails, CommandSucceeds, Reaped, CommandTyped
    <3>3. CASE AskText \/ TakeTextAnswer \/ ApplyText
      BY <1>1, <2>3, <3>3 DEF AskText, TakeTextAnswer, ApplyText, TextAt, AwaitsCommand
    <3> QED  BY <1>10, <3>1, <3>2, <3>3 DEF TextTurn
  <2> QED  BY <2>2, <2>3
<1>11. ASSUME NEW a, CommandExits(a) PROVE AwaitsCommand(b)'
  BY <1>1, <1>2, <1>11 DEF CommandExits, CommandTyped, AwaitsCommand
<1>12. ASSUME NEW p, ProcessWrites(p) PROVE AwaitsCommand(b)'
  BY <1>3, <1>12 DEF ProcessWrites
<1>13. ASSUME NEW w \in Threads, Work(w) PROVE AwaitsCommand(b)'
  <2>1. UNCHANGED text
    BY <1>13 DEF Work, StartStt, Transcribe, Transcript, Judge, AskDialogue, AskSpeech, Request,
       TakeAnswer, TakeChunk, CheckChunk, SendChunk, CheckResult, ApplyResult, CheckLast, EndTurn
  <2>2. CASE b # w
    <3>1. command'[b] = command[b]
      BY <1>13, <2>2 DEF Work, StartStt, Transcribe, Transcript, Judge, AskDialogue, AskSpeech,
         Request, TakeAnswer, TakeChunk, CheckChunk, SendChunk, CheckResult, ApplyResult,
         CheckLast, EndTurn, Classify, StartCommand, CommandFails, CommandSucceeds, Reaped,
         CommandTyped
    <3>2. b # Text => worker'[b] = worker[b]
      BY <1>2, <1>13, <2>2 DEF Work, StartStt, Transcribe, Transcript, Judge, AskDialogue,
         AskSpeech, Request, TakeAnswer, TakeChunk, CheckChunk, SendChunk, CheckResult,
         ApplyResult, CheckLast, EndTurn, Goto, Ends, Free, Heard, Said
    <3> QED  BY <1>1, <2>1, <3>1, <3>2 DEF AwaitsCommand
  <2>3. CASE b = w
    <3>1. CASE StartStt(w)
      BY <2>3, <3>1 DEF StartStt, Goto, AwaitsCommand
    <3>2. CASE Transcript(w)
      <4>1. CASE Classify(w) /\ Heard(w, "Judge")
        BY <2>3, <4>1 DEF Heard, AwaitsCommand, WorkerType
      <4>2. CASE UNCHANGED <<mutex, command>>
        BY <1>1, <2>3, <3>2, <4>2 DEF Transcript, At, AwaitsCommand
      <4> QED  BY <3>2, <4>1, <4>2 DEF Transcript
    <3>3. CASE Transcribe(w) \/ Judge(w)
      BY <2>3, <3>3 DEF Transcribe, Judge, CommandFails, CommandSucceeds, Reaped, CommandTyped
    <3>4. CASE \/ AskDialogue(w) \/ AskSpeech(w) \/ TakeAnswer(w) \/ TakeChunk(w)
               \/ CheckChunk(w) \/ SendChunk(w) \/ CheckResult(w) \/ ApplyResult(w)
               \/ CheckLast(w) \/ EndTurn(w)
      BY <1>1, <2>3, <3>4 DEF AskDialogue, AskSpeech, Request, TakeAnswer, TakeChunk, CheckChunk,
         SendChunk, CheckResult, ApplyResult, CheckLast, EndTurn, At, AwaitsCommand
    <3> QED  BY <1>13, <3>1, <3>2, <3>3, <3>4 DEF Work
  <2> QED  BY <2>2, <2>3
<1> QED
  BY <1>4, <1>5, <1>6, <1>7, <1>8, <1>9, <1>10, <1>11, <1>12, <1>13 DEF Next

-----------------------------------------------------------------------------
(* Silence *)

(* While the turn stays cancelled, a chunk that went out after the cancellation *)
(* was the last one: the worker looks before it sends another. *)
LateIsLast(w) ==
  /\ worker[w].late <= 1 \/ worker[w].mark = "Revived"
  /\ worker[w].pc = "Idle" \/ worker[w].mark = "Live" => worker[w].late = 0
  /\ worker[w].mark = "Cancelled" => /\ Silenced(w)
                                     /\ worker[w].late = 0 \/ worker[w].pc # "Send"

LateChunksAreLast == \A w \in Threads : LateIsLast(w)

LEMMA LateChunksStayLast ==
  ASSUME SceneTyped, loop \in LoopType, worker \in [Threads -> WorkerType],
         LateChunksAreLast, Next
  PROVE  LateChunksAreLast'
<1> SUFFICES ASSUME NEW v \in Threads PROVE LateIsLast(v)'
  BY DEF LateChunksAreLast
<1>1. LateIsLast(v) /\ worker[v] \in WorkerType
  BY DEF LateChunksAreLast
<1>2. CASE UNCHANGED <<cancelled, worker>>
  BY <1>1, <1>2 DEF LateIsLast, Silenced
<1>3. ASSUME MarkWorkers PROVE LateIsLast(v)'
  <2>1. /\ worker'[v].pc = worker[v].pc /\ worker'[v].turn = worker[v].turn
        /\ worker'[v].late = worker[v].late /\ worker'[v].mark = Mark(v)
    BY <1>3, WorkersMarked
  <2>2. worker[v].late \in Nat /\ worker[v].mark \in Marks
    BY <1>1 DEF WorkerType
  <2> QED  BY <1>1, <2>1, <2>2 DEF Mark, Marks, LateIsLast, Silenced
<1>4. CASE ResetRun \/ \E in : Snapshot(in)
  BY <1>3, <1>4 DEF ResetRun, Snapshot
<1>5. ASSUME NEW terminal, FrontendStatus(terminal) PROVE LateIsLast(v)'
  BY <1>2, <1>5 DEF FrontendStatus
<1>6. ASSUME NEW empty, RecordingComplete(empty) PROVE LateIsLast(v)'
  BY <1>2, <1>6 DEF RecordingComplete, session_vars
<1>7. CASE VoiceLoop
  <2>1. CASE TakeContext \/ ReadService \/ ReadKind
    BY <1>2, <2>1 DEF TakeContext, ReadService, ReadKind, session_vars
  <2>2. CASE SpawnWorker
    <3>1. PICK w \in Threads, new \in WorkerType :
            /\ new.pc # "Idle" /\ new.late = 0 /\ worker' = [worker EXCEPT ![w] = new]
            /\ new.mark = "Cancelled" => cancelled = new.turn
      BY <2>2, WorkerSpawned
    <3>2. UNCHANGED cancelled
      BY <2>2 DEF SpawnWorker, session_vars
    <3> QED  BY <1>1, <3>1, <3>2 DEF LateIsLast, Silenced
  <2> QED  BY <1>7, <2>1, <2>2 DEF VoiceLoop
<1>8. ASSUME NEW kind, ReadText(kind) PROVE LateIsLast(v)'
  BY <1>2, <1>8 DEF ReadText, session_vars
<1>9. CASE TextTurn
  BY <1>2, <1>9 DEF TextTurn, SetTextControls, JudgeText, AskText, TakeTextAnswer, ApplyText,
     session_vars
<1>10. ASSUME NEW a, CommandExits(a) PROVE LateIsLast(v)'
  BY <1>2, <1>10 DEF CommandExits, session_vars
<1>11. ASSUME NEW p, ProcessWrites(p) PROVE LateIsLast(v)'
  BY <1>2, <1>11 DEF ProcessWrites, session_vars
<1>12. ASSUME NEW w \in Threads, Work(w) PROVE LateIsLast(v)'
  <2>1. UNCHANGED cancelled
    BY <1>12 DEF Work, StartStt, Transcribe, Transcript, Judge, AskDialogue, AskSpeech, Request,
       TakeAnswer, TakeChunk, CheckChunk, SendChunk, CheckResult, ApplyResult, CheckLast, EndTurn,
       session_vars
  <2>2. ASSUME NEW pc, pc \notin {"Send", "Idle"}, Goto(w, pc) \/ Heard(w, pc)
        PROVE  LateIsLast(v)'
    BY <1>1, <2>1, <2>2 DEF Goto, Heard, LateIsLast, Silenced, WorkerType
  <2>3. ASSUME NEW pc, Ends(w, pc) PROVE LateIsLast(v)'
    <3>1. CASE v = w
      <4>1. worker'[v].late = 0 /\ worker'[v].mark = "Live"
        BY <2>3, <3>1, IdleWorkerTyped DEF Ends, WorkerType
      <4> QED  BY <4>1 DEF LateIsLast
    <3>2. CASE v # w
      BY <1>1, <2>1, <2>3, <3>2 DEF Ends, LateIsLast, Silenced
    <3> QED  BY <3>1, <3>2
  <2>4. CASE Said(w)
    BY <1>1, <2>1, <2>4 DEF Said, LateIsLast, Silenced, WorkerType
  <2>5. CASE CheckChunk(w)
    <3>1. CASE Silenced(w)
      BY <2>3, <2>5, <3>1 DEF CheckChunk
    <3>2. CASE ~Silenced(w)
      <4>1. CASE v = w
        BY <1>1, <2>1, <2>5, <3>2, <4>1 DEF CheckChunk, Goto, LateIsLast, WorkerType
      <4>2. CASE v # w
        BY <1>1, <2>1, <2>5, <3>2, <4>2 DEF CheckChunk, Goto, LateIsLast, Silenced
      <4> QED  BY <4>1, <4>2
    <3> QED  BY <3>1, <3>2
  <2>6. CASE SendChunk(w)
    <3>1. CASE \E pc : Ends(w, pc)
      BY <2>3, <3>1
    <3>2. CASE worker' = [worker EXCEPT ![w].pc = "Listen", ![w].sent = 1,
                            ![w].late = IF worker[w].mark # "Live" /\ @ < 2 THEN @ + 1 ELSE @]
      <4>1. CASE v # w
        BY <1>1, <2>1, <3>2, <4>1 DEF LateIsLast, Silenced
      <4>2. CASE v = w
        <5>1. worker[v].mark = "Cancelled" => worker[v].late = 0
          BY <1>1, <2>6, <4>2 DEF SendChunk, At, LateIsLast
        <5>2. /\ worker'[v].pc = "Listen" /\ worker'[v].turn = worker[v].turn
              /\ worker'[v].mark = worker[v].mark
              /\ worker'[v].late = IF worker[v].mark # "Live" /\ worker[v].late < 2
                                   THEN worker[v].late + 1 ELSE worker[v].late
          BY <1>1, <3>2, <4>2 DEF WorkerType
        <5>3. worker[v].late \in 0..2 /\ worker[v].mark \in Marks
          BY <1>1 DEF WorkerType
        <5> QED  BY <1>1, <2>1, <5>1, <5>2, <5>3 DEF LateIsLast, Silenced, Marks
      <4> QED  BY <4>1, <4>2
    <3> QED  BY <2>6, <3>1, <3>2 DEF SendChunk
  <2>7. CASE StartStt(w) \/ Transcribe(w)
    BY <2>2, <2>3, <2>7 DEF StartStt, Transcribe
  <2>8. CASE Transcript(w)
    BY <2>2, <2>8 DEF Transcript
  <2>9. CASE Judge(w)
    BY <2>2, <2>9 DEF Judge
  <2>10. CASE AskDialogue(w) \/ AskSpeech(w)
    BY <2>2, <2>3, <2>10 DEF AskDialogue, AskSpeech, Request
  <2>11. CASE TakeAnswer(w)
    BY <2>2, <2>3, <2>11 DEF TakeAnswer
  <2>12. CASE TakeChunk(w)
    BY <2>2, <2>3, <2>4, <2>12 DEF TakeChunk
  <2>13. CASE CheckResult(w)
    BY <2>2, <2>3, <2>13 DEF CheckResult, Free
  <2>14. CASE ApplyResult(w) \/ CheckLast(w) \/ EndTurn(w)
    BY <2>2, <2>3, <2>14 DEF ApplyResult, CheckLast, EndTurn, Free
  <2> QED
    BY <1>12, <2>5, <2>6, <2>7, <2>8, <2>9, <2>10, <2>11, <2>12, <2>13, <2>14 DEF Work
<1> QED
  BY <1>4, <1>5, <1>6, <1>7, <1>8, <1>9, <1>10, <1>11, <1>12 DEF Next

-----------------------------------------------------------------------------
(* Types *)

(* The types of what a step changes, one family of variables at a time. *)
LEMMA StepsKeepProcesses == ASSUME ProcTyped, PipesAreClean, ProcessStep PROVE ProcTyped'
<1>1. CASE UNCHANGED proc
  BY <1>1 DEF ProcTyped
<1>2. ASSUME NEW p \in Processes, NEW a \in Actors,
             Acquire(p, a) \/ AcquireFails(p, a) \/ Discard(p, <<>>)
      PROVE  ProcTyped'
  BY <1>2, ProcKept
<1>3. ASSUME NEW p \in Processes, NEW a \in Actors,
             AnswerIsGood(p, a) /\ Consume(p)
      PROVE  ProcTyped'
  BY <1>3, ProcKept DEF AnswerIsGood, Answer
<1>4. ASSUME NEW p \in Processes, NEW a \in Actors,
             AnswerIsGood(p, a) \/ AnswerIsLast(p, a), Release(p)
      PROVE  ProcTyped'
  BY <1>4, ProcKept DEF AnswerIsGood, AnswerIsLast, Answer
<1>5. ASSUME NEW p \in Processes, ProcessWrites(p) PROVE ProcTyped'
  BY <1>5, ProcKept
<1> QED  BY <1>1, <1>2, <1>3, <1>4, <1>5 DEF ProcessStep

(* The worker threads keep to their program. *)
LEMMA StepsKeepWorkers ==
  ASSUME SceneTyped, loop \in LoopType, worker \in [Threads -> WorkerType], Next
  PROVE  worker' \in [Threads -> WorkerType]
<1>1. CASE ResetRun \/ \E in : Snapshot(in)
  BY <1>1, WorkersMarked DEF ResetRun, Snapshot
<1>3. ASSUME NEW w \in Threads, Work(w) PROVE worker' \in [Threads -> WorkerType]
  <2>1. {"Transcribe", "Transcript", "Fail", "Judge", "Check", "Ask", "Answer", "Listen", "Speak",
         "Chunk", "Send", "Complete", "Apply", "Last"} \subseteq WorkerPcs
    BY DEF WorkerPcs
  <2>2. CASE StartStt(w) \/ Transcribe(w) \/ Judge(w)
    BY <2>1, <2>2, WorkerKept DEF StartStt, Transcribe, Judge
  <2>3. CASE Transcript(w)
    BY <2>1, <2>3, WorkerKept DEF Transcript
  <2>4. CASE AskDialogue(w) \/ AskSpeech(w)
    BY <2>1, <2>4, WorkerKept DEF AskDialogue, AskSpeech, Request
  <2>5. CASE TakeAnswer(w) \/ TakeChunk(w) \/ CheckChunk(w)
    BY <2>1, <2>5, WorkerKept DEF TakeAnswer, TakeChunk, CheckChunk
  <2>6. CASE SendChunk(w)
    <3>1. CASE Ends(w, "Fail")
      BY <2>1, <3>1, WorkerKept
    <3>2. CASE worker' = [worker EXCEPT ![w].pc = "Listen", ![w].sent = 1,
                            ![w].late = IF worker[w].mark # "Live" /\ @ < 2 THEN @ + 1 ELSE @]
      <4>1. /\ (IF worker[w].mark # "Live" /\ worker[w].late < 2 THEN worker[w].late + 1 ELSE worker[w].late)
                 \in 0..2
            /\ worker[w] \in WorkerType
        BY DEF WorkerType
      <4>2. ASSUME NEW n \in 0..2,
                   worker' = [worker EXCEPT ![w].pc = "Listen", ![w].sent = 1, ![w].late = n]
            PROVE  worker' \in [Threads -> WorkerType]
        <5>1. [worker[w] EXCEPT !.pc = "Listen", !.sent = 1, !.late = n] \in WorkerType
          BY <2>1, <4>1 DEF WorkerType
        <5>2. worker' = [worker EXCEPT
                           ![w] = [worker[w] EXCEPT !.pc = "Listen", !.sent = 1, !.late = n]]
          BY <4>2
        <5> QED  BY <5>1, <5>2
      <4> QED  BY <3>2, <4>1, <4>2
    <3> QED  BY <2>6, <3>1, <3>2 DEF SendChunk
  <2>7. CASE CheckResult(w) \/ ApplyResult(w) \/ CheckLast(w) \/ EndTurn(w)
    BY <2>1, <2>7, WorkerKept DEF CheckResult, ApplyResult, CheckLast, EndTurn
  <2> QED  BY <1>3, <2>2, <2>3, <2>4, <2>5, <2>6, <2>7 DEF Work
<1>4. CASE SpawnWorker
  BY <1>4, WorkerSpawned
<1>5. CASE UNCHANGED worker
  BY <1>5
<1>6. CASE TakeContext \/ ReadService \/ ReadKind \/ TextTurn
  BY <1>5, <1>6 DEF TakeContext, ReadService, ReadKind, TextTurn, SetTextControls, JudgeText,
     AskText, TakeTextAnswer, ApplyText
<1>7. CASE \/ \E terminal \in BOOLEAN : FrontendStatus(terminal)
           \/ \E empty \in BOOLEAN : RecordingComplete(empty)
           \/ \E kind \in scene.texts : ReadText(kind)
           \/ \E a \in Actors : CommandExits(a)
           \/ \E p \in Processes : ProcessWrites(p)
  BY <1>5, <1>7 DEF FrontendStatus, RecordingComplete, ReadText, CommandExits, ProcessWrites
<1> QED  BY <1>1, <1>3, <1>4, <1>6, <1>7 DEF Next, VoiceLoop

(* A text turn has one of its buttons and one of its steps. *)
LEMMA StepsKeepText ==
  ASSUME SceneTyped, text \in TextType, Next
  PROVE  text' \in TextType
<1>1. ASSUME NEW pc \in {"Read", "Controls", "Judge", "Ask", "Answer", "Apply"}, TextGoto(pc)
      PROVE  text' \in TextType
  BY <1>1 DEF TextGoto, TextType
<1>2. IdleText \in TextType
  BY DEF IdleText, TextType, Buttons
<1>3. AfterReport \in {"Ask", "Apply"}
  BY DEF AfterReport
<1>4. CASE TextTurn
  BY <1>1, <1>2, <1>3, <1>4
  DEF TextTurn, SetTextControls, JudgeText, AskText, TakeTextAnswer, ApplyText
<1>5. ASSUME NEW kind \in scene.texts, ReadText(kind) PROVE text' \in TextType
  BY <1>5 DEF ReadText, TextType, SceneTyped, SceneType
<1>6. CASE UNCHANGED text
  BY <1>6
<1>7. CASE \/ \E in \in scene.inputs : Snapshot(in)
           \/ ResetRun
           \/ \E terminal \in BOOLEAN : FrontendStatus(terminal)
           \/ \E empty \in BOOLEAN : RecordingComplete(empty)
           \/ VoiceLoop
           \/ \E a \in Actors : CommandExits(a)
           \/ \E p \in Processes : ProcessWrites(p)
  BY <1>6, <1>7 DEF Snapshot, ResetRun, FrontendStatus, RecordingComplete, VoiceLoop, TakeContext,
     ReadService, ReadKind, SpawnWorker, CommandExits, ProcessWrites
<1>8. CASE \E w \in Threads : Work(w)
  BY <1>6, <1>8 DEF Work, StartStt, Transcribe, Transcript, Judge, AskDialogue, AskSpeech, Request,
     TakeAnswer, TakeChunk, CheckChunk, SendChunk, CheckResult, ApplyResult, CheckLast, EndTurn
<1> QED  BY <1>4, <1>5, <1>7, <1>8 DEF Next

(* One-shot commands and the mutex held over one of them. *)
LEMMA StepsKeepCommands ==
  ASSUME CommandTyped, MutexTyped, Next
  PROVE  CommandTyped' /\ MutexTyped'
<1>1. Text \in Actors /\ Threads \subseteq Actors
  BY DEF Actors
<1>2. CASE UNCHANGED <<command, mutex>>
  BY <1>2 DEF CommandTyped, MutexTyped
<1>3. ASSUME NEW a \in Actors, UNCHANGED mutex,
             StartCommand(a) \/ CommandExits(a) \/ CommandFails(a) \/ CommandSucceeds(a)
      PROVE  CommandTyped' /\ MutexTyped'
  BY <1>3, CommandKept DEF MutexTyped
<1>4. ASSUME NEW a \in Actors,
             \/ Classify(a)
             \/ mutex' = NoOne /\ (CommandFails(a) \/ CommandSucceeds(a))
      PROVE  CommandTyped' /\ MutexTyped'
  BY <1>4, CommandKept DEF MutexTyped, Classify
<1>5. ASSUME NEW a \in Actors, CommandExits(a) PROVE CommandTyped' /\ MutexTyped'
  BY <1>3, <1>5 DEF CommandExits
<1>6. ASSUME NEW w \in Threads, Work(w) PROVE CommandTyped' /\ MutexTyped'
  <2>1. CASE StartStt(w) \/ Transcribe(w)
    BY <1>1, <1>3, <2>1 DEF StartStt, Transcribe
  <2>2. CASE Transcript(w)
    BY <1>1, <1>2, <1>4, <2>2 DEF Transcript
  <2>3. CASE Judge(w)
    BY <1>1, <1>4, <2>3 DEF Judge
  <2>4. CASE \/ AskDialogue(w) \/ AskSpeech(w) \/ TakeAnswer(w) \/ TakeChunk(w)
             \/ CheckChunk(w) \/ SendChunk(w) \/ CheckResult(w) \/ ApplyResult(w)
             \/ CheckLast(w) \/ EndTurn(w)
    BY <1>2, <2>4 DEF AskDialogue, AskSpeech, Request, TakeAnswer, TakeChunk, CheckChunk,
       SendChunk, CheckResult, ApplyResult, CheckLast, EndTurn
  <2> QED  BY <1>6, <2>1, <2>2, <2>3, <2>4 DEF Work
<1>7. CASE TextTurn
  <2>1. CASE SetTextControls
    BY <1>1, <1>2, <1>4, <2>1 DEF SetTextControls
  <2>2. CASE JudgeText
    BY <1>1, <1>4, <2>2 DEF JudgeText
  <2>3. CASE AskText \/ TakeTextAnswer \/ ApplyText
    BY <1>2, <2>3 DEF AskText, TakeTextAnswer, ApplyText
  <2> QED  BY <1>7, <2>1, <2>2, <2>3 DEF TextTurn
<1>8. CASE \/ \E in \in scene.inputs : Snapshot(in)
           \/ ResetRun
           \/ \E terminal \in BOOLEAN : FrontendStatus(terminal)
           \/ \E empty \in BOOLEAN : RecordingComplete(empty)
           \/ VoiceLoop
           \/ \E kind \in scene.texts : ReadText(kind)
           \/ \E p \in Processes : ProcessWrites(p)
  BY <1>2, <1>8 DEF Snapshot, ResetRun, FrontendStatus, RecordingComplete, VoiceLoop, TakeContext,
     ReadService, ReadKind, SpawnWorker, ReadText, ProcessWrites
<1> QED  BY <1>5, <1>6, <1>7, <1>8 DEF Next

(* The session, the voice status and the story, as the handlers and threads *)
(* leave them. *)
LEMMA StepsKeepSession ==
  ASSUME TypeOK, Next
  PROVE  SceneTyped' /\ SessionTyped' /\ VoiceTyped' /\ StoryTyped' /\ loop' \in LoopType
<1> DEFINE Typed == SceneTyped /\ SessionTyped /\ VoiceTyped /\ StoryTyped /\ loop \in LoopType
<1> SUFFICES Typed'
  OBVIOUS
<1>1. /\ SceneTyped /\ SessionTyped /\ VoiceTyped /\ StoryTyped /\ loop \in LoopType
      /\ worker \in [Threads -> WorkerType] /\ text \in TextType
  BY TypeParts
<1>2. "None" \in Buttons /\ "None" \in Kinds /\ NoTurn \in Nat \cup {NoTurn}
  BY DEF Buttons, Kinds
<1>3. IdleLoop \in LoopType
  BY <1>2 DEF IdleLoop, LoopType
<1>4. \A caller : Reported(caller) \in [shapla : Beats, interrogation : BOOLEAN]
  BY <1>1 DEF Reported, StoryTyped, Beats
<1>5. ASSUME NEW in \in scene.inputs, Snapshot(in) PROVE Typed'
  <2>1. in \in InputType
    BY <1>1 DEF SceneTyped, SceneType
  <2>2. SceneTyped'
    BY <1>1, <1>5 DEF Snapshot, SceneTyped, SceneType
  <2>3. SessionTyped'
    <3>1. turn' \in Nat
      BY <1>1, <1>5 DEF Snapshot, UpdateVoiceControl, SessionTyped
    <3>2. held' \in BOOLEAN /\ controls' \in Buttons
      BY <1>1, <1>5, <2>1 DEF Snapshot, UpdateVoiceControl, SessionTyped, Talking, InputType
    <3>3. line' \in Callers \cup {NoOne} /\ callee' \in BOOLEAN
      BY <1>1, <1>5, <2>1 DEF Snapshot, UpdateVoiceControl, LineAfter, SessionTyped, InputType
    <3>4. owed' \in BOOLEAN
      BY <1>5 DEF Snapshot, UpdateVoiceControl
    <3>5. cancelled' \in Nat \cup {NoTurn} /\ session' \in {0, 1}
      BY <1>1, <1>5, <3>1 DEF Snapshot, SessionTyped
    <3> QED  BY <3>1, <3>2, <3>3, <3>4, <3>5 DEF SessionTyped
  <2>4. VoiceTyped' /\ loop' \in LoopType
    BY <1>1, <1>5 DEF Snapshot, VoiceTyped
  <2>5. StoryTyped'
    BY <1>1, <1>5 DEF Snapshot, StoryTyped, Beats
  <2> QED  BY <2>2, <2>3, <2>4, <2>5
<1>6. CASE ResetRun
  <2>1. SceneTyped'
    BY <1>1, <1>6 DEF ResetRun, SceneTyped, SceneType
  <2>2. SessionTyped' /\ VoiceTyped'
    BY <1>2, <1>6 DEF ResetRun, SessionTyped, VoiceTyped
  <2>3. StoryTyped' /\ loop' \in LoopType
    BY <1>1, <1>6 DEF ResetRun, FreshStory, StoryTyped, Beats
  <2> QED  BY <2>1, <2>2, <2>3
<1>7. ASSUME NEW terminal \in BOOLEAN, FrontendStatus(terminal) PROVE Typed'
  BY <1>1, <1>7 DEF FrontendStatus, SceneTyped, SessionTyped, VoiceTyped, StoryTyped
<1>8. ASSUME NEW empty \in BOOLEAN, RecordingComplete(empty) PROVE Typed'
  <2>1. turn \in Nat
    BY <1>1 DEF SessionTyped
  <2>2. loop' \in LoopType
    BY <1>3, <1>8, <2>1 DEF RecordingComplete, LoopType
  <2> QED
    BY <1>1, <1>8, <2>2
    DEF RecordingComplete, voice_vars, SceneTyped, SessionTyped, VoiceTyped, StoryTyped
<1>9. CASE VoiceLoop
  <2>1. CASE TakeContext
    <3>1. line \in Callers \cup {NoOne}
      BY <1>1 DEF SessionTyped
    <3>2. loop' \in LoopType
      BY <1>1, <1>3, <2>1, <3>1 DEF TakeContext, LoopType
    <3> QED
      BY <1>1, <2>1, <3>2 DEF TakeContext, session_vars, voice_vars, SceneTyped, SessionTyped,
         VoiceTyped, StoryTyped
  <2>2. CASE ReadService \/ ReadKind
    <3>1. loop' \in LoopType
      <4>1. /\ (controls \in Services) \in BOOLEAN
            /\ (IF controls \in Services THEN controls ELSE "None") \in Kinds
        BY DEF Kinds
      <4>2. CASE ReadService
        BY <1>1, <4>1, <4>2 DEF ReadService, LoopType
      <4>3. CASE ReadKind
        BY <1>1, <4>1, <4>3 DEF ReadKind, LoopType
      <4> QED  BY <2>2, <4>2, <4>3
    <3> QED
      BY <1>1, <2>2, <3>1 DEF ReadService, ReadKind, session_vars, voice_vars, SceneTyped,
         SessionTyped, VoiceTyped, StoryTyped
  <2>3. CASE SpawnWorker
    BY <1>1, <1>3, <2>3 DEF SpawnWorker, session_vars, SceneTyped, SessionTyped, VoiceTyped,
       StoryTyped
  <2> QED  BY <1>9, <2>1, <2>2, <2>3 DEF VoiceLoop
<1>10. CASE UNCHANGED <<session_vars, voice_vars, story, loop>>
  BY <1>1, <1>10 DEF session_vars, voice_vars, SceneTyped, SessionTyped, VoiceTyped, StoryTyped
<1>11. CASE \/ \E kind \in scene.texts : ReadText(kind)
            \/ \E a \in Actors : CommandExits(a)
            \/ \E p \in Processes : ProcessWrites(p)
  BY <1>10, <1>11 DEF ReadText, CommandExits, ProcessWrites
<1>12. ASSUME UNCHANGED <<session_vars, voice_vars, loop>>,
              UNCHANGED story \/ \E caller : story' = Reported(caller)
       PROVE  Typed'
  BY <1>1, <1>4, <1>12 DEF session_vars, voice_vars, SceneTyped, SessionTyped, VoiceTyped, StoryTyped
<1>13. ASSUME UNCHANGED <<session_vars, scene, story, loop>>, active' \in BOOLEAN,
              speaker' \in BOOLEAN
       PROVE  Typed'
  BY <1>1, <1>13 DEF session_vars, SceneTyped, SessionTyped, VoiceTyped, StoryTyped
<1>14. ASSUME NEW w \in Threads, Work(w) PROVE Typed'
  <2>1. CASE Transcript(w)
    <3>1. worker[w].service \in BOOLEAN /\ speaker \in BOOLEAN
      BY <1>1 DEF WorkerType, VoiceTyped
    <3> QED  BY <1>13, <2>1, <3>1 DEF Transcript
  <2>2. CASE Judge(w)
    BY <1>12, <2>2 DEF Judge
  <2>3. CASE ApplyResult(w) \/ EndTurn(w)
    BY <1>13, <2>3 DEF ApplyResult, EndTurn
  <2>4. CASE \/ StartStt(w) \/ Transcribe(w) \/ AskDialogue(w) \/ AskSpeech(w) \/ TakeAnswer(w)
             \/ TakeChunk(w) \/ CheckChunk(w) \/ SendChunk(w) \/ CheckResult(w) \/ CheckLast(w)
    BY <1>10, <2>4 DEF StartStt, Transcribe, AskDialogue, AskSpeech, Request, TakeAnswer,
       TakeChunk, CheckChunk, SendChunk, CheckResult, CheckLast
  <2> QED  BY <1>14, <2>1, <2>2, <2>3, <2>4 DEF Work
<1>15. CASE TextTurn
  <2>1. CASE SetTextControls
    BY <1>1, <2>1 DEF SetTextControls, TextType, voice_vars, SceneTyped, SessionTyped, VoiceTyped,
       StoryTyped
  <2>2. CASE JudgeText
    BY <1>12, <2>2 DEF JudgeText
  <2>3. CASE ApplyText
    BY <1>1, <1>13, <2>3 DEF ApplyText, VoiceTyped
  <2>4. CASE AskText \/ TakeTextAnswer
    BY <1>10, <2>4 DEF AskText, TakeTextAnswer
  <2> QED  BY <1>15, <2>1, <2>2, <2>3, <2>4 DEF TextTurn
<1> QED  BY <1>5, <1>6, <1>7, <1>8, <1>9, <1>11, <1>14, <1>15 DEF Next

-----------------------------------------------------------------------------
(* The theorems *)

(* What every state satisfies *)
Inv == TypeOK /\ PipesAreClean /\ NoOrphanProcesses /\ LateChunksAreLast

LEMMA InvInitially == Init => Inv
<1> SUFFICES ASSUME Init PROVE Inv
  OBVIOUS
<1>1. TypeOK
  <2>1. SceneTyped
    BY BoundsAssumption DEF Init, SceneTyped
  <2>2. SessionTyped /\ VoiceTyped
    BY DEF Init, SessionTyped, VoiceTyped, Buttons
  <2>3. StoryTyped
    BY DEF Init, FreshStory, StoryTyped, Beats
  <2>4. loop \in LoopType
    BY DEF Init, IdleLoop, LoopType, Kinds
  <2>5. worker \in [Threads -> WorkerType]
    BY IdleWorkerTyped DEF Init
  <2>6. text \in TextType
    BY DEF Init, IdleText, TextType, Buttons
  <2>7. MutexTyped /\ CommandTyped
    BY DEF Init, MutexTyped, CommandTyped
  <2>8. ProcTyped
    BY FreeProcessTyped DEF Init, ProcTyped
  <2> QED  BY <2>1, <2>2, <2>3, <2>4, <2>5, <2>6, <2>7, <2>8, TypeParts
<1>2. PipesAreClean
  BY DEF Init, PipesAreClean, PipeIsClean, FreeProcess
<1>3. NoOrphanProcesses
  BY DEF Init, NoOrphanProcesses
<1>4. LateChunksAreLast
  BY IdleWorkerTyped DEF Init, LateChunksAreLast, LateIsLast
<1> QED  BY <1>1, <1>2, <1>3, <1>4 DEF Inv

LEMMA InvPreserved == Inv /\ [Next]_vars => Inv'
<1> SUFFICES ASSUME Inv, [Next]_vars PROVE Inv'
  OBVIOUS
<1>1. /\ TypeOK /\ PipesAreClean /\ NoOrphanProcesses /\ LateChunksAreLast
      /\ SceneTyped /\ loop \in LoopType /\ worker \in [Threads -> WorkerType]
      /\ text \in TextType /\ MutexTyped /\ ProcTyped /\ CommandTyped
  BY TypeParts DEF Inv
<1>2. CASE Next
  <2>1. ProcessStep
    BY <1>2, ProcessSteps
  <2>2. /\ SceneTyped' /\ SessionTyped' /\ VoiceTyped' /\ StoryTyped' /\ (loop \in LoopType)'
        /\ (worker \in [Threads -> WorkerType])' /\ (text \in TextType)'
        /\ MutexTyped' /\ ProcTyped' /\ CommandTyped'
    BY <1>1, <1>2, <2>1, StepsKeepSession, StepsKeepWorkers, StepsKeepText, StepsKeepCommands,
       StepsKeepProcesses DEF LoopType, WorkerType, TextType
  <2>3. TypeOK'
    BY <2>2 DEF TypeOK, SceneTyped, SessionTyped, VoiceTyped, StoryTyped, LoopType, WorkerType,
       Marks, TextType, MutexTyped, ProcTyped, ProcType, CommandTyped
  <2>4. PipesAreClean' /\ NoOrphanProcesses' /\ LateChunksAreLast'
    BY <1>1, <1>2, <2>1, PipesStayClean, CommandsAreAwaited, LateChunksStayLast
  <2> QED  BY <2>3, <2>4 DEF Inv
<1>3. CASE UNCHANGED vars
  <2>1. TypeOK'
    BY <1>1, <1>3 DEF vars, TypeOK
  <2>2. PipesAreClean' /\ NoOrphanProcesses' /\ LateChunksAreLast'
    BY <1>1, <1>3 DEF vars, PipesAreClean, PipeIsClean, NoOrphanProcesses, AwaitsCommand,
       LateChunksAreLast, LateIsLast, Silenced
  <2> QED  BY <2>1, <2>2 DEF Inv
<1> QED  BY <1>2, <1>3

LEMMA InvAlways == Spec => []Inv
BY InvInitially, InvPreserved, PTL DEF Spec

(* Every variable keeps its type, for every set of callers, threads and *)
(* scenes (the state of BackendState's voice fields and the threads). *)
THEOREM TypeCorrect == Spec => []TypeOK
<1>1. Inv => TypeOK
  BY DEF Inv
<1> QED  BY <1>1, InvAlways, PTL

(* Nobody is answered with another turn's words: the pipe of a persistent *)
(* process is empty whenever its lock is free, with any number of threads *)
(* and failures (with_persistent_dialogue, with_persistent_pocket_tts). *)
THEOREM AnswersStayOwn == Spec => []AnswersAreOwn
<1>1. Inv => AnswersAreOwn
  BY DEF Inv, PipesAreClean, PipeIsClean, AnswersAreOwn
<1> QED  BY <1>1, InvAlways, PTL

(* A thread waits for every child process there is (run_command). *)
THEOREM ProcessesAreReaped == Spec => []NoOrphanProcesses
<1>1. Inv => NoOrphanProcesses
  BY DEF Inv
<1> QED  BY <1>1, InvAlways, PTL

(* A cancelled turn sends the chunk it was sending and no other, with any *)
(* number of threads and chunks (voice_turn_cancelled), unless a press or a *)
(* reset takes the cancellation back before the worker has looked at it. *)
THEOREM CancellationSilences == Spec => []CancelledTurnFallsSilent
<1>1. Inv => CancelledTurnFallsSilent
  BY DEF Inv, LateChunksAreLast, LateIsLast, CancelledTurnFallsSilent
<1> QED  BY <1>1, InvAlways, PTL
=============================================================================
