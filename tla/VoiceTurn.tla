----------------------------- MODULE VoiceTurn -----------------------------
(***************************************************************************)
(* Voice and text turns: what a recording goes through from the voice loop *)
(* (serve_voice) to the last packet of the answer, while snapshots start,  *)
(* release and cancel turns, text clients take turns of their own, and     *)
(* everybody shares the backend's mutex, the persistent dialogue and       *)
(* speech processes and one-shot commands for transcripts and reports.     *)
(*                                                                         *)
(* How a press becomes a recording (controls, peers, packets) is VoiceLink. *)
(* An answer's text is reduced to whose it is; a voice_status to whether   *)
(* it is set and not terminal.  Calls come in as part of a snapshot.  What *)
(* answers and reports do to the story threads is StoryBoard's: here they  *)
(* matter as far as a turn asks for them.                                  *)
(***************************************************************************)
EXTENDS Integers, Sequences, FiniteSets

CONSTANTS
  Callers, NoOne,          \* lines that may be spoken to
  Shapla, Nahid, Rahman,   \* the callers whose story a turn can move
  Threads,                 \* worker threads alive at one time
  Text,                    \* the thread that has TEXT_TURN_LOCK
  Scenes,                  \* what may happen in a behaviour: subset of SceneType
  MaxChunks                \* chunks of speech in one answer

ASSUME PeopleAssumption ==
  /\ {Shapla, Nahid, Rahman} \subseteq Callers
  /\ Cardinality({Shapla, Nahid, Rahman}) = 3
  /\ NoOne \notin Callers \cup Threads \cup {Text}
  /\ Text \notin Threads
  /\ IsFiniteSet(Threads)
  /\ {"End", "Bad"} \cap (Threads \cup {Text, NoOne}) = {}

Buttons == {"None", "Ptt", "Police", "Ems"}
Services == {"Police", "Ems"}

\* talk: the talk button held (Police before Ems before Ptt, as the code asks);
\* caller: the line at the operator jack, else the caller in focus; called: it
\* has a call; connected: voice_subscriber_line then has a connected call
InputType == [talk : Buttons, caller : Callers \cup {NoOne}, operator : BOOLEAN,
              called : BOOLEAN, connected : BOOLEAN, tap : BOOLEAN]

\* the bounds of a behaviour: its snapshots, worker threads, the buttons of its
\* text turns, and how often a turn is started and the run is reset
SceneType == [inputs : SUBSET InputType, threads : SUBSET Threads,
              texts : SUBSET Buttons, presses : Nat, resets : Nat]

ASSUME BoundsAssumption ==
  /\ MaxChunks \in Nat \ {0}
  /\ Scenes \subseteq SceneType
  /\ \A s \in Scenes : \A in \in s.inputs : in.operator => in.caller # NoOne

VARIABLES
  scene,      \* what may happen from here on
  turn,       \* voice_turn_id; next_voice_turn_id is the number after it
  held,       \* last_ptt
  controls,   \* voice_turn_controls
  cancelled,  \* cancelled_voice_turn
  line,       \* voice_subscriber_line
  callee,     \* is voice_callee_line known?
  session,    \* voice_session_id
  active,     \* is voice_status set and not terminal?
  speaker,    \* voice_speaker_active
  owed,       \* has the frontend a recording of the current turn to deliver?
  story,      \* the beats that turns ask for
  loop,       \* the voice loop, between a complete recording and its worker
  worker,     \* the worker threads
  text,       \* the thread that has TEXT_TURN_LOCK
  mutex,      \* who holds the backend's mutex while a report is classified
  proc,       \* the two persistent processes and their locks
  command     \* one-shot commands: one per thread

session_vars == <<turn, held, controls, cancelled, line, callee, session, owed>>
voice_vars == <<active, speaker, scene>>
vars == <<scene, turn, held, controls, cancelled, line, callee, session, active,
          speaker, owed, story, loop, worker, text, mutex, proc, command>>

Actors == Threads \cup {Text}
NoTurn == -1                       \* cancelled_voice_turn = None
Processes == {"dialogue", "tts"}
Beats == {"EmergencyCall", "Followup", "Abandoned"}

IdleLoop == [pc |-> "Idle", turn |-> 0, caller |-> NoOne, service |-> FALSE,
             kind |-> "None", empty |-> FALSE]
IdleWorker == [pc |-> "Idle", turn |-> 0, caller |-> NoOne, service |-> FALSE,
               kind |-> "None", sent |-> 0, late |-> 0, mark |-> "Live"]
IdleText == [pc |-> "Read", kind |-> "None"]
FreeProcess == [holder |-> NoOne, serves |-> NoOne, made |-> 0, out |-> <<>>]

\* Shapla's beat, with what led out of the emergency; is Rahman interrogated?
FreshStory == [shapla |-> "EmergencyCall", interrogation |-> TRUE]

Init ==
  /\ scene \in Scenes
  /\ turn = 0 /\ held = FALSE /\ controls = "None" /\ cancelled = NoTurn
  /\ line = NoOne /\ callee = FALSE /\ session = 0
  /\ active = FALSE /\ speaker = FALSE /\ owed = FALSE
  /\ story = FreshStory
  /\ loop = IdleLoop
  /\ worker = [w \in Threads |-> IdleWorker]
  /\ text = IdleText
  /\ mutex = NoOne
  /\ proc = [p \in Processes |-> FreeProcess]
  /\ command = [a \in Actors |-> "None"]

MutexIsFree == mutex = NoOne

-----------------------------------------------------------------------------
(* Snapshots: update_voice_control, then                                   *)
(* cancel_voice_if_operator_disconnected, in one handler.                  *)

Talking(in) == in.talk # "None"
LineAfter(in) == IF in.caller # NoOne THEN in.caller ELSE line

\* a press while a tap is heard starts no turn
Presses(in) == Talking(in) /\ ~held /\ ~in.tap
Releases(in) == ~Talking(in) /\ held

UpdateVoiceControl(in) ==
  /\ line' = LineAfter(in)
  /\ callee' = IF in.caller # NoOne THEN in.called \/ in.caller = Shapla ELSE callee
  /\ held' = Talking(in)
  /\ turn' = IF Presses(in) THEN turn + 1 ELSE turn
  /\ controls' = IF Presses(in) THEN in.talk ELSE controls
  /\ owed' = ((owed \/ (Releases(in) /\ turn # 0)) /\ ~Presses(in))

\* voice_subscriber_line is neither at the operator jack nor in a connected call
OperatorLeft(in) ==
  /\ LineAfter(in) # NoOne
  /\ ~(in.operator /\ in.caller = LineAfter(in))
  /\ ~in.connected

Cancels(in) == OperatorLeft(in) /\ (speaker \/ active)

\* the one state of the code in which a disconnected operator pays
Abandons(in) == Cancels(in) /\ LineAfter(in) = Shapla /\ story.shapla = "EmergencyCall"

\* History, for the chunks that go out late: was the worker's turn ever
\* cancelled, and was that undone by a press or a reset before it looked?
Mark(w) ==
  IF worker[w].pc = "Idle" THEN "Live"
  ELSE IF cancelled' = worker[w].turn
  THEN IF worker[w].mark = "Live" THEN "Cancelled" ELSE worker[w].mark
  ELSE IF worker[w].mark = "Cancelled" THEN "Revived" ELSE worker[w].mark

MarkWorkers == worker' = [w \in Threads |-> [worker[w] EXCEPT !.mark = Mark(w)]]

\* after a press `cancelled' is None, and a cancel in the same handler sets it again
Snapshot(in) ==
  /\ MutexIsFree
  /\ Presses(in) => scene.presses > 0
  /\ scene' = IF Presses(in) THEN [scene EXCEPT !.presses = @ - 1] ELSE scene
  /\ UpdateVoiceControl(in)
  /\ cancelled' = IF Cancels(in) THEN turn' ELSE IF Presses(in) THEN NoTurn ELSE cancelled
  /\ active' = (active /\ ~Cancels(in))
  /\ speaker' = (speaker /\ ~Cancels(in))
  /\ story' = IF Abandons(in)
              THEN [story EXCEPT !.shapla = "Abandoned"] ELSE story
  /\ MarkWorkers
  /\ UNCHANGED <<session, loop, text, mutex, proc, command>>

\* reset_run; workers, text clients and processes are not told
ResetRun ==
  /\ MutexIsFree /\ scene.resets > 0
  /\ scene' = [scene EXCEPT !.resets = @ - 1]
  /\ turn' = 0 /\ held' = FALSE /\ controls' = "None" /\ cancelled' = NoTurn
  /\ line' = NoOne /\ callee' = FALSE /\ session' = 0
  /\ active' = FALSE /\ speaker' = FALSE /\ owed' = FALSE
  /\ story' = FreshStory
  /\ MarkWorkers
  /\ UNCHANGED <<loop, text, mutex, proc, command>>

-----------------------------------------------------------------------------
(* The voice loop.  It reads nothing else until the worker is spawned.     *)

\* set_voice_peer: a status of the frontend, whatever the backend is doing
FrontendStatus(terminal) ==
  /\ MutexIsFree /\ loop.pc = "Idle"
  /\ session' = 1
  /\ active' = ~terminal
  /\ UNCHANGED <<scene, turn, held, controls, cancelled, line, callee, speaker, owed, story,
                 loop, worker, text, mutex, proc, command>>

\* The last chunk of a recording that was current when it was looked at.  It
\* is one of the current turn, and the frontend sends one for each release.
RecordingComplete(empty) ==
  /\ MutexIsFree /\ loop.pc = "Idle"
  /\ session = 1 /\ owed
  /\ owed' = FALSE
  /\ loop' = [IdleLoop EXCEPT !.pc = "Context", !.turn = turn, !.empty = empty]
  /\ UNCHANGED <<turn, held, controls, cancelled, line, callee, session, voice_vars,
                 story, worker, text, mutex, proc, command>>

\* without a subscriber and a destination the recording is dropped
TakeContext ==
  /\ MutexIsFree /\ loop.pc = "Context"
  /\ loop' = IF line # NoOne /\ callee
             THEN [loop EXCEPT !.pc = "Service", !.caller = line] ELSE IdleLoop
  /\ UNCHANGED <<session_vars, voice_vars, story, worker, text, mutex, proc, command>>

FreeThreads == {w \in scene.threads : worker[w].pc = "Idle"}

ReadService ==
  /\ MutexIsFree /\ loop.pc = "Service"
  /\ loop' = [loop EXCEPT !.pc = "Kind", !.service = controls \in Services]
  /\ UNCHANGED <<session_vars, voice_vars, story, worker, text, mutex, proc, command>>

\* Mutant: the kind of an ordinary turn is its button
ReadKind_Button ==
  /\ MutexIsFree /\ loop.pc = "Kind"
  /\ loop' = [loop EXCEPT !.pc = "Spawn", !.kind = controls]
  /\ UNCHANGED <<session_vars, voice_vars, story, worker, text, mutex, proc, command>>

ReadKind ==
  /\ MutexIsFree /\ loop.pc = "Kind"
  /\ loop' = [loop EXCEPT !.pc = "Spawn",
                          !.kind = IF controls \in Services THEN controls ELSE "None"]
  /\ UNCHANGED <<session_vars, voice_vars, story, worker, text, mutex, proc, command>>

\* publishes `transcribing' and starts the worker; an empty recording is no work
SpawnWorker ==
  /\ MutexIsFree /\ loop.pc = "Spawn"
  /\ FreeThreads # {}
  /\ LET w == CHOOSE t \in FreeThreads : TRUE IN
       worker' = [worker EXCEPT ![w] =
         [IdleWorker EXCEPT !.pc = IF loop.empty THEN "Complete" ELSE "Stt",
                            !.turn = loop.turn, !.caller = loop.caller,
                            !.service = loop.service, !.kind = loop.kind,
                            !.mark = IF cancelled = loop.turn THEN "Cancelled" ELSE "Live"]]
  /\ active' = TRUE
  /\ loop' = IdleLoop
  /\ UNCHANGED <<session_vars, scene, speaker, story, text, mutex, proc, command>>

-----------------------------------------------------------------------------
(* One-shot commands: run_command.  The deadline may pass at any time.     *)

StartCommand(a) == command[a] = "None" /\ command' = [command EXCEPT ![a] = "Running"]

CommandExits(a) ==
  /\ command[a] = "Running"
  /\ \E result \in {"Good", "Bad"} : command' = [command EXCEPT ![a] = result]
  /\ UNCHANGED <<session_vars, voice_vars, story, loop, worker, text, mutex, proc>>

Reaped(a) == command' = [command EXCEPT ![a] = "None"]

\* Mutant: a worker that is too slow is left behind
CommandFails_LeavesIt(a) ==
  command[a] \in {"Running", "Bad"} /\ UNCHANGED command

\* Mutant: no deadline
CommandFails_NoDeadline(a) == command[a] = "Bad" /\ Reaped(a)

\* worker_timeout: the process group is killed and reaped; or the exit is bad
CommandFails(a) == command[a] \in {"Running", "Bad"} /\ Reaped(a)

CommandSucceeds(a) == command[a] = "Good" /\ Reaped(a)

-----------------------------------------------------------------------------
(* The persistent processes: with_persistent_dialogue,                     *)
(* with_persistent_pocket_tts.  A process that was dropped is started      *)
(* again by the next user; nothing of it is left in the new one's pipe.    *)

Acquire(p, a) ==
  /\ proc[p].holder = NoOne
  /\ proc' = [proc EXCEPT ![p].holder = a, ![p].serves = a, ![p].made = 0]

\* the process could not be started or did not take the request
AcquireFails(p, a) ==
  /\ proc[p].holder = NoOne
  /\ proc' = [proc EXCEPT ![p] = FreeProcess]

\* Mutant: a failed operation keeps its process
Discard_Keeps(p, rest) == proc' = [proc EXCEPT ![p].holder = NoOne, ![p].out = rest]

\* Mutant: an operation that fails never gives its lock back
Discard_Holds(p, rest) == proc' = [proc EXCEPT ![p].serves = NoOne, ![p].out = <<>>]

\* an operation that failed drops the process and with it what it has written
Discard(p, rest) == proc' = [proc EXCEPT ![p] = FreeProcess]

Consume(p) == proc' = [proc EXCEPT ![p].out = Tail(proc[p].out)]
Release(p) == proc' = [proc EXCEPT ![p].holder = NoOne, ![p].out = Tail(proc[p].out)]

\* The process writes a line (dialogue) or the next chunk or the closing empty
\* frame (tts); "Bad" is whatever the reader cannot use, the end of the pipe
\* included.  One frame at most waits in the pipe.
ProcessWrites(p) ==
  /\ proc[p].serves # NoOne /\ proc[p].out = <<>>
  /\ \/ /\ p = "dialogue" \/ proc[p].made < MaxChunks
        /\ proc' = [proc EXCEPT ![p].out = <<proc[p].serves>>, ![p].made = @ + 1,
                                ![p].serves = IF p = "dialogue" THEN NoOne ELSE @]
     \/ \E last \in {"End", "Bad"} :
          /\ p = "dialogue" => last = "Bad"
          /\ proc' = [proc EXCEPT ![p].out = <<last>>, ![p].serves = NoOne]
  /\ UNCHANGED <<session_vars, voice_vars, story, loop, worker, text, mutex, command>>

Answer(p, a) == proc[p].holder = a /\ proc[p].out # <<>>
AnswerIsGood(p, a) == Answer(p, a) /\ Head(proc[p].out) \notin {"End", "Bad"}
AnswerIsLast(p, a) == Answer(p, a) /\ Head(proc[p].out) = "End"
AnswerIsBad(p, a) == Answer(p, a) /\ Head(proc[p].out) = "Bad"

-----------------------------------------------------------------------------
(* Reports: classify_story, classify_nahid_report, classify_dirty_work.    *)

\* What the classifier's word does to the thread of the line reported on.
\* Shapla's next beat depends on voice_turn_controls as they are by now:
\* without a service button the report is lost.
Reported(caller) ==
  IF caller = Shapla /\ story.shapla = "EmergencyCall" /\ controls \in Services
  THEN [story EXCEPT !.shapla = "Followup"]
  ELSE IF caller = Rahman THEN [story EXCEPT !.interrogation = FALSE]
  ELSE story

\* The mutex is held from here until the classifier has answered or failed
Classify(a) == MutexIsFree /\ mutex' = a /\ StartCommand(a)

-----------------------------------------------------------------------------
(* A worker: generate_operator_response and what follows it.               *)

At(w, pc) == worker[w].pc = pc
Goto(w, pc) == worker' = [worker EXCEPT ![w].pc = pc]
Ends(w, pc) == worker' = [worker EXCEPT ![w] = [IdleWorker EXCEPT !.pc = pc]]
Free(w) == Ends(w, "Idle")
Silenced(w) == cancelled = worker[w].turn

StartStt(w) ==
  /\ At(w, "Stt") /\ StartCommand(w) /\ Goto(w, "Transcribe")
  /\ UNCHANGED <<session_vars, voice_vars, story, loop, text, mutex, proc>>

Transcribe(w) ==
  /\ At(w, "Transcribe")
  /\ \/ CommandSucceeds(w) /\ Goto(w, "Transcript")
     \/ CommandFails(w) /\ Ends(w, "Fail")
  /\ UNCHANGED <<session_vars, voice_vars, story, loop, text, mutex, proc>>

\* is the report of a service turn judged, and on which line?
IsReport(caller, kind) ==
  \/ caller = Nahid /\ kind = "Police"
  \/ caller = Shapla /\ kind \in Services

Heard(w, pc) == worker' = [worker EXCEPT ![w].pc = pc, ![w].kind = "None"]

\* transcript_sink: a service turn is complete for the panel before its report
\* is judged
Transcript(w) ==
  /\ At(w, "Transcript") /\ MutexIsFree
  /\ active' = ~worker[w].service
  /\ IF worker[w].service /\ IsReport(worker[w].caller, worker[w].kind)
     THEN Classify(w) /\ Heard(w, "Judge")
     ELSE /\ Heard(w, IF worker[w].service THEN "Check" ELSE "Ask")
          /\ UNCHANGED <<mutex, command>>
  /\ UNCHANGED <<session_vars, scene, speaker, story, loop, text, proc>>

Judge(w) ==
  /\ At(w, "Judge")
  /\ \/ CommandFails(w) /\ UNCHANGED story
     \/ CommandSucceeds(w) /\ story' = Reported(worker[w].caller)
  /\ mutex' = NoOne /\ Goto(w, "Check")
  /\ UNCHANGED <<session_vars, voice_vars, loop, text, proc>>

\* the dialogue, then the speech: one lock at a time
Request(w, from, p, to) ==
  /\ At(w, from)
  /\ \/ Acquire(p, w) /\ Goto(w, to)
     \/ AcquireFails(p, w) /\ Ends(w, "Fail")
  /\ UNCHANGED <<session_vars, voice_vars, story, loop, text, mutex, command>>

AskDialogue(w) == Request(w, "Ask", "dialogue", "Answer")
AskSpeech(w) == Request(w, "Speak", "tts", "Listen")

\* an answer without its prompt fails the turn, but leaves the process alone
TakeAnswer(w) ==
  /\ At(w, "Answer")
  /\ \/ AnswerIsGood("dialogue", w) /\ Release("dialogue")
                                  /\ (Goto(w, "Speak") \/ Ends(w, "Fail"))
     \/ AnswerIsBad("dialogue", w) /\ Discard("dialogue", <<>>) /\ Ends(w, "Fail")
  /\ UNCHANGED <<session_vars, voice_vars, story, loop, text, mutex, command>>

Said(w) == worker' = [worker EXCEPT ![w].pc = "Check", ![w].sent = 0]

\* an answer without a single chunk is an error
TakeChunk(w) ==
  /\ At(w, "Listen")
  /\ \/ AnswerIsGood("tts", w) /\ Consume("tts") /\ Goto(w, "Chunk")
     \/ AnswerIsLast("tts", w) /\ worker[w].sent # 0 /\ Release("tts") /\ Said(w)
     \/ AnswerIsLast("tts", w) /\ worker[w].sent = 0 /\ Discard("tts", <<>>) /\ Ends(w, "Fail")
     \/ AnswerIsBad("tts", w) /\ Discard("tts", <<>>) /\ Ends(w, "Fail")
  /\ UNCHANGED <<session_vars, voice_vars, story, loop, text, mutex, command>>

\* Mutant: only the first chunk looks for a cancellation
CheckChunk_First(w) ==
  /\ At(w, "Chunk") /\ MutexIsFree
  /\ IF Silenced(w) /\ worker[w].sent = 0
     THEN Discard("tts", proc["tts"].out) /\ Ends(w, "Fail")
     ELSE Goto(w, "Send") /\ UNCHANGED proc
  /\ UNCHANGED <<session_vars, voice_vars, story, loop, text, mutex, command>>

\* voice_turn_cancelled, before the packets of every chunk
CheckChunk(w) ==
  /\ At(w, "Chunk") /\ MutexIsFree
  /\ IF Silenced(w) THEN Discard("tts", proc["tts"].out) /\ Ends(w, "Fail")
                    ELSE Goto(w, "Send") /\ UNCHANGED proc
  /\ UNCHANGED <<session_vars, voice_vars, story, loop, text, mutex, command>>

\* the packets of a chunk, 20 ms apart, to the peer the recording came with
SendChunk(w) ==
  /\ At(w, "Send")
  /\ \/ /\ worker' = [worker EXCEPT ![w].pc = "Listen", ![w].sent = 1,
                                    ![w].late = IF worker[w].mark # "Live" /\ @ < 2
                                                THEN @ + 1 ELSE @]
        /\ UNCHANGED proc
     \/ Discard("tts", proc["tts"].out) /\ Ends(w, "Fail")
  /\ UNCHANGED <<session_vars, voice_vars, story, loop, text, mutex, command>>

\* a blank transcript ends the turn; a cancelled turn ends in silence
CheckResult(w) ==
  /\ At(w, "Check") /\ MutexIsFree
  /\ \/ Ends(w, "Complete")
     \/ Silenced(w) /\ Free(w)
     \/ ~Silenced(w) /\ Goto(w, "Apply")
  /\ UNCHANGED <<session_vars, voice_vars, story, loop, text, mutex, proc, command>>

ApplyResult(w) ==
  /\ At(w, "Apply") /\ MutexIsFree
  /\ active' = TRUE /\ speaker' = TRUE
  /\ Goto(w, "Last")
  /\ UNCHANGED <<session_vars, scene, story, loop, text, mutex, proc, command>>

\* cancelled in between: the thread ends and leaves `playing' as it is
CheckLast(w) ==
  /\ At(w, "Last") /\ MutexIsFree
  /\ IF Silenced(w) THEN Free(w) ELSE Ends(w, "Complete")
  /\ UNCHANGED <<session_vars, voice_vars, story, loop, text, mutex, proc, command>>

\* completed or failed: the end of whatever turn is current by now
EndTurn(w) ==
  /\ worker[w].pc \in {"Complete", "Fail"} /\ MutexIsFree
  /\ active' = FALSE /\ speaker' = FALSE
  /\ Free(w)
  /\ UNCHANGED <<session_vars, scene, story, loop, text, mutex, proc, command>>

Work(w) ==
  \/ StartStt(w) \/ Transcribe(w) \/ Transcript(w) \/ Judge(w) \/ AskDialogue(w)
  \/ TakeAnswer(w) \/ AskSpeech(w) \/ TakeChunk(w) \/ CheckChunk(w) \/ SendChunk(w)
  \/ CheckResult(w) \/ ApplyResult(w) \/ CheckLast(w) \/ EndTurn(w)

-----------------------------------------------------------------------------
(* Text turns: handle_text_connection.  TEXT_TURN_LOCK is taken before the *)
(* request is read, so there is one such thread at a time; which client it *)
(* serves makes no difference here.  A refused request changes nothing.    *)

TextAt(pc) == text.pc = pc
TextGoto(pc) == text' = [text EXCEPT !.pc = pc]
TextService == text.kind \in Services

ReadText(kind) ==
  /\ TextAt("Read") /\ MutexIsFree
  /\ line # NoOne /\ callee
  /\ text' = [pc |-> "Controls", kind |-> kind]
  /\ UNCHANGED <<session_vars, voice_vars, story, loop, worker, mutex, proc, command>>

\* is the text judged?  The line is the current one, under a lock of its own
TextIsReport ==
  \/ IsReport(line, text.kind)
  \/ line = Rahman /\ story.interrogation /\ ~TextService

AfterReport == IF TextService THEN "Apply" ELSE "Ask"

SetTextControls ==
  /\ TextAt("Controls") /\ MutexIsFree
  /\ controls' = text.kind
  /\ IF TextIsReport THEN Classify(Text) /\ TextGoto("Judge")
                     ELSE TextGoto(AfterReport) /\ UNCHANGED <<mutex, command>>
  /\ UNCHANGED <<turn, held, cancelled, line, callee, session, owed, voice_vars, story,
                 loop, worker, proc>>

JudgeText ==
  /\ TextAt("Judge")
  /\ \/ CommandFails(Text) /\ UNCHANGED story
     \/ CommandSucceeds(Text) /\ story' = Reported(line)
  /\ mutex' = NoOne /\ TextGoto(AfterReport)
  /\ UNCHANGED <<session_vars, voice_vars, loop, worker, proc>>

AskText ==
  /\ TextAt("Ask")
  /\ \/ Acquire("dialogue", Text) /\ TextGoto("Answer")
     \/ AcquireFails("dialogue", Text) /\ text' = IdleText
  /\ UNCHANGED <<session_vars, voice_vars, story, loop, worker, mutex, command>>

TakeTextAnswer ==
  /\ TextAt("Answer")
  /\ \/ AnswerIsGood("dialogue", Text) /\ Release("dialogue")
                                     /\ (TextGoto("Apply") \/ text' = IdleText)
     \/ AnswerIsBad("dialogue", Text) /\ Discard("dialogue", <<>>) /\ text' = IdleText
  /\ UNCHANGED <<session_vars, voice_vars, story, loop, worker, mutex, command>>

ApplyText ==
  /\ TextAt("Apply") /\ MutexIsFree
  /\ active' = FALSE
  /\ text' = IdleText
  /\ UNCHANGED <<session_vars, scene, speaker, story, loop, worker, mutex, proc, command>>

TextTurn ==
  SetTextControls \/ JudgeText \/ AskText \/ TakeTextAnswer \/ ApplyText

-----------------------------------------------------------------------------
VoiceLoop == TakeContext \/ ReadService \/ ReadKind \/ SpawnWorker

Next ==
  \/ \E in \in scene.inputs : Snapshot(in)
  \/ ResetRun
  \/ \E terminal \in BOOLEAN : FrontendStatus(terminal)
  \/ \E empty \in BOOLEAN : RecordingComplete(empty)
  \/ VoiceLoop
  \/ \E w \in Threads : Work(w)
  \/ \E kind \in scene.texts : ReadText(kind)
  \/ TextTurn
  \/ \E a \in Actors : CommandExits(a)
  \/ \E p \in Processes : ProcessWrites(p)

Spec == Init /\ [][Next]_vars

\* Threads run and the mutexes are not refused to one of them for ever; the two
\* persistent processes answer or close their pipe (nothing in the code bounds
\* that wait).  One-shot commands may never exit: run_command has a deadline.
FairSpec ==
  /\ Spec
  /\ SF_vars(VoiceLoop)
  /\ \A w \in Threads : SF_vars(Work(w))
  /\ SF_vars(TextTurn)
  /\ \A p \in Processes : WF_vars(ProcessWrites(p))

-----------------------------------------------------------------------------
WorkerPcs == {"Idle", "Stt", "Transcribe", "Transcript", "Judge", "Ask", "Answer", "Speak",
              "Listen", "Chunk", "Send", "Check", "Apply", "Last", "Complete", "Fail"}
Kinds == Services \cup {"None"}
Frames == Actors \cup {"End", "Bad"}

\* The types of the session, the threads and the processes
TypeOK ==
  /\ scene \in SceneType
  /\ turn \in Nat /\ held \in BOOLEAN /\ controls \in Buttons
  /\ cancelled \in Nat \cup {NoTurn}
  /\ line \in Callers \cup {NoOne} /\ callee \in BOOLEAN /\ session \in {0, 1}
  /\ active \in BOOLEAN /\ speaker \in BOOLEAN /\ owed \in BOOLEAN
  /\ story \in [shapla : Beats, interrogation : BOOLEAN]
  /\ loop \in [pc : {"Idle", "Context", "Service", "Kind", "Spawn"}, turn : Nat,
               caller : Callers \cup {NoOne}, service : BOOLEAN, kind : Kinds,
               empty : BOOLEAN]
  /\ worker \in [Threads -> [pc : WorkerPcs, turn : Nat, caller : Callers \cup {NoOne},
                             service : BOOLEAN, kind : Kinds, sent : {0, 1}, late : 0..2,
                             mark : {"Live", "Cancelled", "Revived"}]]
  /\ text \in [pc : {"Read", "Controls", "Judge", "Ask", "Answer", "Apply"}, kind : Buttons]
  /\ mutex \in Actors \cup {NoOne}
  /\ proc \in [Processes -> [holder : Actors \cup {NoOne}, serves : Actors \cup {NoOne},
                             made : Nat, out : Seq(Frames)]]
  /\ command \in [Actors -> {"None", "Running", "Good", "Bad"}]

\* Nobody hears the answer to another turn: what waits in the pipe of a
\* persistent process was written for the thread that holds it, and there is
\* nothing in it, or on its way, when nobody does.  Turns fail in the middle of
\* a streamed answer (with_persistent_pocket_tts drops the process then).
AnswersAreOwn ==
  \A p \in Processes :
    /\ proc[p].serves \in {proc[p].holder, NoOne}
    /\ \A i \in 1..Len(proc[p].out) :
         proc[p].holder # NoOne /\ proc[p].out[i] \in {proc[p].holder, "End", "Bad"}

\* Pulling the cord silences the caller: of a cancelled turn at most the chunk
\* being sent still goes out (the cancellation is looked up per chunk).  The one
\* way back is in the code, against gameplay.md:143 ("cancels that turn"): a press
\* or a reset that comes before the worker's next look clears
\* cancelled_voice_turn, and the old answer streams on.
CancelledTurnFallsSilent ==
  \A w \in Threads : worker[w].late <= 1 \/ worker[w].mark = "Revived"

\* Every child process has a thread that waits for it and will reap it: a
\* command that passes its deadline is killed, not left behind (run_command).
AwaitsCommand(a) ==
  IF a = Text THEN text.pc = "Judge" ELSE worker[a].pc \in {"Transcribe", "Judge"}
NoOrphanProcesses == \A a \in Actors : command[a] # "None" => AwaitsCommand(a)

\* Every recording taken, voice turn and text turn comes to an end, whatever
\* fails on its way: no lock stays with a thread that has given up.
EveryTurnEnds ==
  /\ \A w \in Threads : worker[w].pc # "Idle" ~> worker[w].pc = "Idle"
  /\ text.pc # "Read" ~> text.pc = "Read"
  /\ loop.pc # "Idle" ~> loop.pc = "Idle"

\* The exchange goes on: the mutex held across a classifier command, which may
\* never exit, is given back (all frontends wait for it meanwhile).
MutexIsReleased == mutex # NoOne ~> mutex = NoOne

\* gameplay.md:217: the $100 are for abandoning an active emergency voice turn,
\* and pulling the cord without one leaves the beat as it is.
VoiceTurnUnderWay ==
  held \/ owed \/ loop.pc # "Idle" \/ \E w \in Threads : worker[w].pc # "Idle"
PenaltyNeedsATurn ==
  [][story.shapla # "Abandoned" /\ story'.shapla = "Abandoned" => VoiceTurnUnderWay]_vars
=============================================================================
