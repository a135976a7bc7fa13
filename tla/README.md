# The telephone exchange in TLA+

This directory is a verification project for North Neeladesh, Ministry of
Communications: TLA+ models of the exchange backend and the frontends that talk
to it, TLC configurations that check them, and TLAPS proofs about them. Every
module is a translation of the sources; `PROJECT.json` maps each definition to
the lines it stands for.

## The system

A Rust backend (`crates/backend`) is the sole authority over a telephone
exchange of twelve lines. Frontends send complete panel snapshots (cords,
buttons, crank, directory digits) over TCP and get the complete state back. All
threads share one `Arc<Mutex<Backend>>`.

| Component | State it keeps | Operations | Properties that make it right | Here |
|---|---|---|---|---|
| Exchange handler (`lib.rs` `apply_input`, `advance`, `hardware.rs`, `calls.rs`) | `calls`, shift, clock, ring generator line, connection gates, focused call | one snapshot: release gates, expire, refill, ring, connect, finish, settle, advance, refill; debug commands; `reset_run` | no two calls share a line (but one a Bela's with Arnab's); only the patched circuit is completed, and only after a ring; nobody served is dropped; every caller is answered or missed; shifts settle; the handler returns | `Exchange`, abstractly `LineBoard` |
| Story threads and selector (`stories/*`, `ensure_story_call`, `next_call`, `finish_call`, `fail_call`) | beats of Shapla, Bela/Neel, Dirty Work, Nahid; deferred and completed lists; money | ends of calls, voice and text answers, refill | each payment once; scams have distinct victims; contacts served once; a call on the board is due; a contact can be drawn; a neutral pair exists when one is wanted (see Findings) | `StoryBoard` |
| Input gate and connections (`apply_input_message`, `handle_connection`, `crates/protocol`) | revision, sequence, last request and response, restart flag | replay, refuse, hold, restart, handle | a snapshot is handled once; a press restarts once; refusals end | `InputProtocol` |
| Digital frontend (Odin, `transport.odin`) | request under way, retry frame, counters | send, receive, drop, reconnect and resend | an unanswered request is answered | `InputProtocol`; voice and rendering not modelled |
| Cabinet Frontend (Python) | one-slot snapshot queue, counters, client | scan, transmit, receive, rebuild | reconnects; counters carried over | `InputProtocol`; topology scan and output queue not modelled; its voice relay is the next row's |
| Voice session (`set_voice_peer`, `update_voice_control`, `serve_voice`, `serve_voice_upload`; the cabinet's `voice_relay.py`) | peer, session, turn id, one pending control, sample buffer; the relay's capture and upload | start, release and cancel of a turn, controls and chunks over UDP, recordings over TCP, restarts | a recording is whole and of one turn; a release nothing came between is heard; the session comes back after a failure | `VoiceLink` |
| Voice turns (`serve_voice` from a complete recording on, the worker threads) | cancelled turn, speaker, status, held buttons, what each worker is doing | transcribe, judge a report, ask, speak in chunks, apply, cancel | an answer is the turn's own; a cancelled turn falls silent unless it is revived; each turn ends; the mutex is given back | `VoiceTurn` |
| Text turns (`handle_text_connection`) | `TEXT_TURN_LOCK` | one text turn | as voice | `VoiceTurn`; effects on the threads in `StoryBoard` |
| Voice worker processes (`voice_workers.rs`: `run_command`, `PersistentCommandDialogueGenerator`, `PersistentPocketTtsCommand`) | two processes with a pipe and a lock each, one-shot commands with a deadline | send, read, discard, spawn, wait, kill | no answer left in a pipe for the next reader; no process left behind | `VoiceTurn` |
| Configuration, outputs, tools, web page | — | parsing, drawing | — | not modelled: pure I/O or pure functions |

How they interact: the frontends' transports bring a snapshot to the input gate;
an admitted snapshot runs the exchange handler under the mutex; the handler ends
calls, which moves story threads, which decides the next calls; voice and text
threads take the same mutex between handlers and change story threads without a
snapshot; the debug surface changes calls and the run without touching the
input gate's stored response. A snapshot also starts, releases and cancels voice
turns: the voice loop sends the control to the relay, the relay uploads what it
captured, the loop hands the complete recording to a worker thread, and the
worker talks to external processes, sends speech back and applies the answer to
the story under the mutex.

Hard behaviours: handlers that run in a fixed order of stages over one snapshot,
where a stage acts on what an earlier stage or an older snapshot left; story
threads that voice workers, text turns, missed calls, hang-ups and finished
calls all want to move; lost connections with a request nobody knows the fate
of; two clocks (patience and shift) racing the operator; voice workers that
outlive their turn, share two processes with text turns and race a
cancellation, a new press or a new run; a link that drops datagrams between two
programs that restart on their own. The `hazards` of
`PROJECT.json` list them with their lines.

## Modules

* `Exchange` — one handler of the backend, stage by stage. `pc` names the stage
  (`idle`, `stories`, `neutral`, `progress`, `connect`, `finish`, `settle`,
  `operate`), `ret` where the refill returns to; actions have the names of the
  Rust functions. A call is a record per caller line; deadlines are timers that
  `Tick` counts down between snapshots and between two stages of a handler (each
  stage of the code reads the clock anew; within a stage time stands still, and
  nothing but the clock moves between two stages). A snapshot is any of the
  CONSTANT `Snapshots`; a port holds one cord. Story lines are data (`StoryOf`,
  `StoryPairs`): which call a thread wants next is `StoryBoard`'s.
* `LineBoard` — the abstract board: a call appears on lines nobody uses, moves
  only the way a call is served, and ends alone unless its callers were never
  served or all calls are over. `Exchange!Board` instantiates it with the phase
  and destination of each call record; `ImplementsBoard` is the refinement.
* `StoryBoard` — which calls come onto the board and what the end of each does
  to its thread. Circuits are reduced to Waiting, OperatorSession (which stands
  for ringing too) and Connected. `ImplementsBoard` refines it to the same
  `LineBoard`. A handler is a sequence of stages as above; answers of
  workers come between handlers, at any time, whatever became of their call.
  The three endings of Rahman's thread are one `"Ended"`. A thread not in
  `OpenThreads` has ended before the run.
* `InputProtocol` — the head of `apply_input`, the connections, both frontends'
  transports, and faults: lost connections (whose unread requests the old
  thread may still read, `orphans`), socket timeouts, a rebuilt cabinet
  frontend, restarted frontends and backend, a run reset by the debug surface. A
  snapshot's contents are reduced to the number of talk buttons held. For the
  digital frontend `pending` is `retry_frame`, `waiting_for_response` is
  `pending # NoMessage`, `retry_pending` is that without a connection.
* `VoiceLink` — from a press to a recording. Datagrams (`net`) are a set and
  arrive in any order or not at all; chunks the upload thread passes on to the
  backend's own socket (`inbox`) keep their order and are dropped when the
  socket's buffer is full. A relay is known by its port; a restarted one has a
  new port. Samples are reduced to which chunk of which turn they are.
  `awaiting` (is a release to be heard?) and `headless` (the recordings whose
  first chunk was lost or refused) record facts about the behaviour for the
  properties; no action reads them.
* `VoiceTurn` — from a recording to the last packet of the answer. A worker is a
  thread with a program counter named after what it does next (`Transcribe`,
  `Judge`, `Ask`, `Speak`, `Send`, `Check`, `Apply`, ...); the text thread has
  one of its own. `proc` holds, for the dialogue and the speech process, who has
  the lock, whom the process is working for and what is in its pipe; `command`
  holds each thread's one-shot process. `mutex` is explicit only while a report
  is classified, because that is the only wait under it; all other sections
  under the mutex are one step. `mark` remembers whether a worker's
  turn was ever cancelled, and whether a press or a reset then took that back
  before the worker looked; `late` counts the chunks sent since the first
  cancellation, revived or not. No action's guard reads them. The run's events come from `scene`, which bounds what
  one behaviour contains.
* `MCExchange`, `MCStoryBoard`, `MCInputProtocol`, `MCVoiceLink`, `MCVoiceTurn` —
  values for the runs.
* `ExchangeProofs`, `BoardProofs` (`Exchange` implements `LineBoard`),
  `StoryBoardProofs`, `InputProtocolProofs`, `VoiceLinkProofs`,
  `VoiceTurnProofs` — theorems.

What a handled snapshot does to calls (`Exchange`) and which calls come next
(`StoryBoard`) meet in the calls' phases: `StoryBoard` allows any end that
`Exchange` can produce. `VoiceLink` ends where `recording` is set, and
`VoiceTurn!RecordingComplete` starts there: a recording, empty or not, of the
current turn, or none because the link lost it. What an answer or a report does
to a story is asked for by `VoiceTurn` and done by `StoryBoard`, whose voice and
text steps may come at any time. `InputProtocol` decides which snapshots become a
`Snapshot` step of `Exchange`.

## Runs

| Run | Question | Bounds |
|---|---|---|
| `exchange_demo` | Demo exchange with the debug surface: types, no line shared with an injected call, the ring generator rings a call that is due, no direct circuit without a ring | 4 lines, 2 calls, 8 panels, injected calls between any two lines |
| `exchange_stories` | Two threads beside neutral calls that share their lines: gates, no shared line but the Bela's that Arnab's call is led to, served callers stay, what is completed is what is patched, and all of it implements `LineBoard` | 6 lines (Shapla-like l1 that names the placeholder and hangs up, Arnab on l2 with both Belas, two neutral pairs: one calls from a Bela's line, so that Arnab's call may come to share it), 2 calls, 5 panels |
| `exchange_live` | Handlers return, nobody waits for ever, ended audio finishes, shifts settle | 4 lines, fair clock and frontend |
| `storyboard_threads` | Payments, victims, contacts, a contact to draw, due calls; all of it implements `LineBoard` | 11 lines, 2 calls, 2 contacts, 2 victims |
| `input_protocol` | Handled once, one restart per press, refusals end, requests are answered | 3 (digital) or 2 (cabinet) snapshots per process, 2 faults, 1 press |
| `voice_link` | What is transcribed is one whole recording, a release nothing came between is heard, the session comes back | recordings of 2 chunks, a socket that holds 1, 5 scenes with up to 2 presses, taps and faults, 1 cancel, 1 reset |
| `voice_turns` | Answers stay with their turn, cancelled turns fall silent unless revived, no process is left behind, each turn ends, the mutex is given back | 3 callers, 2 workers or 1 and a text thread, 2 chunks of speech, 5 scenes |
| `exchange_finds_*`, `storyboard_finds_hang`, `input_finds_offline`, `voice_finds_idle` | the findings below | as above; the hang on the real board of 12 lines |

Why the bounds are enough. A shared line, a stale ring or a wrong circuit needs
two calls, and a third adds no new pair; timers of one or two units meet each
boundary (not due, due in this handler, overdue); three shifts and retirement are
in every Exchange run. Two contacts and two victims give "some deferred, some
done" and the refilled list. Two faults give a copy of a request in an old
connection together with a reset or restart that makes it acceptable; that is
the deepest interplay we know (it made us bring the stored response into
`Current`). A recording of two chunks has a first that may be lost and a last that may be refused; a
socket that holds one is full with the second. An answer of two chunks has one
that a cancellation can come before and one after. A mix-up of answers needs two
threads at one process, and the scenes pair each two that meet there (two
workers; a worker and text; text with a new run). What the bounds leave out for
all sizes is proved where stated.

Fairness. `Exchange!FairSpec` assumes that the clock runs, that a handler that
can go on goes on, and that a frontend keeps sending: both do so every 20 ms or
less (`transport.odin` `poll_backend`, `main.py` `run_forever`). Nothing is
assumed of the operator. `InputProtocol!FairSpec` assumes that backend threads,
the two poll loops and the cabinet's transport thread run; faults are never
fair. `VoiceLink!FairSpec` assumes that the voice loop and the relay run and that
datagrams which are not lost arrive; whether one is lost is free, within the
scene's faults. `VoiceTurn!FairSpec` assumes that each thread runs and is not
refused a mutex for ever (strong fairness, since the mutex is free again and
again), and that the two persistent processes answer or close their pipe: the
code waits for them without a deadline, so nothing ends if they do not. Nothing
is assumed of one-shot commands, which may never exit: `run_command` kills them
at its deadline, and `EveryTurnEnds` and `MutexIsReleased` rest on that.
`StoryBoard` has safety properties only.

Deadlock is checked in every run. `InputProtocol!Finished` stutters once a
frontend has spent its bound of snapshots.

## Findings

Runs that TLC must find violated, each against a sentence of the documentation:

* `exchange_finds_ended` — after shift three the refill at the end of the same
  handler overwrites `Ended` with `Shift` (`lib.rs:2402`, gameplay.md:168).
* `exchange_finds_broken` — a connected call out of focus, or with a wrong cord
  in place, is never finished by its five-second timer (`lib.rs:1853`,
  gameplay.md:368).
* `storyboard_finds_hang` — `next_call` can be asked for a neutral pair when no
  two free lines are left: it draws for ever with the mutex held
  (`lib.rs:2639`, gameplay.md:125).
* `input_finds_offline` — the cabinet's transport thread swallows its error, and
  the loop that reconnects never learns of it (`main.py:133`,
  deploy-cabinet-wifi.md:99).
* `voice_finds_idle` — a `ready` a frontend announces itself with counts as an
  active turn: Shapla's cord pulled before any turn costs $100 (`lib.rs:1494`,
  gameplay.md:217).

Seen while modelling, without a run of their own:

* A new snapshot can be taken for a retry: `reset_run` keeps `last_request`, and
  a restarted frontend that counts from one can send, byte for byte, the request
  stored before the reset. It gets the old run's response and is not handled.
  `Current` in `InputProtocol` names the condition.
* A restarted frontend is refused until it has counted past the number the
  backend remembers.
* After a socket timeout the cabinet reads every later response one exchange
  late, so nearly every second snapshot is refused for its revision.
* "Rejected requests do not advance that revision" (frontend-protocol.md:40)
  holds for refusals of the gate, not for routing errors: `HandleInput` raises
  the revision for both.
* Arnab's call can be led to the other Bela line while that line is used by
  another call, against "Neither line may already belong to another active call"
  (gameplay.md:122): neutral and story calls of the real board may use the Belas'
  lines, and `exchange_stories` reaches such a pair. It is the exception that
  `LinesExclusive` states. The call may also move to that line by a direct cord
  that nobody rang for: Arnab's exception in `DirectConnectionWasRung`.
* The Ring Generator can be reported on a line where a call rings that is not
  ready: when Shapla's call, which names line 0 as a placeholder, and a neutral
  call to line 0 both ring there, and the one that is ready is misrouted before
  the other is; and likewise on a Bela's line that Arnab's call shares. TLC found
  it when `GeneratorRingsReadyCall` was first tried without `MayBeShared`.
* A direct cord completes a ringing call before the ring is ready
  (`lib.rs:2252`), though "The backend rejects a direct connection before the
  ring is ready" (gameplay.md:54). A test connects that way
  (`tests/simple_hardware_demo.rs`), so `Exchange` models it as it is and
  `DirectConnectionWasRung` asks only for the ring.
* A restarted relay has a new port, and the backend never replaces a peer it
  knows, not even in `reset_run`: until the backend restarts, voice stays dead,
  though "The Odin and Python Cabinet Frontends own the Cabinet-side transport and
  recovery loop" (voice-daemon.md:3). `VoiceComesBack` excepts this case.
* After a quick restart of the backend the relay keeps its dead upload
  connection for good, because `handle_control` catches every error: each later
  recording is reported as failed. A frame cut in two, or a failed acknowledgement,
  ends the backend's upload thread for good (the `?` in `serve_voice_upload`).
* Acknowledged chunks are still dropped when the local voice socket is full,
  though the comment at `lib.rs:3387` counts on their delivery.
* A recording whose first chunk was lost or refused is joined to what is left in
  the buffer: `RecordingsAreWhole` excepts it (`headless`).
* When a release and a press meet in the single control slot, the frontend never
  hears of the release. `SoundDeviceCapture.start` then moves the boundary to the
  second press, so what was said in the first turn is lost. When a press and its
  release meet there, the relay answers with an empty recording, and
  `ReleasedTurnIsHeard` takes that for heard.
* A cancellation that comes while the last chunk is out leaves the status at
  `playing` and the speaker on.
* A press after a cancellation clears `cancelled_voice_turn` (`lib.rs:1304`), and
  so does a reset: a worker that did not look in between is revived, and the rest
  of its answer plays into the new turn, though "Disconnecting the operator during
  an active voice turn cancels that turn" (gameplay.md:142-143). It is the exception
  that `CancelledTurnFallsSilent` states.
* A service report is judged by the buttons at one time and applied with the
  buttons at a later one (`lib.rs:1562`, `lib.rs:3595`): a press or a text turn
  in between changes or loses the service.
* After a reset turn ids start from one again while old workers run, and such a
  worker can end the new run's turn.
* An idle text client that holds `TEXT_TURN_LOCK` keeps all others waiting
  (`lib.rs:3537`).
* The persistent workers have no deadline, though voice-daemon.md (line 62)
  says "Each provider command has a bounded 30-second deadline".
* All three talk buttons restart the run rather than being rejected
  (gameplay.md:130).

## Proofs

Every safety property that a passing run checks is also a theorem, for every value
of the constants that satisfies the modules' assumptions (`CallAssumption`,
`TimeAssumption`, `LineAssumption`, ... for `Exchange`; `LinesAssumption` and
`ThreadAssumption` for `StoryBoard`; `ProtocolAssumption` for `InputProtocol`;
`BoundsAssumption` for `VoiceLink` and `VoiceTurn`, `PeopleAssumption` for
`VoiceTurn`; TLC evaluates them in each run):

| Theorem | States |
|---|---|
| `ExchangeProofs!TypeCorrect` | `[]TypeOK` |
| `ExchangeProofs!ExclusiveLines` | `[]LinesExclusive`, with Arnab's exception |
| `ExchangeProofs!GatedStoriesAreSilent` | `[]StoryGateHolds`, without the debug surface (`~DebugAttached`) |
| `ExchangeProofs!DirectConnectionsWereRung` | `DirectConnectionWasRung` |
| `ExchangeProofs!ConnectionsArePatched` | `ConnectsWhatIsPatched` |
| `ExchangeProofs!GeneratorIsNotLeftOver` | `[]GeneratorRingsReadyCall`, with the exception of `MayBeShared` |
| `ExchangeProofs!ServedCallersStay` | `ServedCallersAreKept` |
| `BoardProofs!ExchangeImplementsBoard` | `Exchange` implements `LineBoard` |
| `StoryBoardProofs!TypeCorrect` | `[]TypeOK` |
| `StoryBoardProofs!CallsAreDue` | `[]ThreadCallsAreDue` |
| `StoryBoardProofs!ContactsOnce` | `[]ContactsServedOnce` |
| `StoryBoardProofs!AContactIsLeft` | `[]ContactToDraw`: never a draw modulo zero |
| `StoryBoardProofs!ScamsDistinct` | `[]ScamsHaveDistinctVictims` |
| `StoryBoardProofs!MoneyOnce` | `[]StoryMoneyOnce` |
| `StoryBoardProofs!StoryBoardImplementsBoard` | `StoryBoard` implements `LineBoard` |
| `InputProtocolProofs!LinkTypeCorrect` | `[]TypeOK` |
| `InputProtocolProofs!SnapshotsAreHandledOnce` | `[]HandledOnce` |
| `InputProtocolProofs!UndisturbedIsNotRefused` | `RefusedOnlyWhenDisturbed` |
| `InputProtocolProofs!PressRestartsOnce` | `[]OneRestartPerPress` |
| `VoiceLinkProofs!TypeCorrect` | `[]TypeOK` |
| `VoiceLinkProofs!RecordingsWhole` | `[]RecordingsAreWhole` |
| `VoiceTurnProofs!TypeCorrect` | `[]TypeOK` |
| `VoiceTurnProofs!AnswersStayOwn` | `[]AnswersAreOwn` |
| `VoiceTurnProofs!ProcessesAreReaped` | `[]NoOrphanProcesses` |
| `VoiceTurnProofs!CancellationSilences` | `[]CancelledTurnFallsSilent`, with the exception of revived turns |

Only `GatedStoriesAreSilent` assumes more than that: `InjectCall` may put a second
call of a story on the board, which is what a debug tool is for. Where the code
breaks the plain rule on the real board (a line shared with Arnab's call, a ring that is not ready on a line
several calls may name, a cancelled turn that is revived), the property states the
exception itself, so that the theorem covers the real board; the rule that
`next_call` breaks there has no theorem but the run `storyboard_finds_hang`.

The arguments, by module. Types: one step per action.

`ExchangeProofs`. `LinesExclusive`: every step either drops calls (and no call
gets a new destination, but Arnab's, whose new one is a Bela's line) or offers one
call on lines nobody uses (`StepsOnTheBoard`); the offer shares nothing
(`OfferedSharesNothing`), and what Arnab's move may share is the exception.
`StoryGateHolds`: a step that removes a story call sets its gate and only a panel
opens it (`StepsOnTheGates`). `DirectConnectionWasRung` needs `RingingWasRung`: a
ringing call has had the ring generator on its own destination, which no step but
Arnab's changes. `GeneratorRingsReadyCall` needs `GeneratorInv`: whatever rings on
the line the generator was left on has been ready before, unless calls may share
that line (`LeftOnReadyLine`), and from `update_ring_activation` on a call rings on
the cranked line or the generator is off (`UpdateHolds`); it uses that other lines
are exclusive (`OneCallPerLine`), for otherwise a second ring could hide behind the
first.

`BoardProofs`. The initial board maps to the quiet one and each step of a stage
maps to one step of the board or a stutter; it needs the types and
`QuietLinesAreBare` (a line without a call names no destination), so that an
ended call leaves the abstract board as it was.

`StoryBoardProofs`. One lemma for each thread says what every step does to it
(`StepsOfTheSurveillance`, `StepsOfNeel`, `StepsOfNahid`, `StepsOfTheMoney`), one
what it does to the calls (`StepsOnTheBoard`). `ThreadCallsAreDue` is inductive
with the types: a step that moves a thread ends the call of its old beat. From it
`ScamsHaveDistinctVictims` follows with the limit (`ScamsAreLimited`), since the
victim of a scam call that is up is not among those scammed. `ContactsServedOnce`
is inductive as it stands, since only a contact that was not served is drawn;
`ContactToDraw` follows from it by counting contacts. `StoryMoneyOnce` needs
`LedgerMatches`: what the ledger holds is a function of where the threads are,
but for Shapla's penalty, which is booked at most once and only at her bad end.

`InputProtocolProofs`. `LinkInv` strengthens the types by an empty link whenever
the digital frontend waits for nothing or is not connected. `HandledOnce` needs
`NumbersInv`: everything handled in this run has a number up to `sequence`, so an
admitted request is a new one; the handled set is finite and the revision is its
size. `RefusedOnlyWhenDisturbed` needs `Quiet`: without a fault one message at
most is under way, a request carries the backend's revision and a new number, a
response its revision, and with nothing under way the frontend has it already.
`OneRestartPerPress` needs `PressInv`: restarts so far and presses under way are
covered by presses made and stray requests handled. A press under way is an edge
in the sequence *held before the first request in flight* (the restart flag), *the
requests in flight*, *held now*; the lemmas `EdgesTail`, `EdgesAppend`,
`EdgesScan` and `EdgesOfNothing` say how reading, sending, scanning and losing
requests change the number of edges.

`VoiceLinkProofs`. `RecordingsAreWhole` needs `WholeInv`: the relay's upload is the
rest of one recording, the socket holds chunks in the order of their upload and
continues the voice loop's buffer, and the upload continues the socket, unless
the chunk in front of a gap was a first one, which `headless` remembers; any
other gap is seen by the count of `IsNextChunk`.

`VoiceTurnProofs` has one invariant, `Inv`: the types, `PipesAreClean` (a process
works only for the thread that holds its lock; a pipe is empty or holds one item
of that thread's answer, and then only while somebody holds the lock),
`NoOrphanProcesses`, and `LateChunksAreLast` (a worker whose turn is still
cancelled has sent at most one chunk since, and then looks before it sends; one
that was never cancelled has sent none late). `AnswersAreOwn` is not
inductive without the first, for a thread that takes the lock must find the pipe
empty; `CancelledTurnFallsSilent` not without the last.

Each strengthening was checked by TLC on a run's configuration before it was
proved. Only model-checked: liveness (`HandlerReturns`, `NobodyWaitsForever`,
`EndedAudioFinishes`, `ShiftsSettle`, `WaitingIsAnswered`, `ReleasedTurnIsHeard`,
`VoiceComesBack`, `EveryTurnEnds`, `MutexIsReleased`), since liveness under
fairness is out of the prover's reach; and the findings, which are
counterexamples.

## Not modelled

Lamps, printer, e-paper, statistics and logs (functions of the state); story test
mode; `call_arrival_interval_seconds`, which spaces the arrivals of neutral calls
and is 0 in `exchange.toml`, so that `NeutralWanted` asks for the number of calls
and the shift only; dialogue texts and the language models' judgement (a free choice); the CBOR
encoding, frame limits and a frame cut in two by a timeout; playback on the
cabinet and the digital frontend's own voice client; WAV files, the debug list
of conversations and the minimum time of a status LED; `OperatorSession`,
microphones and playback in `voice_workers.rs`, which only its tests use; which
text client waits for the lock; the cabinet's topology scan and output queue; the
test frontend, the protocol harness and the web page, which keep no game state.

## Plan

1. (done) `Exchange`, `StoryBoard`, `InputProtocol`, `VoiceLink`, `VoiceTurn` with
   their runs; `LineBoard` and both refinements; a theorem for each of their
   safety properties.
2. `Cabinet`: confirmation of a topology by repeated scans, composed with
   `InputProtocol`'s queue.
3. The clients that wait for `TEXT_TURN_LOCK`, with an idle one.
