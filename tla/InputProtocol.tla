--------------------------- MODULE InputProtocol ---------------------------
(***************************************************************************)
(* How panel snapshots reach the backend: the checks at the head of        *)
(* Backend::apply_input, the stored last request and response, and the     *)
(* two transports that send snapshots, the digital frontend's (one request *)
(* at a time, resent after a lost connection) and the Cabinet Frontend's   *)
(* (a one-slot queue in front of a transport thread with a socket timeout).*)
(*                                                                         *)
(* What a handled snapshot does to the calls is Exchange.  Here it raises  *)
(* the revision.  Of its contents only the held talk buttons matter.       *)
(***************************************************************************)
EXTENDS Integers, FiniteSets, Sequences

CONSTANTS
  Kinds,          \* the frontends to model, a subset of {"Digital", "Cabinet"}
  Talks,          \* how many talk buttons an operator may hold at a time
  MaxSequence,    \* bound: snapshots a process of each frontend sends
  MaxPresses,     \* bound: times the three talk buttons are pressed
  MaxFaults       \* bound: lost connections, restarts, timeouts, debug resets

ASSUME ProtocolAssumption ==
  /\ Kinds \subseteq {"Digital", "Cabinet"}
  /\ Talks \subseteq 0..3
  /\ MaxSequence \in [Kinds -> Nat]
  /\ MaxPresses \in Nat /\ MaxFaults \in Nat

VARIABLES
  revision, sequence, awaiting,  \* the backend's; sequence 0 is its None
  last,            \* last_request and last_response
  connected, connection,         \* the frontend's socket and its number
  requests, responses,           \* the two directions of the connection
  orphans,         \* requests of closed connections the backend may still read
  kind, boot,      \* which frontend, and which process of it
  input_sequence, state_revision,
  chord,           \* were all talk buttons held at the last scan?
  slot,            \* the Cabinet Frontend's transport queue
  pending,         \* the request whose response is awaited (retry_frame)
  faults,          \* bounds the faults of a behaviour
  handled,         \* history: snapshots handled in this run
  resets, presses, strays,       \* history: runs restarted, chords pressed,
                   \* requests handled although their connection was closed
  disturbed        \* history: has a fault not been got over yet?

backend == <<revision, sequence, awaiting, last>>
link == <<connected, connection, requests, responses, orphans>>
frontend == <<kind, boot, input_sequence, state_revision, chord, slot, pending>>
history == <<handled, resets, presses, strays, disturbed>>
vars == <<backend, link, frontend, faults, history>>

Message == [seq : Nat, expects : Nat, talk : 0..3]
Codes == {"none", "input_sequence", "state_revision", "multiple_talk_buttons"}
Response == [seq : Nat, code : Codes, revision : Nat]
Request == [msg : Message, boot : Nat, connection : Nat]

NoMessage == [seq |-> 0, expects |-> 0, talk |-> 0]
NoResponse == [seq |-> 0, code |-> "none", revision |-> 0]

Snapshot(talk) == [seq |-> input_sequence + 1, expects |-> state_revision, talk |-> talk]

RequestOf(msg) == [msg |-> msg, boot |-> boot, connection |-> connection]

\* The snapshot itself, whatever connection carries it
Origin(r) == <<r.boot, r.msg.seq>>

Init ==
  /\ revision = 0 /\ sequence = 0 /\ awaiting = FALSE
  /\ last = [request |-> NoMessage, response |-> NoResponse]
  /\ connected = FALSE /\ connection = 0
  /\ requests = <<>> /\ responses = <<>> /\ orphans = {}
  /\ kind \in Kinds /\ boot = 0
  /\ input_sequence = 0 /\ state_revision = 0
  /\ chord = FALSE /\ slot = NoMessage /\ pending = NoMessage
  /\ faults = 0
  /\ handled = {} /\ resets = 0 /\ presses = 0 /\ strays = 0
  /\ disturbed = TRUE

-----------------------------------------------------------------------------
(* The backend: apply_input_message on the next frame of a connection.     *)
(* There is a thread per connection and one mutex.                         *)

Stray(r) == r \in orphans

CountsStray(r) == strays' = IF Stray(r) THEN strays + 1 ELSE strays

(* A response to a closed connection goes nowhere. *)
Responds(r, response) ==
  \/ /\ requests # <<>> /\ r = Head(requests)
     /\ requests' = Tail(requests)
     /\ responses' = Append(responses, response)
     /\ UNCHANGED <<connected, connection, orphans>>
  \/ /\ Stray(r)
     /\ \A o \in orphans : /\ o.boot = r.boot
                           /\ o.connection = r.connection
                           => r.msg.seq <= o.msg.seq
     /\ orphans' = orphans \ {r}
     /\ UNCHANGED <<connected, connection, requests, responses>>

Readable == orphans \cup (IF requests = <<>> THEN {} ELSE {Head(requests)})

(* The exact retry of the previous request gets the previous response.     *)
Replay(r) ==
  /\ r.msg = last.request
  /\ Responds(r, last.response)
  /\ UNCHANGED <<backend, frontend, faults, history>>

Answers(r, code, rev) ==
  LET response == [seq |-> r.msg.seq, code |-> code, revision |-> rev] IN
  /\ Responds(r, response)
  /\ last' = [request |-> r.msg, response |-> response]
  /\ UNCHANGED <<frontend, faults>>

Fresh(r) == r.msg # last.request

SequenceIncreases(r) == sequence = 0 \/ r.msg.seq > sequence

RefuseSequence(r) ==
  /\ Fresh(r)
  /\ ~SequenceIncreases(r)
  /\ Answers(r, "input_sequence", revision)
  /\ UNCHANGED <<revision, sequence, awaiting, history>>

RefuseRevision(r) ==
  /\ Fresh(r)
  /\ SequenceIncreases(r)
  /\ r.msg.expects # revision
  /\ Answers(r, "state_revision", revision)
  /\ UNCHANGED <<revision, sequence, awaiting, history>>

\* Mutant: only the previous request is recognised
Admitted_Any(r) == Fresh(r)

Admitted(r) ==
  /\ Fresh(r)
  /\ SequenceIncreases(r)
  /\ r.msg.expects = revision

(* After a restart nothing is handled until the buttons are released.      *)
HoldRestart(r) ==
  /\ Admitted(r)
  /\ awaiting
  /\ r.msg.talk > 0
  /\ sequence' = r.msg.seq
  /\ Answers(r, "none", revision)
  /\ UNCHANGED <<revision, awaiting, history>>

\* Mutant: the release is not waited for
RestartRun_NoRelease(r) ==
  /\ Admitted(r)
  /\ ~awaiting
  /\ r.msg.talk = 3
  /\ revision' = 0
  /\ sequence' = 0
  /\ handled' = {}
  /\ resets' = resets + 1
  /\ CountsStray(r)
  /\ Answers(r, "none", 0)
  /\ UNCHANGED <<awaiting, presses, disturbed>>

(* All three talk buttons restart the run: reset_run forgets the revision  *)
(* and the sequence, and keeps the last request and response.              *)
RestartRun(r) ==
  /\ Admitted(r)
  /\ ~awaiting
  /\ r.msg.talk = 3
  /\ revision' = 0
  /\ sequence' = 0
  /\ awaiting' = TRUE
  /\ handled' = {}
  /\ resets' = resets + 1
  /\ CountsStray(r)
  /\ Answers(r, "none", 0)
  /\ UNCHANGED <<presses, disturbed>>

RefuseChord(r) ==
  /\ Admitted(r)
  /\ ~awaiting
  /\ r.msg.talk = 2
  /\ sequence' = r.msg.seq
  /\ Answers(r, "multiple_talk_buttons", revision)
  /\ UNCHANGED <<revision, awaiting, history>>

(* The handler proper raises the revision whether or not it reports an     *)
(* error of the routing (the code is "none" here in both cases).           *)
HandleInput(r) ==
  /\ Admitted(r)
  /\ r.msg.talk \in IF awaiting THEN {0} ELSE {0, 1}
  /\ awaiting' = FALSE
  /\ sequence' = r.msg.seq
  /\ revision' = revision + 1
  /\ handled' = handled \cup {Origin(r)}
  /\ CountsStray(r)
  /\ Answers(r, "none", revision + 1)
  /\ UNCHANGED <<resets, presses, disturbed>>

-----------------------------------------------------------------------------
(* What both frontends do. *)

Puts(msg) == requests' = Append(requests, RequestOf(msg))

(* The panel is scanned while the operator holds this many talk buttons.   *)
Scan(talk) ==
  /\ chord' = (talk = 3)
  /\ presses' = IF chord' /\ ~chord THEN presses + 1 ELSE presses
  /\ presses' <= MaxPresses

(* The response tells the frontend where the backend is, nothing else is   *)
(* on its way, the stored response is no older (a reset keeps it, and the  *)
(* next snapshot of a frontend that counts from the beginning may equal    *)
(* the request it answers), and the next snapshot's number is a new one.   *)
Current(response) ==
  /\ requests = <<>> /\ Tail(responses) = <<>> /\ orphans = {}
  /\ response.revision = revision /\ last.response.revision = revision
  /\ sequence < IF slot = NoMessage THEN input_sequence + 1 ELSE slot.seq

(* Every response brings the frontend's revision up to date.              *)
Gets(response) ==
  /\ connected
  /\ responses # <<>> /\ response = Head(responses)
  /\ responses' = Tail(responses)
  /\ state_revision' = response.revision
  /\ disturbed' = (disturbed /\ ~Current(response))
  /\ UNCHANGED <<backend, connected, connection, requests, orphans, kind, boot,
                 input_sequence, chord, slot, faults, handled, resets, presses, strays>>

-----------------------------------------------------------------------------
(* The digital frontend (transport.odin) sends nothing while it waits.     *)

\* Mutant: the frontend does not wait for the response
DigitalSend_Eager ==
  /\ kind = "Digital" /\ connected
  /\ input_sequence < MaxSequence[kind]
  /\ \E talk \in Talks : Scan(talk) /\ pending' = Snapshot(talk)
  /\ Puts(pending')
  /\ input_sequence' = input_sequence + 1
  /\ UNCHANGED <<backend, connected, connection, responses, orphans, kind, boot,
                 state_revision, slot, faults, handled, resets, strays, disturbed>>

DigitalSend ==
  /\ kind = "Digital" /\ connected
  /\ pending = NoMessage
  /\ input_sequence < MaxSequence[kind]
  /\ \E talk \in Talks : Scan(talk) /\ pending' = Snapshot(talk)
  /\ Puts(pending')
  /\ input_sequence' = input_sequence + 1
  /\ UNCHANGED <<backend, connected, connection, responses, orphans, kind, boot,
                 state_revision, slot, faults, handled, resets, strays, disturbed>>

\* Mutant: the revision of a refusal is not taken over
DigitalReceive_AcceptedOnly(response) ==
  /\ kind = "Digital"
  /\ connected
  /\ responses # <<>> /\ response = Head(responses)
  /\ responses' = Tail(responses)
  /\ state_revision' = IF response.code = "none" THEN response.revision ELSE state_revision
  /\ disturbed' = (disturbed /\ ~Current(response))
  /\ pending' = IF response.seq = input_sequence THEN NoMessage ELSE pending
  /\ UNCHANGED <<backend, connected, connection, requests, orphans, kind, boot,
                 input_sequence, chord, slot, faults, handled, resets, presses, strays>>

(* apply_state_message *)
DigitalReceive(response) ==
  /\ kind = "Digital"
  /\ Gets(response)
  /\ pending' = IF response.seq = input_sequence THEN NoMessage ELSE pending

\* Mutant: the request under way is forgotten
DigitalConnect_Forgets ==
  /\ kind = "Digital" /\ ~connected
  /\ connected' = TRUE /\ connection' = connection + 1
  /\ UNCHANGED <<backend, requests, responses, orphans, frontend, faults, history>>

(* A new connection starts with the unanswered request, byte for byte.     *)
DigitalConnect ==
  /\ kind = "Digital" /\ ~connected
  /\ connected' = TRUE /\ connection' = connection + 1
  /\ requests' = IF pending = NoMessage THEN <<>>
                 ELSE <<[RequestOf(pending) EXCEPT !.connection = connection']>>
  /\ UNCHANGED <<backend, responses, orphans, frontend, faults, history>>

-----------------------------------------------------------------------------
(* The Cabinet Frontend (main.py): the scan loop replaces the snapshot in  *)
(* the queue, the transport thread exchanges one at a time.                *)

(* step: the sequence number is spent whether or not the snapshot is sent. *)
CabinetStep ==
  /\ kind = "Cabinet"
  /\ input_sequence < MaxSequence[kind]
  /\ \E talk \in Talks : Scan(talk) /\ slot' = Snapshot(talk)
  /\ input_sequence' = input_sequence + 1
  /\ UNCHANGED <<backend, link, kind, boot, state_revision, pending, faults,
                 handled, resets, strays, disturbed>>

(* Beyond the bound a session goes on without snapshots.                   *)
Finished ==
  /\ input_sequence = MaxSequence[kind]
  /\ UNCHANGED vars

(* The revision is refreshed just before the request is sent.  Without a   *)
(* connection the exchange fails, the error is logged, the snapshot is     *)
(* gone.                                                                   *)
CabinetTransmit ==
  /\ kind = "Cabinet"
  /\ pending = NoMessage /\ slot # NoMessage
  /\ slot' = NoMessage
  /\ LET msg == [slot EXCEPT !.expects = state_revision] IN
       IF connected THEN pending' = msg /\ Puts(msg)
       ELSE UNCHANGED <<pending, requests>>
  /\ UNCHANGED <<backend, connected, connection, responses, orphans, kind, boot,
                 input_sequence, state_revision, chord, faults, history>>

(* exchange returns the next frame of the connection, whichever request it *)
(* answers.                                                                *)
CabinetReceive(response) ==
  /\ kind = "Cabinet"
  /\ pending # NoMessage
  /\ Gets(response)
  /\ pending' = NoMessage

(* run_forever makes the first connection, and a new one when the scan     *)
(* loop itself failed.                                                     *)
CabinetConnect ==
  /\ kind = "Cabinet" /\ ~connected /\ connection = 0
  /\ connected' = TRUE /\ connection' = 1
  /\ UNCHANGED <<backend, requests, responses, orphans, frontend, faults, history>>

-----------------------------------------------------------------------------
(* Faults. *)

Fault ==
  /\ faults < MaxFaults
  /\ faults' = faults + 1
  /\ disturbed' = TRUE

InFlight == {requests[i] : i \in DOMAIN requests}

(* The socket is closed.  What the backend has not read yet it may still   *)
(* read, all of it or a part.                                              *)
Closes ==
  /\ requests' = <<>> /\ responses' = <<>>
  /\ \E read \in SUBSET InFlight : orphans' = orphans \cup read

(* drop_connection keeps the unanswered request, the transport thread of   *)
(* the cabinet gives its request up.                                       *)
LoseConnection ==
  /\ connected
  /\ Fault
  /\ Closes
  /\ connected' = FALSE
  /\ pending' = IF kind = "Digital" THEN pending ELSE NoMessage
  /\ UNCHANGED <<backend, connection, kind, boot, input_sequence, state_revision,
                 chord, slot, handled, resets, presses, strays>>

(* The cabinet's socket timeout: the late response stays in the stream.    *)
ResponseTimeout ==
  /\ kind = "Cabinet" /\ pending # NoMessage
  /\ Fault
  /\ pending' = NoMessage
  /\ UNCHANGED <<backend, link, kind, boot, input_sequence, state_revision, chord,
                 slot, handled, resets, presses, strays>>

(* A device of the cabinet fails in step: run_forever builds a new         *)
(* frontend and connection and carries both counters over.                 *)
CabinetRebuild ==
  /\ kind = "Cabinet" /\ connection > 0
  /\ Fault
  /\ Closes
  /\ connected' = TRUE /\ connection' = connection + 1
  /\ pending' = NoMessage /\ slot' = NoMessage
  /\ UNCHANGED <<backend, kind, boot, input_sequence, state_revision, chord,
                 handled, resets, presses, strays>>

(* A new frontend process counts from the beginning. *)
RestartFrontend ==
  /\ Fault
  /\ Closes
  /\ connected' = FALSE
  /\ connection' = IF kind = "Cabinet" THEN 0 ELSE connection
  /\ boot' = boot + 1
  /\ input_sequence' = 0 /\ state_revision' = 0
  /\ slot' = NoMessage /\ pending' = NoMessage
  /\ UNCHANGED <<backend, kind, chord, handled, resets, presses, strays>>

(* Nothing of the backend outlives its process. *)
RestartBackend ==
  /\ Fault
  /\ revision' = 0 /\ sequence' = 0 /\ awaiting' = FALSE
  /\ last' = [request |-> NoMessage, response |-> NoResponse]
  /\ connected' = FALSE
  /\ requests' = <<>> /\ responses' = <<>> /\ orphans' = {}
  /\ pending' = IF kind = "Digital" THEN pending ELSE NoMessage
  /\ handled' = {} /\ resets' = 0 /\ strays' = 0
  /\ presses' = IF chord THEN 1 ELSE 0
  /\ UNCHANGED <<connection, kind, boot, input_sequence, state_revision, chord, slot>>

(* The debug surface restarts the run.  The stored response stays.         *)
DebugResetRun ==
  /\ Fault
  /\ revision' = 0 /\ sequence' = 0
  /\ handled' = {}
  /\ UNCHANGED <<awaiting, last, link, frontend, resets, presses, strays>>

-----------------------------------------------------------------------------
Backend ==
  \E r \in Readable :
    \/ Replay(r) \/ RefuseSequence(r) \/ RefuseRevision(r)
    \/ HoldRestart(r) \/ RestartRun(r) \/ RefuseChord(r) \/ HandleInput(r)

Digital ==
  \/ DigitalSend \/ DigitalConnect
  \/ \E i \in DOMAIN responses : DigitalReceive(responses[i])

Transport ==
  \/ CabinetTransmit \/ CabinetConnect
  \/ \E i \in DOMAIN responses : CabinetReceive(responses[i])

Faults ==
  \/ LoseConnection \/ ResponseTimeout \/ CabinetRebuild
  \/ RestartFrontend \/ RestartBackend \/ DebugResetRun

Next ==
  \/ Backend \/ Digital \/ Transport \/ CabinetStep \/ Faults \/ Finished

Spec == Init /\ [][Next]_vars

(* The backend's threads, both poll loops and the transport thread run.    *)
FairSpec ==
  /\ Spec
  /\ WF_vars(Backend) /\ WF_vars(Digital)
  /\ WF_vars(Transport) /\ WF_vars(CabinetStep)
-----------------------------------------------------------------------------
(* Every variable holds a value the code could hold, and the digital       *)
(* frontend has one request under way at most.                             *)
TypeOK ==
  /\ revision \in Nat /\ sequence \in Nat /\ awaiting \in BOOLEAN
  /\ last \in [request : Message, response : Response]
  /\ connected \in BOOLEAN /\ connection \in Nat
  /\ requests \in Seq(Request) /\ responses \in Seq(Response)
  /\ orphans \in SUBSET Request
  /\ kind \in Kinds /\ boot \in Nat
  /\ input_sequence \in Nat /\ state_revision \in Nat
  /\ chord \in BOOLEAN /\ slot \in Message /\ pending \in Message
  /\ faults \in Nat
  /\ handled \in SUBSET (Nat \X Nat)
  /\ resets \in Nat /\ presses \in Nat /\ strays \in Nat
  /\ disturbed \in BOOLEAN
  /\ kind = "Digital" =>
       /\ Len(requests) + Len(responses) <= 1
       /\ requests # <<>> => Head(requests).msg = pending

(* No snapshot is handled twice in a run, whatever is lost, delayed or     *)
(* resent: the revision, raised by every handled snapshot, counts          *)
(* different snapshots.                                                    *)
HandledOnce == revision = Cardinality(handled)

(* However long the three buttons are held and however often the requests  *)
(* of that time are resent, the run restarts once: since the backend came  *)
(* up there is one restart for each press at most (a press still held then *)
(* is one), and one for each request of a closed connection that is        *)
(* handled late (as the release, or as the press in a run begun since).    *)
OneRestartPerPress == resets <= presses + strays

(* When the frontend has read a current response and nothing else is in    *)
(* flight, its next snapshots are not refused for their number or their    *)
(* revision until something fails again.                                   *)
RefusedOnlyWhenDisturbed ==
  [][/\ last' # last
     /\ last'.response.code \in {"input_sequence", "state_revision"}
     => disturbed]_vars

(* The digital frontend does not wait for ever: a request whose connection *)
(* is lost is sent again and answered.                                     *)
WaitingIsAnswered ==
  kind = "Digital" /\ pending # NoMessage ~> pending = NoMessage

-----------------------------------------------------------------------------
(* deploy-cabinet-wifi.md: "The frontend reconnects after a backend or     *)
(* Wi-Fi interruption".  The transport thread logs the failed exchange and *)
(* the scan loop, the only place that reconnects, never hears of it.       *)
CabinetReconnects == kind = "Cabinet" /\ ~connected ~> connected
=============================================================================
