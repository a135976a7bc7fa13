----------------------------- MODULE VoiceLink -----------------------------
(***************************************************************************)
(* How a press becomes a recording: the backend's one pending control, the *)
(* UDP datagrams between the voice loop and the cabinet's relay, the       *)
(* relay's capture, and the upload of a recording chunk by chunk over TCP, *)
(* which the backend passes on to its own UDP socket.                      *)
(*                                                                         *)
(* What becomes of a recording is VoiceTurn; answers and the statuses of   *)
(* the backend do not change the relay's part in the next turn and are     *)
(* left out.  Samples are reduced to which chunk of which turn they are.   *)
(***************************************************************************)
EXTENDS Integers, Sequences, FiniteSets

CONSTANTS
  Scenes,                 \* what may happen in a behaviour: subset of SceneType
  ChunkCount,             \* chunks of a recording that is not empty
  SocketBuffer            \* datagrams the voice socket holds unread

\* the bounds of a behaviour: how often each of these may happen
SceneType == [presses : Nat, taps : Nat, cancels : Nat, resets : Nat, faults : Nat]

ASSUME BoundsAssumption ==
  /\ Scenes \subseteq SceneType
  /\ ChunkCount \in Nat \ {0} /\ SocketBuffer \in Nat \ {0}

VARIABLES
  scene,                  \* what may happen from here on
  \* the backend
  turn, revision, held,   \* voice_turn_id, the revision of the snapshots, last_ptt
  state_revision,         \* voice_state_revision
  tap,                    \* tap_bridge_audio_active
  pending,                \* pending_voice_control: at most one
  peer, session,          \* voice_peer, voice_session_id
  samples, next_chunk,    \* the voice loop's buffer
  recording,              \* what the last chunk read has completed
  \* the cabinet
  relay,                  \* the relay thread
  \* in between
  net,                    \* datagrams under way: in any order
  inbox,                  \* chunks at the voice socket, in order
  \* about the behaviour
  awaiting,               \* has a release nothing came between not been heard yet?
  headless                \* the recordings whose first chunk was lost

backend == <<turn, revision, held, state_revision, tap, pending, peer, session,
             samples, next_chunk, recording>>
vars == <<scene, backend, relay, net, inbox, awaiting, headless>>

Controls == {"StartPtt", "ReleasePtt", "Cancel"}
NoPeer == 0                        \* voice_peer = None
NoControl == [control |-> "None", session |-> 0, turn |-> 0, revision |-> 0]

\* a relay is known by the port of its UDP socket; a new one has a new port
NewRelay(port) ==
  [port |-> port, turn |-> 1, revision |-> 0, capturing |-> FALSE, upload |-> <<>>,
   connected |-> TRUE]

Status(port) == [to |-> "backend", port |-> port]
ToRelay(control, port) == [to |-> "relay", port |-> port, control |-> control]

Init ==
  /\ scene \in Scenes
  /\ turn = 0 /\ revision = 0 /\ held = FALSE /\ state_revision = 0 /\ tap = FALSE
  /\ pending = NoControl /\ peer = NoPeer /\ session = 0
  /\ samples = <<>> /\ next_chunk = 0 /\ recording = <<>>
  /\ relay = NewRelay(1)
  /\ net = {Status(1)}
  /\ inbox = <<>>
  /\ awaiting = FALSE /\ headless = {}

\* one thing less may happen
Spend(what) == scene[what] > 0 /\ scene' = [scene EXCEPT ![what] = @ - 1]

-----------------------------------------------------------------------------
(* Snapshots.  The revision counts those that matter here.                 *)

\* Mutant: the turn goes out as it is
Pend_Raw(control, id, rev) ==
  pending' = [control |-> control, session |-> id, revision |-> rev, turn |-> turn']

\* the one pending control: a later one takes the place of one not sent yet
Pend(control, id, rev) ==
  pending' = [control |-> control, session |-> id, revision |-> rev,
              turn |-> IF turn' = 0 THEN 1 ELSE turn']

\* a frontend that can be reached is asked for a recording, the wait begins
Reachable == peer = relay.port /\ session = 1

\* update_voice_control, with the tap as this snapshot has patched it
Edge(talking, tapped) ==
  /\ talking # held
  /\ talking => scene.presses > 0
  /\ tapped # tap => scene.taps > 0
  /\ scene' = [scene EXCEPT !.presses = IF talking THEN @ - 1 ELSE @,
                            !.taps = IF tapped # tap THEN @ - 1 ELSE @]
  /\ held' = talking /\ tap' = tapped
  /\ IF talking /\ tapped
     THEN UNCHANGED <<turn, revision, state_revision, pending, awaiting>>
     ELSE /\ turn' = IF talking THEN turn + 1 ELSE turn
          /\ revision' = revision + 1
          /\ state_revision' = revision'
          /\ Pend(IF talking THEN "StartPtt" ELSE "ReleasePtt", 1, revision')
          /\ awaiting' = (~talking /\ turn # 0 /\ Reachable)
  /\ UNCHANGED <<peer, session, samples, next_chunk, recording, relay, net, inbox, headless>>

TapToggles ==
  /\ Spend("taps")
  /\ tap' = ~tap
  /\ UNCHANGED <<turn, revision, held, state_revision, pending, peer, session, samples,
                 next_chunk, recording, relay, net, inbox, awaiting, headless>>

\* cancel_voice_if_operator_disconnected, when VoiceTurn has something to
\* cancel; voice_state_revision stays
CancelTurn ==
  /\ Spend("cancels")
  /\ UNCHANGED turn
  /\ Pend("Cancel", session, revision)
  /\ awaiting' = FALSE
  /\ UNCHANGED <<revision, held, state_revision, tap, peer, session, samples, next_chunk,
                 recording, relay, net, inbox, headless>>

\* reset_run: the peer stays, the session is gone until its next status
ResetRun ==
  /\ Spend("resets")
  /\ turn # 0
  /\ turn' = 0 /\ revision' = 0 /\ held' = FALSE /\ state_revision' = 0
  /\ tap' = FALSE /\ pending' = NoControl /\ session' = 0
  /\ awaiting' = FALSE
  /\ UNCHANGED <<peer, samples, next_chunk, recording, relay, net, inbox, headless>>

-----------------------------------------------------------------------------
(* The voice loop                                                          *)

\* Mutant: a peer is taken once
SetVoicePeer_Once(port) ==
  IF peer = NoPeer THEN peer' = port /\ session' = 1 ELSE UNCHANGED <<peer, session>>

\* a status of another address is refused, for as long as the backend lives
SetVoicePeer(port) ==
  IF peer \in {NoPeer, port} THEN peer' = port /\ session' = 1 ELSE UNCHANGED <<peer, session>>

ReceiveStatus ==
  \E m \in net :
    /\ m.to = "backend"
    /\ SetVoicePeer(m.port)
    /\ net' = net \ {m}
    /\ UNCHANGED <<turn, revision, held, state_revision, tap, pending, samples, next_chunk,
                   recording, relay, inbox, awaiting, headless, scene>>

\* take_voice_control takes the control whether or not there is a peer
SendControl ==
  /\ pending # NoControl
  /\ pending' = NoControl
  /\ net' = IF peer = NoPeer THEN net ELSE net \cup {ToRelay(pending, peer)}
  /\ UNCHANGED <<turn, revision, held, state_revision, tap, peer, session, samples,
                 next_chunk, recording, relay, inbox, awaiting, headless, scene>>

VoiceInputIsCurrent(c) ==
  /\ peer # NoPeer /\ session = 1 /\ ~tap
  /\ c.turn = turn /\ c.revision = state_revision

\* the recording a chunk is of, as far as the backend can tell
RecordingOf(c) == <<c.turn, c.revision>>

\* the wait for a recording ends when a chunk of it is lost
Missed(c) ==
  /\ awaiting' = (awaiting /\ ~(c.turn = turn /\ c.revision = state_revision))
  /\ headless' = IF c.index = 0 THEN headless \cup {RecordingOf(c)} ELSE headless

\* Mutant: any chunk is as good as the next one
IsNextChunk_Any(c) == TRUE

\* the first chunk of a recording starts the count anew
IsNextChunk(c) == c.index = 0 \/ c.index = next_chunk

With(c) == Append(IF c.index = 0 THEN <<>> ELSE samples, c)

\* the last chunk hands the recording over
Take(c) ==
  IF c.last THEN samples' = <<>> /\ next_chunk' = 0 /\ recording' = With(c)
            ELSE samples' = With(c) /\ next_chunk' = c.index + 1 /\ recording' = <<>>

ReceiveChunk ==
  /\ inbox # <<>>
  /\ inbox' = Tail(inbox)
  /\ LET c == Head(inbox) IN
       \/ /\ VoiceInputIsCurrent(c) /\ IsNextChunk(c)
          /\ Take(c)
          /\ awaiting' = (awaiting /\ ~c.last)
          /\ UNCHANGED headless
       \/ /\ ~VoiceInputIsCurrent(c)
          /\ Missed(c)
          /\ recording' = <<>> /\ UNCHANGED <<samples, next_chunk>>
       \/ /\ VoiceInputIsCurrent(c) /\ ~IsNextChunk(c)
          /\ recording' = <<>> /\ UNCHANGED <<samples, next_chunk, awaiting, headless>>
  /\ UNCHANGED <<turn, revision, held, state_revision, tap, pending, peer, session, relay,
                 net, scene>>

-----------------------------------------------------------------------------
(* The relay: one thread, which reads no datagram while it uploads.        *)

Chunk(id, rev, i, n) == [turn |-> id, revision |-> rev, index |-> i, last |-> i = n - 1]

\* send_input_audio: an empty recording is one empty chunk that completes it
Recording(id, rev, n) == [i \in 1..n |-> Chunk(id, rev, i - 1, n)]

\* Mutant: chunks carry the revision of the press
UploadRevision_Press(c) == IF c.control = "ReleasePtt" THEN relay.revision ELSE c.revision

UploadRevision(c) == c.revision

Obeyed(c) == [relay EXCEPT !.turn = c.turn, !.revision = c.revision]

\* handle_control: whatever the control, its turn and revision are the relay's now
HandleControl ==
  /\ relay.upload = <<>>
  /\ \E m \in net :
       /\ m.to = "relay" /\ m.port = relay.port
       /\ LET c == m.control IN
            \/ /\ c.session # 1
               /\ net' = net \ {m} /\ UNCHANGED relay
            \/ /\ c.session = 1 /\ c.control # "ReleasePtt"
               /\ relay' = [Obeyed(c) EXCEPT !.capturing = c.control = "StartPtt"]
               /\ net' = (net \ {m}) \cup {Status(relay.port)}
            \/ /\ c.session = 1 /\ c.control = "ReleasePtt"
               /\ \E n \in IF relay.capturing THEN {1, ChunkCount} ELSE {1} :
                    relay' = [Obeyed(c) EXCEPT !.capturing = FALSE,
                                !.upload = Recording(c.turn, UploadRevision(c), n)]
               /\ net' = net \ {m}
  /\ UNCHANGED <<backend, inbox, awaiting, headless, scene>>

\* a chunk is acknowledged when it was passed on, not when it was read: the
\* socket drops what does not fit
UploadChunk ==
  /\ relay.upload # <<>> /\ relay.connected
  /\ relay' = [relay EXCEPT !.upload = Tail(@)]
  /\ IF Len(inbox) < SocketBuffer
     THEN inbox' = Append(inbox, Head(relay.upload)) /\ UNCHANGED <<awaiting, headless>>
     ELSE Missed(Head(relay.upload)) /\ UNCHANGED inbox
  /\ UNCHANGED <<backend, net, scene>>

\* Over the connection to a backend that is gone every upload fails.  The relay
\* reports `failed' and keeps the connection (handle_control catches it all).
UploadFails ==
  /\ relay.upload # <<>> /\ ~relay.connected
  /\ relay' = [relay EXCEPT !.upload = <<>>]
  /\ net' = net \cup {Status(relay.port)}
  /\ awaiting' = FALSE
  /\ UNCHANGED <<backend, inbox, headless, scene>>

\* five seconds without a datagram: the relay announces itself again
AnnounceReady ==
  /\ relay.upload = <<>>
  /\ ~\E m \in net : m.to = "relay" /\ m.port = relay.port
  /\ net' = net \cup {Status(relay.port)}
  /\ UNCHANGED <<backend, relay, inbox, awaiting, headless, scene>>

-----------------------------------------------------------------------------
(* Faults                                                                  *)

Fault == Spend("faults")

LoseDatagram ==
  /\ Fault
  /\ \E m \in net :
       /\ net' = net \ {m}
       /\ awaiting' = (awaiting /\ m.to = "backend")
  /\ UNCHANGED <<backend, relay, inbox, headless>>

\* a device that fails on a start or a release is reported as `failed'
DeviceFails ==
  /\ Fault
  /\ relay.upload = <<>>
  /\ \E m \in net :
       /\ m.to = "relay" /\ m.port = relay.port
       /\ m.control.session = 1 /\ m.control.control # "Cancel"
       /\ relay' = Obeyed(m.control)
       /\ net' = (net \ {m}) \cup {Status(relay.port)}
       /\ awaiting' = (awaiting /\ m.control.control = "StartPtt")
  /\ UNCHANGED <<backend, inbox, headless>>

\* run_embedded: an exception outside handle_control builds a new relay with
\* new sockets
RelayFails ==
  /\ Fault
  /\ relay' = NewRelay(relay.port + 1)
  /\ net' = net \cup {Status(relay.port + 1)}
  /\ awaiting' = FALSE
  /\ UNCHANGED <<backend, inbox, headless>>

\* A new backend process.  A relay that sends nothing in between does not find
\* out, and keeps its port and the connection to the old one.
BackendRestarts ==
  /\ Fault
  /\ turn' = 0 /\ revision' = 0 /\ held' = FALSE /\ state_revision' = 0
  /\ tap' = FALSE /\ pending' = NoControl /\ peer' = NoPeer /\ session' = 0
  /\ samples' = <<>> /\ next_chunk' = 0 /\ recording' = <<>>
  /\ inbox' = <<>> /\ awaiting' = FALSE /\ headless' = {}
  /\ \/ relay' = [relay EXCEPT !.connected = FALSE] /\ UNCHANGED net
     \/ relay' = NewRelay(relay.port + 1) /\ net' = net \cup {Status(relay.port + 1)}

-----------------------------------------------------------------------------
Next ==
  \/ \E talking, tapped \in BOOLEAN : Edge(talking, tapped)
  \/ TapToggles \/ CancelTurn \/ ResetRun
  \/ ReceiveStatus \/ SendControl \/ ReceiveChunk
  \/ HandleControl \/ UploadChunk \/ UploadFails \/ AnnounceReady
  \/ LoseDatagram \/ DeviceFails \/ RelayFails \/ BackendRestarts

Spec == Init /\ [][Next]_vars

\* The voice loop and the relay run, datagrams that are not lost arrive
FairSpec ==
  /\ Spec
  /\ WF_vars(ReceiveStatus) /\ WF_vars(SendControl) /\ WF_vars(ReceiveChunk)
  /\ WF_vars(HandleControl) /\ WF_vars(UploadChunk) /\ WF_vars(UploadFails)
  /\ WF_vars(AnnounceReady)

-----------------------------------------------------------------------------
ControlMessage ==
  [control : Controls, session : {0, 1}, turn : Nat \ {0}, revision : Nat]
ChunkMessage == [turn : Nat \ {0}, revision : Nat, index : Nat, last : BOOLEAN]
Ports == Nat \ {0}

\* The types; a control and a chunk are always of a turn, never of turn 0
\* (update_voice_control clamps it)
TypeOK ==
  /\ scene \in SceneType
  /\ turn \in Nat /\ revision \in Nat /\ held \in BOOLEAN /\ state_revision \in Nat
  /\ tap \in BOOLEAN /\ pending \in ControlMessage \cup {NoControl}
  /\ peer \in Ports \cup {NoPeer} /\ session \in {0, 1}
  /\ samples \in Seq(ChunkMessage) /\ next_chunk \in Nat /\ recording \in Seq(ChunkMessage)
  /\ relay \in [port : Ports, turn : Nat \ {0}, revision : Nat, capturing : BOOLEAN,
                upload : Seq(ChunkMessage), connected : BOOLEAN]
  /\ \A m \in net : \/ m = Status(m.port) /\ m.port \in Ports
                    \/ m = ToRelay(m.control, m.port) /\ m.control \in ControlMessage
                       /\ m.port \in Ports
  /\ inbox \in Seq(ChunkMessage)
  /\ awaiting \in BOOLEAN /\ headless \in SUBSET (Nat \X Nat)

\* What is transcribed is one recording without a hole: chunks dropped by a full
\* socket, refused while a tap is heard or left over from another turn do not
\* get into it.  (Unless its first chunk was lost: then the voice loop goes on
\* from the turn before.)
RecordingsAreWhole ==
  \A i \in 1..Len(recording) :
    /\ recording[i].index = i - 1
    /\ recording[i].last = (i = Len(recording))
    /\ LET whole == RecordingOf(recording[Len(recording)]) IN
         whole \notin headless => RecordingOf(recording[i]) = whole

\* What the operator said is heard: after a release with a frontend at hand the
\* recording arrives whole, unless a chunk of it is lost on the way, the link
\* fails, or something else takes its place (the awaiting the actions end).
ReleasedTurnIsHeard == awaiting ~> ~awaiting

\* After a restart of the backend or a reset there is a voice session again
\* without anybody's help; only a frontend with a new port stays outside.
VoiceComesBack == session = 0 ~> session = 1 \/ peer \notin {NoPeer, relay.port}
=============================================================================
