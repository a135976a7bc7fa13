-------------------------- MODULE VoiceLinkProofs --------------------------
(***************************************************************************)
(* Types of the voice link, and why what is transcribed is one recording,  *)
(* for any number of presses, faults, chunks and places in the socket.     *)
(***************************************************************************)
EXTENDS VoiceLink, SequenceTheorems, TLAPS

RelayType ==
  [port : Ports, turn : Nat \ {0}, revision : Nat, capturing : BOOLEAN,
   upload : Seq(ChunkMessage), connected : BOOLEAN]
Datagram(m) ==
  \/ m = Status(m.port) /\ m.port \in Ports
  \/ m = ToRelay(m.control, m.port) /\ m.control \in ControlMessage /\ m.port \in Ports

(* TypeOK in parts *)
SnapshotTyped ==
  /\ scene \in SceneType
  /\ turn \in Nat /\ revision \in Nat /\ held \in BOOLEAN /\ state_revision \in Nat
  /\ tap \in BOOLEAN
LinkTyped ==
  /\ pending \in ControlMessage \cup {NoControl}
  /\ peer \in Ports \cup {NoPeer} /\ session \in {0, 1}
  /\ relay \in RelayType
  /\ \A m \in net : Datagram(m)
ChunksTyped ==
  /\ samples \in Seq(ChunkMessage) /\ next_chunk \in Nat /\ recording \in Seq(ChunkMessage)
  /\ inbox \in Seq(ChunkMessage)
  /\ awaiting \in BOOLEAN /\ headless \in SUBSET (Nat \X Nat)

LEMMA TypeParts == TypeOK <=> SnapshotTyped /\ LinkTyped /\ ChunksTyped
BY DEF TypeOK, SnapshotTyped, LinkTyped, ChunksTyped, RelayType, Datagram

LEMMA NothingTyped ==
  <<>> \in Seq(ChunkMessage) /\ {} \in SUBSET (Nat \X Nat) /\ FALSE \in BOOLEAN /\ 0 \in Nat
OBVIOUS

LEMMA SpendTyped ==
  ASSUME scene \in SceneType, NEW what \in {"presses", "taps", "cancels", "resets", "faults"},
         Spend(what)
  PROVE  scene' \in SceneType
BY DEF Spend, SceneType

LEMMA EdgeSpends ==
  ASSUME NEW s \in SceneType, NEW a \in Nat, NEW b \in Nat
  PROVE  [s EXCEPT !.presses = a, !.taps = b] \in SceneType
BY DEF SceneType

LEMMA PendTyped ==
  ASSUME NEW control \in Controls, NEW id \in {0, 1}, NEW rev \in Nat, turn' \in Nat,
         Pend(control, id, rev)
  PROVE  pending' \in ControlMessage
BY DEF Pend, ControlMessage

LEMMA NewRelayTyped == ASSUME NEW port \in Ports PROVE NewRelay(port) \in RelayType
BY DEF NewRelay, RelayType

LEMMA StatusTyped == ASSUME NEW port \in Ports PROVE Datagram(Status(port))
BY DEF Datagram, Status

LEMMA ToRelayTyped ==
  ASSUME NEW c \in ControlMessage, NEW port \in Ports PROVE Datagram(ToRelay(c, port))
BY DEF Datagram, ToRelay

LEMMA ControlInDatagram ==
  ASSUME NEW m, Datagram(m), m.to = "relay"
  PROVE  m.control \in ControlMessage
BY DEF Datagram, Status

LEMMA RecordingTyped ==
  ASSUME NEW id \in Nat \ {0}, NEW rev \in Nat, NEW n \in Nat \ {0}
  PROVE  /\ Recording(id, rev, n) \in Seq(ChunkMessage)
         /\ Len(Recording(id, rev, n)) = n
         /\ \A i \in 1..n : /\ Recording(id, rev, n)[i].index = i - 1
                            /\ RecordingOf(Recording(id, rev, n)[i]) = <<id, rev>>
<1>1. \A i \in 1..n : Chunk(id, rev, i - 1, n) \in ChunkMessage
  BY DEF Chunk, ChunkMessage
<1>2. Recording(id, rev, n) \in [1..n -> ChunkMessage]
  BY <1>1 DEF Recording
<1>3. Recording(id, rev, n) \in Seq(ChunkMessage) /\ Len(Recording(id, rev, n)) = n
  BY <1>2
<1>4. \A i \in 1..n : Recording(id, rev, n)[i] = Chunk(id, rev, i - 1, n)
  BY DEF Recording
<1> QED  BY <1>3, <1>4 DEF Chunk, RecordingOf

-----------------------------------------------------------------------------
(* Types *)

LEMMA SnapshotsTyped ==
  ASSUME TypeOK,
         \/ \E talking, tapped \in BOOLEAN : Edge(talking, tapped)
         \/ TapToggles \/ CancelTurn \/ ResetRun
  PROVE  TypeOK'
<1>0. SnapshotTyped /\ LinkTyped /\ ChunksTyped
  BY TypeParts
<1>1. ASSUME NEW talking \in BOOLEAN, NEW tapped \in BOOLEAN, Edge(talking, tapped)
      PROVE  TypeOK'
  <2>1. scene' \in SceneType
    <3>1. scene' = [scene EXCEPT !.presses = IF talking THEN @ - 1 ELSE @,
                                 !.taps = IF tapped # tap THEN @ - 1 ELSE @]
      BY <1>1 DEF Edge
    <3>2. /\ talking => scene.presses - 1 \in Nat
          /\ tapped # tap => scene.taps - 1 \in Nat
          /\ scene.presses \in Nat /\ scene.taps \in Nat
      <4>1. (talking => scene.presses > 0) /\ (tapped # tap => scene.taps > 0)
        BY <1>1 DEF Edge
      <4>2. scene.presses \in Nat /\ scene.taps \in Nat
        BY <1>0 DEF SceneType, SnapshotTyped
      <4> QED  BY <4>1, <4>2
    <3>3. CASE talking /\ tapped # tap
      <4>1. scene' = [scene EXCEPT !.presses = scene.presses - 1, !.taps = scene.taps - 1]
        BY <3>1, <3>3
      <4> QED  BY <1>0, <3>2, <3>3, <4>1, EdgeSpends DEF SnapshotTyped
    <3>4. CASE talking /\ ~(tapped # tap)
      <4>1. scene' = [scene EXCEPT !.presses = scene.presses - 1, !.taps = scene.taps]
        BY <3>1, <3>4
      <4> QED  BY <1>0, <3>2, <3>4, <4>1, EdgeSpends DEF SnapshotTyped
    <3>5. CASE ~talking /\ tapped # tap
      <4>1. scene' = [scene EXCEPT !.presses = scene.presses, !.taps = scene.taps - 1]
        BY <3>1, <3>5
      <4> QED  BY <1>0, <3>2, <3>5, <4>1, EdgeSpends DEF SnapshotTyped
    <3>6. CASE ~talking /\ ~(tapped # tap)
      <4>1. scene' = [scene EXCEPT !.presses = scene.presses, !.taps = scene.taps]
        BY <3>1, <3>6
      <4> QED  BY <1>0, <3>2, <3>6, <4>1, EdgeSpends DEF SnapshotTyped
    <3> QED  BY <3>3, <3>4, <3>5, <3>6
  <2>2. /\ turn' \in Nat /\ revision' \in Nat /\ held' \in BOOLEAN /\ state_revision' \in Nat
        /\ tap' \in BOOLEAN /\ awaiting' \in BOOLEAN
    <3>0. held' = talking /\ tap' = tapped
      BY <1>1 DEF Edge
    <3>1. CASE talking /\ tapped
      BY <1>0, <1>1, <3>0, <3>1 DEF Edge, SnapshotTyped, ChunksTyped
    <3>2. CASE ~(talking /\ tapped)
      <4>1. turn' \in {turn, turn + 1} /\ revision' = revision + 1 /\ state_revision' = revision + 1
        BY <1>1, <3>2 DEF Edge
      <4>2. awaiting' \in BOOLEAN
        BY <1>1, <3>2 DEF Edge
      <4> QED  BY <1>0, <3>0, <4>1, <4>2 DEF SnapshotTyped
    <3> QED  BY <3>1, <3>2
  <2>3. pending' \in ControlMessage \cup {NoControl}
    <3>1. CASE UNCHANGED pending
      BY <1>0, <3>1 DEF LinkTyped
    <3>2. CASE Pend(IF talking THEN "StartPtt" ELSE "ReleasePtt", 1, revision')
      BY <2>2, <3>2, PendTyped DEF Controls
    <3> QED  BY <1>1, <3>1, <3>2 DEF Edge
  <2> QED  BY <1>0, <1>1, <2>1, <2>2, <2>3
           DEF Edge, TypeOK, SnapshotTyped, LinkTyped, ChunksTyped, RelayType, Datagram
<1>2. CASE TapToggles
  BY <1>0, <1>2, SpendTyped
  DEF TapToggles, TypeOK, SnapshotTyped, LinkTyped, ChunksTyped, RelayType, Datagram
<1>3. CASE CancelTurn
  <2>1. pending' \in ControlMessage
    BY <1>0, <1>3, PendTyped DEF CancelTurn, Controls, SnapshotTyped, LinkTyped
  <2> QED  BY <1>0, <1>3, <2>1, SpendTyped
           DEF CancelTurn, TypeOK, SnapshotTyped, LinkTyped, ChunksTyped, RelayType, Datagram
<1>4. CASE ResetRun
  BY <1>0, <1>4, SpendTyped
  DEF ResetRun, TypeOK, SnapshotTyped, LinkTyped, ChunksTyped, RelayType, Datagram
<1> QED  BY <1>1, <1>2, <1>3, <1>4

LEMMA MissedTyped ==
  ASSUME ChunksTyped, NEW c \in ChunkMessage, Missed(c)
  PROVE  awaiting' \in BOOLEAN /\ headless' \in SUBSET (Nat \X Nat)
BY DEF ChunksTyped, ChunkMessage, Missed, RecordingOf

LEMMA TakeTyped ==
  ASSUME ChunksTyped, NEW c \in ChunkMessage, Take(c)
  PROVE  samples' \in Seq(ChunkMessage) /\ next_chunk' \in Nat /\ recording' \in Seq(ChunkMessage)
<1>1. With(c) \in Seq(ChunkMessage)
  BY DEF With, ChunksTyped
<1>2. c.index + 1 \in Nat
  BY DEF ChunkMessage
<1>3. CASE c.last
  <2>1. samples' = <<>> /\ next_chunk' = 0 /\ recording' = With(c)
    BY <1>3 DEF Take
  <2> QED  BY <1>1, <2>1
<1>4. CASE ~c.last
  <2>1. samples' = With(c) /\ next_chunk' = c.index + 1 /\ recording' = <<>>
    BY <1>4 DEF Take
  <2> QED  BY <1>1, <1>2, <2>1
<1> QED  BY <1>3, <1>4

LEMMA LoopTyped ==
  ASSUME TypeOK, ReceiveStatus \/ SendControl \/ ReceiveChunk
  PROVE  TypeOK'
<1>0. SnapshotTyped /\ LinkTyped /\ ChunksTyped
  BY TypeParts
<1>1. CASE ReceiveStatus
  <2>1. PICK m \in net : SetVoicePeer(m.port) /\ m.to = "backend" /\ net' = net \ {m}
    BY <1>1 DEF ReceiveStatus
  <2>2. m.port \in Ports
    BY <1>0, <2>1 DEF LinkTyped, Datagram
  <2>3. peer' \in Ports \cup {NoPeer} /\ session' \in {0, 1}
    BY <1>0, <2>1, <2>2 DEF SetVoicePeer, LinkTyped
  <2>4. LinkTyped'
    BY <1>0, <1>1, <2>1, <2>3 DEF ReceiveStatus, LinkTyped, Datagram
  <2> QED  BY <1>0, <1>1, <2>4
           DEF ReceiveStatus, TypeOK, SnapshotTyped, LinkTyped, ChunksTyped, RelayType, Datagram
<1>2. CASE SendControl
  <2>1. \A m \in net' : Datagram(m)
    BY <1>0, <1>2, ToRelayTyped DEF SendControl, LinkTyped
  <2>2. LinkTyped'
    BY <1>0, <1>2, <2>1 DEF SendControl, LinkTyped, Datagram
  <2> QED  BY <1>0, <1>2, <2>2
           DEF SendControl, TypeOK, SnapshotTyped, LinkTyped, ChunksTyped, RelayType, Datagram
<1>3. CASE ReceiveChunk
  <2> DEFINE c == Head(inbox)
  <2>1. c \in ChunkMessage /\ inbox' \in Seq(ChunkMessage)
    BY <1>0, <1>3 DEF ReceiveChunk, ChunksTyped
  <2>3. c.last \in BOOLEAN
    BY <2>1 DEF ChunkMessage
  <2>4. samples' \in Seq(ChunkMessage) /\ next_chunk' \in Nat /\ recording' \in Seq(ChunkMessage)
    <3>1. CASE Take(c)
      BY <1>0, <2>1, <3>1, TakeTyped
    <3>2. CASE recording' = <<>> /\ UNCHANGED <<samples, next_chunk>>
      BY <1>0, <3>2 DEF ChunksTyped
    <3> QED  BY <1>3, <3>1, <3>2 DEF ReceiveChunk
  <2>5. awaiting' \in BOOLEAN /\ headless' \in SUBSET (Nat \X Nat)
    BY <1>0, <1>3, <2>1, <2>3, MissedTyped DEF ReceiveChunk, ChunksTyped
  <2> QED  BY <1>0, <1>3, <2>1, <2>4, <2>5
           DEF ReceiveChunk, TypeOK, SnapshotTyped, LinkTyped, ChunksTyped, RelayType, Datagram
<1> QED  BY <1>1, <1>2, <1>3

LEMMA ObeyedTyped ==
  ASSUME relay \in RelayType, NEW c \in ControlMessage
  PROVE  Obeyed(c) \in RelayType
BY DEF Obeyed, RelayType, ControlMessage

LEMMA CaptureTyped ==
  ASSUME NEW r \in RelayType, NEW capturing \in BOOLEAN
  PROVE  [r EXCEPT !.capturing = capturing] \in RelayType
BY DEF RelayType

LEMMA ReleaseTyped ==
  ASSUME NEW r \in RelayType, NEW upload \in Seq(ChunkMessage)
  PROVE  [r EXCEPT !.capturing = FALSE, !.upload = upload] \in RelayType
BY DEF RelayType

LEMMA UploadTyped ==
  ASSUME relay \in RelayType, NEW upload \in Seq(ChunkMessage)
  PROVE  [relay EXCEPT !.upload = upload] \in RelayType
BY DEF RelayType

LEMMA DisconnectTyped ==
  ASSUME relay \in RelayType
  PROVE  [relay EXCEPT !.connected = FALSE] \in RelayType
BY DEF RelayType

LEMMA RelayStepsTyped ==
  ASSUME TypeOK, HandleControl \/ UploadChunk \/ UploadFails \/ AnnounceReady
  PROVE  TypeOK'
<1>0. SnapshotTyped /\ LinkTyped /\ ChunksTyped
  BY TypeParts
<1>r. relay \in RelayType /\ relay.port \in Ports
  BY <1>0 DEF LinkTyped, RelayType
<1>s. Datagram(Status(relay.port))
  BY <1>r, StatusTyped
<1>1. CASE HandleControl
  <2>1. PICK m \in net :
          /\ m.to = "relay" /\ m.port = relay.port
          /\ LET c == m.control IN
               \/ /\ c.session # 1
                  /\ net' = net \ {m} /\ UNCHANGED relay
               \/ /\ c.session = 1 /\ c.control # "ReleasePtt"
                  /\ relay' = [Obeyed(c) EXCEPT !.capturing = c.control = "StartPtt"]
                  /\ net' = (net \ {m}) \cup {Status(relay.port)}
               \/ /\ c.session = 1 /\ c.control = "ReleasePtt"
                  /\ \E n \in IF relay.capturing THEN {1, ChunkCount} ELSE {1} :
                       relay' = [Obeyed(c) EXCEPT !.capturing = FALSE,
                                   !.upload = Recording(c.turn, UploadRevision(c), n)]
                  /\ net' = net \ {m}
    BY <1>1 DEF HandleControl
  <2> DEFINE c == m.control
  <2>2. c \in ControlMessage
    BY <1>0, <2>1, ControlInDatagram DEF LinkTyped
  <2>3. \A d \in net' : Datagram(d)
    BY <1>0, <1>s, <2>1 DEF LinkTyped
  <2>4. relay' \in RelayType
    <3>1. CASE UNCHANGED relay
      BY <1>r, <3>1
    <3>2. CASE relay' = [Obeyed(c) EXCEPT !.capturing = c.control = "StartPtt"]
      <4>1. Obeyed(c) \in RelayType
        BY <1>r, <2>2, ObeyedTyped
      <4> DEFINE o == Obeyed(c)
      <4> HIDE DEF o
      <4>2. o \in RelayType
        BY <4>1 DEF o
      <4>3. relay' = [o EXCEPT !.capturing = c.control = "StartPtt"]
        BY <3>2 DEF o
      <4> QED  BY <4>2, <4>3 DEF RelayType
    <3>3. ASSUME NEW n \in IF relay.capturing THEN {1, ChunkCount} ELSE {1},
                 relay' = [Obeyed(c) EXCEPT !.capturing = FALSE,
                             !.upload = Recording(c.turn, UploadRevision(c), n)]
          PROVE  relay' \in RelayType
      <4>1. n \in Nat \ {0}
        BY BoundsAssumption
      <4>2. Recording(c.turn, UploadRevision(c), n) \in Seq(ChunkMessage)
        BY <2>2, <4>1, RecordingTyped DEF ControlMessage, UploadRevision
      <4>3. Obeyed(c) \in RelayType
        BY <1>r, <2>2, ObeyedTyped
      <4> QED  BY <3>3, <4>2, <4>3, ReleaseTyped
    <3> QED  BY <2>1, <3>1, <3>2, <3>3
  <2>5. LinkTyped'
    BY <1>0, <1>1, <2>3, <2>4 DEF HandleControl, backend, LinkTyped, Datagram
  <2> QED  BY <1>0, <1>1, <2>5
           DEF HandleControl, backend, TypeOK, SnapshotTyped, LinkTyped, ChunksTyped,
               RelayType, Datagram
<1>2. CASE UploadChunk
  <2> DEFINE c == Head(relay.upload)
  <2>1. /\ c \in ChunkMessage /\ Tail(relay.upload) \in Seq(ChunkMessage)
    BY <1>r, <1>2 DEF UploadChunk, RelayType
  <2>2. relay' = [relay EXCEPT !.upload = Tail(relay.upload)]
    BY <1>2 DEF UploadChunk
  <2>3. relay' \in RelayType
    BY <1>r, <2>1, <2>2, UploadTyped
  <2>4. inbox' \in Seq(ChunkMessage) /\ awaiting' \in BOOLEAN /\ headless' \in SUBSET (Nat \X Nat)
    <3>1. CASE inbox' = Append(inbox, c) /\ UNCHANGED <<awaiting, headless>>
      BY <1>0, <2>1, <3>1 DEF ChunksTyped
    <3>2. CASE Missed(c) /\ UNCHANGED inbox
      <4> HIDE DEF c
      <4> QED  BY <1>0, <2>1, <3>2, MissedTyped DEF ChunksTyped
    <3> QED  BY <1>2, <3>1, <3>2 DEF UploadChunk
  <2> QED  BY <1>0, <1>2, <2>3, <2>4
           DEF UploadChunk, backend, TypeOK, SnapshotTyped, LinkTyped, ChunksTyped,
               RelayType, Datagram
<1>3. CASE UploadFails
  <2>1. relay' = [relay EXCEPT !.upload = <<>>]
    BY <1>3 DEF UploadFails
  <2>3. <<>> \in Seq(ChunkMessage)
    OBVIOUS
  <2>4. relay' \in RelayType
    BY <1>r, <2>1, <2>3, UploadTyped
  <2>2. LinkTyped'
    BY <1>0, <1>s, <1>3, <2>4 DEF UploadFails, backend, LinkTyped, Datagram
  <2> QED  BY <1>0, <1>3, <2>2
           DEF UploadFails, backend, TypeOK, SnapshotTyped, LinkTyped, ChunksTyped,
               RelayType, Datagram
<1>4. CASE AnnounceReady
  <2>1. LinkTyped'
    BY <1>0, <1>s, <1>4 DEF AnnounceReady, backend, LinkTyped, Datagram
  <2> QED  BY <1>0, <1>4, <2>1
           DEF AnnounceReady, backend, TypeOK, SnapshotTyped, LinkTyped, ChunksTyped,
               RelayType, Datagram
<1> QED  BY <1>1, <1>2, <1>3, <1>4

LEMMA FaultsTyped ==
  ASSUME TypeOK, LoseDatagram \/ DeviceFails \/ RelayFails \/ BackendRestarts
  PROVE  TypeOK'
<1>0. SnapshotTyped /\ LinkTyped /\ ChunksTyped
  BY TypeParts
<1>r. relay \in RelayType /\ relay.port \in Ports /\ relay.port + 1 \in Ports
  BY <1>0 DEF LinkTyped, RelayType, Ports
<1>f. scene' \in SceneType
  BY <1>0, SpendTyped DEF LoseDatagram, DeviceFails, RelayFails, BackendRestarts, Fault,
                          SnapshotTyped
<1>s. Datagram(Status(relay.port)) /\ Datagram(Status(relay.port + 1))
  BY <1>r, StatusTyped
<1>n. NewRelay(relay.port + 1) \in RelayType
  BY <1>r, NewRelayTyped
<1>1. CASE LoseDatagram
  <2>1. awaiting' \in BOOLEAN /\ net' \subseteq net
    BY <1>0, <1>1 DEF LoseDatagram, ChunksTyped
  <2>2. LinkTyped'
    BY <1>0, <1>1, <2>1 DEF LoseDatagram, backend, LinkTyped, Datagram
  <2> QED  BY <1>0, <1>f, <1>1, <2>1, <2>2
           DEF LoseDatagram, backend, TypeOK, SnapshotTyped, LinkTyped, ChunksTyped,
               RelayType, Datagram
<1>2. CASE DeviceFails
  <2>1. PICK m \in net : /\ m.to = "relay" /\ relay' = Obeyed(m.control)
                         /\ net' = (net \ {m}) \cup {Status(relay.port)}
    BY <1>2 DEF DeviceFails
  <2>2. m.control \in ControlMessage
    BY <1>0, <2>1, ControlInDatagram DEF LinkTyped
  <2>3. relay' \in RelayType
    BY <1>r, <2>1, <2>2, ObeyedTyped
  <2>4. \A d \in net' : Datagram(d)
    BY <1>0, <1>s, <2>1 DEF LinkTyped
  <2>5. LinkTyped'
    BY <1>0, <1>2, <2>3, <2>4 DEF DeviceFails, backend, LinkTyped, Datagram
  <2>6. awaiting' \in BOOLEAN
    BY <1>0, <1>2 DEF DeviceFails, ChunksTyped
  <2> QED  BY <1>0, <1>f, <1>2, <2>5, <2>6
           DEF DeviceFails, backend, TypeOK, SnapshotTyped, LinkTyped, ChunksTyped,
               RelayType, Datagram
<1>3. CASE RelayFails
  <2>1. LinkTyped'
    BY <1>0, <1>s, <1>n, <1>3 DEF RelayFails, backend, LinkTyped, Datagram
  <2> QED  BY <1>0, <1>f, <1>3, <2>1
           DEF RelayFails, backend, TypeOK, SnapshotTyped, LinkTyped, ChunksTyped,
               RelayType, Datagram
<1>4. CASE BackendRestarts
  <2>1. relay' \in RelayType
    BY <1>r, <1>n, <1>4, DisconnectTyped DEF BackendRestarts
  <2>2. \A d \in net' : Datagram(d)
    BY <1>0, <1>s, <1>4 DEF BackendRestarts, LinkTyped
  <2>3. /\ pending' = NoControl /\ peer' = NoPeer /\ session' = 0
        /\ turn' = 0 /\ revision' = 0 /\ held' = FALSE /\ state_revision' = 0 /\ tap' = FALSE
        /\ samples' = <<>> /\ next_chunk' = 0 /\ recording' = <<>> /\ inbox' = <<>>
        /\ awaiting' = FALSE /\ headless' = {}
    BY <1>4 DEF BackendRestarts
  <2>4. ChunksTyped'
    BY <2>3, NothingTyped DEF ChunksTyped
  <2>5. LinkTyped'
    BY <2>1, <2>2, <2>3 DEF LinkTyped, Datagram
  <2>6. SnapshotTyped'
    BY <1>f, <2>3 DEF SnapshotTyped
  <2> QED  BY <2>4, <2>5, <2>6
           DEF TypeOK, SnapshotTyped, LinkTyped, ChunksTyped, RelayType, Datagram
<1> QED  BY <1>1, <1>2, <1>3, <1>4

LEMMA TypeInit == Init => TypeOK
<1> SUFFICES ASSUME Init PROVE TypeOK
  OBVIOUS
<1>1. scene \in SceneType
  BY BoundsAssumption DEF Init
<1>2. Datagram(Status(1)) /\ NewRelay(1) \in RelayType
  BY StatusTyped, NewRelayTyped DEF Ports
<1>3. SnapshotTyped
  BY <1>1 DEF Init, SnapshotTyped
<1>4. LinkTyped
  BY <1>2 DEF Init, LinkTyped
<1>5. ChunksTyped
  <2>1. /\ samples = <<>> /\ next_chunk = 0 /\ recording = <<>> /\ inbox = <<>>
        /\ awaiting = FALSE /\ headless = {}
    BY DEF Init
  <2> QED  BY <2>1, NothingTyped DEF ChunksTyped
<1> QED  BY <1>3, <1>4, <1>5, TypeParts

LEMMA TypeNext == TypeOK /\ [Next]_vars => TypeOK'
<1>1. ASSUME TypeOK, Next PROVE TypeOK'
  BY <1>1, SnapshotsTyped, LoopTyped, RelayStepsTyped, FaultsTyped DEF Next
<1>2. ASSUME TypeOK, UNCHANGED vars PROVE TypeOK'
  BY <1>2 DEF TypeOK, vars, backend
<1> QED  BY <1>1, <1>2

(* Whatever is pressed, lost and restarted, controls and chunks are of a   *)
(* turn (update_voice_control clamps its id) and all state has its type.   *)
THEOREM TypeCorrect == Spec => []TypeOK
BY TypeInit, TypeNext, PTL DEF Spec

-----------------------------------------------------------------------------
(* Recordings are whole *)

(* d may be read after c: it starts a recording, goes on with c's, or is   *)
(* of one whose first chunk was lost *)
Continues(c, d) ==
  d.index # 0 /\ RecordingOf(d) \notin headless => RecordingOf(d) = RecordingOf(c)
ContinuesBuffer(d) == \A i \in 1..Len(samples) : Continues(samples[i], d)

BufferIsPrefix ==
  /\ Len(samples) = next_chunk
  /\ \A i \in 1..Len(samples) : samples[i].index = i - 1 /\ samples[i].last = FALSE
UploadIsRecording ==
  \A i \in 1..Len(relay.upload) :
    /\ RecordingOf(relay.upload[i]) = RecordingOf(relay.upload[1])
    /\ i > 1 => relay.upload[i].index # 0
SocketIsInOrder ==
  /\ \A i \in 1..(Len(inbox) - 1) : Continues(inbox[i], inbox[i + 1])
  /\ inbox # <<>> => ContinuesBuffer(inbox[1])
UploadGoesOn ==
  relay.connected /\ relay.upload # <<>> =>
    IF inbox = <<>> THEN ContinuesBuffer(relay.upload[1])
                    ELSE Continues(inbox[Len(inbox)], relay.upload[1])

(* From the relay's upload through the socket to the voice loop's buffer   *)
(* chunks keep their order, and a gap is either in front of a recording,   *)
(* which is remembered, or is seen by the count.                           *)
WholeInv ==
  /\ BufferIsPrefix /\ UploadIsRecording /\ SocketIsInOrder /\ UploadGoesOn
  /\ RecordingsAreWhole

queues == <<samples, next_chunk, recording, inbox, headless>>

(* What the other steps do to an upload *)
NewUpload ==
  /\ relay.upload = <<>>
  /\ \E id \in Nat \ {0}, rev \in Nat, n \in Nat \ {0} :
       relay'.upload = Recording(id, rev, n)
  /\ UNCHANGED queues
OldUpload ==
  /\ UNCHANGED queues
  /\ relay'.upload = <<>> \/ UNCHANGED <<relay.upload, relay.connected>>
AllIsGone ==
  /\ samples' = <<>> /\ next_chunk' = 0 /\ recording' = <<>> /\ inbox' = <<>>
  /\ relay'.upload = <<>> \/ (UNCHANGED relay.upload /\ relay'.connected = FALSE)

LEMMA StepsOfTheQueues ==
  ASSUME TypeOK, [Next]_vars
  PROVE  OldUpload \/ NewUpload \/ ReceiveChunk \/ UploadChunk \/ AllIsGone
<1>r. relay \in RelayType /\ LinkTyped
  BY TypeParts DEF LinkTyped
<1>1. CASE UNCHANGED vars
  BY <1>1 DEF vars, backend, OldUpload, queues
<1>2. CASE \E talking, tapped \in BOOLEAN : Edge(talking, tapped)
  BY <1>2 DEF Edge, OldUpload, queues
<1>3. CASE TapToggles \/ CancelTurn \/ ResetRun \/ ReceiveStatus \/ SendControl
  BY <1>3 DEF TapToggles, CancelTurn, ResetRun, ReceiveStatus, SendControl, OldUpload, queues
<1>4. CASE AnnounceReady \/ LoseDatagram
  BY <1>4 DEF AnnounceReady, LoseDatagram, backend, OldUpload, queues
<1>5. CASE UploadFails
  BY <1>r, <1>5 DEF UploadFails, backend, OldUpload, queues, RelayType
<1>6. CASE DeviceFails
  BY <1>r, <1>6 DEF DeviceFails, Obeyed, backend, OldUpload, queues, RelayType
<1>7. CASE RelayFails
  BY <1>7 DEF RelayFails, NewRelay, backend, OldUpload, queues
<1>8. CASE BackendRestarts
  BY <1>r, <1>8 DEF BackendRestarts, NewRelay, AllIsGone, RelayType
<1>9. CASE HandleControl
  <2>0. UNCHANGED queues /\ relay.upload = <<>>
    BY <1>9 DEF HandleControl, backend, queues
  <2>1. PICK m \in net :
          /\ m.to = "relay" /\ m.port = relay.port
          /\ \/ UNCHANGED relay
             \/ relay' = [Obeyed(m.control) EXCEPT
                            !.capturing = m.control.control = "StartPtt"]
             \/ \E n \in IF relay.capturing THEN {1, ChunkCount} ELSE {1} :
                  relay' = [Obeyed(m.control) EXCEPT !.capturing = FALSE,
                     !.upload = Recording(m.control.turn, UploadRevision(m.control), n)]
    BY <1>9 DEF HandleControl
  <2>2. m.control \in ControlMessage
    BY <1>r, <2>1, ControlInDatagram DEF LinkTyped
  <2>3. Obeyed(m.control) \in RelayType /\ Obeyed(m.control).upload = relay.upload
        /\ Obeyed(m.control).connected = relay.connected
    BY <1>r, <2>2, ObeyedTyped DEF Obeyed, RelayType
  <2>4. CASE UNCHANGED relay
    BY <2>0, <2>4 DEF OldUpload
  <2>5. CASE relay' = [Obeyed(m.control) EXCEPT !.capturing = m.control.control = "StartPtt"]
    <3>1. relay'.upload = <<>>
      BY <2>0, <2>3, <2>5 DEF RelayType
    <3> QED  BY <2>0, <3>1 DEF OldUpload
  <2>6. ASSUME NEW n \in IF relay.capturing THEN {1, ChunkCount} ELSE {1},
               relay' = [Obeyed(m.control) EXCEPT !.capturing = FALSE,
                  !.upload = Recording(m.control.turn, UploadRevision(m.control), n)]
        PROVE  NewUpload
    <3>1. n \in Nat \ {0} /\ m.control.turn \in Nat \ {0} /\ UploadRevision(m.control) \in Nat
      BY <2>2, BoundsAssumption DEF ControlMessage, UploadRevision
    <3>2. relay'.upload = Recording(m.control.turn, UploadRevision(m.control), n)
      BY <2>3, <2>6 DEF RelayType
    <3> QED  BY <2>0, <3>1, <3>2 DEF NewUpload
  <2> QED  BY <2>1, <2>4, <2>5, <2>6
<1> QED  BY <1>1, <1>2, <1>3, <1>4, <1>5, <1>6, <1>7, <1>8, <1>9 DEF Next

LEMMA WholeInit == Init => WholeInv
BY DEF Init, NewRelay, WholeInv, BufferIsPrefix, UploadIsRecording, SocketIsInOrder,
       UploadGoesOn, RecordingsAreWhole

LEMMA OldUploadWhole ==
  ASSUME TypeOK, WholeInv, OldUpload
  PROVE  WholeInv'
BY DEF OldUpload, queues, WholeInv, BufferIsPrefix, UploadIsRecording, SocketIsInOrder,
       UploadGoesOn, ContinuesBuffer, Continues, RecordingsAreWhole

LEMMA NewUploadWhole ==
  ASSUME TypeOK, WholeInv, NewUpload
  PROVE  WholeInv'
<1>1. PICK id \in Nat \ {0}, rev \in Nat, n \in Nat \ {0} :
        relay'.upload = Recording(id, rev, n)
  BY DEF NewUpload
<1>2. /\ Len(relay'.upload) = n
      /\ \A i \in 1..n : /\ relay'.upload[i].index = i - 1
                         /\ RecordingOf(relay'.upload[i]) = <<id, rev>>
  BY <1>1, RecordingTyped
<1>3. UploadIsRecording'
  <2>1. \A i \in 1..n : RecordingOf(relay'.upload[i]) = RecordingOf(relay'.upload[1])
                        /\ (i > 1 => relay'.upload[i].index # 0)
    BY <1>2
  <2> QED  BY <1>2, <2>1 DEF UploadIsRecording, RecordingOf
<1>4. UploadGoesOn'
  <2>1. relay'.upload[1].index = 0
    BY <1>2
  <2> QED  BY <2>1 DEF UploadGoesOn, ContinuesBuffer, Continues
<1> QED  BY <1>3, <1>4
         DEF NewUpload, queues, WholeInv, BufferIsPrefix, SocketIsInOrder,
             ContinuesBuffer, Continues, RecordingsAreWhole

LEMMA AllIsGoneWhole ==
  ASSUME TypeOK, WholeInv, AllIsGone
  PROVE  WholeInv'
BY DEF AllIsGone, WholeInv, BufferIsPrefix, UploadIsRecording, SocketIsInOrder,
       UploadGoesOn, ContinuesBuffer, Continues, RecordingsAreWhole

(* A recording that was remembered stays remembered. *)
LEMMA MoreLosses ==
  ASSUME headless \subseteq headless', NEW c, NEW d, Continues(c, d)
  PROVE  Continues(c, d)'
BY DEF Continues, RecordingOf

LEMMA MissedRemembers ==
  ASSUME NEW c, Missed(c)
  PROVE  headless \subseteq headless' /\ (c.index = 0 => RecordingOf(c) \in headless')
BY DEF Missed

(* After c the queue may go on with what came behind c: c itself went on   *)
(* with the same recording, or c was its first chunk and is remembered.    *)
LEMMA GapIsSeen ==
  ASSUME headless \subseteq headless', NEW b, NEW c, NEW d,
         Continues(b, c), Continues(c, d),
         c.index = 0 => RecordingOf(c) \in headless'
  PROVE  (d.index # 0 /\ RecordingOf(d) \notin headless') => RecordingOf(d) = RecordingOf(b)
BY DEF Continues

LEMMA HeadTyped ==
  ASSUME NEW S, NEW q \in Seq(S), q # <<>>
  PROVE  Head(q) \in S
OBVIOUS

LEMMA TailFacts ==
  ASSUME NEW S, NEW q \in Seq(S), q # <<>>
  PROVE  LET rest == Tail(q) IN
           /\ Head(q) = q[1] /\ Head(q) \in S
           /\ \A i \in 1..Len(rest) : rest[i] = q[i + 1] /\ i + 1 \in 2..Len(q)
           /\ Len(rest) = Len(q) - 1 /\ Len(q) \in Nat \ {0}
           /\ rest = <<>> <=> Len(q) = 1
<1>1. Len(q) \in Nat \ {0} /\ Len(Tail(q)) = Len(q) - 1
  OBVIOUS
<1>2. Head(q) = q[1] /\ Head(q) \in S
  OBVIOUS
<1>3. \A i \in 1..Len(Tail(q)) : Tail(q)[i] = q[i + 1] /\ i + 1 \in 2..Len(q)
  BY <1>1
<1>4. Tail(q) = <<>> <=> Len(q) = 1
  <2>1. Tail(q) \in Seq(S)
    OBVIOUS
  <2>2. Tail(q) = <<>> => Len(q) = 1
    <3> SUFFICES ASSUME Tail(q) = <<>> PROVE Len(Tail(q)) = 0
      BY <1>1
    <3>1. Len(<<>>) = 0
      OBVIOUS
    <3> QED  BY <3>1
  <2>3. Tail(q) # <<>> => Len(Tail(q)) # 0
    BY <2>1, EmptySeq
  <2> QED  BY <1>1, <2>2, <2>3
<1> QED  BY <1>1, <1>2, <1>3, <1>4

LEMMA AppendLast ==
  ASSUME NEW S, NEW q \in Seq(S), NEW e \in S
  PROVE  LET longer == Append(q, e) IN
           /\ Len(longer) = Len(q) + 1 /\ longer[Len(longer)] = e /\ longer # <<>>
           /\ \A i \in 1..Len(q) : longer[i] = q[i]
OBVIOUS

LEMMA UploadChunkWhole ==
  ASSUME TypeOK, WholeInv, UploadChunk
  PROVE  WholeInv'
<1> DEFINE up == relay.upload
           c == Head(up)
<1>0. /\ up \in Seq(ChunkMessage) /\ up # <<>> /\ relay.connected
      /\ inbox \in Seq(ChunkMessage) /\ samples \in Seq(ChunkMessage)
      /\ recording \in Seq(ChunkMessage)
  BY TypeParts DEF UploadChunk, LinkTyped, RelayType, ChunksTyped
<1>1. relay'.upload = Tail(up) /\ relay'.connected = relay.connected
      /\ UNCHANGED <<samples, next_chunk, recording>>
  BY TypeParts DEF UploadChunk, LinkTyped, RelayType, backend
<1>2. /\ \A i \in 1..Len(Tail(up)) : Tail(up)[i] = up[i + 1] /\ i + 1 \in 1..Len(up)
      /\ c = up[1] /\ 1 \in 1..Len(up)
  BY <1>0
<1>3. headless \subseteq headless'
  BY MissedRemembers DEF UploadChunk
<1>u. UploadIsRecording'
  BY <1>1, <1>2 DEF WholeInv, UploadIsRecording, RecordingOf
<1>4. \A i \in 1..Len(Tail(up)) : Continues(c, Tail(up)[i])
  BY <1>2 DEF WholeInv, UploadIsRecording, Continues
<1>w. RecordingsAreWhole'
  BY <1>1, <1>3 DEF WholeInv, RecordingsAreWhole, RecordingOf
<1>b. BufferIsPrefix'
  BY <1>1 DEF WholeInv, BufferIsPrefix
<1>5. CASE inbox' = Append(inbox, c) /\ UNCHANGED headless
  <2>1. /\ Len(inbox') = Len(inbox) + 1 /\ inbox'[Len(inbox')] = c /\ inbox' # <<>>
        /\ \A i \in 1..Len(inbox) : inbox'[i] = inbox[i]
    <3>1. c \in ChunkMessage
      BY <1>0, <1>2, HeadTyped
    <3> HIDE DEF c
    <3>2. inbox' = Append(inbox, c)
      BY <1>5
    <3> QED  BY <1>0, <3>1, <3>2, AppendLast
  <2>2. UploadGoesOn'
    <3> DEFINE d == Tail(up)[1]
    <3>1. CASE Tail(up) = <<>>
      BY <1>1, <3>1 DEF UploadGoesOn
    <3>2. CASE Tail(up) # <<>>
      <4>1. 1 \in 1..Len(Tail(up))
        BY <1>0, <3>2
      <4>2. Continues(c, d) /\ relay'.upload[1] = d
        BY <1>1, <1>4, <4>1
      <4> HIDE DEF d, c
      <4> QED  BY <1>5, <2>1, <4>2 DEF UploadGoesOn, Continues, RecordingOf
    <3> QED  BY <3>1, <3>2
  <2>3. SocketIsInOrder'
    <3>1. CASE inbox = <<>>
      <4>1. ContinuesBuffer(c)
        BY <1>0, <1>2, <3>1 DEF WholeInv, UploadGoesOn
      <4>2. Len(inbox') = 1 /\ inbox'[1] = c
        BY <2>1, <3>1
      <4> QED  BY <1>1, <1>5, <4>1, <4>2 DEF SocketIsInOrder, ContinuesBuffer, Continues
    <3>2. CASE inbox # <<>>
      <4>1. Continues(inbox[Len(inbox)], c)
        BY <1>0, <1>2, <3>2 DEF WholeInv, UploadGoesOn
      <4>2. Len(inbox) \in Nat /\ Len(inbox) >= 1
        BY <1>0, <3>2
      <4>3. \A i \in 1..(Len(inbox') - 1) : Continues(inbox'[i], inbox'[i + 1])
        <5> SUFFICES ASSUME NEW i \in 1..Len(inbox)
                     PROVE  Continues(inbox'[i], inbox'[i + 1])
          BY <2>1, <4>2
        <5>1. CASE i = Len(inbox)
          BY <2>1, <4>1, <4>2, <5>1
        <5>2. CASE i # Len(inbox)
          <6>1. i \in 1..(Len(inbox) - 1) /\ i + 1 \in 1..Len(inbox)
            BY <4>2, <5>2
          <6> QED  BY <2>1, <6>1 DEF WholeInv, SocketIsInOrder
        <5> QED  BY <5>1, <5>2
      <4>4. ContinuesBuffer(inbox'[1])
        BY <2>1, <3>2, <4>2 DEF WholeInv, SocketIsInOrder
      <4> QED  BY <1>1, <1>5, <4>3, <4>4 DEF SocketIsInOrder, ContinuesBuffer, Continues
    <3> QED  BY <3>1, <3>2
  <2> QED  BY <1>u, <1>w, <1>b, <2>2, <2>3 DEF WholeInv
<1>6. CASE Missed(c) /\ UNCHANGED inbox
  <2>1. c.index = 0 => RecordingOf(c) \in headless'
    BY <1>6, MissedRemembers
  <2>2. SocketIsInOrder'
    BY <1>1, <1>3, <1>6 DEF WholeInv, SocketIsInOrder, ContinuesBuffer, Continues, RecordingOf
  <2>3. ASSUME relay'.upload # <<>>
        PROVE  UploadGoesOn'
    <3> DEFINE d == Tail(up)[1]
    <3>1. 1 \in 1..Len(Tail(up))
      BY <1>0, <1>1, <2>3
    <3>2. Continues(c, d) /\ relay'.upload[1] = d
      BY <1>1, <1>4, <3>1
    <3> HIDE DEF d, c
    <3>3. ASSUME NEW b, Continues(b, c)
          PROVE  d.index # 0 /\ RecordingOf(d) \notin headless' => RecordingOf(d) = RecordingOf(b)
      BY <1>3, <2>1, <3>2, <3>3, GapIsSeen
    <3>4. CASE inbox = <<>>
      <4>1. \A i \in 1..Len(samples) : Continues(samples[i], c)
        BY <1>0, <1>2, <3>4 DEF WholeInv, UploadGoesOn, ContinuesBuffer
      <4>2. \A i \in 1..Len(samples) :
              d.index # 0 /\ RecordingOf(d) \notin headless' => RecordingOf(d) = RecordingOf(samples[i])
        BY <3>3, <4>1
      <4>3. inbox' = <<>> /\ samples' = samples
        BY <1>1, <1>6, <3>4
      <4> QED  BY <3>2, <4>2, <4>3 DEF UploadGoesOn, ContinuesBuffer, Continues, RecordingOf
    <3>5. CASE inbox # <<>>
      <4>1. Continues(inbox[Len(inbox)], c)
        BY <1>0, <1>2, <3>5 DEF WholeInv, UploadGoesOn
      <4>2. d.index # 0 /\ RecordingOf(d) \notin headless'
              => RecordingOf(d) = RecordingOf(inbox[Len(inbox)])
        BY <3>3, <4>1
      <4>3. inbox' = inbox
        BY <1>6
      <4> QED  BY <3>2, <3>5, <4>2, <4>3 DEF UploadGoesOn, Continues, RecordingOf
    <3> QED  BY <3>4, <3>5
  <2>4. UploadGoesOn'
    <3>1. CASE relay'.upload = <<>>
      BY <3>1 DEF UploadGoesOn
    <3> QED  BY <2>3, <3>1
  <2> QED  BY <1>u, <1>w, <1>b, <2>2, <2>4 DEF WholeInv
<1> QED  BY <1>5, <1>6 DEF UploadChunk

(* What the loop holds after a chunk it counts as the next one *)
LEMMA WithNext ==
  ASSUME samples \in Seq(ChunkMessage), BufferIsPrefix, NEW c \in ChunkMessage, IsNextChunk(c)
  PROVE  /\ Len(With(c)) = c.index + 1 /\ With(c)[c.index + 1] = c
         /\ \A i \in 1..c.index : i \in 1..Len(samples) /\ With(c)[i] = samples[i]
<1>0. c.index \in Nat
  BY DEF ChunkMessage
<1>1. CASE c.index = 0
  <2>1. With(c) = Append(<<>>, c)
    BY <1>1 DEF With
  <2> QED  BY <1>1, <2>1
<1>2. CASE c.index # 0
  <2>1. With(c) = Append(samples, c) /\ c.index = Len(samples)
    BY <1>2 DEF With, IsNextChunk, BufferIsPrefix
  <2> QED  BY <2>1, AppendLast
<1> QED  BY <1>1, <1>2

LEMMA ReceiveChunkWhole ==
  ASSUME TypeOK, WholeInv, ReceiveChunk
  PROVE  WholeInv'
<1> DEFINE c == Head(inbox)
<1>0. /\ inbox \in Seq(ChunkMessage) /\ inbox # <<>>
      /\ samples \in Seq(ChunkMessage) /\ inbox' = Tail(inbox) /\ relay' = relay
  BY TypeParts DEF ReceiveChunk, ChunksTyped
<1>1. /\ c = inbox[1] /\ c \in ChunkMessage
      /\ \A i \in 1..Len(inbox') : inbox'[i] = inbox[i + 1] /\ i + 1 \in 2..Len(inbox)
      /\ Len(inbox') = Len(inbox) - 1 /\ Len(inbox) \in Nat \ {0}
      /\ inbox' = <<>> <=> Len(inbox) = 1
  BY <1>0, TailFacts
<1>2. \/ VoiceInputIsCurrent(c) /\ IsNextChunk(c) /\ Take(c) /\ UNCHANGED headless
      \/ recording' = <<>> /\ UNCHANGED <<samples, next_chunk>> /\ Missed(c)
      \/ recording' = <<>> /\ UNCHANGED <<samples, next_chunk, headless>> /\ ~IsNextChunk(c)
  BY DEF ReceiveChunk
<1>3. ContinuesBuffer(c)
  BY <1>0, <1>1 DEF WholeInv, SocketIsInOrder
<1> HIDE DEF c
<1>i. c.index \in Nat /\ c.last \in BOOLEAN
  BY <1>1 DEF ChunkMessage
<1>4. headless \subseteq headless'
  BY <1>2, MissedRemembers
<1>t. ASSUME VoiceInputIsCurrent(c), IsNextChunk(c), Take(c), UNCHANGED headless
      PROVE  /\ BufferIsPrefix' /\ RecordingsAreWhole'
             /\ \A i \in 1..Len(samples') :
                  \/ samples'[i] = c
                  \/ c.index # 0 /\ \E j \in 1..Len(samples) : samples'[i] = samples[j]
  <2> DEFINE w == With(c)
  <2>1. /\ Len(w) = c.index + 1 /\ w[c.index + 1] = c
        /\ \A i \in 1..c.index : i \in 1..Len(samples) /\ w[i] = samples[i]
    BY <1>0, <1>1, <1>t, WithNext DEF WholeInv
  <2>2. \/ c.last /\ samples' = <<>> /\ next_chunk' = 0 /\ recording' = w
        \/ ~c.last /\ samples' = w /\ next_chunk' = c.index + 1 /\ recording' = <<>>
    BY <1>t DEF Take
  <2> HIDE DEF w
  <2>3. \A i \in 1..Len(w) : /\ w[i].index = i - 1
                             /\ w[i].last = IF i = Len(w) THEN c.last ELSE FALSE
    <3> SUFFICES ASSUME NEW i \in 1..Len(w)
                 PROVE  w[i].index = i - 1 /\ w[i].last = IF i = Len(w) THEN c.last ELSE FALSE
      OBVIOUS
    <3>1. CASE i = c.index + 1
      BY <1>i, <2>1, <3>1
    <3>2. CASE i # c.index + 1
      <4>1. i \in 1..c.index
        BY <1>i, <2>1, <3>2
      <4> QED  BY <2>1, <3>2, <4>1 DEF WholeInv, BufferIsPrefix
    <3> QED  BY <3>1, <3>2
  <2>4. \A i \in 1..Len(w) : RecordingOf(c) \notin headless => RecordingOf(w[i]) = RecordingOf(c)
    <3> SUFFICES ASSUME NEW i \in 1..Len(w), RecordingOf(c) \notin headless
                 PROVE  RecordingOf(w[i]) = RecordingOf(c)
      OBVIOUS
    <3>1. CASE i = c.index + 1
      BY <2>1, <3>1
    <3>2. CASE i # c.index + 1
      <4>1. i \in 1..c.index /\ c.index # 0
        BY <1>i, <2>1, <3>2
      <4> QED  BY <1>3, <2>1, <4>1 DEF ContinuesBuffer, Continues
    <3> QED  BY <3>1, <3>2
  <2>5. BufferIsPrefix'
    <3>1. CASE samples' = <<>> /\ next_chunk' = 0
      BY <3>1 DEF BufferIsPrefix
    <3>2. CASE ~c.last /\ samples' = w /\ next_chunk' = c.index + 1
      <4>1. c.last = FALSE
        BY <1>i, <3>2
      <4>2. \A i \in 1..Len(w) : w[i].index = i - 1 /\ w[i].last = FALSE
        BY <2>3, <4>1
      <4> QED  BY <2>1, <3>2, <4>2 DEF BufferIsPrefix
    <3> QED  BY <2>2, <3>1, <3>2
  <2>6. RecordingsAreWhole'
    <3>1. CASE recording' = <<>>
      BY <3>1 DEF RecordingsAreWhole
    <3>2. CASE c.last /\ recording' = w
      <4>1. w[Len(w)] = c
        BY <2>1
      <4>2. \A i \in 1..Len(w) : w[i].last = (i = Len(w))
        BY <2>3, <3>2
      <4> QED  BY <1>t, <2>3, <2>4, <3>2, <4>1, <4>2 DEF RecordingsAreWhole, RecordingOf
    <3> QED  BY <2>2, <3>1, <3>2
  <2>7. \A i \in 1..Len(samples') :
          \/ samples'[i] = c
          \/ c.index # 0 /\ \E j \in 1..Len(samples) : samples'[i] = samples[j]
    <3> SUFFICES ASSUME NEW i \in 1..Len(w), i # c.index + 1
                 PROVE  c.index # 0 /\ \E j \in 1..Len(samples) : w[i] = samples[j]
      BY <2>1, <2>2
    <3>1. i \in 1..c.index
      BY <1>i, <2>1
    <3> QED  BY <1>i, <2>1, <3>1
  <2> QED  BY <2>5, <2>6, <2>7
<1>5. BufferIsPrefix' /\ RecordingsAreWhole'
  <2>1. CASE VoiceInputIsCurrent(c) /\ IsNextChunk(c) /\ Take(c) /\ UNCHANGED headless
    BY <1>t, <2>1
  <2>2. CASE recording' = <<>> /\ UNCHANGED <<samples, next_chunk>>
    BY <2>2 DEF WholeInv, BufferIsPrefix, RecordingsAreWhole
  <2> QED  BY <1>2, <2>1, <2>2
<1>6. \A i \in 1..Len(samples') :
        \/ samples'[i] = c
        \/ /\ c.index = 0 => RecordingOf(c) \in headless'
           /\ \E j \in 1..Len(samples) : samples'[i] = samples[j]
  BY <1>2, <1>t, MissedRemembers DEF IsNextChunk
<1>7. ASSUME NEW d, Continues(c, d), NEW i \in 1..Len(samples')
      PROVE  d.index # 0 /\ RecordingOf(d) \notin headless'
               => RecordingOf(d) = RecordingOf(samples'[i])
  <2>1. CASE samples'[i] = c
    BY <1>4, <1>7, <2>1 DEF Continues
  <2>2. CASE /\ c.index = 0 => RecordingOf(c) \in headless'
             /\ \E j \in 1..Len(samples) : samples'[i] = samples[j]
    <3>1. PICK j \in 1..Len(samples) : samples'[i] = samples[j]
      BY <2>2
    <3>2. Continues(samples[j], c)
      BY <1>3, <3>1 DEF ContinuesBuffer
    <3> QED  BY <1>4, <1>7, <2>2, <3>1, <3>2, GapIsSeen
  <2> QED  BY <1>6, <2>1, <2>2
<1>8. SocketIsInOrder'
  <2>1. ASSUME NEW i \in 1..(Len(inbox') - 1)
        PROVE  Continues(inbox[i + 1], inbox[i + 2])
    BY <1>1, <2>1 DEF WholeInv, SocketIsInOrder
  <2>2. ASSUME NEW i \in 1..(Len(inbox') - 1)
        PROVE  inbox'[i] = inbox[i + 1] /\ inbox'[i + 1] = inbox[i + 2]
    BY <1>1, <2>2
  <2>3. ASSUME NEW i \in 1..(Len(inbox') - 1),
               inbox'[i + 1].index # 0, RecordingOf(inbox'[i + 1]) \notin headless'
        PROVE  RecordingOf(inbox'[i + 1]) = RecordingOf(inbox'[i])
    BY <1>4, <2>1, <2>2, <2>3 DEF Continues
  <2>4. ASSUME inbox' # <<>>
        PROVE  inbox'[1] = inbox[2] /\ Continues(c, inbox[2])
    <3>1. 1 \in 1..(Len(inbox) - 1) /\ 1 \in 1..Len(inbox')
      BY <1>1, <2>4
    <3> QED  BY <1>1, <3>1 DEF WholeInv, SocketIsInOrder
  <2>5. ASSUME inbox' # <<>>, NEW i \in 1..Len(samples'),
               inbox'[1].index # 0, RecordingOf(inbox'[1]) \notin headless'
        PROVE  RecordingOf(inbox'[1]) = RecordingOf(samples'[i])
    BY <1>7, <2>4, <2>5
  <2> QED  BY <2>3, <2>5 DEF SocketIsInOrder, ContinuesBuffer, Continues, RecordingOf
<1>9. UploadGoesOn'
  <2> SUFFICES ASSUME relay.connected, relay.upload # <<>>
               PROVE  UploadGoesOn'
    BY <1>0 DEF UploadGoesOn
  <2> DEFINE d == relay.upload[1]
  <2>1. Continues(inbox[Len(inbox)], d)
    BY <1>0 DEF WholeInv, UploadGoesOn
  <2> HIDE DEF d
  <2>2. relay'.upload[1] = d
    BY <1>0 DEF d
  <2>3. CASE inbox' = <<>>
    <3>1. Continues(c, d)
      BY <1>1, <2>1, <2>3
    <3>2. \A i \in 1..Len(samples') :
            d.index # 0 /\ RecordingOf(d) \notin headless' => RecordingOf(d) = RecordingOf(samples'[i])
      BY <1>7, <3>1
    <3> QED  BY <2>2, <2>3, <3>2 DEF UploadGoesOn, ContinuesBuffer, Continues, RecordingOf
  <2>4. CASE inbox' # <<>>
    <3>1. inbox'[Len(inbox')] = inbox[Len(inbox)]
      BY <1>1, <2>4
    <3>2. d.index # 0 /\ RecordingOf(d) \notin headless'
            => RecordingOf(d) = RecordingOf(inbox[Len(inbox)])
      BY <1>4, <2>1 DEF Continues
    <3> QED  BY <2>2, <2>4, <3>1, <3>2 DEF UploadGoesOn, Continues, RecordingOf
  <2> QED  BY <2>3, <2>4
<1>u. UploadIsRecording'
  BY <1>0 DEF WholeInv, UploadIsRecording, RecordingOf
<1> QED  BY <1>5, <1>8, <1>9, <1>u DEF WholeInv

LEMMA WholeNext ==
  ASSUME TypeOK, WholeInv, [Next]_vars
  PROVE  WholeInv'
BY StepsOfTheQueues, OldUploadWhole, NewUploadWhole, ReceiveChunkWhole, UploadChunkWhole,
   AllIsGoneWhole

(* However datagrams, a full socket, faults and restarts fall together, a  *)
(* recording that is handed over counts its chunks without a hole, ends    *)
(* with its last one and is of one release, unless its own first chunk was *)
(* lost (receive_voice_audio).                                             *)
THEOREM RecordingsWhole == Spec => []RecordingsAreWhole
<1>1. Init => WholeInv
  BY WholeInit
<1>2. TypeOK /\ WholeInv /\ [Next]_vars => WholeInv'
  BY WholeNext
<1>3. WholeInv => RecordingsAreWhole
  BY DEF WholeInv
<1> QED  BY <1>1, <1>2, <1>3, TypeCorrect, PTL DEF Spec
=============================================================================
