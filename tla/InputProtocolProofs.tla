------------------------ MODULE InputProtocolProofs ------------------------
(***************************************************************************)
(* The sequence number admits a snapshot once in a run, for any number of  *)
(* snapshots, presses and faults: types first, then the numbers of the     *)
(* snapshots handled so far.                                               *)
(***************************************************************************)
EXTENDS InputProtocol, FiniteSetTheorems, SequenceTheorems, WellFoundedInduction, TLAPS

Numbered(msg) == msg # NoMessage => msg.seq > 0

(* TypeOK, and what keeps the digital frontend's link short: the queues    *)
(* are empty while it waits for nothing and while it has no connection.    *)
QueuesTyped ==
  /\ requests \in Seq(Request) /\ responses \in Seq(Response)
  /\ orphans \in SUBSET Request

OneUnderWay ==
  kind = "Digital" =>
    /\ pending = NoMessage \/ ~connected => requests = <<>> /\ responses = <<>>
    /\ requests = <<>> \/ responses = <<>>
    /\ Len(requests) <= 1 /\ Len(responses) <= 1
    /\ requests # <<>> => Head(requests).msg = pending

ValuesTyped ==
  /\ revision \in Nat /\ sequence \in Nat /\ awaiting \in BOOLEAN
  /\ last \in [request : Message, response : Response]
  /\ connected \in BOOLEAN /\ connection \in Nat
  /\ kind \in Kinds /\ boot \in Nat
  /\ input_sequence \in Nat /\ state_revision \in Nat
  /\ chord \in BOOLEAN /\ slot \in Message /\ pending \in Message
  /\ faults \in Nat
  /\ handled \in SUBSET (Nat \X Nat)
  /\ resets \in Nat /\ presses \in Nat /\ strays \in Nat
  /\ disturbed \in BOOLEAN

LinkInv == ValuesTyped /\ QueuesTyped /\ OneUnderWay

(* A request on its way has a number, which exceeds that of everything     *)
(* handled if it is admitted.                                              *)
NumbersInv ==
  /\ Numbered(slot) /\ Numbered(pending)
  /\ \A i \in DOMAIN requests : requests[i].msg.seq > 0
  /\ \A r \in orphans : r.msg.seq > 0
  /\ \A h \in handled : h[2] <= sequence
  /\ IsFiniteSet(handled)
  /\ revision = Cardinality(handled)

-----------------------------------------------------------------------------
(* Readable requests *)

LEMMA ReadableTyped ==
  ASSUME QueuesTyped, NEW r \in Readable
  PROVE  r \in Request /\ r.msg \in Message /\ r.boot \in Nat
<1>1. ASSUME requests # <<>> PROVE Head(requests) \in Request
  BY <1>1, HeadTailProperties DEF QueuesTyped
<1>2. r \in Request
  BY <1>1 DEF Readable, QueuesTyped
<1> QED  BY <1>2 DEF Request

LEMMA ReadableNumbered ==
  ASSUME QueuesTyped, NumbersInv, NEW r \in Readable
  PROVE  r.msg.seq > 0
<1>1. CASE r \in orphans
  BY <1>1 DEF NumbersInv
<1>2. CASE requests # <<>> /\ r = Head(requests)
  BY <1>2 DEF NumbersInv, QueuesTyped
<1> QED  BY <1>1, <1>2 DEF Readable

LEMMA RespondsTyped ==
  ASSUME QueuesTyped, NEW r \in Readable, NEW response \in Response, Responds(r, response)
  PROVE  QueuesTyped' /\ UNCHANGED <<connected, connection>>
<1>1. ASSUME requests # <<>> PROVE Tail(requests) \in Seq(Request)
  BY <1>1, HeadTailProperties DEF QueuesTyped
<1>2. Append(responses, response) \in Seq(Response)
  BY AppendProperties DEF QueuesTyped
<1> QED  BY <1>1, <1>2 DEF QueuesTyped, Responds

LEMMA RespondsOnce ==
  ASSUME LinkInv, NEW r \in Readable, NEW response \in Response, Responds(r, response),
         UNCHANGED <<kind, pending>>
  PROVE  OneUnderWay'
<1>1. CASE /\ requests # <<>> /\ r = Head(requests)
           /\ requests' = Tail(requests)
           /\ responses' = Append(responses, response)
           /\ UNCHANGED <<connected, connection, orphans>>
  BY <1>1 DEF LinkInv, QueuesTyped, OneUnderWay
<1>2. CASE UNCHANGED <<connected, connection, requests, responses>>
  BY <1>2 DEF LinkInv, OneUnderWay
<1> QED  BY <1>1, <1>2 DEF Responds

LEMMA RespondsNumbered ==
  ASSUME QueuesTyped, NEW r \in Readable, NEW response \in Response, Responds(r, response),
         \A i \in DOMAIN requests : requests[i].msg.seq > 0,
         \A o \in orphans : o.msg.seq > 0
  PROVE  /\ \A i \in DOMAIN requests' : requests'[i].msg.seq > 0
         /\ \A o \in orphans' : o.msg.seq > 0
<1>1. CASE requests # <<>> /\ requests' = Tail(requests) /\ orphans' = orphans
  <2>1. /\ Len(requests') = Len(requests) - 1
        /\ \A i \in 1..Len(requests') : requests'[i] = requests[i + 1]
    BY <1>1, HeadTailProperties DEF QueuesTyped
  <2> QED  BY <1>1, <2>1, LenProperties, HeadTailProperties DEF QueuesTyped
<1>2. CASE requests' = requests /\ orphans' = orphans \ {r}
  BY <1>2
<1> QED  BY <1>1, <1>2 DEF Responds

-----------------------------------------------------------------------------
(* Type correctness *)

LEMMA MessagesTyped ==
  /\ NoMessage \in Message
  /\ [request |-> NoMessage, response |-> NoResponse] \in
       [request : Message, response : Response]
BY DEF NoMessage, NoResponse, Message, Response, Codes

LEMMA SnapshotTyped ==
  ASSUME ValuesTyped, NEW talk \in Talks
  PROVE  /\ Snapshot(talk) \in Message /\ Snapshot(talk).seq > 0
         /\ RequestOf(Snapshot(talk)) \in Request
BY ProtocolAssumption DEF ValuesTyped, Snapshot, RequestOf, Message, Request

LEMMA ClosesTyped ==
  ASSUME QueuesTyped, Closes PROVE QueuesTyped'
<1>1. InFlight \subseteq Request
  BY ElementOfSeq, LenProperties DEF InFlight, QueuesTyped
<1>2. <<>> \in Seq(Request) /\ <<>> \in Seq(Response)
  OBVIOUS
<1> QED  BY <1>1, <1>2 DEF Closes, QueuesTyped

LEMMA AnswersTyped ==
  ASSUME LinkInv, NEW r \in Readable, NEW code \in Codes, NEW rev \in Nat,
         Answers(r, code, rev)
  PROVE  /\ QueuesTyped' /\ OneUnderWay'
         /\ last' \in [request : Message, response : Response]
         /\ UNCHANGED <<connected, connection, frontend, faults>>
<1> DEFINE response == [seq |-> r.msg.seq, code |-> code, revision |-> rev]
<1>1. r.msg \in Message /\ response \in Response
  BY ReadableTyped DEF LinkInv, Message, Response
<1>2. Responds(r, response) /\ last' = [request |-> r.msg, response |-> response]
      /\ UNCHANGED <<frontend, faults>>
  BY DEF Answers
<1>3. UNCHANGED <<kind, pending>>
  BY <1>2 DEF frontend
<1> HIDE DEF response
<1>4. QueuesTyped' /\ UNCHANGED <<connected, connection>>
  BY <1>1, <1>2, RespondsTyped DEF LinkInv
<1> QED  BY <1>1, <1>2, <1>3, <1>4, RespondsOnce

LEMMA BackendTyped ==
  ASSUME LinkInv, Backend PROVE LinkInv'
<1>1. PICK r \in Readable :
        \/ Replay(r) \/ RefuseSequence(r) \/ RefuseRevision(r)
        \/ HoldRestart(r) \/ RestartRun(r) \/ RefuseChord(r) \/ HandleInput(r)
  BY DEF Backend
<1>2. r.msg \in Message /\ r.boot \in Nat /\ r.msg.seq \in Nat
  BY ReadableTyped DEF LinkInv, Message
<1> USE DEF Codes
<1>3. CASE Replay(r)
  <2>1. last.response \in Response /\ Responds(r, last.response)
        /\ UNCHANGED <<backend, frontend, faults, history>>
    BY <1>3 DEF Replay, LinkInv, ValuesTyped
  <2>2. QueuesTyped' /\ UNCHANGED <<connected, connection>>
    BY <2>1, RespondsTyped DEF LinkInv
  <2>3. OneUnderWay'
    BY <2>1, RespondsOnce DEF frontend
  <2> QED  BY <2>1, <2>2, <2>3 DEF LinkInv, ValuesTyped, backend, frontend, history
<1>4. CASE RefuseSequence(r)
  BY <1>4, AnswersTyped DEF RefuseSequence, LinkInv, ValuesTyped, frontend, history
<1>5. CASE RefuseRevision(r)
  BY <1>5, AnswersTyped DEF RefuseRevision, LinkInv, ValuesTyped, frontend, history
<1>6. CASE HoldRestart(r)
  BY <1>2, <1>6, AnswersTyped DEF HoldRestart, LinkInv, ValuesTyped, frontend, history
<1>7. CASE RestartRun(r)
  BY <1>2, <1>7, AnswersTyped DEF RestartRun, CountsStray, LinkInv, ValuesTyped, frontend
<1>8. CASE RefuseChord(r)
  BY <1>2, <1>8, AnswersTyped DEF RefuseChord, LinkInv, ValuesTyped, frontend, history
<1>9. CASE HandleInput(r)
  <2>1. handled' \in SUBSET (Nat \X Nat) /\ strays' \in Nat /\ revision + 1 \in Nat
    BY <1>2, <1>9 DEF HandleInput, CountsStray, Origin, LinkInv, ValuesTyped
  <2> QED  BY <1>2, <1>9, <2>1, AnswersTyped DEF HandleInput, LinkInv, ValuesTyped, frontend
<1> QED  BY <1>1, <1>3, <1>4, <1>5, <1>6, <1>7, <1>8, <1>9

LEMMA GetsTyped ==
  ASSUME LinkInv, NEW response, Gets(response)
  PROVE  /\ response.revision \in Nat
         /\ responses' \in Seq(Response) /\ responses # <<>>
         /\ Len(responses') = Len(responses) - 1
         /\ state_revision' \in Nat /\ disturbed' \in BOOLEAN
<1>1. responses \in Seq(Response) /\ responses # <<>> /\ response = Head(responses)
      /\ responses' = Tail(responses)
  BY DEF Gets, LinkInv, QueuesTyped
<1>2. response \in Response /\ Tail(responses) \in Seq(Response)
      /\ Len(Tail(responses)) = Len(responses) - 1
  BY <1>1, HeadTailProperties
<1> QED  BY <1>1, <1>2 DEF Gets, Response, LinkInv, ValuesTyped

LEMMA FrontendTyped ==
  ASSUME LinkInv, Digital \/ Transport \/ CabinetStep
  PROVE  LinkInv'
<1>1. CASE DigitalSend
  <2>1. PICK talk \in Talks : Scan(talk) /\ pending' = Snapshot(talk)
    BY <1>1 DEF DigitalSend
  <2>2. requests = <<>> /\ responses = <<>> /\ requests' = <<RequestOf(pending')>>
    BY <1>1 DEF DigitalSend, Puts, LinkInv, OneUnderWay
  <2>3. pending' \in Message /\ pending'.seq > 0 /\ RequestOf(pending') \in Request
    BY <2>1, SnapshotTyped DEF LinkInv
  <2>4. ValuesTyped'
    BY <1>1, <2>1, <2>3 DEF DigitalSend, Scan, LinkInv, ValuesTyped, backend, history
  <2>5. QueuesTyped'
    BY <1>1, <2>2, <2>3 DEF DigitalSend, LinkInv, QueuesTyped
  <2>6. RequestOf(pending').msg = pending'
    BY DEF RequestOf
  <2>7. pending' # NoMessage /\ connected'
    BY <1>1, <2>3 DEF DigitalSend, NoMessage
  <2> QED  BY <1>1, <2>2, <2>4, <2>5, <2>6, <2>7 DEF DigitalSend, LinkInv, OneUnderWay
<1>2. CASE DigitalConnect
  <2> DEFINE again == [RequestOf(pending) EXCEPT !.connection = connection']
  <2>1. requests' = <<>> \/ (pending # NoMessage /\ requests' = <<again>>)
    BY <1>2 DEF DigitalConnect
  <2>2. again \in Request /\ again.msg = pending
    BY <1>2 DEF DigitalConnect, RequestOf, LinkInv, ValuesTyped, Request
  <2> HIDE DEF again
  <2>3. QueuesTyped'
    BY <1>2, <2>1, <2>2 DEF DigitalConnect, LinkInv, QueuesTyped
  <2>4. responses = <<>>
    BY <1>2 DEF DigitalConnect, LinkInv, OneUnderWay
  <2>5. OneUnderWay'
    <3>1. responses' = <<>> /\ pending' = pending /\ connected' = TRUE
      BY <1>2, <2>4 DEF DigitalConnect, frontend
    <3>2. CASE requests' = <<>>
      BY <3>1, <3>2 DEF OneUnderWay
    <3>3. CASE pending # NoMessage /\ requests' = <<again>>
      <4>1. Len(requests') = 1 /\ Head(requests') = again
        BY <3>3
      <4> QED  BY <2>2, <3>1, <3>3, <4>1 DEF OneUnderWay
    <3> QED  BY <2>1, <3>2, <3>3
  <2> QED  BY <1>2, <2>3, <2>5 DEF DigitalConnect, LinkInv, ValuesTyped, backend, frontend, history
<1>3. ASSUME NEW response, DigitalReceive(response) PROVE LinkInv'
  <2>1. Gets(response) /\ pending' \in {NoMessage, pending}
    BY <1>3 DEF DigitalReceive
  <2>2. ValuesTyped'
    BY <2>1, GetsTyped, MessagesTyped DEF Gets, LinkInv, ValuesTyped, backend
  <2>3. QueuesTyped'
    BY <2>1, GetsTyped DEF Gets, LinkInv, QueuesTyped
  <2>4. OneUnderWay'
    <3>1. requests = <<>> /\ Len(responses) <= 1
      BY <1>3, <2>1 DEF DigitalReceive, Gets, LinkInv, OneUnderWay
    <3>2. responses' \in Seq(Response) /\ Len(responses') = 0
      BY <2>1, <3>1, GetsTyped, EmptySeq, LenProperties DEF LinkInv, QueuesTyped
    <3>3. responses' = <<>> /\ requests' = <<>>
      BY <2>1, <3>1, <3>2, EmptySeq DEF Gets
    <3> QED  BY <3>3 DEF OneUnderWay
  <2> QED  BY <2>2, <2>3, <2>4 DEF LinkInv
<1>4. CASE CabinetStep
  <2>1. PICK talk \in Talks : Scan(talk) /\ slot' = Snapshot(talk)
    BY <1>4 DEF CabinetStep
  <2>2. ValuesTyped'
    BY <1>4, <2>1, SnapshotTyped DEF CabinetStep, Scan, LinkInv, ValuesTyped, backend, link
  <2> QED  BY <1>4, <2>2 DEF CabinetStep, LinkInv, QueuesTyped, OneUnderWay, link
<1>5. CASE CabinetTransmit
  <2> DEFINE msg == [slot EXCEPT !.expects = state_revision]
  <2>1. msg \in Message /\ RequestOf(msg) \in Request
    BY DEF LinkInv, ValuesTyped, Message, RequestOf, Request
  <2>2. pending' \in {msg, pending} /\ requests' \in {Append(requests, RequestOf(msg)), requests}
    BY <1>5 DEF CabinetTransmit, Puts
  <2> HIDE DEF msg
  <2>3. ValuesTyped'
    BY <1>5, <2>1, <2>2, MessagesTyped DEF CabinetTransmit, LinkInv, ValuesTyped, backend, history
  <2>4. Append(requests, RequestOf(msg)) \in Seq(Request)
    BY <2>1, AppendProperties DEF LinkInv, QueuesTyped
  <2>5. QueuesTyped'
    BY <1>5, <2>2, <2>4 DEF CabinetTransmit, LinkInv, QueuesTyped
  <2> QED  BY <1>5, <2>3, <2>5 DEF CabinetTransmit, LinkInv, OneUnderWay
<1>6. ASSUME NEW response, CabinetReceive(response) PROVE LinkInv'
  <2>1. Gets(response) /\ pending' = NoMessage /\ kind = "Cabinet"
    BY <1>6 DEF CabinetReceive
  <2>2. ValuesTyped' /\ QueuesTyped'
    BY <2>1, GetsTyped, MessagesTyped DEF Gets, LinkInv, ValuesTyped, QueuesTyped, backend
  <2> QED  BY <2>1, <2>2 DEF Gets, LinkInv, OneUnderWay
<1>7. CASE CabinetConnect
  BY <1>7 DEF CabinetConnect, LinkInv, ValuesTyped, QueuesTyped, OneUnderWay, backend,
    frontend, history
<1> QED  BY <1>1, <1>2, <1>3, <1>4, <1>5, <1>6, <1>7 DEF Digital, Transport

LEMMA FaultsTyped ==
  ASSUME LinkInv, Faults PROVE LinkInv'
<1> USE MessagesTyped
<1>1. CASE LoseConnection
  <2>0. connected' \in BOOLEAN
    BY <1>1, Zenon DEF LoseConnection
  <2>1. ValuesTyped'
    BY <1>1, <2>0 DEF LoseConnection, Fault, LinkInv, ValuesTyped, backend
  <2> QED  BY <1>1, <2>1, ClosesTyped DEF LoseConnection, Closes, LinkInv, OneUnderWay
<1>2. CASE ResponseTimeout
  BY <1>2 DEF ResponseTimeout, Fault, LinkInv, ValuesTyped, QueuesTyped, OneUnderWay,
    backend, link
<1>3. CASE CabinetRebuild
  <2>1. ValuesTyped'
    BY <1>3 DEF CabinetRebuild, Fault, LinkInv, ValuesTyped, backend
  <2> QED  BY <1>3, <2>1, ClosesTyped DEF CabinetRebuild, LinkInv, OneUnderWay
<1>4. CASE RestartFrontend
  <2>0. connected' \in BOOLEAN
    BY <1>4, Zenon DEF RestartFrontend
  <2>1. ValuesTyped'
    BY <1>4, <2>0 DEF RestartFrontend, Fault, LinkInv, ValuesTyped, backend
  <2> QED  BY <1>4, <2>1, ClosesTyped DEF RestartFrontend, Closes, LinkInv, OneUnderWay
<1>5. CASE RestartBackend
  <2>0. connected' \in BOOLEAN /\ awaiting' \in BOOLEAN
    BY <1>5, Zenon DEF RestartBackend
  <2>1. ValuesTyped'
    BY <1>5, <2>0 DEF RestartBackend, Fault, LinkInv, ValuesTyped
  <2> QED  BY <1>5, <2>1 DEF RestartBackend, LinkInv, QueuesTyped, OneUnderWay
<1>6. CASE DebugResetRun
  BY <1>6 DEF DebugResetRun, Fault, LinkInv, ValuesTyped, QueuesTyped, OneUnderWay,
    link, frontend
<1> QED  BY <1>1, <1>2, <1>3, <1>4, <1>5, <1>6 DEF Faults

LEMMA LinkInvHolds == Spec => []LinkInv
<1>1. ASSUME Init PROVE LinkInv
  <2>1. connected \in BOOLEAN /\ awaiting \in BOOLEAN /\ chord \in BOOLEAN
    BY <1>1, Zenon DEF Init
  <2> QED  BY <1>1, <2>1, MessagesTyped DEF Init, LinkInv, ValuesTyped, QueuesTyped, OneUnderWay
<1>2. ASSUME LinkInv, [Next]_vars PROVE LinkInv'
  <2>1. CASE Finished \/ UNCHANGED vars
    BY <1>2, <2>1 DEF Finished, vars, backend, link, frontend, history, LinkInv,
      ValuesTyped, QueuesTyped, OneUnderWay
  <2> QED  BY <1>2, <2>1, BackendTyped, FrontendTyped, FaultsTyped DEF Next
<1> QED  BY <1>1, <1>2, PTL DEF Spec

(* Whatever is lost, repeated or restarted, every variable keeps its type, *)
(* and the digital frontend, which waits for the response to one request   *)
(* before it sends the next, has one message under way at most             *)
(* (transport.odin, poll_backend).                                         *)
THEOREM LinkTypeCorrect == Spec => []TypeOK
<1>1. LinkInv => TypeOK
  BY LenProperties DEF LinkInv, ValuesTyped, QueuesTyped, OneUnderWay, TypeOK
<1> QED  BY <1>1, LinkInvHolds, PTL

-----------------------------------------------------------------------------
(* A snapshot is handled once *)

QueuesNumbered ==
  /\ \A i \in DOMAIN requests : requests[i].msg.seq > 0
  /\ \A r \in orphans : r.msg.seq > 0

LEMMA BackendNumbers ==
  ASSUME LinkInv, NumbersInv, Backend PROVE NumbersInv'
<1>1. PICK r \in Readable :
        \/ Replay(r) \/ RefuseSequence(r) \/ RefuseRevision(r)
        \/ HoldRestart(r) \/ RestartRun(r) \/ RefuseChord(r) \/ HandleInput(r)
  BY DEF Backend
<1>2. /\ r.msg \in Message /\ r.boot \in Nat /\ r.msg.seq \in Nat
      /\ r.msg.seq > 0
  BY ReadableTyped, ReadableNumbered DEF LinkInv, Message
<1>3. QueuesNumbered' /\ UNCHANGED <<slot, pending>>
  <2>1. PICK response : Responds(r, response) /\ response \in Response /\ UNCHANGED frontend
    <3>1. CASE Replay(r)
      BY <3>1 DEF Replay, LinkInv, ValuesTyped
    <3>2. ASSUME NEW code \in Codes, NEW rev \in Nat, Answers(r, code, rev)
          PROVE  \E response : Responds(r, response) /\ response \in Response /\ UNCHANGED frontend
      <4>1. [seq |-> r.msg.seq, code |-> code, revision |-> rev] \in Response
        BY <1>2 DEF Response
      <4> QED  BY <3>2, <4>1 DEF Answers
    <3>3. \E code \in Codes, rev \in Nat : Replay(r) \/ Answers(r, code, rev)
      BY <1>1 DEF RefuseSequence, RefuseRevision, HoldRestart, RestartRun, RefuseChord,
        HandleInput, LinkInv, ValuesTyped, Codes
    <3> QED  BY <3>1, <3>2, <3>3
  <2> QED  BY <2>1, RespondsNumbered DEF LinkInv, NumbersInv, QueuesNumbered, frontend
<1>4. CASE UNCHANGED <<revision, sequence, handled>>
  BY <1>3, <1>4 DEF NumbersInv, QueuesNumbered, Numbered
<1>5. CASE RestartRun(r)
  BY <1>3, <1>5, FS_EmptySet DEF RestartRun, NumbersInv, QueuesNumbered, Numbered
<1>6. CASE HoldRestart(r) \/ RefuseChord(r)
  <2>1. handled' = handled /\ revision' = revision /\ sequence' = r.msg.seq
        /\ sequence' >= sequence
    BY <1>2, <1>6 DEF HoldRestart, RefuseChord, Admitted, SequenceIncreases, history,
      LinkInv, ValuesTyped
  <2> QED  BY <1>2, <1>3, <2>1 DEF NumbersInv, QueuesNumbered, Numbered, LinkInv, ValuesTyped
<1>7. CASE HandleInput(r)
  <2>1. /\ handled' = handled \cup {Origin(r)} /\ revision' = revision + 1
        /\ sequence' = r.msg.seq
    BY <1>7 DEF HandleInput
  <2>2. \A h \in handled : h[2] < r.msg.seq
    BY <1>2, <1>7 DEF HandleInput, Admitted, SequenceIncreases, NumbersInv, LinkInv, ValuesTyped
  <2>3. Origin(r) \notin handled /\ Origin(r)[2] = r.msg.seq
    BY <1>2, <2>2 DEF Origin
  <2>4. IsFiniteSet(handled') /\ Cardinality(handled') = Cardinality(handled) + 1
    BY <2>1, <2>3, FS_AddElement DEF NumbersInv
  <2>5. \A h \in handled' : h[2] <= sequence'
    BY <1>2, <2>1, <2>2, <2>3 DEF LinkInv, ValuesTyped
  <2> QED  BY <1>3, <2>1, <2>4, <2>5 DEF NumbersInv, QueuesNumbered, Numbered
<1> QED
  BY <1>1, <1>4, <1>5, <1>6, <1>7
     DEF Replay, RefuseSequence, RefuseRevision, backend, history

LEMMA FrontendNumbers ==
  ASSUME LinkInv, NumbersInv, Digital \/ Transport \/ CabinetStep
  PROVE  NumbersInv'
<1>1. /\ UNCHANGED <<revision, sequence, orphans, handled>>
      /\ Numbered(slot)' /\ Numbered(pending)'
      /\ \A i \in DOMAIN requests' : requests'[i].msg.seq > 0
  <2>1. CASE DigitalSend
    <3>1. PICK talk \in Talks : pending' = Snapshot(talk)
      BY <2>1 DEF DigitalSend
    <3>2. pending'.seq > 0 /\ requests = <<>>
      BY <2>1, <3>1, SnapshotTyped DEF DigitalSend, LinkInv, OneUnderWay
    <3>3. requests' = <<RequestOf(pending')>> /\ RequestOf(pending').msg.seq > 0
      BY <2>1, <3>2 DEF DigitalSend, Puts, RequestOf
    <3>4. \A i \in DOMAIN requests' : requests'[i].msg.seq > 0
      BY <3>3
    <3> QED  BY <2>1, <3>2, <3>4 DEF DigitalSend, NumbersInv, Numbered, backend
  <2>2. CASE DigitalConnect
    <3> DEFINE again == [RequestOf(pending) EXCEPT !.connection = connection']
    <3>1. again.msg = pending
      BY DEF RequestOf
    <3>2. requests' = <<>> \/ (pending.seq > 0 /\ requests' = <<again>>)
      BY <2>2 DEF DigitalConnect, NumbersInv, Numbered
    <3> HIDE DEF again
    <3>3. \A i \in DOMAIN requests' : requests'[i].msg.seq > 0
      BY <3>1, <3>2
    <3> QED  BY <2>2, <3>3 DEF DigitalConnect, NumbersInv, Numbered, backend, frontend, history
  <2>3. ASSUME NEW response, DigitalReceive(response) \/ CabinetReceive(response)
        PROVE  <1>1!1 /\ <1>1!2 /\ <1>1!3
    BY <2>3 DEF DigitalReceive, CabinetReceive, Gets, NumbersInv, Numbered, backend
  <2>4. CASE CabinetStep
    <3>1. slot'.seq > 0
      BY <2>4, SnapshotTyped DEF CabinetStep, LinkInv
    <3> QED  BY <2>4, <3>1 DEF CabinetStep, NumbersInv, Numbered, backend, link
  <2>5. CASE CabinetTransmit
    <3> DEFINE msg == [slot EXCEPT !.expects = state_revision]
    <3>1. msg.seq > 0 /\ RequestOf(msg).msg = msg /\ RequestOf(msg) \in Request
      BY <2>5 DEF CabinetTransmit, NumbersInv, Numbered, RequestOf, LinkInv, ValuesTyped,
        Message, Request
    <3>2. pending' \in {msg, pending} /\ requests' \in {Append(requests, RequestOf(msg)), requests}
      BY <2>5 DEF CabinetTransmit, Puts
    <3> HIDE DEF msg
    <3>3. \A i \in DOMAIN requests' : requests'[i].msg.seq > 0
      <4>1. CASE requests' = Append(requests, RequestOf(msg))
        BY <3>1, <4>1, AppendProperties, LenProperties DEF NumbersInv, LinkInv, QueuesTyped
      <4> QED  BY <3>2, <4>1 DEF NumbersInv
    <3>4. Numbered(pending)' /\ Numbered(slot)'
      BY <2>5, <3>1, <3>2 DEF CabinetTransmit, Numbered, NumbersInv
    <3> QED  BY <2>5, <3>3, <3>4 DEF CabinetTransmit, backend, history
  <2>6. CASE CabinetConnect
    BY <2>6 DEF CabinetConnect, NumbersInv, Numbered, backend, frontend, history
  <2> QED  BY <2>1, <2>2, <2>3, <2>4, <2>5, <2>6 DEF Digital, Transport
<1> QED  BY <1>1 DEF NumbersInv

LEMMA FaultsNumbers ==
  ASSUME LinkInv, NumbersInv, Faults PROVE NumbersInv'
<1>1. ASSUME Closes PROVE QueuesNumbered'
  <2>1. \A r \in InFlight : r.msg.seq > 0
    BY DEF InFlight, NumbersInv
  <2> QED  BY <1>1, <2>1 DEF Closes, QueuesNumbered, NumbersInv
<1>2. CASE LoseConnection \/ CabinetRebuild \/ RestartFrontend
  BY <1>1, <1>2 DEF LoseConnection, CabinetRebuild, RestartFrontend, NumbersInv, Numbered,
    QueuesNumbered, backend
<1>3. CASE ResponseTimeout
  BY <1>3 DEF ResponseTimeout, NumbersInv, Numbered, backend, link
<1>4. CASE RestartBackend
  BY <1>4, FS_EmptySet DEF RestartBackend, NumbersInv, Numbered
<1>5. CASE DebugResetRun
  BY <1>5, FS_EmptySet DEF DebugResetRun, NumbersInv, Numbered, link, frontend
<1> QED  BY <1>2, <1>3, <1>4, <1>5 DEF Faults

LEMMA NumbersInvHolds == Spec => []NumbersInv
<1>1. ASSUME Init PROVE NumbersInv
  BY <1>1, FS_EmptySet DEF Init, NumbersInv, Numbered
<1>2. ASSUME LinkInv, NumbersInv, [Next]_vars PROVE NumbersInv'
  <2>1. CASE Finished \/ UNCHANGED vars
    BY <1>2, <2>1 DEF Finished, vars, backend, link, frontend, history, NumbersInv, Numbered
  <2> QED  BY <1>2, <2>1, BackendNumbers, FrontendNumbers, FaultsNumbers DEF Next
<1> QED  BY <1>1, <1>2, LinkInvHolds, PTL DEF Spec

(* The sequence check of apply_input is enough to handle a snapshot once:  *)
(* a copy that arrives later in the same run, from whatever connection, is *)
(* refused or answered from the stored response, and the revision counts   *)
(* different snapshots (lib.rs, apply_input_message and apply_input).      *)
THEOREM SnapshotsAreHandledOnce == Spec => []HandledOnce
<1>1. NumbersInv => HandledOnce
  BY DEF NumbersInv, HandledOnce
<1> QED  BY <1>1, NumbersInvHolds, PTL

-----------------------------------------------------------------------------
(* Nothing is refused while nothing has failed *)

(* What the backend finds when it reads this snapshot: the revision it is  *)
(* at, a number that is a new one, and older than that in the queue.       *)
Admissible(msg) ==
  /\ msg.expects = revision
  /\ sequence < msg.seq /\ msg.seq <= input_sequence
  /\ slot # NoMessage => msg.seq < slot.seq

(* One message is under way at most, and it carries the backend's revision *)
(* to or from a frontend that has it already or is about to get it.        *)
Quiet ==
  /\ connected /\ orphans = {}
  /\ last.response.revision = revision
  /\ sequence <= input_sequence
  /\ slot # NoMessage => sequence < slot.seq
  /\ requests = <<>> \/ responses = <<>>
  /\ Len(requests) <= 1 /\ Len(responses) <= 1
  /\ requests # <<>> \/ responses # <<>> => pending # NoMessage
  /\ requests # <<>> => Admissible(Head(requests).msg)
  /\ responses # <<>> => Head(responses).revision = revision
  /\ requests = <<>> /\ responses = <<>> => state_revision = revision

(* The queue of the transport is the cabinet's, and holds a snapshot that  *)
(* was numbered.                                                           *)
SlotNumbered ==
  /\ slot # NoMessage => slot.seq <= input_sequence
  /\ kind = "Digital" => slot = NoMessage

QuietInv ==
  /\ SlotNumbered
  /\ ~disturbed => Quiet

LEMMA SlotsNumbered ==
  ASSUME LinkInv, SlotNumbered, [Next]_vars PROVE SlotNumbered'
<1>1. CASE UNCHANGED <<slot, kind, input_sequence>>
  BY <1>1 DEF SlotNumbered
<1>2. CASE CabinetStep
  <2>1. PICK talk \in Talks : slot' = Snapshot(talk)
    BY <1>2 DEF CabinetStep
  <2> QED  BY <1>2, <2>1 DEF CabinetStep, Snapshot, LinkInv, ValuesTyped, SlotNumbered
<1>3. CASE DigitalSend
  BY <1>3 DEF DigitalSend, SlotNumbered
<1>4. CASE slot' = NoMessage
  BY <1>4 DEF SlotNumbered
<1>5. CASE Backend
  <2>1. UNCHANGED frontend
    BY <1>5 DEF Backend, Replay, RefuseSequence, RefuseRevision, HoldRestart, RestartRun,
      RefuseChord, HandleInput, Answers
  <2> QED  BY <1>1, <2>1 DEF frontend
<1> QED
  BY <1>1, <1>2, <1>3, <1>4, <1>5
     DEF Next, Digital, DigitalConnect, DigitalReceive, Transport, CabinetTransmit,
         CabinetConnect, CabinetReceive, Gets, Faults, LoseConnection, ResponseTimeout,
         CabinetRebuild, RestartFrontend, RestartBackend, DebugResetRun, Finished,
         vars, frontend

LEMMA QuietResponds ==
  ASSUME LinkInv, Quiet, NEW r \in Readable, NEW response \in Response,
         Responds(r, response)
  PROVE  /\ Admissible(r.msg) /\ pending # NoMessage
         /\ requests' = <<>> /\ responses' # <<>> /\ Len(responses') = 1
         /\ Head(responses') = response
         /\ UNCHANGED <<connected, orphans>>
<1>1. /\ requests # <<>> /\ r = Head(requests)
      /\ requests' = Tail(requests)
      /\ responses' = Append(responses, response)
      /\ UNCHANGED <<connected, connection, orphans>>
  BY DEF Responds, Stray, Quiet
<1>2. responses = <<>> /\ Len(requests) <= 1 /\ Admissible(r.msg) /\ pending # NoMessage
  BY <1>1 DEF Quiet
<1>3. requests' = <<>>
  BY <1>1, <1>2, HeadTailProperties, LenProperties, EmptySeq DEF LinkInv, QueuesTyped
<1>4. responses' # <<>> /\ Len(responses') = 1 /\ Head(responses') = response
  BY <1>1, <1>2
<1> QED  BY <1>1, <1>2, <1>3, <1>4

LEMMA QuietBackend ==
  ASSUME LinkInv, NumbersInv, Quiet, Backend
  PROVE  /\ Quiet'
         /\ last' # last => last'.response.code \notin {"input_sequence", "state_revision"}
<1>1. PICK r \in Readable :
        \/ Replay(r) \/ RefuseSequence(r) \/ RefuseRevision(r)
        \/ HoldRestart(r) \/ RestartRun(r) \/ RefuseChord(r) \/ HandleInput(r)
  BY DEF Backend
<1>2. r.msg \in Message /\ r.msg.seq \in Nat /\ r.msg.seq > 0
  BY ReadableTyped, ReadableNumbered DEF LinkInv, Message
<1>3. CASE Replay(r)
  <2>1. /\ last.response \in Response /\ Responds(r, last.response)
        /\ last' = last
        /\ UNCHANGED <<revision, sequence, input_sequence, state_revision, slot, pending>>
    BY <1>3 DEF Replay, LinkInv, ValuesTyped, backend, frontend
  <2>2. /\ pending # NoMessage
        /\ requests' = <<>> /\ responses' # <<>> /\ Len(responses') = 1
        /\ Head(responses') = last.response
        /\ UNCHANGED <<connected, orphans>>
    BY <2>1, QuietResponds
  <2>3. Len(requests') <= 1
    BY <2>2, EmptySeq
  <2> QED  BY <2>1, <2>2, <2>3 DEF Quiet
<1>4. ASSUME NEW code \in Codes, NEW rev \in Nat, Answers(r, code, rev),
             code \notin {"input_sequence", "state_revision"},
             revision' = rev, sequence' \in {0, r.msg.seq}
      PROVE  /\ Quiet'
             /\ last' # last => last'.response.code \notin {"input_sequence", "state_revision"}
  <2> DEFINE response == [seq |-> r.msg.seq, code |-> code, revision |-> rev]
  <2>1. /\ response \in Response /\ response.revision = rev /\ response.code = code
        /\ Responds(r, response)
        /\ last' = [request |-> r.msg, response |-> response]
        /\ UNCHANGED <<input_sequence, state_revision, slot, pending>>
    BY <1>2, <1>4 DEF Answers, Response, frontend
  <2> HIDE DEF response
  <2>2. last'.response = response
    BY <2>1
  <2>3. /\ Admissible(r.msg) /\ pending # NoMessage
        /\ requests' = <<>> /\ responses' # <<>> /\ Len(responses') = 1
        /\ Head(responses') = response
        /\ UNCHANGED <<connected, orphans>>
    BY <2>1, QuietResponds
  <2>4. slot # NoMessage => slot.seq > 0 /\ slot.seq \in Nat
    BY DEF NumbersInv, Numbered, LinkInv, ValuesTyped, Message
  <2>5. sequence' <= input_sequence' /\ (slot' # NoMessage => sequence' < slot'.seq)
    BY <1>2, <1>4, <2>1, <2>3, <2>4 DEF Admissible, LinkInv, ValuesTyped
  <2>6. Len(requests') <= 1
    BY <2>3, EmptySeq
  <2> QED  BY <1>4, <2>1, <2>2, <2>3, <2>5, <2>6 DEF Quiet
<1>5. \/ Replay(r)
      \/ \E code \in Codes, rev \in Nat :
           /\ Answers(r, code, rev)
           /\ code \notin {"input_sequence", "state_revision"}
           /\ revision' = rev /\ sequence' \in {0, r.msg.seq}
  <2>1. CASE HoldRestart(r) \/ RefuseChord(r)
    BY <2>1 DEF HoldRestart, RefuseChord, Codes, LinkInv, ValuesTyped
  <2>2. CASE RestartRun(r)
    BY <2>2 DEF RestartRun, Codes
  <2>3. CASE HandleInput(r)
    BY <2>3 DEF HandleInput, Codes, LinkInv, ValuesTyped
  <2>4. CASE RefuseSequence(r) \/ RefuseRevision(r)
    <3>1. PICK code \in Codes, rev \in Nat : Answers(r, code, rev)
      BY <2>4 DEF RefuseSequence, RefuseRevision, Codes, LinkInv, ValuesTyped
    <3>2. [seq |-> r.msg.seq, code |-> code, revision |-> rev] \in Response
      BY <1>2 DEF Response
    <3>3. Admissible(r.msg)
      BY <3>1, <3>2, QuietResponds DEF Answers
    <3> QED
      BY <1>2, <2>4, <3>3 DEF RefuseSequence, RefuseRevision, SequenceIncreases, Admissible,
        LinkInv, ValuesTyped
  <2> QED  BY <1>1, <2>1, <2>2, <2>3, <2>4
<1> QED  BY <1>3, <1>4, <1>5

LEMMA QuietGets ==
  ASSUME LinkInv, SlotNumbered, NEW response, Gets(response),
         Quiet \/ Current(response),
         UNCHANGED slot
  PROVE  Quiet'
<1>1. /\ responses \in Seq(Response) /\ responses # <<>> /\ response = Head(responses)
      /\ responses' = Tail(responses)
  BY DEF Gets, LinkInv, QueuesTyped
<1>2. requests = <<>> /\ responses' = <<>> /\ response.revision = revision
  <2>1. CASE Current(response)
    BY <1>1, <2>1 DEF Current
  <2>2. CASE Quiet
    <3>1. requests = <<>> /\ Len(responses) <= 1 /\ response.revision = revision
      BY <1>1, <2>2 DEF Quiet
    <3>2. responses' \in Seq(Response) /\ Len(responses') = Len(responses) - 1
      BY GetsTyped
    <3>3. Len(responses') = 0
      BY <1>1, <3>1, <3>2, LenProperties
    <3> QED  BY <3>1, <3>2, <3>3, EmptySeq
  <2> QED  BY <2>1, <2>2
<1>3. /\ connected /\ orphans = {} /\ last.response.revision = revision
      /\ sequence <= input_sequence
      /\ slot # NoMessage => sequence < slot.seq
  BY DEF Quiet, Current, Gets, SlotNumbered, LinkInv, ValuesTyped, Message
<1>4. /\ requests' = <<>> /\ state_revision' = revision'
      /\ UNCHANGED <<connected, orphans, last, revision, sequence, input_sequence>>
  BY <1>2 DEF Gets, backend
<1>5. Len(requests') <= 1 /\ Len(responses') <= 1
  BY <1>2, <1>4, EmptySeq
<1> QED  BY <1>2, <1>3, <1>4, <1>5 DEF Quiet

LEMMA QuietFrontend ==
  ASSUME LinkInv, NumbersInv, SlotNumbered, Quiet,
         DigitalSend \/ CabinetStep \/ CabinetTransmit
  PROVE  Quiet'
<1>1. CASE DigitalSend
  <2>1. PICK talk \in Talks : pending' = Snapshot(talk)
    BY <1>1 DEF DigitalSend
  <2>2. requests = <<>> /\ responses = <<>> /\ state_revision = revision
    BY <1>1 DEF DigitalSend, Quiet, LinkInv, OneUnderWay
  <2>3. requests' = <<RequestOf(pending')>> /\ slot = NoMessage
    BY <1>1, <2>2 DEF DigitalSend, Puts, SlotNumbered
  <2>0. pending'.seq > 0
    BY <2>1, SnapshotTyped DEF LinkInv
  <2>4. RequestOf(pending').msg = pending' /\ pending' # NoMessage
    BY <2>0 DEF RequestOf, NoMessage
  <2>5. Len(requests') = 1 /\ Head(requests').msg = pending'
    BY <2>3, <2>4
  <2>6. Admissible(Head(requests).msg)'
    BY <1>1, <2>1, <2>2, <2>3, <2>5
       DEF Admissible, DigitalSend, Snapshot, Quiet, LinkInv, ValuesTyped, backend
  <2>7. Len(responses') = 0
    BY <1>1, <2>2, EmptySeq DEF DigitalSend
  <2> QED
    BY <1>1, <2>2, <2>3, <2>4, <2>5, <2>6, <2>7
       DEF DigitalSend, Quiet, LinkInv, ValuesTyped, backend
<1>2. CASE CabinetStep
  <2>1. PICK talk \in Talks : slot' = Snapshot(talk)
    BY <1>2 DEF CabinetStep
  <2>2. slot'.seq = input_sequence + 1 /\ input_sequence' = input_sequence + 1
    BY <1>2, <2>1 DEF CabinetStep, Snapshot
  <2>3. ASSUME requests # <<>> PROVE Admissible(Head(requests).msg)'
    <3>1. Head(requests).msg.seq \in Nat /\ Admissible(Head(requests).msg)
      <4>1. Head(requests) \in Request
        BY <2>3, HeadTailProperties DEF LinkInv, QueuesTyped
      <4> QED  BY <2>3, <4>1 DEF Quiet, Request, Message
    <3>2. UNCHANGED <<requests, revision, sequence>>
      BY <1>2 DEF CabinetStep, backend, link
    <3> QED
      BY <1>2, <3>2, <2>2, <3>1 DEF CabinetStep, Admissible, LinkInv, ValuesTyped, Message, backend, link
  <2> QED
    BY <1>2, <2>2, <2>3 DEF CabinetStep, Quiet, LinkInv, ValuesTyped, backend, link
<1>3. CASE CabinetTransmit
  <2> DEFINE msg == [slot EXCEPT !.expects = state_revision]
  <2>1. requests = <<>> /\ responses = <<>> /\ state_revision = revision
    BY <1>3 DEF CabinetTransmit, Quiet
  <2>2. /\ msg.seq = slot.seq /\ msg.expects = state_revision /\ RequestOf(msg).msg = msg
        /\ slot.seq > 0
    BY <1>3 DEF CabinetTransmit, LinkInv, ValuesTyped, Message, RequestOf, NumbersInv, Numbered
  <2>3. pending' = msg /\ requests' = Append(requests, RequestOf(msg))
    BY <1>3 DEF CabinetTransmit, Puts, Quiet
  <2> HIDE DEF msg
  <2>4. Len(requests') = 1 /\ requests' # <<>> /\ Head(requests').msg = msg
    BY <2>1, <2>2, <2>3
  <2>5. msg # NoMessage
    BY <2>2 DEF NoMessage
  <2>6. slot' = NoMessage /\ responses' = <<>> /\ connected'
        /\ UNCHANGED <<orphans, last, revision, sequence, input_sequence>>
    BY <1>3, <2>1 DEF CabinetTransmit, backend, Quiet
  <2>7. Admissible(Head(requests).msg)'
    BY <1>3, <2>1, <2>2, <2>4, <2>6 DEF CabinetTransmit, Admissible, Quiet, SlotNumbered
  <2>8. Len(responses') = 0
    BY <2>6, EmptySeq
  <2> QED  BY <2>1, <2>3, <2>4, <2>5, <2>6, <2>7, <2>8 DEF Quiet
<1> QED  BY <1>1, <1>2, <1>3

LEMMA QuietStep ==
  ASSUME LinkInv, NumbersInv, QuietInv, [Next]_vars
  PROVE  /\ QuietInv'
         /\ /\ last' # last
            /\ last'.response.code \in {"input_sequence", "state_revision"}
            => disturbed
<1>1. SlotNumbered'
  BY SlotsNumbered DEF QuietInv
<1>2. CASE Backend
  <2>1. disturbed' = disturbed
    BY <1>2 DEF Backend, Replay, RefuseSequence, RefuseRevision, HoldRestart, RestartRun,
      RefuseChord, HandleInput, history
  <2> QED  BY <1>1, <1>2, <2>1, QuietBackend DEF QuietInv
<1>3. CASE DigitalSend \/ CabinetStep \/ CabinetTransmit
  <2>1. disturbed' = disturbed /\ last' = last
    BY <1>3 DEF DigitalSend, CabinetStep, CabinetTransmit, history, backend
  <2> QED  BY <1>1, <1>3, <2>1, QuietFrontend DEF QuietInv
<1>4. ASSUME NEW response, DigitalReceive(response) \/ CabinetReceive(response)
      PROVE  QuietInv' /\ last' = last
  <2>1. Gets(response) /\ last' = last /\ slot' = slot
        /\ (~disturbed' => ~disturbed \/ Current(response))
    BY <1>4 DEF DigitalReceive, CabinetReceive, Gets, backend
  <2>2. ~disturbed' => Quiet \/ Current(response)
    BY <2>1 DEF QuietInv
  <2> QED  BY <1>1, <2>1, <2>2, QuietGets DEF QuietInv
<1>5. CASE DigitalConnect \/ CabinetConnect
  <2>1. disturbed' = disturbed /\ last' = last /\ ~connected
    BY <1>5 DEF DigitalConnect, CabinetConnect, backend, history
  <2> QED  BY <1>1, <2>1 DEF QuietInv, Quiet
<1>6. CASE Faults
  <2>1. disturbed'
    BY <1>6 DEF Faults, Fault, LoseConnection, ResponseTimeout, CabinetRebuild,
      RestartFrontend, RestartBackend, DebugResetRun
  <2>2. last' = last \/ last'.response = NoResponse
    BY <1>6 DEF Faults, LoseConnection, ResponseTimeout, CabinetRebuild,
      RestartFrontend, RestartBackend, DebugResetRun, backend
  <2> QED  BY <1>1, <2>1, <2>2 DEF QuietInv, NoResponse
<1>7. CASE Finished \/ UNCHANGED vars
  <2>1. UNCHANGED vars
    BY <1>7 DEF Finished
  <2>2. Quiet' = Quiet
    BY <2>1 DEF vars, backend, link, frontend, Quiet, Admissible
  <2> QED  BY <1>1, <2>1, <2>2 DEF QuietInv, vars, backend, history
<1> QED
  BY <1>2, <1>3, <1>4, <1>5, <1>6, <1>7 DEF Next, Digital, Transport

LEMMA QuietInvHolds == Spec => []QuietInv
<1>1. Init => QuietInv
  BY DEF Init, QuietInv, SlotNumbered
<1>2. LinkInv /\ NumbersInv /\ QuietInv /\ [Next]_vars => QuietInv'
  BY QuietStep
<1> QED  BY <1>1, <1>2, LinkInvHolds, NumbersInvHolds, PTL DEF Spec

(* A frontend that has read a response of the present revision, with       *)
(* nothing else in flight, has none of its next snapshots refused for      *)
(* their number or their revision until something fails: the numbers and   *)
(* the revision the backend and the frontend keep stay in step, also       *)
(* through a restart of the run (lib.rs, apply_input and reset_run).       *)
THEOREM UndisturbedIsNotRefused == Spec => RefusedOnlyWhenDisturbed
<1>1. LinkInv /\ NumbersInv /\ QuietInv /\ [Next]_vars
        => [/\ last' # last
            /\ last'.response.code \in {"input_sequence", "state_revision"}
            => disturbed]_vars
  BY QuietStep
<1> QED
  BY <1>1, QuietInvHolds, LinkInvHolds, NumbersInvHolds, PTL
     DEF Spec, RefusedOnlyWhenDisturbed

-----------------------------------------------------------------------------
(* One restart for each press *)

(* The buttons held with the i-th request of a connection, between those   *)
(* held before the first of them and those held now.                       *)
TalkAt(q, before, now, i) ==
  IF i = 0 THEN before ELSE IF i <= Len(q) THEN q[i].msg.talk ELSE now

(* The presses under way: where the three buttons are held and were not.   *)
Edges(q, before, now) ==
  {i \in 1..(Len(q) + 1) :
     TalkAt(q, before, now, i) = 3 /\ TalkAt(q, before, now, i - 1) # 3}

LEMMA EdgesFinite ==
  ASSUME NEW q \in Seq(Request), NEW b \in 0..3, NEW t \in 0..3
  PROVE  IsFiniteSet(Edges(q, b, t)) /\ Cardinality(Edges(q, b, t)) \in Nat
<1>1. Len(q) + 1 \in Int /\ Edges(q, b, t) \subseteq 1..(Len(q) + 1)
  BY LenProperties DEF Edges
<1>2. IsFiniteSet(1..(Len(q) + 1))
  BY <1>1, FS_Interval
<1> QED  BY <1>1, <1>2, FS_Subset, FS_CardinalityType

LEMMA LeastNatural ==
  ASSUME NEW T, T \subseteq Nat, T # {}
  PROVE  \E x \in T : \A y \in T : x <= y
<1>1. PICK x \in T : \A y \in T : <<y, x>> \notin OpToRel(<, Nat)
  BY WFMin, NatLessThanWellFounded
<1>2. ASSUME NEW y \in T PROVE x <= y
  <2>1. <<y, x>> \in Nat \X Nat /\ <<y, x>>[1] = y /\ <<y, x>>[2] = x
    OBVIOUS
  <2>2. ~ (y < x)
    BY <1>1, <2>1 DEF OpToRel
  <2> QED  BY <2>2
<1> QED  BY <1>2

(* A press that is still held and not yet answered by a restart shows in   *)
(* the requests under way.                                                 *)
LEMMA HeldHasEdge ==
  ASSUME NEW q \in Seq(Request), NEW b \in 0..3, b # 3
  PROVE  Edges(q, b, 3) # {}
<1> DEFINE T == {i \in 1..(Len(q) + 1) : TalkAt(q, b, 3, i) = 3}
<1>0. Len(q) \in Nat
  BY LenProperties
<1>1. Len(q) + 1 \in T
  BY <1>0 DEF TalkAt
<1>2. PICK i \in T : \A j \in T : i <= j
  <2>1. T \subseteq Nat /\ T # {}
    BY <1>0, <1>1
  <2> HIDE DEF T
  <2> QED  BY <2>1, LeastNatural
<1>3. TalkAt(q, b, 3, i - 1) # 3
  <2>1. CASE i = 1
    BY <2>1 DEF TalkAt
  <2>2. CASE i > 1
    BY <1>0, <1>2, <2>2
  <2> QED  BY <1>0, <2>1, <2>2
<1>4. i \in Edges(q, b, 3)
  BY <1>2, <1>3 DEF Edges
<1> QED  BY <1>4

(* A subset of the presses under way is no larger. *)
LEMMA EdgesSubset ==
  ASSUME NEW q \in Seq(Request), NEW b \in 0..3, NEW t \in 0..3,
         NEW S, S \subseteq Edges(q, b, t)
  PROVE  Cardinality(S) \in Nat /\ Cardinality(S) <= Cardinality(Edges(q, b, t))
<1>1. IsFiniteSet(Edges(q, b, t))
  BY EdgesFinite
<1> QED  BY <1>1, FS_Subset, FS_CardinalityType

LEMMA EdgesEmpty ==
  ASSUME NEW b \in 0..3, NEW t \in 0..3
  PROVE  Cardinality(Edges(<<>>, b, t)) = IF t = 3 /\ b # 3 THEN 1 ELSE 0
<1>1. Edges(<<>>, b, t) = IF t = 3 /\ b # 3 THEN {1} ELSE {}
  <2>1. Len(<<>>) = 0 /\ 1..(0 + 1) = {1}
    BY EmptySeq
  <2> QED  BY <2>1 DEF Edges, TalkAt
<1>2. Cardinality({1}) = 1 /\ Cardinality({}) = 0
  BY FS_Singleton, FS_EmptySet
<1> QED  BY <1>1, <1>2

(* Dropping the requests under way adds no press.                          *)
LEMMA EdgesOfNothing ==
  ASSUME NEW q \in Seq(Request), NEW b \in 0..3, NEW t \in 0..3
  PROVE  Cardinality(Edges(<<>>, b, t)) <= Cardinality(Edges(q, b, t))
<1>0. Cardinality(Edges(q, b, t)) \in Nat
  BY EdgesFinite
<1>1. Cardinality(Edges(<<>>, b, t)) = IF t = 3 /\ b # 3 THEN 1 ELSE 0
  BY EdgesEmpty
<1>2. CASE t = 3 /\ b # 3
  <2>2. PICK x : x \in Edges(q, b, t)
    BY <1>2, HeldHasEdge
  <2>3. {x} \subseteq Edges(q, b, t) /\ Cardinality({x}) = 1
    BY <2>2, FS_Singleton
  <2>4. 1 <= Cardinality(Edges(q, b, t))
    BY <2>3, EdgesSubset
  <2> QED  BY <1>1, <1>2, <2>4
<1>3. CASE ~(t = 3 /\ b # 3)
  BY <1>0, <1>1, <1>3
<1> QED  BY <1>2, <1>3

(* What was held before matters to the first press only.                   *)
LEMMA EdgesFirst ==
  ASSUME NEW q \in Seq(Request), NEW b \in 0..3, NEW t \in 0..3, NEW c \in 0..3
  PROVE  /\ Cardinality(Edges(q, c, t)) <= Cardinality(Edges(q, b, t)) + 1
         /\ c = 3 \/ b # 3 => Cardinality(Edges(q, c, t)) <= Cardinality(Edges(q, b, t))
         /\ Cardinality(Edges(q, c, t) \ {1}) <= Cardinality(Edges(q, b, t))
<1>1. Edges(q, c, t) \ {1} \subseteq Edges(q, b, t)
  BY DEF Edges, TalkAt
<1>2. ASSUME c = 3 \/ b # 3 PROVE Edges(q, c, t) \subseteq Edges(q, b, t)
  BY <1>2 DEF Edges, TalkAt
<1>3. IsFiniteSet(Edges(q, c, t)) /\ Cardinality(Edges(q, c, t)) \in Nat
  BY EdgesFinite
<1>4. Cardinality(Edges(q, c, t) \ {1}) =
        IF 1 \in Edges(q, c, t) THEN Cardinality(Edges(q, c, t)) - 1
                                ELSE Cardinality(Edges(q, c, t))
  BY <1>3, FS_RemoveElement
<1>5. /\ Cardinality(Edges(q, c, t) \ {1}) <= Cardinality(Edges(q, b, t))
      /\ Cardinality(Edges(q, b, t)) \in Nat
  BY <1>1, EdgesSubset, EdgesFinite
<1>6. c = 3 \/ b # 3 => Cardinality(Edges(q, c, t)) <= Cardinality(Edges(q, b, t))
  BY <1>2, EdgesSubset
<1> QED  BY <1>3, <1>4, <1>5, <1>6

(* The backend reads the first request: its press, if it begins one, is no *)
(* longer under way.                                                       *)
LEMMA EdgesTail ==
  ASSUME NEW q \in Seq(Request), q # <<>>, NEW b \in 0..3, NEW t \in 0..3
  PROVE  /\ Head(q).msg.talk \in 0..3 /\ Tail(q) \in Seq(Request)
         /\ Cardinality(Edges(Tail(q), Head(q).msg.talk, t)) +
              (IF Head(q).msg.talk = 3 /\ b # 3 THEN 1 ELSE 0)
            <= Cardinality(Edges(q, b, t))
<1> DEFINE h == Head(q).msg.talk
           S == Edges(Tail(q), h, t)
           E == Edges(q, b, t)
<1>1. /\ Head(q) \in Request /\ Head(q) = q[1] /\ Len(q) \in Nat /\ Len(q) >= 1
      /\ Tail(q) \in Seq(Request) /\ Len(Tail(q)) = Len(q) - 1
      /\ \A i \in 1..Len(Tail(q)) : Tail(q)[i] = q[i + 1]
  BY HeadTailProperties, LenProperties, EmptySeq
<1>2. h \in 0..3
  BY <1>1 DEF Request, Message
<1>3. \A i \in 0..(Len(q) - 1) : TalkAt(Tail(q), h, t, i) = TalkAt(q, b, t, i + 1)
  BY <1>1 DEF TalkAt
<1>4. TalkAt(Tail(q), h, t, Len(q)) = TalkAt(q, b, t, Len(q) + 1)
  BY <1>1 DEF TalkAt
<1>5. ASSUME NEW i \in S PROVE i \in Nat /\ i >= 1 /\ i + 1 \in E \ {1}
  BY <1>1, <1>3, <1>4, <1>5 DEF Edges
<1>6. 1 \in E <=> h = 3 /\ b # 3
  BY <1>1 DEF Edges, TalkAt
<1> HIDE DEF S, E, h
<1> DEFINE f == [i \in S |-> i + 1]
<1>7. f \in Injection(S, E \ {1})
  <2>1. f \in [S -> E \ {1}]
    BY <1>5
  <2>2. \A i, j \in S : f[i] = f[j] => i = j
    BY <1>5
  <2> QED  BY <2>1, <2>2 DEF Injection, IsInjective
<1>8. IsFiniteSet(S) /\ IsFiniteSet(E) /\ Cardinality(S) \in Nat /\ Cardinality(E) \in Nat
  BY <1>1, <1>2, EdgesFinite DEF S, E
<1>9. /\ IsFiniteSet(E \ {1})
      /\ Cardinality(E \ {1}) = IF 1 \in E THEN Cardinality(E) - 1 ELSE Cardinality(E)
  BY <1>8, FS_RemoveElement
<1>10. Cardinality(S) <= Cardinality(E \ {1})
  BY <1>7, <1>8, <1>9, FS_Injection
<1>11. Cardinality(S) + (IF h = 3 /\ b # 3 THEN 1 ELSE 0) <= Cardinality(E)
  BY <1>6, <1>8, <1>9, <1>10
<1> QED  BY <1>1, <1>2, <1>11 DEF S, E, h

(* A request scanned with the buttons as they are now begins no press.     *)
LEMMA EdgesAppend ==
  ASSUME NEW q \in Seq(Request), NEW x \in Request, NEW b \in 0..3, NEW t \in 0..3,
         x.msg.talk = 3 <=> t = 3
  PROVE  Edges(Append(q, x), b, t) = Edges(q, b, t)
<1> DEFINE n == Len(q)
           qx == Append(q, x)
<1>1. /\ n \in Nat /\ Len(qx) = n + 1 /\ qx[n + 1] = x
      /\ \A i \in 1..n : qx[i] = q[i]
  BY LenProperties, AppendProperties
<1> HIDE DEF n, qx
<1>2. \A i \in 0..(n + 1) : TalkAt(qx, b, t, i) = 3 <=> TalkAt(q, b, t, i) = 3
  <2>1. ASSUME NEW i \in 0..n PROVE TalkAt(qx, b, t, i) = TalkAt(q, b, t, i)
    BY <1>1 DEF TalkAt, n
  <2>2. TalkAt(qx, b, t, n + 1) = x.msg.talk /\ TalkAt(q, b, t, n + 1) = t
    BY <1>1 DEF TalkAt, n
  <2> QED  BY <1>1, <2>1, <2>2
<1>3. TalkAt(qx, b, t, n + 2) = t /\ TalkAt(qx, b, t, n + 1) = x.msg.talk
  BY <1>1 DEF TalkAt
<1>4. ASSUME NEW i PROVE i \in Edges(qx, b, t) <=> i \in Edges(q, b, t)
  <2>1. i \in Edges(qx, b, t) <=>
          i \in 1..(n + 2) /\ TalkAt(qx, b, t, i) = 3 /\ TalkAt(qx, b, t, i - 1) # 3
    BY <1>1 DEF Edges
  <2>2. i \in Edges(q, b, t) <=>
          i \in 1..(n + 1) /\ TalkAt(q, b, t, i) = 3 /\ TalkAt(q, b, t, i - 1) # 3
    BY DEF Edges, n
  <2>3. CASE i \in 1..(n + 1)
    BY <1>1, <1>2, <2>1, <2>2, <2>3
  <2>4. CASE i = n + 2
    BY <1>1, <1>3, <2>1, <2>2, <2>4
  <2>5. CASE i \notin 1..(n + 2)
    BY <1>1, <2>1, <2>2, <2>5
  <2> QED  BY <1>1, <2>3, <2>4, <2>5
<1> QED  BY <1>4 DEF qx

(* Only a press adds one. *)
LEMMA EdgesScan ==
  ASSUME NEW q \in Seq(Request), NEW b \in 0..3, NEW t \in 0..3, NEW u \in 0..3
  PROVE  Cardinality(Edges(q, b, u)) <=
           Cardinality(Edges(q, b, t)) + (IF u = 3 /\ t # 3 THEN 1 ELSE 0)
<1> DEFINE n == Len(q)
<1>1. n \in Nat
  BY LenProperties
<1>2. IsFiniteSet(Edges(q, b, u)) /\ Cardinality(Edges(q, b, u)) \in Nat
  BY EdgesFinite
<1>3. Edges(q, b, u) \ {n + 1} \subseteq Edges(q, b, t)
  BY <1>1 DEF Edges, TalkAt
<1>4. CASE u = 3 /\ t # 3
  <2>1. Cardinality(Edges(q, b, u) \ {n + 1}) >= Cardinality(Edges(q, b, u)) - 1
    <3>1. Cardinality(Edges(q, b, u) \ {n + 1}) =
            IF n + 1 \in Edges(q, b, u) THEN Cardinality(Edges(q, b, u)) - 1
                                        ELSE Cardinality(Edges(q, b, u))
      BY <1>2, FS_RemoveElement
    <3> QED  BY <1>2, <3>1
  <2>2. /\ Cardinality(Edges(q, b, u) \ {n + 1}) \in Nat
        /\ Cardinality(Edges(q, b, u) \ {n + 1}) <= Cardinality(Edges(q, b, t))
        /\ Cardinality(Edges(q, b, t)) \in Nat
    BY <1>3, EdgesSubset, EdgesFinite
  <2> QED  BY <1>2, <1>4, <2>1, <2>2
<1>5. CASE ~(u = 3 /\ t # 3)
  <2>1. Edges(q, b, u) \subseteq Edges(q, b, t)
    BY <1>1, <1>5 DEF Edges, TalkAt
  <2>2. Cardinality(Edges(q, b, u)) <= Cardinality(Edges(q, b, t))
    BY <2>1, EdgesSubset
  <2>3. (IF u = 3 /\ t # 3 THEN 1 ELSE 0) = 0 /\ Cardinality(Edges(q, b, t)) \in Nat
    BY <1>5, EdgesFinite
  <2> QED  BY <1>2, <2>2, <2>3
<1> QED  BY <1>4, <1>5

(* What the backend's answer to the first request leaves, by what it knows *)
(* of the buttons afterwards.                                              *)
LEMMA EdgesRead ==
  ASSUME NEW q \in Seq(Request), q # <<>>, NEW b \in 0..3, NEW t \in 0..3
  PROVE  LET rest(c) == Cardinality(Edges(Tail(q), c, t))
             all == Cardinality(Edges(q, b, t))
         IN  /\ rest(b) <= all /\ rest(3) <= all
             /\ Head(q).msg.talk = 3 /\ b # 3 => rest(3) + 1 <= all
             /\ Head(q).msg.talk # 3 => rest(0) <= all
<1> DEFINE h == Head(q).msg.talk
           R(c) == Cardinality(Edges(Tail(q), c, t))
           all == Cardinality(Edges(q, b, t))
<1>0. 0 \in 0..3 /\ 3 \in 0..3
  OBVIOUS
<1>1. /\ h \in 0..3 /\ Tail(q) \in Seq(Request)
      /\ R(h) + (IF h = 3 /\ b # 3 THEN 1 ELSE 0) <= all
  BY EdgesTail
<1>2. /\ R(0) \in Nat /\ R(3) \in Nat /\ R(b) \in Nat /\ R(h) \in Nat /\ all \in Nat
  BY <1>0, <1>1, EdgesFinite
<1>3. R(3) <= R(h)
  BY <1>0, <1>1, EdgesFirst
<1>4. h # 3 => R(0) <= R(h)
  BY <1>0, <1>1, EdgesFirst
<1>5. R(b) <= R(h) + 1 /\ (b = 3 \/ h # 3 => R(b) <= R(h))
  BY <1>1, EdgesFirst
<1> HIDE DEF h, all, R
<1>6. /\ R(b) <= all /\ R(3) <= all
      /\ h = 3 /\ b # 3 => R(3) + 1 <= all
      /\ h # 3 => R(0) <= all
  <2>1. CASE h = 3 /\ b # 3
    BY <1>1, <1>2, <1>3, <1>5, <2>1
  <2>2. CASE ~(h = 3 /\ b # 3)
    BY <1>1, <1>2, <1>3, <1>4, <1>5, <2>2
  <2> QED  BY <2>1, <2>2
<1> QED  BY <1>6 DEF h, all, R

Before == IF awaiting THEN 3 ELSE 0
Now == IF chord THEN 3 ELSE 0

(* The presses that have not led to a restart are at least those under     *)
(* way, and an unsent or unanswered snapshot shows the buttons as they are. *)
PressInv ==
  /\ resets + Cardinality(Edges(requests, Before, Now)) <= presses + strays
  /\ kind = "Cabinet" /\ slot # NoMessage => (slot.talk = 3 <=> chord)
  /\ kind = "Digital" /\ pending # NoMessage => (pending.talk = 3 <=> chord)

LEMMA ButtonsTyped ==
  ASSUME LinkInv
  PROVE  /\ Before \in 0..3 /\ Now \in 0..3
         /\ requests \in Seq(Request)
         /\ Cardinality(Edges(requests, Before, Now)) \in Nat
         /\ resets \in Nat /\ presses \in Nat /\ strays \in Nat
<1>1. /\ Before \in 0..3 /\ Now \in 0..3 /\ requests \in Seq(Request)
      /\ resets \in Nat /\ presses \in Nat /\ strays \in Nat
  BY DEF Before, Now, LinkInv, ValuesTyped, QueuesTyped
<1> QED  BY <1>1, EdgesFinite

LEMMA PressesRead ==
  ASSUME LinkInv, NEW r \in Readable, NEW response, Responds(r, response)
  PROVE  LET rest(c) == Cardinality(Edges(requests', c, Now))
             all == Cardinality(Edges(requests, Before, Now))
         IN  /\ rest(Before) <= all
             /\ r.msg.talk = 3 /\ ~awaiting
                => rest(3) <= all /\ (Stray(r) \/ rest(3) + 1 <= all)
             /\ r.msg.talk # 3
                => rest(0) <= all + 1 /\ (Stray(r) \/ rest(0) <= all)
<1>1. /\ Before \in 0..3 /\ Now \in 0..3 /\ requests \in Seq(Request)
      /\ Cardinality(Edges(requests, Before, Now)) \in Nat
      /\ ~awaiting => Before # 3
  BY ButtonsTyped DEF Before
<1>0. 0 \in 0..3 /\ 3 \in 0..3
  OBVIOUS
<1>2. CASE requests # <<>> /\ r = Head(requests) /\ requests' = Tail(requests)
  <2>1. Tail(requests) \in Seq(Request)
    BY <1>1, <1>2, HeadTailProperties
  <2>2. Cardinality(Edges(Tail(requests), 0, Now)) \in Nat
    BY <1>0, <1>1, <2>1, EdgesFinite
  <2> QED  BY <1>1, <1>2, <2>2, EdgesRead
<1>3. CASE Stray(r) /\ requests' = requests
  <2>1. /\ Cardinality(Edges(requests, 3, Now)) <= Cardinality(Edges(requests, Before, Now))
        /\ Cardinality(Edges(requests, 0, Now)) <= Cardinality(Edges(requests, Before, Now)) + 1
    BY <1>0, <1>1, EdgesFirst
  <2> QED  BY <1>1, <1>3, <2>1
<1> QED  BY <1>2, <1>3 DEF Responds

LEMMA BackendPresses ==
  ASSUME LinkInv, PressInv, Backend PROVE PressInv'
<1>1. PICK r \in Readable :
        \/ Replay(r) \/ RefuseSequence(r) \/ RefuseRevision(r)
        \/ HoldRestart(r) \/ RestartRun(r) \/ RefuseChord(r) \/ HandleInput(r)
  BY DEF Backend
<1>2. UNCHANGED frontend /\ \E response : Responds(r, response)
  BY <1>1 DEF Replay, RefuseSequence, RefuseRevision, HoldRestart, RestartRun, RefuseChord,
    HandleInput, Answers
<1>3. PICK response : Responds(r, response)
  BY <1>2
<1> DEFINE rest(c) == Cardinality(Edges(requests', c, Now))
           all == Cardinality(Edges(requests, Before, Now))
<1>4. /\ rest(Before) <= all
      /\ r.msg.talk = 3 /\ ~awaiting
         => rest(3) <= all /\ (Stray(r) \/ rest(3) + 1 <= all)
      /\ r.msg.talk # 3
         => rest(0) <= all + 1 /\ (Stray(r) \/ rest(0) <= all)
  BY <1>3, PressesRead
<1>5. /\ all \in Nat /\ resets \in Nat /\ presses \in Nat /\ strays \in Nat
      /\ rest(Before) \in Nat /\ rest(3) \in Nat /\ rest(0) \in Nat
  <2>1. /\ Before \in 0..3 /\ Now \in 0..3 /\ 0 \in 0..3 /\ 3 \in 0..3
        /\ requests' \in Seq(Request)
        /\ all \in Nat /\ resets \in Nat /\ presses \in Nat /\ strays \in Nat
    BY ButtonsTyped, BackendTyped DEF LinkInv, QueuesTyped
  <2> QED  BY <2>1, EdgesFinite
<1>6. /\ Now' = Now
      /\ Cardinality(Edges(requests, Before, Now))' = rest(Before')
      /\ (kind = "Cabinet" /\ slot # NoMessage => (slot.talk = 3 <=> chord))'
      /\ (kind = "Digital" /\ pending # NoMessage => (pending.talk = 3 <=> chord))'
  BY <1>2 DEF frontend, Now, PressInv
<1>7. resets + all <= presses + strays
  BY DEF PressInv
<1> HIDE DEF rest, all
<1>8. resets' + rest(Before') <= presses' + strays'
  <2>1. CASE RestartRun(r)
    <3>1. /\ Before' = 3 /\ resets' = resets + 1 /\ presses' = presses
          /\ strays' = IF Stray(r) THEN strays + 1 ELSE strays
          /\ r.msg.talk = 3 /\ ~awaiting
      BY <2>1 DEF RestartRun, Before, CountsStray
    <3> QED  BY <1>4, <1>5, <1>7, <3>1
  <2>2. CASE HandleInput(r)
    <3>1. /\ Before' = 0 /\ resets' = resets /\ presses' = presses
          /\ strays' = IF Stray(r) THEN strays + 1 ELSE strays
          /\ r.msg.talk # 3
      BY <2>2 DEF HandleInput, Before, CountsStray
    <3> QED  BY <1>4, <1>5, <1>7, <3>1
  <2>3. CASE UNCHANGED <<awaiting, resets, presses, strays>>
    <3>1. Before' = Before
      BY <2>3 DEF Before
    <3> QED  BY <1>4, <1>5, <1>7, <2>3, <3>1
  <2> QED
    BY <1>1, <2>1, <2>2, <2>3
       DEF Replay, RefuseSequence, RefuseRevision, HoldRestart, RefuseChord, backend, history
<1> QED  BY <1>6, <1>8 DEF PressInv

(* The step of a frontend that scans the panel, and so may press, or puts  *)
(* what was scanned on its way.                                            *)
LEMMA ScanPresses ==
  ASSUME LinkInv, PressInv, NEW talk \in Talks, Scan(talk)
  PROVE  resets + Cardinality(Edges(requests, Before, Now')) <= presses' + strays
<1>1. /\ Before \in 0..3 /\ Now \in 0..3 /\ Now' \in 0..3
      /\ requests \in Seq(Request)
      /\ Now = 3 <=> chord
      /\ Now' = 3 <=> chord'
  BY ButtonsTyped DEF Now
<1>2. Cardinality(Edges(requests, Before, Now')) <=
        Cardinality(Edges(requests, Before, Now)) + (IF chord' /\ ~chord THEN 1 ELSE 0)
  <2>1. Cardinality(Edges(requests, Before, Now')) <=
          Cardinality(Edges(requests, Before, Now)) + (IF Now' = 3 /\ Now # 3 THEN 1 ELSE 0)
    BY <1>1, EdgesScan
  <2> QED  BY <1>1, <2>1
<1>3. Cardinality(Edges(requests, Before, Now')) \in Nat
  BY <1>1, EdgesFinite
<1>4. presses' = presses + (IF chord' /\ ~chord THEN 1 ELSE 0)
  BY ButtonsTyped DEF Scan
<1> QED  BY <1>2, <1>3, <1>4, ButtonsTyped DEF PressInv

LEMMA FrontendPresses ==
  ASSUME LinkInv, PressInv, Digital \/ Transport \/ CabinetStep
  PROVE  PressInv'
<1>0. /\ Before \in 0..3 /\ Now \in 0..3 /\ requests \in Seq(Request)
      /\ Now = 3 <=> chord
      /\ Now' \in 0..3 /\ (Now' = 3 <=> chord')
  BY ButtonsTyped DEF Now
<1>1. CASE DigitalSend
  <2>1. PICK talk \in Talks : Scan(talk) /\ pending' = Snapshot(talk)
    BY <1>1 DEF DigitalSend
  <2>2. RequestOf(pending') \in Request /\ RequestOf(pending').msg.talk = talk
    BY <2>1, SnapshotTyped DEF LinkInv, RequestOf, Snapshot
  <2>3. chord' <=> talk = 3
    BY <2>1 DEF Scan
  <2>4. /\ requests' = Append(requests, RequestOf(pending'))
        /\ UNCHANGED <<awaiting, resets, strays, kind, slot>>
    BY <1>1 DEF DigitalSend, Puts, backend
  <2>5. Edges(requests', Before, Now') = Edges(requests, Before, Now')
    BY <1>0, <2>2, <2>3, <2>4, EdgesAppend
  <2>6. resets + Cardinality(Edges(requests, Before, Now')) <= presses' + strays
    BY <2>1, ScanPresses
  <2>7. Before' = Before /\ pending'.talk = talk /\ kind' = "Digital"
    BY <1>1, <2>1, <2>4 DEF Before, Snapshot, DigitalSend
  <2> QED  BY <2>3, <2>4, <2>5, <2>6, <2>7 DEF PressInv
<1>2. CASE CabinetStep
  <2>1. PICK talk \in Talks : Scan(talk) /\ slot' = Snapshot(talk)
    BY <1>2 DEF CabinetStep
  <2>2. chord' <=> talk = 3
    BY <2>1 DEF Scan
  <2>3. resets + Cardinality(Edges(requests, Before, Now')) <= presses' + strays
    BY <2>1, ScanPresses
  <2>4. Before' = Before /\ slot'.talk = talk /\ kind' = "Cabinet"
        /\ UNCHANGED <<requests, resets, strays>>
    BY <1>2, <2>1 DEF Before, Snapshot, CabinetStep, backend, link
  <2> QED  BY <2>2, <2>3, <2>4 DEF PressInv
<1>3. CASE CabinetTransmit
  <2> DEFINE msg == [slot EXCEPT !.expects = state_revision]
  <2>1. RequestOf(msg) \in Request /\ RequestOf(msg).msg.talk = slot.talk
    BY DEF LinkInv, ValuesTyped, Message, RequestOf, Request
  <2>2. requests' \in {Append(requests, RequestOf(msg)), requests}
    BY <1>3 DEF CabinetTransmit, Puts
  <2> HIDE DEF msg
  <2>3. slot.talk = 3 <=> Now = 3
    <3>1. kind = "Cabinet" /\ slot # NoMessage
      BY <1>3 DEF CabinetTransmit
    <3>2. slot.talk = 3 <=> chord
      BY <3>1 DEF PressInv
    <3>3. Now = 3 <=> chord
      BY <1>0
    <3> QED  BY <3>2, <3>3, Zenon
  <2>4. Edges(requests', Before, Now) = Edges(requests, Before, Now)
    <3>1. Edges(Append(requests, RequestOf(msg)), Before, Now) = Edges(requests, Before, Now)
      BY <1>0, <2>1, <2>3, EdgesAppend
    <3> QED  BY <2>2, <3>1
  <2>5. Before' = Before /\ Now' = Now /\ slot' = NoMessage /\ kind' = "Cabinet"
        /\ UNCHANGED <<resets, presses, strays>>
    BY <1>3 DEF Before, Now, CabinetTransmit, backend, history
  <2> QED  BY <2>4, <2>5 DEF PressInv
<1>4. CASE DigitalConnect
  <2> DEFINE again == [RequestOf(pending) EXCEPT !.connection = connection']
  <2>1. again \in Request /\ again.msg = pending
    BY <1>4 DEF DigitalConnect, RequestOf, LinkInv, ValuesTyped, Request
  <2>2. requests = <<>> /\ kind = "Digital"
        /\ (requests' = <<>> \/ (pending # NoMessage /\ requests' = Append(requests, again)))
    <3>1. requests = <<>>
      BY <1>4 DEF DigitalConnect, LinkInv, OneUnderWay
    <3>2. Append(<<>>, again) = <<again>>
      OBVIOUS
    <3>3. kind = "Digital" /\ requests' = IF pending = NoMessage THEN <<>> ELSE <<again>>
      BY <1>4 DEF DigitalConnect
    <3> HIDE DEF again
    <3>4. requests' = <<>> \/ (pending # NoMessage /\ requests' = <<again>>)
      BY <3>3
    <3>5. Append(requests, again) = <<again>>
      BY <3>1, <3>2
    <3> QED  BY <3>1, <3>3, <3>4, <3>5
  <2> HIDE DEF again
  <2>3. Edges(requests', Before, Now) = Edges(requests, Before, Now)
    <3>1. CASE requests' = <<>>
      BY <2>2, <3>1
    <3>2. CASE pending # NoMessage /\ requests' = Append(requests, again)
      <4>1. again.msg.talk = 3 <=> chord
        BY <2>1, <2>2, <3>2 DEF PressInv
      <4>2. again.msg.talk = 3 <=> Now = 3
        BY <1>0, <4>1, Zenon
      <4>3. Edges(Append(requests, again), Before, Now) = Edges(requests, Before, Now)
        BY <1>0, <2>1, <4>2, EdgesAppend
      <4> QED  BY <3>2, <4>3
    <3> QED  BY <2>2, <3>1, <3>2
  <2>4. Before' = Before /\ Now' = Now
        /\ UNCHANGED <<resets, presses, strays, kind, slot, pending, chord>>
    BY <1>4 DEF Before, Now, DigitalConnect, backend, frontend, history
  <2> QED  BY <2>3, <2>4 DEF PressInv
<1>5. ASSUME NEW response, DigitalReceive(response) \/ CabinetReceive(response)
      PROVE  PressInv'
  <2>1. Before' = Before /\ Now' = Now /\ pending' \in {NoMessage, pending}
        /\ UNCHANGED <<requests, resets, presses, strays, kind, slot, chord>>
    BY <1>5 DEF Before, Now, DigitalReceive, CabinetReceive, Gets, backend
  <2> QED  BY <2>1 DEF PressInv
<1>6. CASE CabinetConnect
  <2>1. Before' = Before /\ Now' = Now
        /\ UNCHANGED <<requests, resets, presses, strays, kind, slot, pending, chord>>
    BY <1>6 DEF Before, Now, CabinetConnect, backend, frontend, history
  <2> QED  BY <2>1 DEF PressInv
<1> QED  BY <1>1, <1>2, <1>3, <1>4, <1>5, <1>6 DEF Digital, Transport

LEMMA FaultsPresses ==
  ASSUME LinkInv, PressInv, Faults PROVE PressInv'
<1>0. /\ Before \in 0..3 /\ Now \in 0..3 /\ requests \in Seq(Request)
      /\ Cardinality(Edges(requests, Before, Now)) \in Nat
      /\ resets \in Nat /\ presses \in Nat /\ strays \in Nat
  BY ButtonsTyped
<1>1. CASE LoseConnection \/ CabinetRebuild \/ RestartFrontend
  <2>1. /\ requests' = <<>> /\ Before' = Before /\ Now' = Now
        /\ slot' \in {NoMessage, slot}
        /\ pending' = NoMessage \/ pending' = pending
        /\ UNCHANGED <<resets, presses, strays, kind, chord>>
    BY <1>1 DEF LoseConnection, CabinetRebuild, RestartFrontend, Closes, Before, Now, backend
  <2>2. /\ Cardinality(Edges(<<>>, Before, Now)) <= Cardinality(Edges(requests, Before, Now))
        /\ Cardinality(Edges(<<>>, Before, Now)) = IF Now = 3 /\ Before # 3 THEN 1 ELSE 0
    BY <1>0, EdgesOfNothing, EdgesEmpty
  <2>3. resets + Cardinality(Edges(<<>>, Before, Now)) <= presses + strays
    BY <1>0, <2>2 DEF PressInv
  <2> QED  BY <2>1, <2>3 DEF PressInv
<1>2. CASE ResponseTimeout \/ DebugResetRun
  <2>1. Before' = Before /\ Now' = Now /\ pending' \in {NoMessage, pending}
        /\ UNCHANGED <<requests, resets, presses, strays, kind, slot, chord>>
    BY <1>2 DEF ResponseTimeout, DebugResetRun, Before, Now, backend, link, frontend
  <2> QED  BY <2>1 DEF PressInv
<1>3. CASE RestartBackend
  <2>1. /\ requests' = <<>> /\ Before' = 0 /\ Now' = Now
        /\ resets' = 0 /\ strays' = 0 /\ presses' = (IF chord THEN 1 ELSE 0)
        /\ pending' = NoMessage \/ pending' = pending
        /\ UNCHANGED <<kind, slot, chord>>
    BY <1>3 DEF RestartBackend, Before, Now
  <2>2. Cardinality(Edges(<<>>, 0, Now)) = IF Now = 3 THEN 1 ELSE 0
    <3>1. 0 \in 0..3 /\ 0 # 3
      OBVIOUS
    <3>2. Cardinality(Edges(<<>>, 0, Now)) = IF Now = 3 /\ 0 # 3 THEN 1 ELSE 0
      BY <1>0, <3>1, EdgesEmpty
    <3> QED  BY <3>1, <3>2
  <2>3. resets' + Cardinality(Edges(<<>>, 0, Now)) <= presses' + strays'
    BY <2>1, <2>2 DEF Now
  <2> QED  BY <2>1, <2>3 DEF PressInv
<1> QED  BY <1>1, <1>2, <1>3 DEF Faults

(* However long the three buttons are held, whatever is lost and however   *)
(* often the requests of that time are sent again, the run restarts once   *)
(* for a press, or for a request of a closed connection handled late: the  *)
(* backend waits for the release (awaiting_start_release, lib.rs,          *)
(* apply_input).                                                           *)
THEOREM PressRestartsOnce == Spec => []OneRestartPerPress
<1>1. ASSUME Init PROVE PressInv
  <2>1. /\ requests = <<>> /\ Before = 0 /\ Now = 0
        /\ resets = 0 /\ presses = 0 /\ strays = 0 /\ slot = NoMessage /\ pending = NoMessage
    BY <1>1 DEF Init, Before, Now
  <2>2. Cardinality(Edges(<<>>, 0, 0)) = 0
    <3>1. 0 \in 0..3 /\ ~(0 = 3)
      OBVIOUS
    <3>2. Cardinality(Edges(<<>>, 0, 0)) = IF 0 = 3 /\ 0 # 3 THEN 1 ELSE 0
      BY <3>1, EdgesEmpty
    <3> QED  BY <3>1, <3>2
  <2> QED  BY <2>1, <2>2 DEF PressInv
<1>2. ASSUME LinkInv, PressInv, [Next]_vars PROVE PressInv'
  <2>1. CASE Finished \/ UNCHANGED vars
    <3>1. UNCHANGED vars
      BY <2>1 DEF Finished
    <3>2. Before' = Before /\ Now' = Now
          /\ UNCHANGED <<requests, resets, presses, strays, kind, slot, pending, chord>>
      BY <3>1 DEF Before, Now, vars, backend, link, frontend, history
    <3> QED  BY <1>2, <3>2 DEF PressInv
  <2> QED  BY <1>2, <2>1, BackendPresses, FrontendPresses, FaultsPresses DEF Next
<1>3. LinkInv /\ PressInv => OneRestartPerPress
  BY ButtonsTyped DEF PressInv, OneRestartPerPress
<1> QED  BY <1>1, <1>2, <1>3, LinkInvHolds, PTL DEF Spec

=============================================================================
