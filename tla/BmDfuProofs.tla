----------------------------- MODULE BmDfuProofs -----------------------------
(***************************************************************************)
(* Invariants of BmDfu, and its refinement of DfuUpdate, for every set of  *)
(* nodes, images and offers, every size of the queues and every number of  *)
(* chunks and retries.                                                     *)
(***************************************************************************)
EXTENDS BmDfu, TLAPS

-----------------------------------------------------------------------------
(* Queues and channels.                                                    *)

\* A bounded queue with room for one more stays bounded.
LEMMA AppendBounded ==
  ASSUME NEW S, NEW k \in Nat, NEW q \in Bounded(S, k), NEW e \in S, Len(q) < k
  PROVE  Append(q, e) \in Bounded(S, k)
BY DEF Bounded

\* The elements of a longer sequence.
LEMMA AppendElements ==
  ASSUME NEW S, NEW q \in Seq(S), NEW e \in S, NEW i \in DOMAIN Append(q, e)
  PROVE  \/ i \in DOMAIN q /\ Append(q, e)[i] = q[i]
         \/ Append(q, e)[i] = e
OBVIOUS

\* The head and the rest of a bounded queue that is not empty.
LEMMA TailBounded ==
  ASSUME NEW S, NEW k \in Nat, NEW q \in Bounded(S, k), q # <<>>
  PROVE  /\ Head(q) \in S
         /\ Tail(q) \in Bounded(S, k)
         /\ Len(Tail(q)) = Len(q) - 1
         /\ \A i \in 1..Len(q) - 1 : Tail(q)[i] = q[i + 1]
         /\ Head(q) = q[1]
BY DEF Bounded

\* The empty queue is bounded.
LEMMA EmptyBounded ==
  ASSUME NEW S, NEW k \in Nat
  PROVE  <<>> \in Bounded(S, k)
BY DEF Bounded

\* Push keeps the bound, leaves the queue with something in it, and moves
\* nothing that is there.
LEMMA PushType ==
  ASSUME NEW q \in Bounded(Event, QueueLength), NEW e \in Event
  PROVE  /\ Push(q, e) \in Bounded(Event, QueueLength)
         /\ Push(q, e) # <<>>
         /\ \A i \in DOMAIN q : i \in DOMAIN Push(q, e) /\ Push(q, e)[i] = q[i]
BY BoundAssumption DEF Push, Bounded

\* The NOP event is an event.
LEMMA NopType == Nop \in Event
BY DEF Nop, Event, Local

\* Sending keeps every channel within its bound.
LEMMA SendType ==
  ASSUME NEW ch \in [Node \X Node -> Bounded(Frame, NetLength)],
         NEW n \in Node, NEW to \in Node \cup {None}, NEW frame \in Frame
  PROVE  Send(ch, n, to, frame) \in [Node \X Node -> Bounded(Frame, NetLength)]
<1>1. CASE to = None
  BY <1>1 DEF Send
<1>2. CASE to # None
  <2>1. to \in Node /\ <<n, to>> \in Node \X Node
    BY <1>2
  <2>2. CASE Len(ch[<<n, to>>]) >= NetLength
    BY <2>2 DEF Send
  <2>3. CASE ~(Len(ch[<<n, to>>]) >= NetLength)
    <3>1. ch[<<n, to>>] \in Bounded(Frame, NetLength)
      BY <2>1
    <3>2. Append(ch[<<n, to>>], frame) \in Bounded(Frame, NetLength)
      <4>1. Len(ch[<<n, to>>]) < NetLength
        BY <2>3, <3>1, BoundAssumption DEF Bounded
      <4> QED  BY <3>1, <4>1, AppendBounded, BoundAssumption
    <3>3. Send(ch, n, to, frame)
            = [ch EXCEPT ![<<n, to>>] = Append(ch[<<n, to>>], frame)]
      BY <1>2, <2>3 DEF Send
    <3> HIDE DEF Send
    <3> QED  BY <3>2, <3>3
  <2> QED  BY <2>2, <2>3
<1> QED  BY <1>1, <1>2

\* What the senders build are frames.
LEMMA FrameTypes ==
  ASSUME NEW n \in Node
  PROVE  /\ \A type \in {"HEARTBEAT", "REBOOT_REQ", "REBOOT", "BOOT_COMPLETE"} :
              Plain(n, type) \in Frame
         /\ \A type \in {"ACK", "END", "ABORT"}, err \in Err :
              Result(n, type, err) \in Frame
         /\ \A seq \in 0..NumChunks : ChunkRequest(n, seq) \in Frame
         /\ \A piece \in Piece : [type |-> "PAYLOAD", src |-> n, piece |-> piece] \in Frame
<1>1. \A type \in {"HEARTBEAT", "REBOOT_REQ", "REBOOT", "BOOT_COMPLETE"} :
        Plain(n, type) \in Frame
  BY DEF Plain, Frame
<1>2. \A type \in {"ACK", "END", "ABORT"}, err \in Err : Result(n, type, err) \in Frame
  BY DEF Result, Frame
<1>3. \A seq \in 0..NumChunks : ChunkRequest(n, seq) \in Frame
  BY DEF ChunkRequest, Frame
<1>4. \A piece \in Piece : [type |-> "PAYLOAD", src |-> n, piece |-> piece] \in Frame
  BY DEF Frame
<1> QED  BY <1>1, <1>2, <1>3, <1>4

\* So is the request that starts an update.
LEMMA StartFrameType ==
  ASSUME NEW o \in Offer
  PROVE  o.client \in Node /\ StartFrame(o) \in Frame
BY OfferAssumption DEF Offers, StartFrame, Frame

\* What an event holds, by its type.
LEMMA EventFields ==
  ASSUME NEW e \in Event
  PROVE  /\ e.type = "START" => e.src \in Node /\ e.img \in Image
         /\ e.type = "PAYLOAD" => e.src \in Node /\ e.piece \in Piece
         /\ e.type \in {"ACK", "END", "ABORT"} => e.src \in Node /\ e.err \in Err
         /\ e.type = "BEGIN_HOST" => e.offer \in Offer
BY DEF Event, Frame, Local

\* Counters may start at zero.
LEMMA ZeroInRange ==
  /\ 0 \in 0..NumChunks /\ 0 \in 0..MaxChunkRetries /\ 0 \in 0..MaxAckRetries
  /\ <<>> \in Bounded(Piece, NumChunks)
BY EmptyBounded, BoundAssumption

\* The ways a client context is changed.
LEMMA ClientUpdate ==
  ASSUME NEW c \in ClientContext, NEW to \in Node \cup {None},
         NEW img \in Image \cup {None}, NEW rx \in Bounded(Piece, NumChunks),
         NEW off \in 0..NumChunks, NEW retry \in 0..MaxChunkRetries
  PROVE  /\ [c EXCEPT !.host = to] \in ClientContext
         /\ [c EXCEPT !.retry = retry] \in ClientContext
         /\ [c EXCEPT !.host = to, !.retry = retry] \in ClientContext
         /\ [c EXCEPT !.host = to, !.img = img] \in ClientContext
         /\ [c EXCEPT !.rx = rx, !.off = off, !.retry = retry] \in ClientContext
BY DEF ClientContext

\* What a reset leaves behind has the right types.
LEMMA NoneTypes ==
  /\ NoReboot \in RebootInfo
  /\ NoClient \in ClientContext
  /\ NoHost \in HostContext
  /\ BootState \in Machine
  /\ <<[type |-> "INIT_SUCCESS"]>> \in Bounded(Event, QueueLength)
<1>1. NoReboot \in RebootInfo
  BY DEF NoReboot, RebootInfo
<1>2. NoClient \in ClientContext
  BY EmptyBounded, BoundAssumption DEF NoClient, ClientContext
<1>3. NoHost \in HostContext
  BY BoundAssumption DEF NoHost, HostContext
<1>4. BootState \in Machine
  BY DEF BootState, Machine, State, Err
<1>5. <<[type |-> "INIT_SUCCESS"]>> \in Bounded(Event, QueueLength)
  BY BoundAssumption DEF Bounded, Event, Local
<1> QED  BY <1>1, <1>2, <1>3, <1>4, <1>5
-----------------------------------------------------------------------------
(* The ways a run of the state machine ends keep the types.                *)

MachineOK ==
  /\ sm \in [Node -> Machine]
  /\ evq \in [Node -> Bounded(Event, QueueLength)]

AnswersOK == answers \in [Offer -> Bounded(BOOLEAN, MaxAnswers)]

\* The rest of the queue, with or without a NOP event.
LEMMA RestType ==
  ASSUME MachineOK, NEW n \in Node, evq[n] # <<>>
  PROVE  /\ Rest(n) \in Bounded(Event, QueueLength)
         /\ PushNop(Rest(n)) \in Bounded(Event, QueueLength)
         /\ Received(n) \in Event
BY TailBounded, PushType, NopType, BoundAssumption
DEF Rest, Received, MachineOK, PushNop

\* A run without a state change.
LEMMA StayType ==
  ASSUME MachineOK, NEW n \in Node, evq[n] # <<>>, Stay(n)
  PROVE  MachineOK'
BY RestType DEF Stay, MachineOK

\* A run with one.
LEMMA GotoType ==
  ASSUME MachineOK, NEW n \in Node, evq[n] # <<>>, NEW s \in State, Goto(n, s)
  PROVE  MachineOK'
<1> DEFINE new == [state |-> s, pend |-> None, err |-> sm[n].err, cb |-> sm[n].cb]
<1>1. new \in Machine
  BY DEF MachineOK, Machine
<1>2. sm' = [sm EXCEPT ![n] = new]
  BY DEF Goto
<1> HIDE DEF new
<1> QED  BY <1>1, <1>2, RestType DEF Goto, MachineOK

\* A run whose entry function asks for another.
LEMMA GotoThenType ==
  ASSUME MachineOK, NEW n \in Node, NEW s \in State,
         NEW p \in {None, "IDLE", "ERROR", "REBOOT_REQ"}, NEW err \in Err,
         NEW q \in Bounded(Event, QueueLength), GotoThen(n, s, p, err, q)
  PROVE  MachineOK'
<1> DEFINE new == [state |-> s, pend |-> p, err |-> err, cb |-> sm[n].cb]
<1>1. new \in Machine
  BY DEF MachineOK, Machine
<1>2. sm' = [sm EXCEPT ![n] = new]
  BY DEF GotoThen
<1>3. PushNop(PushNop(q)) \in Bounded(Event, QueueLength)
  BY PushType, NopType DEF PushNop
<1> HIDE DEF new
<1> QED  BY <1>1, <1>2, <1>3 DEF GotoThen, MachineOK

\* A call of the finish callback.
LEMMA ReportType ==
  ASSUME AnswersOK, NEW o \in Offer \cup {None}, NEW success \in BOOLEAN,
         Report(o, success)
  PROVE  AnswersOK'
<1>1. CASE o = None
  BY <1>1 DEF Report, AnswersOK
<1>2. CASE o # None
  <2>1. o \in Offer
    BY <1>2
  <2>2. (IF Len(answers[o]) < MaxAnswers THEN Append(answers[o], success)
         ELSE answers[o]) \in Bounded(BOOLEAN, MaxAnswers)
    BY <2>1, AppendBounded, BoundAssumption DEF AnswersOK
  <2> QED  BY <1>2, <2>1, <2>2 DEF Report, AnswersOK
<1> QED  BY <1>1, <1>2

\* A run that ends in the error state.
LEMMA GotoErrorType ==
  ASSUME MachineOK, AnswersOK, NEW n \in Node, NEW err \in Err,
         NEW q \in Bounded(Event, QueueLength), GotoErrorWith(n, err, q)
  PROVE  MachineOK' /\ AnswersOK'
<1>1. AnswersOK'
  <2>1. sm[n].cb \in Offer \cup {None}
    BY DEF MachineOK, Machine
  <2> QED  BY <2>1, ReportType DEF GotoErrorWith
<1>2. CASE Fatal(err)
  <2> DEFINE new == [state |-> "ERROR", pend |-> None, err |-> err, cb |-> sm[n].cb]
  <2>1. new \in Machine
    BY DEF MachineOK, Machine, State
  <2>2. sm' = [sm EXCEPT ![n] = new]
    BY <1>2 DEF GotoErrorWith
  <2>3. evq' = [evq EXCEPT ![n] = PushNop(q)]
    BY <1>2 DEF GotoErrorWith
  <2>4. PushNop(q) \in Bounded(Event, QueueLength)
    BY PushType, NopType DEF PushNop
  <2> HIDE DEF new
  <2> QED  BY <1>1, <2>1, <2>2, <2>3, <2>4 DEF MachineOK
<1>3. CASE ~Fatal(err)
  <2>1. GotoThen(n, "ERROR", "IDLE", err, q)
    BY <1>3 DEF GotoErrorWith
  <2> QED  BY <1>1, <2>1, GotoThenType DEF State
<1> QED  BY <1>2, <1>3

\* A reset of one node, and the boot loader's work during it.
LEMMA RestartType ==
  ASSUME TypeOK, NEW n \in Node, Restart(n)
  PROVE  /\ MachineOK'
         /\ (client \in [Node -> ClientContext])'
         /\ (host \in [Node -> HostContext])'
         /\ (armed \in [Node -> SUBSET Timer])'
BY NoneTypes DEF Restart, TypeOK, MachineOK

\* The boot loader's choices.
LEMMA BootType ==
  ASSUME TypeOK, NEW n \in Node
  PROVE  /\ [boot EXCEPT ![n] = Revert(boot[n])] \in [Node -> Boot]
         /\ \A cells : [boot EXCEPT ![n] = TrialOf(boot[n], cells)] \in [Node -> Boot]
         /\ [boot EXCEPT ![n].confirmed = TRUE] \in [Node -> Boot]
         /\ boot[n].running \in Image
<1>1. boot[n] \in Boot
  BY DEF TypeOK
<1>2. Revert(boot[n]) \in Boot
  BY <1>1 DEF Revert, Boot
<1>3. \A cells : TrialOf(boot[n], cells) \in Boot
  BY <1>1, <1>2 DEF TrialOf, Boot
<1>4. [boot EXCEPT ![n].confirmed = TRUE] \in [Node -> Boot]
  BY DEF TypeOK, Boot
<1> QED  BY <1>1, <1>2, <1>3, <1>4 DEF TypeOK, Boot
-----------------------------------------------------------------------------
(* The type invariant.                                                     *)

\* What each state needs so that counters and offsets keep their bounds.
Counters(n) ==
  /\ sm[n].state = "RECEIVING" =>
       /\ client[n].off = Len(client[n].rx)
       /\ Len(client[n].rx) < NumChunks
  /\ sm[n].state \in {"RECEIVING", "REBOOT_REQ", "REBOOT_DONE"} =>
       client[n].retry < MaxChunkRetries
  /\ sm[n].state = "HOST_REQ_UPDATE" => host[n].retry < MaxAckRetries
  /\ sm[n].state \in HostState => host[n].offer \in Offer

CountersInRange == \A n \in Node : Counters(n)

\* What TypeOK says, when the machine of every node is settled.
LEMMA TypeMachine == TypeOK => MachineOK /\ AnswersOK
BY DEF TypeOK, MachineOK, AnswersOK

\* The fields of what TypeOK speaks of.
LEMMA TypeFields ==
  ASSUME TypeOK, NEW n \in Node
  PROVE  /\ sm[n] \in Machine /\ client[n] \in ClientContext
         /\ host[n] \in HostContext /\ noinit[n] \in RebootInfo
         /\ boot[n] \in Boot
         /\ sm[n].err \in Err /\ sm[n].cb \in Offer \cup {None}
         /\ client[n].host \in Node \cup {None} /\ client[n].img \in Image \cup {None}
         /\ client[n].rx \in Bounded(Piece, NumChunks) /\ client[n].off \in 0..NumChunks
         /\ client[n].retry \in 0..MaxChunkRetries
         /\ host[n].offer \in Offer \cup {None} /\ host[n].left \in 0..NumChunks
         /\ host[n].retry \in 0..MaxAckRetries
         /\ noinit[n].host \in Node \cup {None}
BY DEF TypeOK, Machine, ClientContext, HostContext, RebootInfo, Boot

\* Steps without an update.
LEMMA TypeIdle ==
  ASSUME TypeOK, NEW n \in Node,
         \/ StartIdle(n) \/ LeaveError(n) \/ IgnoreEvent(n)
  PROVE  TypeOK'
<1> USE DEF nodeVars, logVars
<1>1. MachineOK BY TypeMachine
<1>2. CASE StartIdle(n)
  <2>1. MachineOK'
    BY <1>1, <1>2, GotoType DEF StartIdle, Handles, State
  <2> QED  BY <1>2, <2>1, NoneTypes DEF StartIdle, TypeOK, MachineOK
<1>3. CASE LeaveError(n)
  <2>1. [sm[n] EXCEPT !.state = "IDLE", !.pend = None] \in Machine
    BY TypeFields DEF Machine, State
  <2>2. MachineOK'
    BY <1>1, <1>3, <2>1, RestType DEF LeaveError, MachineOK
  <2> QED  BY <1>3, <2>2, NoneTypes DEF LeaveError, TypeOK, MachineOK
<1>4. CASE IgnoreEvent(n)
  <2>1. MachineOK'
    BY <1>1, <1>4, StayType DEF IgnoreEvent
  <2> QED  BY <1>4, <2>1 DEF IgnoreEvent, TypeOK, MachineOK
<1> QED  BY <1>2, <1>3, <1>4
 
\* Steps that reset the node or follow the reset.
LEMMA TypeReset ==
  ASSUME TypeOK, NEW n \in Node,
         \/ AskForConfirmation(n) \/ ConfirmAlone(n) \/ WrongVersion(n)
         \/ EmptyChunkAsserts(n) \/ Activate(n) \/ ConfirmUpdate(n)
         \/ GiveUpConfirmation(n) \/ Crash(n)
  PROVE  TypeOK'
<1> USE DEF nodeVars, logVars
<1>1. MachineOK BY TypeMachine
<1>2. CASE AskForConfirmation(n)
  <2>1. MachineOK'
    BY <1>1, <1>2, GotoType
    DEF AskForConfirmation, RebootDone, Handles, State, ClientState
  <2>2. client' \in [Node -> ClientContext]
    <3> DEFINE new == [client[n] EXCEPT !.host = noinit[n].host, !.retry = 0]
    <3>1. new \in ClientContext
      BY TypeFields, ClientUpdate, ZeroInRange
    <3>2. client' = [client EXCEPT ![n] = new]
      BY <1>2 DEF AskForConfirmation
    <3> HIDE DEF new
    <3> QED  BY <3>1, <3>2, SMTT(30) DEF TypeOK
  <2>3. net' \in [Node \X Node -> Bounded(Frame, NetLength)]
    BY <1>2, TypeFields, SendType, FrameTypes DEF AskForConfirmation, Transmit, TypeOK
  <2> QED  BY <1>2, <2>1, <2>2, <2>3
           DEF AskForConfirmation, Arm, Timer, TypeOK, MachineOK
<1>3. CASE ConfirmAlone(n)
  BY <1>3, RestartType, BootType, NoneTypes
  DEF ConfirmAlone, Confirm, TypeOK, MachineOK
<1>4. CASE WrongVersion(n)
  <2>1. net' \in [Node \X Node -> Bounded(Frame, NetLength)]
    BY <1>4, TypeFields, SendType, FrameTypes DEF WrongVersion, Transmit, TypeOK, Err
  <2> QED  BY <1>4, <2>1, RestartType, BootType, NoneTypes
           DEF WrongVersion, TypeOK, MachineOK
<1>5. CASE EmptyChunkAsserts(n)
  BY <1>5, RestartType, BootType DEF EmptyChunkAsserts, TypeOK, MachineOK
<1>6. CASE Activate(n)
  BY <1>6, RestartType, BootType DEF Activate, TypeOK, MachineOK
<1>7. CASE ConfirmUpdate(n)
  <2>1. MachineOK'
    BY <1>1, <1>7, GotoType DEF ConfirmUpdate, Handles, State
  <2>2. net' \in [Node \X Node -> Bounded(Frame, NetLength)]
    BY <1>7, TypeFields, SendType, FrameTypes DEF ConfirmUpdate, Transmit, TypeOK, Err
  <2> QED  BY <1>7, <2>1, <2>2, BootType, NoneTypes
           DEF ConfirmUpdate, Confirm, Disarm, TypeOK, MachineOK
<1>8. CASE GiveUpConfirmation(n)
  <2>1. net' \in [Node \X Node -> Bounded(Frame, NetLength)]
    BY <1>8, TypeFields, SendType, FrameTypes
    DEF GiveUpConfirmation, Transmit, TypeOK, Err
  <2> QED  BY <1>8, <2>1, RestartType, BootType, NoneTypes
           DEF GiveUpConfirmation, TypeOK, MachineOK
<1>9. CASE Crash(n)
  <2>1. (crashes \in 0..MaxCrashes)'
    BY <1>9, BoundAssumption DEF Crash, TypeOK
  <2> QED  BY <1>9, <2>1, RestartType, BootType, NoneTypes, ZenonT(60) DEF Crash, TypeOK, MachineOK
<1> QED  BY <1>2, <1>3, <1>4, <1>5, <1>6, <1>7, <1>8, <1>9

\* The peer a frame goes to, and what is sent, stay within the types.
LEMMA TransmitType ==
  ASSUME TypeOK, NEW n \in Node, NEW to \in Node \cup {None}, NEW frame \in Frame,
         Transmit(n, to, frame)
  PROVE  (net \in [Node \X Node -> Bounded(Frame, NetLength)])'
BY SendType DEF Transmit, TypeOK

\* The four answers to a request.
LEMMA TypeRequest ==
  ASSUME TypeOK, NEW n \in Node,
         \/ RefuseSameVersion(n) \/ RefuseOversized(n) \/ RefuseFlash(n)
         \/ AcceptUpdate(n)
  PROVE  TypeOK'
<1> USE DEF nodeVars, logVars
<1> DEFINE e == Received(n)
           named == [client[n] EXCEPT !.host = e.src, !.img = e.img]
<1>1. MachineOK /\ AnswersOK BY TypeMachine
<1>2. /\ evq[n] # <<>>
      /\ e \in Event /\ e.type = "START"
      /\ e.src \in Node /\ e.img \in Image
  <2>1. evq[n] # <<>> /\ e.type = "START"
    BY DEF RefuseSameVersion, RefuseOversized, RefuseFlash, AcceptUpdate,
           UpdateRequest, Handles
  <2> QED  BY <1>1, <2>1, RestType, EventFields
<1>3. /\ [client EXCEPT ![n] = named] \in [Node -> ClientContext]
      /\ [client EXCEPT ![n].host = e.src] \in [Node -> ClientContext]
  <2>1. named \in ClientContext /\ [client[n] EXCEPT !.host = e.src] \in ClientContext
    BY <1>2, TypeFields, ClientUpdate, ZeroInRange
  <2> HIDE DEF named
  <2> QED  BY <2>1 DEF TypeOK
<1>4. \A err \in Err : Result(n, "ACK", err) \in Frame
  BY FrameTypes
<1> HIDE DEF e
<1>5. CASE RefuseSameVersion(n)
  <2>1. MachineOK'
    BY <1>1, <1>2, <1>5, StayType DEF RefuseSameVersion
  <2>2. (net \in [Node \X Node -> Bounded(Frame, NetLength)])'
    BY <1>2, <1>4, <1>5, TransmitType DEF RefuseSameVersion, Refuse, e, Err
  <2> QED  BY <1>3, <1>5, <2>1, <2>2 DEF RefuseSameVersion, TypeOK, MachineOK, e
<1>6. CASE RefuseOversized(n)
  <2>1. MachineOK'
    BY <1>1, <1>2, <1>6, StayType DEF RefuseOversized
  <2>2. (net \in [Node \X Node -> Bounded(Frame, NetLength)])'
    BY <1>2, <1>4, <1>6, TransmitType DEF RefuseOversized, Refuse, e, Err
  <2> QED  BY <1>3, <1>6, <2>1, <2>2 DEF RefuseOversized, TypeOK, MachineOK, e
<1>7. CASE RefuseFlash(n)
  <2>1. MachineOK' /\ AnswersOK'
    BY <1>1, <1>2, <1>7, GotoErrorType, RestType DEF RefuseFlash, GotoError, Err
  <2>2. (net \in [Node \X Node -> Bounded(Frame, NetLength)])'
    BY <1>2, <1>4, <1>7, TransmitType DEF RefuseFlash, Refuse, e, Err
  <2> QED  BY <1>3, <1>7, <2>1, <2>2 DEF RefuseFlash, TypeOK, MachineOK, AnswersOK, e
<1>8. CASE AcceptUpdate(n)
  <2>1. MachineOK'
    BY <1>1, <1>2, <1>8, GotoType DEF AcceptUpdate, State, ClientState
  <2>2. (net \in [Node \X Node -> Bounded(Frame, NetLength)])'
    <3>1. Send(net, n, e.src, Result(n, "ACK", "NONE"))
            \in [Node \X Node -> Bounded(Frame, NetLength)]
      BY <1>2, <1>4, SendType DEF TypeOK, Err
    <3> QED  BY <1>2, <1>8, <3>1, SendType, FrameTypes, ZeroInRange DEF AcceptUpdate, e
  <2>3. (client \in [Node -> ClientContext])'
    <3>1. [NoClient EXCEPT !.host = e.src, !.img = e.img] \in ClientContext
      BY <1>2, NoneTypes, ClientUpdate, ZeroInRange
    <3> QED  BY <1>8, <3>1 DEF AcceptUpdate, TypeOK, e
  <2>4. (noinit \in [Node -> RebootInfo])'
    <3>1. Note(e) \in RebootInfo
      BY <1>2 DEF Note, RebootInfo
    <3> QED  BY <1>8, <3>1 DEF AcceptUpdate, TypeOK, e
  <2>5. (slot \in [Node -> [1..NumChunks -> Cell]])'
    BY <1>8 DEF AcceptUpdate, TypeOK, Blank, Cell
  <2> QED  BY <1>8, <2>1, <2>2, <2>3, <2>4, <2>5
           DEF AcceptUpdate, Arm, Timer, TypeOK, MachineOK
<1> QED  BY <1>5, <1>6, <1>7, <1>8

\* A chunk keeps the offset within the image, and is put into the slot.
LEMMA TakeChunkType ==
  ASSUME TypeOK, CountersInRange, NEW n \in Node, NEW written \in BOOLEAN,
         TakeChunk(n, written)
  PROVE  /\ (client \in [Node -> ClientContext])'
         /\ (slot \in [Node -> [1..NumChunks -> Cell]])'
         /\ evq[n] # <<>>
         /\ sm[n].state = "RECEIVING"
         /\ Received(n).piece \in Piece
<1> DEFINE p  == Received(n).piece
           at == client[n].off + 1
           off == IF written THEN at ELSE client[n].off
<1>1. MachineOK BY TypeMachine
<1>2. /\ evq[n] # <<>> /\ sm[n].state = "RECEIVING"
      /\ p \in Piece
  BY <1>1, RestType, EventFields DEF TakeChunk, Chunk, Handles
<1>3. client[n].off \in Nat /\ at \in 1..NumChunks /\ off \in 0..NumChunks
  BY <1>2, TypeFields, BoundAssumption, SMTT(30) DEF CountersInRange, Counters, Bounded
<1>4. Append(client[n].rx, p) \in Bounded(Piece, NumChunks)
  BY <1>2, TypeFields, AppendBounded, BoundAssumption DEF CountersInRange, Counters
<1>5. (client \in [Node -> ClientContext])'
  <2> DEFINE rx  == Append(client[n].rx, p)
             new == [client[n] EXCEPT !.rx = rx, !.off = off, !.retry = 0]
  <2>1. client' = [client EXCEPT ![n] = new]
    BY SMTT(30) DEF TakeChunk
  <2>2. new \in ClientContext
    <3>1. client[n] \in ClientContext
      BY TypeFields
    <3> HIDE DEF rx, off
    <3> QED  BY <1>3, <1>4, <3>1, ClientUpdate, ZeroInRange DEF rx
  <2> HIDE DEF new
  <2> QED  BY <2>1, <2>2 DEF TypeOK
<1>6. (slot \in [Node -> [1..NumChunks -> Cell]])'
  <2> DEFINE cell == slot[n][at] \cup (IF written THEN {p} ELSE {p, Torn(p)})
  <2>1. slot[n] \in [1..NumChunks -> Cell] /\ slot[n][at] \in Cell
    BY <1>3, ZenonT(60) DEF TypeOK
  <2>2. Torn(p) \in Piece
    BY <1>2, ZeroInRange DEF Torn, Piece
  <2>3. cell \in Cell
    BY <1>2, <2>1, <2>2 DEF Cell
  <2>4. slot' = [slot EXCEPT ![n] = [slot[n] EXCEPT ![at] = cell]]
    BY DEF TakeChunk
  <2> HIDE DEF cell, at
  <2>5. [slot[n] EXCEPT ![at] = cell] \in [1..NumChunks -> Cell]
    BY <2>1, <2>3
  <2> QED  BY <2>4, <2>5 DEF TypeOK
<1> QED  BY <1>2, <1>5, <1>6

\* The four ways to take a chunk.
LEMMA TypeChunk ==
  ASSUME TypeOK, CountersInRange, NEW n \in Node,
         \/ ReceiveChunk(n) \/ ChunkWriteFails(n) \/ LastWriteFails(n)
         \/ Validate(n)
  PROVE  TypeOK'
<1> USE DEF nodeVars, logVars
<1>1. MachineOK /\ AnswersOK BY TypeMachine
<1>2. PICK written \in BOOLEAN : TakeChunk(n, written)
  BY DEF ReceiveChunk, ChunkWriteFails, LastWriteFails, Validate
<1>3. /\ (client \in [Node -> ClientContext])'
      /\ (slot \in [Node -> [1..NumChunks -> Cell]])'
      /\ evq[n] # <<>> /\ sm[n].state = "RECEIVING"
  BY <1>2, TakeChunkType
<1>4. \A w \in BOOLEAN : AfterWrite(n, w) \in Bounded(Event, QueueLength)
  BY <1>1, <1>3, RestType DEF AfterWrite
<1>5. ~LastChunk(n) /\ AskNext(n)
        => (net \in [Node \X Node -> Bounded(Frame, NetLength)])'
  <2> SUFFICES ASSUME ~LastChunk(n), AskNext(n)
               PROVE  (net \in [Node \X Node -> Bounded(Frame, NetLength)])'
    OBVIOUS
  <2>1. Len(client[n].rx) + 1 \in 0..NumChunks
    BY <1>3, TypeFields, BoundAssumption DEF LastChunk, Bounded, CountersInRange, Counters
  <2> QED  BY <2>1, TypeFields, TransmitType, FrameTypes DEF AskNext
<1>6. CASE ReceiveChunk(n)
  <2>1. MachineOK'
    BY <1>1, <1>3, <1>6, StayType DEF ReceiveChunk
  <2> QED  BY <1>3, <1>5, <1>6, <2>1 DEF ReceiveChunk, Arm, Timer, TypeOK, MachineOK
<1>7. CASE ChunkWriteFails(n)
  <2>1. MachineOK' /\ AnswersOK'
    BY <1>1, <1>3, <1>7, GotoErrorType, RestType DEF ChunkWriteFails, GotoError, Err
  <2> QED  BY <1>3, <1>5, <1>7, <2>1
           DEF ChunkWriteFails, Arm, Timer, TypeOK, MachineOK, AnswersOK
<1>8. CASE LastWriteFails(n)
  <2>1. MachineOK' /\ AnswersOK'
    BY <1>1, <1>4, <1>8, GotoErrorType DEF LastWriteFails, Err
  <2> QED  BY <1>3, <1>8, <2>1 DEF LastWriteFails, Disarm, TypeOK, MachineOK, AnswersOK
<1>9. CASE Validate(n)
  <2> DEFINE err == Verdict(client'[n])
  <2>1. err \in Err
    BY DEF Verdict, Err
  <2> HIDE DEF err
  <2>2. PICK w \in BOOLEAN :
          \/ /\ GotoThen(n, "VALIDATING", "REBOOT_REQ", sm[n].err, AfterWrite(n, w))
             /\ UNCHANGED net
          \/ /\ GotoThen(n, "VALIDATING", "ERROR", err, AfterWrite(n, w))
             /\ Transmit(n, client'[n].host, Result(n, "END", err))
    BY <1>9 DEF Validate, err
  <2>3. MachineOK'
    BY <1>1, <1>4, <2>1, <2>2, TypeFields, GotoThenType DEF State, ClientState
  <2>4. client'[n].host \in Node \cup {None}
    BY <1>3 DEF ClientContext
  <2>5. (net \in [Node \X Node -> Bounded(Frame, NetLength)])'
    BY <2>1, <2>2, <2>4, TransmitType, FrameTypes DEF TypeOK
  <2> QED  BY <1>3, <1>9, <2>3, <2>5 DEF Validate, Disarm, TypeOK, MachineOK
<1> QED  BY <1>6, <1>7, <1>8, <1>9

\* The other steps of a client.
LEMMA TypeClientWait ==
  ASSUME TypeOK, CountersInRange, NEW n \in Node,
         \/ RestartTransfer(n) \/ KeepWaiting(n) \/ AskAgain(n) \/ GiveUp(n)
         \/ LeaveValidating(n)
  PROVE  TypeOK'
<1> USE DEF nodeVars, logVars
<1>1. MachineOK /\ AnswersOK BY TypeMachine
<1>2. CASE RestartTransfer(n)
  <2>1. MachineOK'
    BY <1>1, <1>2, StayType DEF RestartTransfer, Handles
  <2>2. (client \in [Node -> ClientContext])'
    <3> DEFINE new == [client[n] EXCEPT !.rx = <<>>, !.off = 0, !.retry = 0]
    <3>1. new \in ClientContext
      BY TypeFields, ClientUpdate, ZeroInRange
    <3>2. client' = [client EXCEPT ![n] = new]
      BY <1>2 DEF RestartTransfer
    <3> HIDE DEF new
    <3> QED  BY <3>1, <3>2 DEF TypeOK
  <2>3. (net \in [Node \X Node -> Bounded(Frame, NetLength)])'
    <3> DEFINE to == client[n].host
    <3>1. to \in Node \cup {None}
      BY TypeFields
    <3>2. Send(net, n, to, Result(n, "ACK", "NONE"))
            \in [Node \X Node -> Bounded(Frame, NetLength)]
      BY <3>1, SendType, FrameTypes DEF TypeOK, Err
    <3> QED  BY <1>2, <3>1, <3>2, SendType, FrameTypes, ZeroInRange DEF RestartTransfer
  <2> QED  BY <1>2, <2>1, <2>2, <2>3 DEF RestartTransfer, Arm, Timer, TypeOK, MachineOK
<1>3. CASE KeepWaiting(n)
  <2>1. MachineOK'
    BY <1>1, <1>3, StayType DEF KeepWaiting, Handles
  <2> QED  BY <1>3, <2>1 DEF KeepWaiting, Arm, Timer, TypeOK, MachineOK
<1>4. CASE AskAgain(n)
  <2>1. PICK state \in {"RECEIVING", "REBOOT_REQ", "REBOOT_DONE"} :
          /\ Handles(n, state, "CHUNK_TIMEOUT")
          /\ client[n].retry + 1 < MaxChunkRetries
          /\ client' = [client EXCEPT ![n].retry = client[n].retry + 1]
          /\ Transmit(n, client[n].host, Request(n, state))
          /\ Stay(n)
          /\ Arm(n, "chunk")
          /\ UNCHANGED <<host, noinit, slot, boot, confirmOn, logVars>>
    BY <1>4 DEF AskAgain
  <2>2. MachineOK'
    BY <1>1, <2>1, StayType DEF Handles
  <2>3. (client \in [Node -> ClientContext])'
    <3>1. client[n].retry + 1 \in 0..MaxChunkRetries
      BY <2>1, TypeFields, BoundAssumption
    <3>2. [client[n] EXCEPT !.retry = client[n].retry + 1] \in ClientContext
      BY <3>1, TypeFields, ClientUpdate, ZenonT(60)
    <3> QED  BY <2>1, <3>2 DEF TypeOK
  <2>4. Request(n, state) \in Frame
    <3>1. Len(client[n].rx) \in 0..NumChunks
      BY TypeFields, BoundAssumption DEF Bounded
    <3> QED  BY <3>1, FrameTypes DEF Request
  <2>5. (net \in [Node \X Node -> Bounded(Frame, NetLength)])'
    BY <2>1, <2>4, TypeFields, TransmitType
  <2> QED  BY <2>1, <2>2, <2>3, <2>5 DEF Arm, Timer, TypeOK, MachineOK
<1>5. CASE GiveUp(n)
  <2>1. MachineOK' /\ AnswersOK'
    BY <1>1, <1>5, GotoErrorType, RestType DEF GiveUp, GotoError, Handles, Err
  <2>2. (client \in [Node -> ClientContext])'
    <3>1. client[n].retry + 1 \in 0..MaxChunkRetries
      BY <1>5, TypeFields, BoundAssumption DEF GiveUp, Handles, CountersInRange, Counters
    <3>2. [client[n] EXCEPT !.retry = client[n].retry + 1] \in ClientContext
      BY <3>1, TypeFields, ClientUpdate, ZenonT(60)
    <3> QED  BY <1>5, <3>2 DEF GiveUp, TypeOK
  <2>3. (net \in [Node \X Node -> Bounded(Frame, NetLength)])'
    BY <1>5, TypeFields, TransmitType, FrameTypes DEF GiveUp, Err
  <2> QED  BY <1>5, <2>1, <2>2, <2>3 DEF GiveUp, Disarm, TypeOK, MachineOK, AnswersOK
<1>6. CASE LeaveValidating(n) /\ sm[n].pend = "REBOOT_REQ"
  <2>1. [sm[n] EXCEPT !.state = "REBOOT_REQ", !.pend = None] \in Machine
    BY TypeFields DEF Machine, State, ClientState
  <2>2. MachineOK'
    BY <1>1, <1>6, <2>1, RestType DEF LeaveValidating, MachineOK
  <2>3. (client \in [Node -> ClientContext])'
    <3>1. [client[n] EXCEPT !.retry = 0] \in ClientContext
      BY TypeFields, ClientUpdate, ZeroInRange
    <3> QED  BY <1>6, <3>1 DEF LeaveValidating, TypeOK
  <2>4. (net \in [Node \X Node -> Bounded(Frame, NetLength)])'
    BY <1>6, TypeFields, TransmitType, FrameTypes DEF LeaveValidating
  <2> QED  BY <1>6, <2>2, <2>3, <2>4 DEF LeaveValidating, Arm, Timer, TypeOK, MachineOK
<1>7. CASE LeaveValidating(n) /\ sm[n].pend = "ERROR"
  <2>1. [sm[n] EXCEPT !.state = "ERROR", !.pend = "IDLE"] \in Machine
    BY TypeFields DEF Machine, State
  <2>2. MachineOK'
    BY <1>1, <1>7, <2>1, RestType DEF LeaveValidating, MachineOK
  <2>3. AnswersOK'
    BY <1>1, <1>7, TypeFields, ReportType DEF LeaveValidating
  <2> QED  BY <1>7, <2>2, <2>3 DEF LeaveValidating, TypeOK, MachineOK, AnswersOK
<1> QED  BY <1>2, <1>3, <1>4, <1>5, <1>6, <1>7 DEF LeaveValidating

\* The steps of a host until the client has accepted, and its abort.
LEMMA TypeHostWait ==
  ASSUME TypeOK, CountersInRange, NEW n \in Node,
         \/ BeginHost(n) \/ HostAck(n) \/ HostNack(n) \/ HostAckTimeout(n)
         \/ HostAbort(n)
  PROVE  TypeOK'
<1> USE DEF nodeVars, logVars
<1>1. MachineOK /\ AnswersOK BY TypeMachine
<1>2. CASE BeginHost(n)
  <2> DEFINE o == Received(n).offer
             new == [state |-> "HOST_REQ_UPDATE", pend |-> None, err |-> sm[n].err, cb |-> o]
  <2>1. evq[n] # <<>> /\ o \in Offer
    BY <1>1, <1>2, RestType, EventFields DEF BeginHost, Handles
  <2> HIDE DEF o
  <2>2. new \in Machine
    BY <2>1, TypeFields DEF Machine, State, HostState
  <2>3. sm' = [sm EXCEPT ![n] = new]
    BY <1>2 DEF BeginHost, o
  <2> HIDE DEF new
  <2>4. MachineOK'
    BY <1>1, <1>2, <2>1, <2>2, <2>3, RestType DEF BeginHost, MachineOK
  <2>5. (host \in [Node -> HostContext])'
    <3>1. [offer |-> o, left |-> NumChunks, retry |-> 0] \in HostContext
      BY <2>1, ZeroInRange, BoundAssumption DEF HostContext
    <3> QED  BY <1>2, <3>1 DEF BeginHost, TypeOK, o
  <2>6. (net \in [Node \X Node -> Bounded(Frame, NetLength)])'
    BY <1>2, <2>1, StartFrameType, TransmitType DEF BeginHost, o
  <2> QED  BY <1>2, <2>4, <2>5, <2>6 DEF BeginHost, Arm, Timer, TypeOK, MachineOK
<1>3. CASE HostAck(n)
  <2>1. MachineOK'
    BY <1>1, <1>3, GotoType DEF HostAck, Handles, State, HostState
  <2> QED  BY <1>3, <2>1 DEF HostAck, Timer, TypeOK, MachineOK
<1>4. \A err \in Err : evq[n] # <<>> /\ HostError(n, err) =>
        /\ MachineOK' /\ AnswersOK'
        /\ (armed \in [Node -> SUBSET Timer])'
  BY <1>1, GotoErrorType, RestType DEF HostError, GotoError, TypeOK
<1>5. CASE HostNack(n)
  <2>1. evq[n] # <<>> /\ Received(n).err \in Err
    BY <1>1, <1>5, RestType, EventFields DEF HostNack, Handles
  <2> QED  BY <1>4, <1>5, <2>1 DEF HostNack, TypeOK, MachineOK, AnswersOK
<1>6. CASE HostAckTimeout(n)
  <2>1. evq[n] # <<>> /\ sm[n].state = "HOST_REQ_UPDATE"
    BY <1>6 DEF HostAckTimeout, Handles
  <2>2. (host \in [Node -> HostContext])'
    <3>1. host[n].retry + 1 \in 0..MaxAckRetries
      BY <2>1, TypeFields, BoundAssumption DEF CountersInRange, Counters
    <3>2. [host[n] EXCEPT !.retry = host[n].retry + 1] \in HostContext
      BY <3>1, TypeFields DEF HostContext
    <3> QED  BY <1>6, <3>2 DEF HostAckTimeout, TypeOK
  <2>3. CASE host[n].retry + 1 >= MaxAckRetries
    <3>1. HostError(n, "TIMEOUT") /\ UNCHANGED net
      BY <1>6, <2>3 DEF HostAckTimeout
    <3> QED  BY <1>4, <1>6, <2>1, <2>2, <3>1
             DEF HostAckTimeout, TypeOK, MachineOK, AnswersOK, Err
  <2>4. CASE ~(host[n].retry + 1 >= MaxAckRetries)
    <3>1. host[n].offer \in Offer
      BY <2>1 DEF CountersInRange, Counters, HostState
    <3>2. /\ Transmit(n, host[n].offer.client, StartFrame(host[n].offer))
          /\ Stay(n) /\ Arm(n, "ack") /\ UNCHANGED answers
      BY <1>6, <2>4 DEF HostAckTimeout
    <3>3. (net \in [Node \X Node -> Bounded(Frame, NetLength)])'
      BY <3>1, <3>2, StartFrameType, TransmitType
    <3>4. MachineOK'
      BY <1>1, <2>1, <3>2, StayType
    <3> QED  BY <1>6, <2>2, <3>2, <3>3, <3>4
             DEF HostAckTimeout, Arm, Timer, TypeOK, MachineOK
  <2> QED  BY <2>3, <2>4
<1>7. CASE HostAbort(n)
  <2>1. evq[n] # <<>> /\ Received(n).err \in Err
    BY <1>1, <1>7, RestType, EventFields DEF HostAbort, Handles
  <2> QED  BY <1>4, <1>7, <2>1 DEF HostAbort, TypeOK, MachineOK, AnswersOK
<1> QED  BY <1>2, <1>3, <1>5, <1>6, <1>7

\* The steps of a host during the transfer.
LEMMA TypeHostUpdate ==
  ASSUME TypeOK, CountersInRange, NEW n \in Node,
         \/ HostSendChunk(n) \/ HostChunkError(n) \/ HostAgree(n) \/ HostEnd(n)
  PROVE  TypeOK'
<1> USE DEF nodeVars, logVars
<1>1. MachineOK /\ AnswersOK BY TypeMachine
<1>2. evq[n] # <<>> /\ host[n].offer \in Offer /\ host[n].offer.client \in Node
  <2>1. evq[n] # <<>> /\ sm[n].state = "HOST_UPDATE"
    BY DEF HostSendChunk, HostChunkError, HostAgree, HostEnd, Handles
  <2> QED  BY <2>1, StartFrameType DEF CountersInRange, Counters, HostState
<1>3. CASE HostSendChunk(n)
  <2> DEFINE h     == host[n]
             piece == [img |-> h.offer.img,
                       seq |-> IF h.left = 0 THEN 0 ELSE NumChunks - h.left + 1]
             frame == [type |-> "PAYLOAD", src |-> n, piece |-> piece]
             to    == h.offer.client
  <2>1. piece \in Piece
    <3>1. h.offer.img \in Image
      BY <1>2, OfferAssumption DEF Offers
    <3>2. h.left \in 0..NumChunks
      BY TypeFields
    <3>3. (IF h.left = 0 THEN 0 ELSE NumChunks - h.left + 1) \in 0..NumChunks
      BY <3>2, BoundAssumption
    <3> QED  BY <3>1, <3>3 DEF Piece
  <2>2. frame \in Frame
    BY <2>1, FrameTypes
  <2>3. PICK slow \in BOOLEAN :
          net' = Send(IF slow THEN Send(net, n, to, Plain(n, "HEARTBEAT")) ELSE net,
                      n, to, frame)
    BY <1>3 DEF HostSendChunk
  <2> HIDE DEF piece, frame, to
  <2>4. to \in Node
    BY <1>2 DEF to
  <2>5. (IF slow THEN Send(net, n, to, Plain(n, "HEARTBEAT")) ELSE net)
          \in [Node \X Node -> Bounded(Frame, NetLength)]
    BY <2>4, SendType, FrameTypes DEF TypeOK
  <2>6. (net \in [Node \X Node -> Bounded(Frame, NetLength)])'
    BY <2>2, <2>3, <2>4, <2>5, SendType
  <2>7. MachineOK'
    BY <1>1, <1>2, <1>3, StayType DEF HostSendChunk
  <2>8. (host \in [Node -> HostContext])'
    <3>1. (IF h.left = 0 THEN 0 ELSE h.left - 1) \in 0..NumChunks
      BY TypeFields, BoundAssumption
    <3>2. [h EXCEPT !.left = IF h.left = 0 THEN 0 ELSE h.left - 1] \in HostContext
      BY <3>1, TypeFields DEF HostContext
    <3> QED  BY <1>3, <3>2 DEF HostSendChunk, TypeOK
  <2> QED  BY <1>3, <2>6, <2>7, <2>8 DEF HostSendChunk, TypeOK, MachineOK
<1>4. CASE HostChunkError(n)
  <2>1. HostError(n, "FLASH_ACCESS") \/ HostError(n, "IMG_CHUNK_ACCESS")
    BY <1>4 DEF HostChunkError
  <2>2. /\ MachineOK' /\ AnswersOK'
        /\ (armed \in [Node -> SUBSET Timer])'
    BY <1>1, <1>2, <2>1, GotoErrorType, RestType DEF HostError, GotoError, TypeOK, Err
  <2> QED  BY <1>4, <2>2 DEF HostChunkError, TypeOK, MachineOK, AnswersOK
<1>5. CASE HostAgree(n)
  <2>1. MachineOK'
    BY <1>1, <1>2, <1>5, StayType DEF HostAgree
  <2>2. (net \in [Node \X Node -> Bounded(Frame, NetLength)])'
    BY <1>2, <1>5, TransmitType, FrameTypes DEF HostAgree, Err
  <2> QED  BY <1>5, <2>1, <2>2 DEF HostAgree, TypeOK, MachineOK
<1>6. CASE HostEnd(n)
  <2>1. MachineOK'
    BY <1>1, <1>2, <1>6, GotoType DEF HostEnd, State
  <2>2. AnswersOK'
    BY <1>1, <1>2, <1>6, ReportType DEF HostEnd
  <2> QED  BY <1>6, <2>1, <2>2, NoneTypes
           DEF HostEnd, Disarm, TypeOK, MachineOK, AnswersOK
<1> QED  BY <1>3, <1>4, <1>5, <1>6

\* A call of an application.
LEMMA TypeInitiate ==
  ASSUME TypeOK, NEW o \in Offer, Initiate(o)
  PROVE  TypeOK'
<1> USE DEF nodeVars, logVars
<1>1. MachineOK /\ AnswersOK BY TypeMachine
<1>2. o.host \in Node
  BY OfferAssumption DEF Offers
<1>3. (asked \in SUBSET Offer)'
  BY DEF Initiate, TypeOK
<1>4. CASE sm[o.host].state = "IDLE" /\ Len(evq[o.host]) < QueueLength
  <2> DEFINE e == [type |-> "BEGIN_HOST", offer |-> o]
  <2>1. e \in Event
    BY DEF Event, Local
  <2> HIDE DEF e
  <2>2. Append(evq[o.host], e) \in Bounded(Event, QueueLength)
    BY <1>1, <1>2, <1>4, <2>1, AppendBounded, BoundAssumption DEF MachineOK
  <2>3. evq' = [evq EXCEPT ![o.host] = Append(evq[o.host], e)]
    BY <1>4 DEF Initiate, e
  <2> QED  BY <1>2, <1>3, <1>4, <2>2, <2>3 DEF Initiate, TypeOK
<1>5. CASE ~(sm[o.host].state = "IDLE" /\ Len(evq[o.host]) < QueueLength)
  <2>1. AnswersOK'
    BY <1>1, <1>5, ReportType DEF Initiate
  <2> QED  BY <1>3, <1>5, <2>1 DEF Initiate, TypeOK, AnswersOK
<1> QED  BY <1>4, <1>5

\* A frame that arrives or is lost.
LEMMA TypeNetwork ==
  ASSUME TypeOK, NEW m \in Node, NEW n \in Node,
         ProcessMessage(m, n) \/ LoseFrame(m, n)
  PROVE  TypeOK'
<1> USE DEF nodeVars, logVars
<1> DEFINE ch == net[<<m, n>>]
<1>1. <<m, n>> \in Node \X Node /\ ch \in Bounded(Frame, NetLength) /\ ch # <<>>
  BY DEF ProcessMessage, LoseFrame, TypeOK
<1>2. Head(ch) \in Frame /\ Tail(ch) \in Bounded(Frame, NetLength)
  BY <1>1, TailBounded, BoundAssumption
<1>3. (net \in [Node \X Node -> Bounded(Frame, NetLength)])'
  BY <1>1, <1>2 DEF ProcessMessage, LoseFrame, TypeOK
<1>4. (evq \in [Node -> Bounded(Event, QueueLength)])'
  <2>1. Push(evq[n], Head(ch)) \in Bounded(Event, QueueLength)
    BY <1>2, PushType DEF TypeOK, Event
  <2> QED  BY <2>1 DEF ProcessMessage, LoseFrame, TypeOK
<1> QED  BY <1>3, <1>4 DEF ProcessMessage, LoseFrame, TypeOK

\* A timer that expires.
LEMMA TypeTimer ==
  ASSUME TypeOK, NEW n \in Node, NEW tmr \in Timer, TimerExpires(n, tmr)
  PROVE  TypeOK'
<1> USE DEF nodeVars, logVars
<1>1. CASE Len(evq[n]) < QueueLength
  <2>1. Expiry(n, tmr) \in Event
    BY FrameTypes DEF Expiry, Event, Local, Timer, Err
  <2>2. Append(evq[n], Expiry(n, tmr)) \in Bounded(Event, QueueLength)
    BY <1>1, <2>1, AppendBounded, BoundAssumption DEF TypeOK
  <2> QED  BY <1>1, <2>2, ZenonT(60) DEF TimerExpires, Disarm, TypeOK
<1>2. CASE ~(Len(evq[n]) < QueueLength)
  <2>1. Restart(n) /\ boot' = [boot EXCEPT ![n] = Revert(boot[n])]
    BY <1>2 DEF TimerExpires
  <2> QED  BY <2>1, RestartType, BootType DEF TimerExpires, TypeOK, MachineOK
<1> QED  BY <1>1, <1>2

\* Every step keeps the types.
LEMMA TypeStep ==
  ASSUME TypeOK, CountersInRange, [Next]_vars
  PROVE  TypeOK'
<1>1. CASE Next
  <2>1. ASSUME NEW n \in Node, RunEventThread(n)
        PROVE  TypeOK'
    BY <2>1, TypeIdle, TypeReset, TypeRequest, TypeChunk, TypeClientWait,
       TypeHostWait, TypeHostUpdate
    DEF RunEventThread, ClientStep, HostStep
  <2> QED  BY <1>1, <2>1, TypeReset, TypeTimer, TypeNetwork, TypeInitiate DEF Next
<1>2. CASE UNCHANGED vars
  BY <1>2 DEF vars, nodeVars, logVars, TypeOK
<1> QED  BY <1>1, <1>2
-----------------------------------------------------------------------------
(* The inductive invariant.  It speaks of one node at a time: a step of    *)
(* the event thread of n changes nothing of another node, so that only n   *)
(* is left to be looked at.                                                *)

\* An entry function asked for another state, and its event is queued.
Pending(n) ==
  sm[n].pend # None =>
    /\ evq[n] # <<>>
    /\ \/ sm[n].state = "VALIDATING" /\ sm[n].pend \in {"REBOOT_REQ", "ERROR"}
       \/ sm[n].state = "ERROR" /\ sm[n].pend = "IDLE"

\* A client that has accepted an update has its record in no-init RAM, and a
\* node that runs an image on trial is such a client or boots as one.
Recorded(n) ==
  /\ sm[n].state \in ClientState => noinit[n].magic
  /\ ~boot[n].confirmed => /\ sm[n].state \in {"INIT", "REBOOT_DONE"}
                           /\ noinit[n].magic

\* What is in the slot is what was received, in order of arrival, up to the
\* moment the image is found good.
Filled(n) ==
  /\ sm[n].state = "RECEIVING" =>
       \A i \in 1..client[n].off : slot[n][i] = {client[n].rx[i]}
  /\ sm[n].state = "VALIDATING" /\ sm[n].pend = "REBOOT_REQ" =>
       Holds(slot[n], client[n].img)
  /\ sm[n].state = "REBOOT_REQ" => Holds(slot[n], client[n].img)

\* A wait for the peer is timed.
Waiting(n) ==
  /\ sm[n].state \in {"RECEIVING", "REBOOT_REQ", "REBOOT_DONE"}
       => Timed(n, "chunk", "CHUNK_TIMEOUT")
  /\ sm[n].state = "HOST_REQ_UPDATE" => Timed(n, "ack", "ACK_TIMEOUT")
  /\ sm[n].state = "HOST_UPDATE" => Timed(n, "update", "ABORT")

NodeInv(n) == Counters(n) /\ Pending(n) /\ Recorded(n) /\ Filled(n) /\ Waiting(n)

IInv == TypeOK /\ \A n \in Node : NodeInv(n)

\* The invariant holds when all nodes boot.
LEMMA IInvInit == Init => IInv
<1> SUFFICES ASSUME Init PROVE IInv
  OBVIOUS
<1>1. TypeOK
  <2>1. \A n \in Node : [running |-> Factory[n], prev |-> Factory[n], confirmed |-> TRUE]
                          \in Boot
    BY ImageAssumption DEF Boot
  <2>2. /\ boot \in [Node -> Boot]
        /\ confirmOn \in [Node -> BOOLEAN]
    BY <2>1, EnvironmentAssumption DEF Init
  <2>3. net \in [Node \X Node -> Bounded(Frame, NetLength)]
    BY EmptyBounded, BoundAssumption DEF Init
  <2>4. answers \in [Offer -> Bounded(BOOLEAN, MaxAnswers)]
    BY EmptyBounded, BoundAssumption DEF Init
  <2>5. slot \in [Node -> [1..NumChunks -> Cell]]
    BY DEF Init, Blank, Cell
  <2>6. crashes \in 0..MaxCrashes
    BY BoundAssumption DEF Init
  <2> QED  BY <2>2, <2>3, <2>4, <2>5, <2>6, NoneTypes DEF Init, TypeOK
<1>2. ASSUME NEW n \in Node PROVE NodeInv(n)
  <2>1. sm[n].state = "INIT" /\ sm[n].pend = None /\ boot[n].confirmed
    BY DEF Init, BootState
  <2> QED  BY <2>1 DEF NodeInv, Counters, Pending, Recorded, Filled, Waiting,
                       HostState, ClientState
<1> QED  BY <1>1, <1>2 DEF IInv

\* What NodeInv speaks of.
Same(n) ==
  /\ sm'[n] = sm[n] /\ evq'[n] = evq[n] /\ client'[n] = client[n]
  /\ host'[n] = host[n] /\ armed'[n] = armed[n] /\ noinit'[n] = noinit[n]
  /\ slot'[n] = slot[n] /\ boot'[n] = boot[n]

\* A node that nothing happens to keeps its part of the invariant.
LEMMA SameNode ==
  ASSUME NEW n, NodeInv(n), Same(n)
  PROVE  NodeInv(n)'
BY DEF Same, NodeInv, Counters, Pending, Recorded, Filled, Waiting, Timed

\* The event thread of a node, its timers and its resets leave the others as
\* they are.
LEMMA OtherNode ==
  ASSUME TypeOK, NEW n \in Node, NEW m \in Node \ {n},
         \/ RunEventThread(n) \/ Crash(n)
         \/ \E tmr \in Timer : TimerExpires(n, tmr)
  PROVE  Same(m)
<1> USE DEF Same, nodeVars, logVars, Stay, Goto, GotoThen, GotoErrorWith, GotoError,
            HostError, Restart, Arm, Disarm, TypeOK
<1>1. CASE TimerExpires(n, "chunk") \/ TimerExpires(n, "ack") \/ TimerExpires(n, "update")
  BY <1>1 DEF TimerExpires
<1>2. CASE StartIdle(n) \/ LeaveError(n) \/ IgnoreEvent(n) \/ Crash(n)
  BY <1>2 DEF StartIdle, LeaveError, IgnoreEvent, Crash
<1>3. CASE AskForConfirmation(n) \/ ConfirmAlone(n) \/ WrongVersion(n)
  BY <1>3 DEF AskForConfirmation, ConfirmAlone, WrongVersion, Confirm
<1>4. CASE RefuseSameVersion(n) \/ RefuseOversized(n) \/ RefuseFlash(n) \/ AcceptUpdate(n)
  BY <1>4 DEF RefuseSameVersion, RefuseOversized, RefuseFlash, AcceptUpdate
<1>5. CASE EmptyChunkAsserts(n) \/ ReceiveChunk(n) \/ ChunkWriteFails(n)
  BY <1>5, ZenonT(60) DEF EmptyChunkAsserts, ReceiveChunk, ChunkWriteFails, TakeChunk
<1>6. CASE LastWriteFails(n) \/ Validate(n)
  <2>1. PICK written \in BOOLEAN : TakeChunk(n, written)
    BY <1>6 DEF LastWriteFails, Validate
  <2>2. client'[m] = client[m] /\ slot'[m] = slot[m]
    BY <2>1 DEF TakeChunk
  <2>3. /\ host' = host /\ noinit' = noinit /\ boot' = boot
        /\ armed'[m] = armed[m]
    BY <1>6 DEF LastWriteFails, Validate
  <2>4. CASE LastWriteFails(n)
    BY <2>2, <2>3, <2>4 DEF LastWriteFails
  <2>5. CASE Validate(n)
    <3>1. \E p, err, q : GotoThen(n, "VALIDATING", p, err, q)
      BY <2>5 DEF Validate
    <3> QED  BY <2>2, <2>3, <3>1
  <2> QED  BY <1>6, <2>4, <2>5
<1>7. CASE RestartTransfer(n) \/ KeepWaiting(n) \/ AskAgain(n) \/ GiveUp(n) \/ LeaveValidating(n)
  BY <1>7 DEF RestartTransfer, KeepWaiting, AskAgain, GiveUp, LeaveValidating
<1>8. CASE Activate(n) \/ ConfirmUpdate(n) \/ GiveUpConfirmation(n)
  BY <1>8 DEF Activate, ConfirmUpdate, GiveUpConfirmation, Confirm
<1>9. CASE BeginHost(n) \/ HostAck(n) \/ HostNack(n)
  BY <1>9 DEF BeginHost, HostAck, HostNack
<1>10. CASE HostAckTimeout(n) \/ HostAbort(n)
  BY <1>10 DEF HostAckTimeout, HostAbort
<1>11. CASE HostSendChunk(n) \/ HostChunkError(n) \/ HostAgree(n) \/ HostEnd(n)
  BY <1>11 DEF HostSendChunk, HostChunkError, HostAgree, HostEnd
<1> QED
  BY <1>1, <1>2, <1>3, <1>4, <1>5, <1>6, <1>7, <1>8, <1>9, <1>10, <1>11
  DEF RunEventThread, ClientStep, HostStep, Timer
-----------------------------------------------------------------------------
(* The steps of a node's own event thread.                                 *)

\* A state that is not part of an update, with any image on trial recorded.
Settled(n) ==
  /\ sm[n].state \in {"INIT", "IDLE", "ERROR"}
  /\ sm[n].pend # None =>
       evq[n] # <<>> /\ sm[n].state = "ERROR" /\ sm[n].pend = "IDLE"
  /\ boot[n].confirmed \/ (sm[n].state = "INIT" /\ noinit[n].magic)

\* A settled node satisfies its part of the invariant.
LEMMA SettledInv ==
  ASSUME NEW n, Settled(n)'
  PROVE  NodeInv(n)'
BY DEF Settled, NodeInv, Counters, Pending, Recorded, Filled, Waiting, HostState,
       ClientState

\* After a NOP event was pushed the queue is not empty, even if it was full.
LEMMA PushNopSome ==
  ASSUME NEW q \in Bounded(Event, QueueLength)
  PROVE  /\ PushNop(q) \in Bounded(Event, QueueLength) /\ PushNop(q) # <<>>
         /\ PushNop(PushNop(q)) # <<>>
BY PushType, NopType DEF PushNop

\* The error state is settled.
LEMMA ErrorSettles ==
  ASSUME TypeOK, NEW n \in Node, NEW err \in Err,
         NEW q \in Bounded(Event, QueueLength), GotoErrorWith(n, err, q),
         boot'[n].confirmed
  PROVE  Settled(n)'
<1>1. sm'[n].state = "ERROR" /\ (sm'[n].pend # None => sm'[n].pend = "IDLE")
  BY DEF GotoErrorWith, GotoThen, TypeOK
<1>2. evq'[n] # <<>>
  BY PushNopSome DEF GotoErrorWith, GotoThen, TypeOK
<1> QED  BY <1>1, <1>2 DEF Settled

\* So is a node that was reset.
LEMMA RestartSettles ==
  ASSUME TypeOK, NEW n \in Node, Restart(n),
         boot'[n].confirmed \/ noinit'[n].magic
  PROVE  Settled(n)'
BY DEF Restart, BootState, TypeOK, Settled

\* The steps that end an update, and those that come before one.
LEMMA SettlingStep ==
  ASSUME IInv, NEW n \in Node,
         \/ StartIdle(n) \/ ConfirmAlone(n) \/ WrongVersion(n) \/ RefuseFlash(n)
         \/ EmptyChunkAsserts(n) \/ ChunkWriteFails(n) \/ LastWriteFails(n)
         \/ GiveUp(n) \/ Activate(n) \/ ConfirmUpdate(n) \/ GiveUpConfirmation(n)
         \/ HostNack(n) \/ HostAbort(n) \/ HostChunkError(n) \/ HostEnd(n)
         \/ LeaveError(n) \/ Crash(n) \/ RefuseSameVersion(n) \/ RefuseOversized(n)
  PROVE  NodeInv(n)'
<1> USE DEF nodeVars, logVars, Handles, HostState, ClientState
<1>1. TypeOK /\ NodeInv(n) /\ MachineOK
  BY TypeMachine DEF IInv
<1>2. evq[n] # <<>> =>
        Rest(n) \in Bounded(Event, QueueLength) /\ Received(n) \in Event
  BY <1>1, RestType
<1>3. boot[n].confirmed \/ sm[n].state \in {"INIT", "REBOOT_DONE"}
  BY <1>1 DEF NodeInv, Recorded
<1>4. \A cells : Revert(boot[n]).confirmed
  BY DEF Revert
<1>5. CASE StartIdle(n)
  BY <1>1, <1>5, SettledInv DEF StartIdle, Goto, TypeOK, NodeInv, Recorded, Settled
<1>6. CASE ConfirmAlone(n)
  <2>1. Restart(n) /\ boot'[n].confirmed
    BY <1>1, <1>6 DEF ConfirmAlone, Confirm, TypeOK, Boot
  <2> QED  BY <1>1, <2>1, RestartSettles, SettledInv
<1>7. CASE WrongVersion(n) \/ EmptyChunkAsserts(n) \/ GiveUpConfirmation(n) \/ Crash(n)
  <2>1. Restart(n) /\ boot'[n].confirmed
    BY <1>1, <1>4, <1>7
    DEF WrongVersion, EmptyChunkAsserts, GiveUpConfirmation, Crash, TypeOK
  <2> QED  BY <1>1, <2>1, RestartSettles, SettledInv
<1>8. CASE Activate(n)
  <2>1. Restart(n) /\ noinit'[n].magic
    BY <1>1, <1>8 DEF Activate, NodeInv, Recorded
  <2> QED  BY <1>1, <2>1, RestartSettles, SettledInv
<1>9. CASE RefuseFlash(n)
  <2>1. GotoErrorWith(n, "FLASH_ACCESS", Rest(n)) /\ boot'[n].confirmed /\ evq[n] # <<>>
    BY <1>3, <1>9 DEF RefuseFlash, UpdateRequest, GotoError
  <2> QED  BY <1>1, <1>2, <2>1, ErrorSettles, SettledInv DEF Err
<1>10. CASE ChunkWriteFails(n) \/ LastWriteFails(n)
  <2>1. boot'[n].confirmed /\ evq[n] # <<>>
    BY <1>3, <1>10 DEF ChunkWriteFails, LastWriteFails, TakeChunk, Chunk
  <2>2. \A w \in BOOLEAN : AfterWrite(n, w) \in Bounded(Event, QueueLength)
    BY <1>2, <2>1, PushNopSome DEF AfterWrite
  <2>3. \E q \in Bounded(Event, QueueLength) : GotoErrorWith(n, "BM_FRAME", q)
    BY <1>2, <1>10, <2>1, <2>2 DEF ChunkWriteFails, LastWriteFails, GotoError
  <2> QED  BY <1>1, <2>1, <2>3, ErrorSettles, SettledInv DEF Err
<1>11. CASE GiveUp(n)
  <2>1. GotoErrorWith(n, "TIMEOUT", Rest(n)) /\ boot'[n].confirmed /\ evq[n] # <<>>
    BY <1>3, <1>11 DEF GiveUp, GotoError
  <2> QED  BY <1>1, <1>2, <2>1, ErrorSettles, SettledInv DEF Err
<1>12. CASE ConfirmUpdate(n)
  BY <1>1, <1>12, SettledInv DEF ConfirmUpdate, Confirm, Goto, TypeOK, Boot, Settled
<1>13. CASE HostNack(n) \/ HostAbort(n) \/ HostChunkError(n)
  <2>1. \E err \in Err : HostError(n, err)
    BY <1>2, <1>13, EventFields DEF HostNack, HostAbort, HostChunkError, Err
  <2>2. boot'[n].confirmed /\ evq[n] # <<>>
    BY <1>3, <1>13 DEF HostNack, HostAbort, HostChunkError
  <2> QED  BY <1>1, <1>2, <2>1, <2>2, ErrorSettles, SettledInv DEF HostError, GotoError
<1>14. CASE HostEnd(n)
  BY <1>1, <1>3, <1>14, SettledInv DEF HostEnd, Goto, TypeOK, Settled
<1>15. CASE LeaveError(n)
  BY <1>1, <1>3, <1>15, SettledInv DEF LeaveError, TypeOK, Machine, Settled
<1>16. CASE RefuseSameVersion(n) \/ RefuseOversized(n)
  BY <1>1, <1>3, <1>16, SettledInv
  DEF RefuseSameVersion, RefuseOversized, UpdateRequest, Stay, TypeOK, NodeInv, Pending, Settled
<1> QED
  BY <1>5, <1>6, <1>7, <1>8, <1>9, <1>10, <1>11, <1>12, <1>13, <1>14, <1>15, <1>16

\* An event of another type leaves the one a timer has queued.
LEMMA StayTimed ==
  ASSUME TypeOK, NEW n \in Node, evq[n] # <<>>, Stay(n), armed'[n] = armed[n],
         NEW tmr, NEW type, Timed(n, tmr, type), Received(n).type # type
  PROVE  Timed(n, tmr, type)'
<1>1. evq'[n] = Tail(evq[n])
  BY DEF Stay, Rest, TypeOK
<1>2. CASE tmr \in armed[n]
  BY <1>2 DEF Timed
<1>3. CASE tmr \notin armed[n]
  <2>1. PICK i \in DOMAIN evq[n] : evq[n][i].type = type
    BY <1>3 DEF Timed
  <2>2. evq[n] \in Seq(Event)
    BY DEF TypeOK, Bounded
  <2>3. i # 1
    BY <2>1, <2>2 DEF Received
  <2>4. i - 1 \in DOMAIN Tail(evq[n]) /\ Tail(evq[n])[i - 1] = evq[n][i]
    BY <2>2, <2>3
  <2> QED  BY <1>1, <2>1, <2>4 DEF Timed
<1> QED  BY <1>2, <1>3

\* The steps that begin a wait.
LEMMA BeginStep ==
  ASSUME IInv, NEW n \in Node,
         \/ AskForConfirmation(n) \/ AcceptUpdate(n) \/ BeginHost(n) \/ HostAck(n)
  PROVE  NodeInv(n)'
<1> USE DEF nodeVars, logVars, Handles
<1>1. TypeOK /\ NodeInv(n) /\ MachineOK
  BY TypeMachine DEF IInv
<1>2. 0 < NumChunks /\ 0 < MaxChunkRetries /\ 0 < MaxAckRetries
  BY BoundAssumption
<1>3. boot[n].confirmed \/ sm[n].state \in {"INIT", "REBOOT_DONE"}
  BY <1>1 DEF NodeInv, Recorded
<1>4. CASE AskForConfirmation(n)
  <2>1. sm'[n].state = "REBOOT_DONE" /\ sm'[n].pend = None
    BY <1>1, <1>4 DEF AskForConfirmation, Goto, TypeOK
  <2>2. client'[n].retry = 0
    BY <1>1, <1>4, TypeFields DEF AskForConfirmation, TypeOK, ClientContext
  <2>3. "chunk" \in armed'[n] /\ noinit'[n].magic
    BY <1>1, <1>4 DEF AskForConfirmation, RebootDone, Arm, TypeOK
  <2> QED  BY <1>2, <2>1, <2>2, <2>3
           DEF NodeInv, Counters, Pending, Recorded, Filled, Waiting, Timed,
               HostState, ClientState
<1>5. CASE AcceptUpdate(n)
  <2>1. sm'[n].state = "RECEIVING" /\ sm'[n].pend = None
    BY <1>1, <1>5 DEF AcceptUpdate, Goto, TypeOK
  <2>2. client'[n].retry = 0 /\ client'[n].off = 0 /\ client'[n].rx = <<>>
    BY <1>1, <1>5 DEF AcceptUpdate, NoClient, TypeOK
  <2>3. "chunk" \in armed'[n] /\ noinit'[n].magic /\ boot'[n].confirmed
    BY <1>1, <1>3, <1>5 DEF AcceptUpdate, UpdateRequest, Arm, Note, TypeOK
  <2> QED  BY <1>2, <2>1, <2>2, <2>3
           DEF NodeInv, Counters, Pending, Recorded, Filled, Waiting, Timed, HostState
<1>6. CASE BeginHost(n)
  <2>1. sm'[n].state = "HOST_REQ_UPDATE" /\ sm'[n].pend = None
    BY <1>1, <1>6 DEF BeginHost, TypeOK
  <2>2. Received(n).offer \in Offer
    BY <1>1, <1>6, RestType, EventFields DEF BeginHost
  <2>3. host'[n].retry = 0 /\ host'[n].offer \in Offer
    BY <1>1, <1>6, <2>2 DEF BeginHost, TypeOK
  <2>4. "ack" \in armed'[n] /\ boot'[n].confirmed
    BY <1>1, <1>3, <1>6 DEF BeginHost, Arm, TypeOK
  <2> QED  BY <1>2, <2>1, <2>3, <2>4
           DEF NodeInv, Counters, Pending, Recorded, Filled, Waiting, Timed, ClientState
<1>7. CASE HostAck(n)
  <2>1. sm'[n].state = "HOST_UPDATE" /\ sm'[n].pend = None
    BY <1>1, <1>7 DEF HostAck, Goto, TypeOK
  <2>2. host'[n].offer \in Offer
    BY <1>1, <1>7 DEF HostAck, NodeInv, Counters, HostState
  <2>3. "update" \in armed'[n] /\ boot'[n].confirmed
    BY <1>1, <1>3, <1>7 DEF HostAck, TypeOK
  <2> QED  BY <2>1, <2>2, <2>3
           DEF NodeInv, Counters, Pending, Recorded, Filled, Waiting, Timed, ClientState
<1> QED  BY <1>4, <1>5, <1>6, <1>7

\* The steps of a client that goes on waiting.
LEMMA ClientWaitStep ==
  ASSUME IInv, NEW n \in Node,
         ReceiveChunk(n) \/ RestartTransfer(n) \/ KeepWaiting(n) \/ AskAgain(n)
  PROVE  NodeInv(n)'
<1> USE DEF nodeVars, logVars, Handles
<1>1. TypeOK /\ NodeInv(n) /\ MachineOK /\ CountersInRange
  BY TypeMachine DEF IInv, NodeInv, CountersInRange
<1>2. sm' = sm /\ sm[n].state \in {"RECEIVING", "REBOOT_REQ", "REBOOT_DONE"}
  BY DEF ReceiveChunk, RestartTransfer, KeepWaiting, AskAgain, Stay, TakeChunk, Chunk
<1>3. Pending(n)'
  BY <1>1, <1>2 DEF NodeInv, Pending
<1>4. Recorded(n)'
  BY <1>1, <1>2 DEF ReceiveChunk, RestartTransfer, KeepWaiting, AskAgain, NodeInv, Recorded
<1>5. Waiting(n)'
  <2>1. "chunk" \in armed'[n]
    BY <1>1 DEF ReceiveChunk, RestartTransfer, KeepWaiting, AskAgain, Arm, TypeOK
  <2> QED  BY <1>2, <2>1 DEF Waiting, Timed
<1>6. CASE ReceiveChunk(n)
  <2> DEFINE p == Received(n).piece
             at == client[n].off + 1
             rx == client[n].rx
  <2>1. /\ sm[n].state = "RECEIVING"
        /\ client[n].off = Len(rx) /\ Len(rx) + 1 < NumChunks
        /\ rx \in Seq(Piece) /\ client[n].off \in Nat
    BY <1>1, <1>6, TypeFields, BoundAssumption
    DEF ReceiveChunk, TakeChunk, Chunk, LastChunk, NodeInv, Counters, Bounded
  <2>2. /\ client'[n].rx = Append(rx, p) /\ client'[n].off = at /\ client'[n].retry = 0
    BY <1>1, <1>6 DEF ReceiveChunk, TakeChunk, TypeOK, ClientContext
  <2>3. slot[n] \in [1..NumChunks -> Cell] /\ at \in 1..NumChunks
    BY <1>1, <2>1, BoundAssumption DEF TypeOK
  <2>4. slot'[n] = [slot[n] EXCEPT ![at] = slot[n][at] \cup {p}] /\ slot[n][at] \subseteq {p}
    BY <1>1, <1>6 DEF ReceiveChunk, TakeChunk, ReadsBack, TypeOK
  <2>5. p \in Piece
    BY <1>1, <1>6, TakeChunkType DEF ReceiveChunk
  <2>6. Counters(n)'
    BY <1>2, <2>1, <2>2, <2>5, BoundAssumption DEF Counters, HostState
  <2>7. \A i \in 1..at : slot'[n][i] = {client'[n].rx[i]}
    <3>1. slot'[n][at] = {p} /\ client'[n].rx[at] = p
      <4>1. slot'[n][at] = slot[n][at] \cup {p}
        BY <2>3, <2>4
      <4>2. Append(rx, p)[Len(rx) + 1] = p
        BY <2>1, <2>5
      <4> QED  BY <2>1, <2>2, <2>4, <4>1, <4>2
    <3>2. ASSUME NEW i \in 1..client[n].off
          PROVE  slot'[n][i] = slot[n][i] /\ client'[n].rx[i] = rx[i]
      BY <2>1, <2>2, <2>3, <2>4, <2>5
    <3>3. \A i \in 1..client[n].off : slot[n][i] = {rx[i]}
      BY <1>1, <2>1 DEF NodeInv, Filled
    <3>4. \A i \in 1..at : i = at \/ i \in 1..client[n].off
      BY <2>1
    <3> QED  BY <3>1, <3>2, <3>3, <3>4
  <2>8. Filled(n)'
    BY <1>2, <2>1, <2>2, <2>7 DEF Filled
  <2> QED  BY <1>3, <1>4, <1>5, <2>6, <2>8 DEF NodeInv
<1>7. CASE RestartTransfer(n)
  <2>1. sm[n].state = "RECEIVING"
    BY <1>7 DEF RestartTransfer
  <2>2. client'[n].rx = <<>> /\ client'[n].off = 0 /\ client'[n].retry = 0
    BY <1>1, <1>7 DEF RestartTransfer, TypeOK, ClientContext
  <2>3. Counters(n)' /\ Filled(n)'
    BY <1>2, <2>1, <2>2, BoundAssumption DEF Counters, Filled, HostState
  <2> QED  BY <1>3, <1>4, <1>5, <2>3 DEF NodeInv
<1>8. CASE KeepWaiting(n)
  <2>1. Counters(n)' /\ Filled(n)'
    BY <1>1, <1>2, <1>8 DEF KeepWaiting, NodeInv, Counters, Filled
  <2> QED  BY <1>3, <1>4, <1>5, <2>1 DEF NodeInv
<1>9. CASE AskAgain(n)
  <2>1. /\ client[n].retry + 1 < MaxChunkRetries
        /\ client' = [client EXCEPT ![n].retry = client[n].retry + 1]
        /\ UNCHANGED <<host, slot>>
    BY <1>9 DEF AskAgain
  <2>2. /\ client'[n].rx = client[n].rx /\ client'[n].off = client[n].off
        /\ client'[n].img = client[n].img /\ client'[n].retry = client[n].retry + 1
    BY <1>1, <2>1, TypeFields DEF TypeOK, ClientContext
  <2>3. Counters(n)' /\ Filled(n)'
    BY <1>1, <1>2, <2>1, <2>2 DEF NodeInv, Counters, Filled, HostState
  <2> QED  BY <1>3, <1>4, <1>5, <2>3 DEF NodeInv
<1> QED  BY <1>6, <1>7, <1>8, <1>9

\* The last chunk, and what its check has asked for.
LEMMA ValidateStep ==
  ASSUME IInv, NEW n \in Node, Validate(n) \/ LeaveValidating(n)
  PROVE  NodeInv(n)'
<1> USE DEF nodeVars, logVars, Handles
<1>1. TypeOK /\ NodeInv(n) /\ MachineOK /\ CountersInRange
  BY TypeMachine DEF IInv, NodeInv, CountersInRange
<1>2. boot[n].confirmed \/ sm[n].state \in {"INIT", "REBOOT_DONE"}
  BY <1>1 DEF NodeInv, Recorded
<1>3. CASE Validate(n)
  <2> DEFINE err == Verdict(client'[n])
  <2>1. PICK written \in BOOLEAN :
          /\ TakeChunk(n, written)
          /\ IF err = "NONE"
             THEN GotoThen(n, "VALIDATING", "REBOOT_REQ", sm[n].err, AfterWrite(n, written))
             ELSE GotoThen(n, "VALIDATING", "ERROR", err, AfterWrite(n, written))
    BY <1>3 DEF Validate
  <2>2. evq[n] # <<>> /\ sm[n].state = "RECEIVING" /\ Received(n).piece \in Piece
    BY <1>1, <2>1, TakeChunkType
  <2>3. AfterWrite(n, written) \in Bounded(Event, QueueLength)
    BY <1>1, <2>2, RestType DEF AfterWrite
  <2>4. /\ sm'[n].state = "VALIDATING"
        /\ sm'[n].pend = IF err = "NONE" THEN "REBOOT_REQ" ELSE "ERROR"
        /\ evq'[n] # <<>>
    BY <1>1, <2>1, <2>3, PushNopSome DEF GotoThen, TypeOK
  <2>5. noinit'[n].magic /\ boot'[n].confirmed
    BY <1>1, <1>2, <1>3, <2>2 DEF Validate, NodeInv, Recorded, ClientState
  <2>6. ASSUME err = "NONE"
        PROVE  Holds(slot'[n], client'[n].img)
    <3> DEFINE p == Received(n).piece
               at == client[n].off + 1
               rx == client[n].rx
    <3>1. client'[n].off = NumChunks /\ client'[n].rx = Chunks(client'[n].img)
      BY <2>6 DEF Verdict
    <3>2. /\ client[n].off = Len(rx) /\ Len(rx) < NumChunks
          /\ rx \in Seq(Piece) /\ client[n].off \in Nat
      BY <1>1, <2>2, TypeFields DEF NodeInv, Counters, Bounded
    <3>3. /\ client'[n].rx = Append(rx, p)
          /\ client'[n].off = IF written THEN at ELSE client[n].off
      BY <1>1, <2>1 DEF TakeChunk, TypeOK, ClientContext
    <3>4. written /\ at = NumChunks
      BY <3>1, <3>2, <3>3, BoundAssumption
    <3>5. slot[n] \in [1..NumChunks -> Cell] /\ at \in 1..NumChunks
      BY <1>1, <3>2, <3>4, BoundAssumption DEF TypeOK
    <3>6. /\ slot'[n] = [slot[n] EXCEPT ![at] = slot[n][at] \cup {p}]
          /\ slot[n][at] \subseteq {p}
      BY <1>1, <2>1, <3>4 DEF TakeChunk, ReadsBack, TypeOK
    <3>7. \A i \in 1..NumChunks : slot'[n][i] = {client'[n].rx[i]}
      <4>1. slot'[n][at] = {p}
        <5>1. slot'[n][at] = slot[n][at] \cup {p}
          BY <3>5, <3>6
        <5> QED  BY <3>6, <5>1
      <4>2. client'[n].rx[at] = p
        BY <2>2, <3>2, <3>3
      <4>3. ASSUME NEW i \in 1..client[n].off
            PROVE  slot'[n][i] = slot[n][i] /\ client'[n].rx[i] = rx[i]
        BY <2>2, <3>2, <3>3, <3>5, <3>6
      <4>4. \A i \in 1..client[n].off : slot[n][i] = {rx[i]}
        BY <1>1, <2>2 DEF NodeInv, Filled
      <4>5. \A i \in 1..NumChunks : i = at \/ i \in 1..client[n].off
        BY <3>2, <3>4
      <4> QED  BY <4>1, <4>2, <4>3, <4>4, <4>5
    <3>8. slot'[n] = [i \in 1..NumChunks |-> slot'[n][i]]
      BY <3>5, <3>6
    <3> QED  BY <3>1, <3>7, <3>8 DEF Holds
  <2> QED  BY <2>4, <2>5, <2>6
           DEF NodeInv, Counters, Pending, Recorded, Filled, Waiting, HostState
<1>4. CASE LeaveValidating(n) /\ sm[n].pend = "REBOOT_REQ"
  <2>1. sm'[n].state = "REBOOT_REQ" /\ sm'[n].pend = None
    <3> DEFINE new == [sm[n] EXCEPT !.state = "REBOOT_REQ", !.pend = None]
    <3>1. new.state = "REBOOT_REQ" /\ new.pend = None
      BY <1>1, TypeFields DEF Machine
    <3>2. sm' = [sm EXCEPT ![n] = new]
      BY <1>4 DEF LeaveValidating
    <3> HIDE DEF new
    <3> QED  BY <1>1, <3>1, <3>2 DEF TypeOK
  <2>2. client'[n].retry = 0 /\ client'[n].img = client[n].img
    BY <1>1, <1>4, TypeFields DEF LeaveValidating, TypeOK, ClientContext
  <2>3. "chunk" \in armed'[n] /\ noinit'[n].magic /\ boot'[n].confirmed
    BY <1>1, <1>2, <1>4 DEF LeaveValidating, Arm, TypeOK, NodeInv, Recorded, ClientState
  <2>4. Holds(slot'[n], client'[n].img)
    <3>1. Holds(slot[n], client[n].img)
      <4>1. sm[n].state = "VALIDATING"
        BY <1>4 DEF LeaveValidating
      <4> QED  BY <1>1, <1>4, <4>1 DEF NodeInv, Filled
    <3>2. slot' = slot
      BY <1>4 DEF LeaveValidating
    <3> QED  BY <2>2, <3>1, <3>2
  <2> QED  BY <2>1, <2>2, <2>3, <2>4, BoundAssumption
           DEF NodeInv, Counters, Pending, Recorded, Filled, Waiting, Timed, HostState
<1>5. CASE LeaveValidating(n) /\ sm[n].pend = "ERROR"
  <2>1. sm'[n].state = "ERROR" /\ sm'[n].pend = "IDLE"
    <3> DEFINE new == [sm[n] EXCEPT !.state = "ERROR", !.pend = "IDLE"]
    <3>1. new.state = "ERROR" /\ new.pend = "IDLE"
      BY <1>1, TypeFields DEF Machine
    <3>2. sm' = [sm EXCEPT ![n] = new]
      BY <1>5 DEF LeaveValidating
    <3> HIDE DEF new
    <3> QED  BY <1>1, <3>1, <3>2 DEF TypeOK
  <2>2. evq'[n] # <<>>
    BY <1>1, <1>5, RestType, PushNopSome DEF LeaveValidating, TypeOK
  <2>3. boot'[n].confirmed
    BY <1>2, <1>5 DEF LeaveValidating
  <2> QED  BY <2>1, <2>2, <2>3, SettledInv DEF Settled
<1> QED  BY <1>3, <1>4, <1>5 DEF LeaveValidating

\* The steps of a host that goes on waiting, and the events nobody waits for.
LEMMA HostWaitStep ==
  ASSUME IInv, NEW n \in Node,
         HostAckTimeout(n) \/ HostSendChunk(n) \/ HostAgree(n) \/ IgnoreEvent(n)
  PROVE  NodeInv(n)'
<1> USE DEF nodeVars, logVars, Handles
<1>1. TypeOK /\ NodeInv(n) /\ MachineOK
  BY TypeMachine DEF IInv
<1>2. boot[n].confirmed \/ sm[n].state \in {"INIT", "REBOOT_DONE"}
  BY <1>1 DEF NodeInv, Recorded
<1>3. CASE HostAckTimeout(n)
  <2>1. sm[n].state = "HOST_REQ_UPDATE" /\ evq[n] # <<>> /\ boot'[n].confirmed
    BY <1>2, <1>3 DEF HostAckTimeout
  <2>2. CASE host[n].retry + 1 >= MaxAckRetries
    <3>1. HostError(n, "TIMEOUT")
      BY <1>3, <2>2 DEF HostAckTimeout
    <3> QED  BY <1>1, <2>1, <3>1, RestType, ErrorSettles, SettledInv
             DEF HostError, GotoError, Err
  <2>3. CASE ~(host[n].retry + 1 >= MaxAckRetries)
    <3>1. sm' = sm /\ "ack" \in armed'[n]
      BY <1>1, <1>3, <2>3 DEF HostAckTimeout, Stay, Arm, TypeOK
    <3>2. host'[n].retry < MaxAckRetries /\ host'[n].offer \in Offer
      <4>1. host'[n].retry = host[n].retry + 1 /\ host'[n].offer = host[n].offer
        BY <1>1, <1>3, TypeFields DEF HostAckTimeout, TypeOK, HostContext
      <4> QED  BY <1>1, <2>1, <2>3, <4>1, TypeFields, BoundAssumption
               DEF NodeInv, Counters, HostState
    <3>3. sm[n].pend = None
      BY <1>1, <2>1 DEF NodeInv, Pending
    <3> QED  BY <2>1, <3>1, <3>2, <3>3
             DEF NodeInv, Counters, Pending, Recorded, Filled, Waiting, Timed, ClientState
  <2> QED  BY <2>2, <2>3
<1>4. CASE HostSendChunk(n) \/ HostAgree(n)
  <2>1. /\ sm[n].state = "HOST_UPDATE" /\ evq[n] # <<>> /\ Received(n).type # "ABORT"
        /\ Stay(n) /\ armed' = armed /\ boot' = boot
    BY <1>4 DEF HostSendChunk, HostAgree
  <2>2. host'[n].offer = host[n].offer
    BY <1>1, <1>4, TypeFields DEF HostSendChunk, HostAgree, TypeOK, HostContext
  <2>3. Timed(n, "update", "ABORT")'
    BY <1>1, <2>1, StayTimed DEF NodeInv, Waiting
  <2>4. sm' = sm /\ sm[n].pend = None
    BY <1>1, <2>1 DEF Stay, NodeInv, Pending
  <2> QED  BY <1>1, <1>2, <2>1, <2>2, <2>3, <2>4
           DEF NodeInv, Counters, Pending, Recorded, Filled, Waiting, HostState, ClientState
<1>5. CASE IgnoreEvent(n)
  <2>1. /\ evq[n] # <<>> /\ sm[n].pend = None /\ Stay(n) /\ UNCHANGED nodeVars
        /\ Received(n).type \notin Awaited(sm[n].state)
    BY <1>5 DEF IgnoreEvent
  <2>2. Waiting(n)'
    <3>1. /\ sm[n].state \in {"RECEIVING", "REBOOT_REQ", "REBOOT_DONE"}
               => Received(n).type # "CHUNK_TIMEOUT"
          /\ sm[n].state = "HOST_REQ_UPDATE" => Received(n).type # "ACK_TIMEOUT"
          /\ sm[n].state = "HOST_UPDATE" => Received(n).type # "ABORT"
      BY <2>1 DEF Awaited
    <3>2. \A tmr, type : Timed(n, tmr, type) /\ Received(n).type # type
                           => Timed(n, tmr, type)'
      BY <1>1, <2>1, StayTimed
    <3>3. sm' = sm
      BY <2>1 DEF Stay
    <3> QED  BY <1>1, <3>1, <3>2, <3>3 DEF NodeInv, Waiting
  <2>3. Counters(n)' /\ Pending(n)' /\ Recorded(n)' /\ Filled(n)'
    BY <1>1, <2>1 DEF NodeInv, Counters, Pending, Recorded, Filled, Stay
  <2> QED  BY <2>2, <2>3 DEF NodeInv
<1> QED  BY <1>3, <1>4, <1>5
-----------------------------------------------------------------------------
(* Steps of the timers, the network and the applications.                  *)

\* An event that joins the queue takes nothing away.
LEMMA LongerQueue ==
  ASSUME TypeOK, NEW n \in Node, NodeInv(n), UNCHANGED <<sm, nodeVars>>,
         NEW e \in Event, evq'[n] = evq[n] \/ evq'[n] = Push(evq[n], e)
  PROVE  NodeInv(n)'
<1>1. \A i \in DOMAIN evq[n] : i \in DOMAIN evq'[n] /\ evq'[n][i] = evq[n][i]
  BY PushType DEF TypeOK
<1>2. evq[n] # <<>> => evq'[n] # <<>>
  BY PushType DEF TypeOK
<1>3. \A tmr, type : Timed(n, tmr, type) => Timed(n, tmr, type)'
  BY <1>1 DEF Timed, nodeVars
<1> QED
  BY <1>2, <1>3
  DEF NodeInv, Counters, Pending, Recorded, Filled, Waiting, nodeVars

\* A call of an application.
LEMMA InitiateStep ==
  ASSUME IInv, NEW o \in Offer, Initiate(o), NEW n \in Node
  PROVE  NodeInv(n)'
<1> DEFINE e == [type |-> "BEGIN_HOST", offer |-> o]
<1>1. e \in Event
  BY DEF Event, Local
<1>2. \/ evq'[n] = evq[n]
      \/ evq'[n] = Append(evq[n], e) /\ Len(evq[n]) < QueueLength
  <2>1. evq \in [Node -> Bounded(Event, QueueLength)]
    BY DEF IInv, TypeOK
  <2>2. CASE sm[o.host].state = "IDLE" /\ Len(evq[o.host]) < QueueLength
    <3>1. evq' = [evq EXCEPT ![o.host] = Append(evq[o.host], e)]
      BY <2>2 DEF Initiate
    <3> HIDE DEF e
    <3> QED  BY <2>1, <2>2, <3>1
  <2>3. CASE ~(sm[o.host].state = "IDLE" /\ Len(evq[o.host]) < QueueLength)
    BY <2>3 DEF Initiate
  <2> QED  BY <2>2, <2>3
<1>3. UNCHANGED <<sm, nodeVars>>
  BY DEF Initiate
<1> HIDE DEF e
<1> QED  BY <1>1, <1>2, <1>3, LongerQueue DEF Push, IInv

\* A frame that arrives or is lost.
LEMMA NetworkStep ==
  ASSUME IInv, NEW m \in Node, NEW k \in Node, ProcessMessage(m, k) \/ LoseFrame(m, k),
         NEW n \in Node
  PROVE  NodeInv(n)'
<1> DEFINE e == Head(net[<<m, k>>])
<1>1. e \in Event
  <2>1. net[<<m, k>>] \in Bounded(Frame, NetLength) /\ net[<<m, k>>] # <<>>
    BY DEF ProcessMessage, LoseFrame, IInv, TypeOK
  <2> QED  BY <2>1, TailBounded, BoundAssumption DEF Event
<1>2. evq'[n] = evq[n] \/ evq'[n] = Push(evq[n], e)
  BY DEF ProcessMessage, LoseFrame, IInv, TypeOK
<1>3. UNCHANGED <<sm, nodeVars>>
  BY DEF ProcessMessage, LoseFrame
<1> HIDE DEF e
<1> QED  BY <1>1, <1>2, <1>3, LongerQueue DEF IInv

\* A timer that expires has its event in the queue, or the node is reset.
LEMMA TimerStep ==
  ASSUME IInv, NEW n \in Node, NEW tmr \in Timer, TimerExpires(n, tmr)
  PROVE  NodeInv(n)'
<1> USE DEF nodeVars, logVars
<1>1. TypeOK /\ NodeInv(n)
  BY DEF IInv
<1>2. CASE Len(evq[n]) < QueueLength
  <2> DEFINE e == Expiry(n, tmr)
  <2>1. /\ evq'[n] = Append(evq[n], e) /\ armed'[n] = armed[n] \ {tmr}
        /\ UNCHANGED <<sm, client, host, boot, noinit, slot>>
    BY <1>1, <1>2 DEF TimerExpires, Disarm, TypeOK
  <2>2. /\ tmr = "chunk" => e.type = "CHUNK_TIMEOUT"
        /\ tmr = "ack" => e.type = "ACK_TIMEOUT"
        /\ tmr = "update" => e.type = "ABORT"
    BY DEF Expiry, Result
  <2>3. evq[n] \in Seq(Event)
    BY <1>1 DEF TypeOK, Bounded
  <2> HIDE DEF e
  <2>4. \A i \in DOMAIN evq[n] : i \in DOMAIN evq'[n] /\ evq'[n][i] = evq[n][i]
    BY <2>1, <2>3
  <2>5. Len(evq[n]) + 1 \in DOMAIN evq'[n] /\ evq'[n][Len(evq[n]) + 1] = e
    BY <2>1, <2>3
  <2>6. \A t, type : /\ Timed(n, t, type)
                     /\ t = tmr => e.type = type
                     => Timed(n, t, type)'
    BY <2>1, <2>4, <2>5 DEF Timed
  <2>7. Waiting(n)'
    BY <1>1, <2>1, <2>2, <2>6 DEF NodeInv, Waiting
  <2>8. evq'[n] # <<>>
    BY <2>5
  <2> QED  BY <1>1, <2>1, <2>7, <2>8 DEF NodeInv, Counters, Pending, Recorded, Filled
<1>3. CASE ~(Len(evq[n]) < QueueLength)
  <2>1. Restart(n) /\ boot'[n].confirmed
    BY <1>1, <1>3 DEF TimerExpires, Revert, TypeOK
  <2> QED  BY <1>1, <2>1, RestartSettles, SettledInv
<1> QED  BY <1>2, <1>3

\* Every step keeps the invariant.
LEMMA IInvStep == IInv /\ [Next]_vars => IInv'
<1> SUFFICES ASSUME IInv, [Next]_vars PROVE IInv'
  OBVIOUS
<1>1. TypeOK'
  BY TypeStep DEF IInv, NodeInv, CountersInRange
<1>2. ASSUME NEW n \in Node PROVE NodeInv(n)'
  <2>1. CASE UNCHANGED vars
    BY <2>1, SameNode DEF IInv, Same, vars, nodeVars
  <2>2. ASSUME NEW m \in Node, RunEventThread(m) \/ Crash(m)
        PROVE  NodeInv(n)'
    <3>1. CASE m = n
      BY <2>2, <3>1, SettlingStep, BeginStep, ClientWaitStep, ValidateStep, HostWaitStep
      DEF RunEventThread, ClientStep, HostStep
    <3>2. CASE m # n
      BY <2>2, <3>2, OtherNode, SameNode DEF IInv
    <3> QED  BY <3>1, <3>2
  <2>3. ASSUME NEW m \in Node, NEW tmr \in Timer, TimerExpires(m, tmr)
        PROVE  NodeInv(n)'
    BY <2>3, TimerStep, OtherNode, SameNode DEF IInv
  <2> QED  BY <2>1, <2>2, <2>3, InitiateStep, NetworkStep DEF Next
<1> QED  BY <1>1, <1>2 DEF IInv

\* The invariant holds in every state that can be reached.
LEMMA Invariance == Spec => []IInv
BY IInvInit, IInvStep, PTL DEF Spec
-----------------------------------------------------------------------------
(* The properties of the runs, for every value of the constants.           *)

\* Every queue, channel, counter and context keeps its shape and its bound:
\* in particular no offset leaves the slot.
THEOREM TypeCorrect == Spec => []TypeOK
<1>1. IInv => TypeOK
  BY DEF IInv
<1> QED  BY <1>1, Invariance, PTL

\* A state change that an entry function asked for always finds an event to
\* carry it out, however full the queue is.
THEOREM PendingIsServed == Spec => []PendingServed
<1>1. IInv => PendingServed
  BY DEF IInv, NodeInv, Pending, PendingServed
<1> QED  BY <1>1, Invariance, PTL

\* No node waits for its peer without a timer or its event.
THEOREM WaitsAreTimed == Spec => []WaitIsTimed
<1>1. IInv => WaitIsTimed
  BY DEF IInv, NodeInv, Waiting, WaitIsTimed
<1> QED  BY <1>1, Invariance, PTL

\* An image on trial always has its record, whatever resets the node.
THEOREM TrialsAreRecorded == Spec => []TrialOnRecord
<1>1. IInv => TrialOnRecord
  BY DEF IInv, NodeInv, Recorded, TrialOnRecord
<1> QED  BY <1>1, Invariance, PTL

\* Only a slot that holds the accepted image, chunk by chunk, is handed to
\* the boot loader, although a transfer can start over in a slot that is not
\* erased and any write can fail.
THEOREM ActivatedSlotsAreIntact == Spec => []ActivatedSlotIntact
<1>1. IInv => ActivatedSlotIntact
  BY DEF IInv, NodeInv, Filled, ActivatedSlotIntact
<1> QED  BY <1>1, Invariance, PTL
-----------------------------------------------------------------------------
(* Where what the nodes say comes from.                                    *)

\* No node is host of one update and client of another.
RolesApart == \A o, p \in Offer : o.host # p.client

\* A host offers one image to one client, as often as it likes.
OneUpdatePerHost ==
  \A o, p \in Offer : o.host = p.host => o.client = p.client /\ o.img = p.img

\* No two images report the same SHA.
ShaTellsImages == \A img1, img2 \in Image : Sha[img1] = Sha[img2] => img1 = img2

\* The offers for which a success can be told from what the frames say.
Distinct == RolesApart /\ OneUpdatePerHost /\ ShaTellsImages

\* An application asked h to give img to n.
Offered(as, h, n, img) == \E o \in as : o.host = h /\ o.client = n /\ o.img = img

\* What an event bound for n says goes back to an offer among as: a request
\* was asked for, and a success is one of every offer that n may host.
Sound(n, e, as, ins) ==
  /\ e.type = "START" => Offered(as, e.src, n, e.img)
  /\ e.type = "BEGIN_HOST" => e.offer \in as /\ e.offer.host = n
  /\ e.type = "END" /\ e.err = "NONE" /\ Distinct =>
       \A o \in Offer : o.host = n => o.img \in ins[o.client]

SoundQueue(n, q, as, ins) == \A i \in DOMAIN q : Sound(n, q[i], as, ins)

SoundNet(ch, as, ins) ==
  \A m, n \in Node : SoundQueue(n, ch[<<m, n>>], as, ins)

\* What a node knows of the update it takes part in goes back to an offer.
Founded(n) ==
  /\ sm[n].cb # None => sm[n].cb \in asked /\ sm[n].cb.host = n
  /\ sm[n].state \in HostState =>
       /\ host[n].offer \in asked /\ host[n].offer.host = n
       /\ sm[n].cb = host[n].offer
  /\ sm[n].state \in {"RECEIVING", "VALIDATING", "REBOOT_REQ"} =>
       Offered(asked, client[n].host, n, client[n].img)
  /\ noinit[n].magic =>
       \E o \in asked : /\ o.host = noinit[n].host /\ o.client = n
                        /\ Sha[o.img] = noinit[n].sha
  /\ sm[n].state = "REBOOT_DONE" => Sha[boot[n].running] = noinit[n].sha

FoundedInv ==
  /\ SoundNet(net, asked, installed)
  /\ \A n \in Node : SoundQueue(n, evq[n], asked, installed) /\ Founded(n)

\* Offers and installed images only become more.
Growing ==
  /\ asked \subseteq asked'
  /\ \A n \in Node : installed[n] \subseteq installed'[n]

\* What was sound stays so.
LEMMA SoundGrows ==
  ASSUME Growing
  PROVE  /\ \A n, e : Sound(n, e, asked, installed) => Sound(n, e, asked', installed')
         /\ \A n, q : SoundQueue(n, q, asked, installed) => SoundQueue(n, q, asked', installed')
         /\ \A ch : SoundNet(ch, asked, installed) => SoundNet(ch, asked', installed')
<1>1. ASSUME NEW n, NEW e, Sound(n, e, asked, installed)
      PROVE  Sound(n, e, asked', installed')
  <2>1. \A o \in Offer : o.client \in Node
    BY OfferAssumption DEF Offers
  <2>2. e.type = "START" => Offered(asked', e.src, n, e.img)
    BY <1>1 DEF Sound, Offered, Growing
  <2>3. e.type = "BEGIN_HOST" => e.offer \in asked' /\ e.offer.host = n
    BY <1>1 DEF Sound, Growing
  <2>4. e.type = "END" /\ e.err = "NONE" /\ Distinct =>
          \A o \in Offer : o.host = n => o.img \in installed'[o.client]
    BY <1>1, <2>1 DEF Sound, Growing
  <2> QED  BY <2>2, <2>3, <2>4 DEF Sound
<1>2. ASSUME NEW n, NEW q, SoundQueue(n, q, asked, installed)
      PROVE  SoundQueue(n, q, asked', installed')
  BY <1>1, <1>2 DEF SoundQueue
<1>3. ASSUME NEW ch, SoundNet(ch, asked, installed)
      PROVE  SoundNet(ch, asked', installed')
  BY <1>2, <1>3 DEF SoundNet
<1> QED  BY <1>1, <1>2, <1>3

\* Events that say nothing of an offer.
Dull(e) == e.type \notin {"START", "BEGIN_HOST"} /\ (e.type = "END" => e.err # "NONE")

\* Such an event is sound whatever was asked for.
LEMMA DullSound ==
  ASSUME NEW n, NEW e, Dull(e), NEW as, NEW ins
  PROVE  Sound(n, e, as, ins)
BY DEF Dull, Sound

\* An event more.
LEMMA AppendSound ==
  ASSUME NEW S, NEW q \in Seq(S), NEW e \in S, NEW n, NEW as, NEW ins,
         SoundQueue(n, q, as, ins), Sound(n, e, as, ins)
  PROVE  SoundQueue(n, Append(q, e), as, ins)
<1> SUFFICES ASSUME NEW i \in DOMAIN Append(q, e)
             PROVE  Sound(n, Append(q, e)[i], as, ins)
  BY DEF SoundQueue
<1>1. CASE i = Len(q) + 1
  <2>1. Append(q, e)[i] = e
    BY <1>1
  <2> QED  BY <2>1
<1>2. CASE i # Len(q) + 1
  <2>1. i \in DOMAIN q /\ Append(q, e)[i] = q[i]
    BY <1>2
  <2> QED  BY <2>1 DEF SoundQueue
<1> QED  BY <1>1, <1>2

\* Sending a sound frame.
LEMMA SendSound ==
  ASSUME NEW ch \in [Node \X Node -> Bounded(Frame, NetLength)],
         NEW n \in Node, NEW to \in Node \cup {None}, NEW frame \in Frame,
         NEW as, NEW ins, SoundNet(ch, as, ins),
         to # None => Sound(to, frame, as, ins)
  PROVE  SoundNet(Send(ch, n, to, frame), as, ins)
<1>1. CASE to = None \/ Len(ch[<<n, to>>]) >= NetLength
  BY <1>1 DEF Send
<1>2. CASE ~(to = None \/ Len(ch[<<n, to>>]) >= NetLength)
  <2>1. to \in Node /\ <<n, to>> \in Node \X Node
    BY <1>2
  <2>2. Send(ch, n, to, frame) = [ch EXCEPT ![<<n, to>>] = Append(ch[<<n, to>>], frame)]
    BY <1>2 DEF Send
  <2>3. SoundQueue(to, Append(ch[<<n, to>>], frame), as, ins)
    <3>1. ch[<<n, to>>] \in Seq(Frame)
      BY <2>1 DEF Bounded
    <3>2. SoundQueue(to, ch[<<n, to>>], as, ins)
      BY <2>1 DEF SoundNet
    <3> QED  BY <1>2, <3>1, <3>2, AppendSound
  <2>4. ASSUME NEW m \in Node, NEW k \in Node
        PROVE  SoundQueue(k, Send(ch, n, to, frame)[<<m, k>>], as, ins)
    <3>1. CASE <<m, k>> = <<n, to>>
      <4>1. Send(ch, n, to, frame)[<<m, k>>] = Append(ch[<<n, to>>], frame) /\ k = to
        BY <2>1, <2>2, <3>1
      <4> QED  BY <2>3, <4>1
    <3>2. CASE <<m, k>> # <<n, to>>
      <4>1. Send(ch, n, to, frame)[<<m, k>>] = ch[<<m, k>>]
        <5>1. <<m, k>> \in Node \X Node
          OBVIOUS
        <5> QED  BY <2>2, <3>2, <5>1
      <4> QED  BY <4>1 DEF SoundNet
    <3> QED  BY <3>1, <3>2
  <2> QED  BY <2>4 DEF SoundNet
<1> QED  BY <1>1, <1>2

\* Frames that say nothing of an offer can be sent by anyone to anyone.
LEMMA DullFrames ==
  ASSUME NEW n
  PROVE  /\ \A type : type \notin {"START", "BEGIN_HOST", "END"} => Dull(Plain(n, type))
         /\ \A err : Dull(Result(n, "ACK", err)) /\ Dull(Result(n, "ABORT", err))
         /\ \A err : err # "NONE" => Dull(Result(n, "END", err))
         /\ \A seq : Dull(ChunkRequest(n, seq))
         /\ \A piece : Dull([type |-> "PAYLOAD", src |-> n, piece |-> piece])
         /\ Dull(Nop)
BY DEF Dull, Plain, Result, ChunkRequest, Nop
-----------------------------------------------------------------------------
(* The queue of the node that takes a step.                                *)

\* A queue that holds what was behind the first event of n, and NOP events.
Drained(n, q) ==
  \A i \in DOMAIN q : \/ q[i].type \in {"NONE", "INIT_SUCCESS"}
                      \/ i + 1 \in DOMAIN evq[n] /\ q[i] = evq[n][i + 1]

\* What the thread leaves of its queue, NOP events or not.
LEMMA DrainedQueues ==
  ASSUME MachineOK, NEW n \in Node
  PROVE  /\ evq[n] # <<>> => Drained(n, Rest(n))
         /\ \A q \in Bounded(Event, QueueLength) : Drained(n, q) => Drained(n, PushNop(q))
         /\ Drained(n, <<[type |-> "INIT_SUCCESS"]>>)
<1>1. ASSUME evq[n] # <<>> PROVE Drained(n, Rest(n))
  <2>1. evq[n] \in Seq(Event)
    BY DEF MachineOK, Bounded
  <2> SUFFICES ASSUME NEW i \in DOMAIN Tail(evq[n])
               PROVE  i + 1 \in DOMAIN evq[n] /\ Tail(evq[n])[i] = evq[n][i + 1]
    BY DEF Drained, Rest
  <2> QED  BY <1>1, <2>1
<1>2. ASSUME NEW q \in Bounded(Event, QueueLength), Drained(n, q)
      PROVE  Drained(n, PushNop(q))
  <2>1. CASE Len(q) < QueueLength
    <3>1. PushNop(q) = Append(q, Nop)
      BY <2>1 DEF PushNop, Push
    <3>2. q \in Seq(Event) /\ Nop \in Event /\ Nop.type = "NONE"
      BY NopType DEF Bounded, Nop
    <3>3. \A i \in DOMAIN Append(q, Nop) :
            (i \in DOMAIN q /\ Append(q, Nop)[i] = q[i]) \/ Append(q, Nop)[i] = Nop
      BY <3>2
    <3> QED  BY <1>2, <3>1, <3>2, <3>3 DEF Drained
  <2>2. CASE ~(Len(q) < QueueLength)
    BY <1>2, <2>2 DEF PushNop, Push
  <2> QED  BY <2>1, <2>2
<1>3. Drained(n, <<[type |-> "INIT_SUCCESS"]>>)
  BY DEF Drained
<1> QED  BY <1>1, <1>2, <1>3

\* The ways a run ends.
LEMMA DrainedStay ==
  ASSUME TypeOK, NEW n \in Node, evq[n] # <<>>,
         Stay(n) \/ (\E s \in State : Goto(n, s))
  PROVE  Drained(n, evq'[n])
<1>1. evq'[n] = Rest(n) \/ evq'[n] = PushNop(Rest(n))
  BY DEF Stay, Goto, TypeOK
<1> QED  BY <1>1, DrainedQueues, RestType, TypeMachine

\* The ways with a second request.
LEMMA DrainedThen ==
  ASSUME TypeOK, NEW n \in Node, NEW q \in Bounded(Event, QueueLength), Drained(n, q),
         \/ \E s, p, err : GotoThen(n, s, p, err, q)
         \/ \E err : GotoErrorWith(n, err, q)
  PROVE  Drained(n, evq'[n])
<1>1. evq'[n] = PushNop(q) \/ evq'[n] = PushNop(PushNop(q))
  BY DEF GotoThen, GotoErrorWith, TypeOK
<1>2. PushNop(q) \in Bounded(Event, QueueLength)
  BY PushNopSome
<1> QED  BY <1>1, <1>2, DrainedQueues, TypeMachine

\* A reset.
LEMMA DrainedRestart ==
  ASSUME TypeOK, NEW n \in Node, Restart(n)
  PROVE  Drained(n, evq'[n])
<1>1. evq'[n] = <<[type |-> "INIT_SUCCESS"]>>
  BY DEF Restart, TypeOK
<1> QED  BY <1>1, DrainedQueues, TypeMachine

\* A step of the event thread, or a reset, adds no event but NOPs.
LEMMA ThreadQueue ==
  ASSUME IInv, NEW n \in Node, RunEventThread(n) \/ Crash(n)
  PROVE  Drained(n, evq'[n])
<1> USE DEF Handles
<1>1. TypeOK /\ MachineOK
  BY TypeMachine DEF IInv
<1>2. evq[n] # <<>> => /\ Rest(n) \in Bounded(Event, QueueLength)
                       /\ Drained(n, Rest(n))
  BY <1>1, RestType, DrainedQueues
<1>3. CASE \/ WrongVersion(n) \/ EmptyChunkAsserts(n) \/ GiveUpConfirmation(n) \/ Crash(n)
           \/ ConfirmAlone(n) \/ Activate(n)
  <2>1. Restart(n)
    BY <1>3 DEF WrongVersion, EmptyChunkAsserts, GiveUpConfirmation, Crash, ConfirmAlone,
                Activate
  <2> QED  BY <1>1, <2>1, DrainedRestart
<1>4. CASE \/ StartIdle(n) \/ AskForConfirmation(n) \/ AcceptUpdate(n) \/ ConfirmUpdate(n)
           \/ HostAck(n) \/ HostEnd(n)
  <2>1. evq[n] # <<>> /\ \E s \in State : Goto(n, s)
    BY <1>4 DEF StartIdle, AskForConfirmation, RebootDone, AcceptUpdate, UpdateRequest,
                ConfirmUpdate, HostAck, HostEnd, State, ClientState, HostState
  <2> QED  BY <1>1, <2>1, DrainedStay
<1>5. CASE \/ RefuseSameVersion(n) \/ RefuseOversized(n) \/ ReceiveChunk(n)
           \/ RestartTransfer(n) \/ KeepWaiting(n) \/ AskAgain(n) \/ IgnoreEvent(n)
           \/ HostSendChunk(n) \/ HostAgree(n)
  <2>1. evq[n] # <<>> /\ Stay(n)
    BY <1>5 DEF RefuseSameVersion, RefuseOversized, UpdateRequest, ReceiveChunk, TakeChunk,
                Chunk, RestartTransfer, KeepWaiting, AskAgain, IgnoreEvent, HostSendChunk,
                HostAgree
  <2> QED  BY <1>1, <2>1, DrainedStay
<1>6. CASE \/ RefuseFlash(n) \/ ChunkWriteFails(n) \/ GiveUp(n) \/ HostNack(n)
           \/ HostAbort(n) \/ HostChunkError(n)
  <2>1. evq[n] # <<>> /\ \E err : GotoErrorWith(n, err, Rest(n))
    BY <1>6 DEF RefuseFlash, UpdateRequest, ChunkWriteFails, TakeChunk, Chunk, GiveUp,
                HostNack, HostAbort, HostChunkError, HostError, GotoError
  <2> QED  BY <1>1, <1>2, <2>1, DrainedThen
<1>7. CASE LastWriteFails(n) \/ Validate(n)
  <2>1. evq[n] # <<>>
    BY <1>7 DEF LastWriteFails, Validate, TakeChunk, Chunk
  <2>2. \A w \in BOOLEAN : /\ AfterWrite(n, w) \in Bounded(Event, QueueLength)
                           /\ Drained(n, AfterWrite(n, w))
    BY <1>1, <1>2, <2>1, PushNopSome, DrainedQueues DEF AfterWrite
  <2>3. PICK w \in BOOLEAN :
          \/ \E s, p, err : GotoThen(n, s, p, err, AfterWrite(n, w))
          \/ \E err : GotoErrorWith(n, err, AfterWrite(n, w))
    <3>1. CASE LastWriteFails(n)
      BY <3>1 DEF LastWriteFails
    <3>2. CASE Validate(n)
      BY <3>2 DEF Validate
    <3> QED  BY <1>7, <3>1, <3>2
  <2> DEFINE q == AfterWrite(n, w)
  <2>4. q \in Bounded(Event, QueueLength) /\ Drained(n, q)
    BY <2>2
  <2>5. \/ \E s, p, err : GotoThen(n, s, p, err, q)
        \/ \E err : GotoErrorWith(n, err, q)
    BY <2>3
  <2> HIDE DEF q
  <2> QED  BY <1>1, <2>4, <2>5, DrainedThen, ZenonT(60)
<1>8. CASE LeaveValidating(n) \/ LeaveError(n) \/ BeginHost(n)
  <2>1. /\ evq[n] # <<>>
        /\ evq'[n] = Rest(n) \/ evq'[n] = PushNop(Rest(n))
    BY <1>1, <1>8 DEF LeaveValidating, LeaveError, BeginHost, TypeOK
  <2> QED  BY <1>1, <1>2, <2>1, DrainedQueues
<1>9. CASE HostAckTimeout(n)
  <2>1. evq[n] # <<>> /\ (Stay(n) \/ GotoErrorWith(n, "TIMEOUT", Rest(n)))
    BY <1>9 DEF HostAckTimeout, HostError, GotoError
  <2> QED  BY <1>1, <1>2, <2>1, DrainedStay, DrainedThen
<1> QED
  BY <1>3, <1>4, <1>5, <1>6, <1>7, <1>8, <1>9 DEF RunEventThread, ClientStep, HostStep

\* What is left in the queue is as sound as it was.
LEMMA DrainedSound ==
  ASSUME NEW n, NEW q, Drained(n, q), NEW as, NEW ins, SoundQueue(n, evq[n], as, ins)
  PROVE  SoundQueue(n, q, as, ins)
<1> SUFFICES ASSUME NEW i \in DOMAIN q
             PROVE  Sound(n, q[i], as, ins)
  BY DEF SoundQueue
<1>1. CASE q[i].type \in {"NONE", "INIT_SUCCESS"}
  BY <1>1, DullSound DEF Dull
<1>2. CASE i + 1 \in DOMAIN evq[n] /\ q[i] = evq[n][i + 1]
  BY <1>2 DEF SoundQueue
<1> QED  BY <1>1, <1>2 DEF Drained
-----------------------------------------------------------------------------
(* The frames that a step sends.                                           *)

\* No step takes an offer or an installed image back.
LEMMA NextGrows ==
  ASSUME TypeOK, [Next]_vars
  PROVE  Growing
<1> USE DEF nodeVars, logVars
<1>1. CASE UNCHANGED <<asked, installed>>
  BY <1>1 DEF Growing
<1>2. ASSUME NEW n \in Node, RunEventThread(n) \/ Crash(n)
      PROVE  Growing
  <2>1. CASE Confirm(n) /\ asked' = asked
    BY <2>1 DEF Confirm, Growing, TypeOK
  <2>2. CASE \/ StartIdle(n) \/ AskForConfirmation(n) \/ WrongVersion(n)
             \/ RefuseSameVersion(n) \/ RefuseOversized(n) \/ RefuseFlash(n)
             \/ AcceptUpdate(n) \/ EmptyChunkAsserts(n) \/ ReceiveChunk(n)
             \/ ChunkWriteFails(n) \/ LastWriteFails(n) \/ Validate(n)
             \/ RestartTransfer(n) \/ KeepWaiting(n) \/ GiveUp(n)
             \/ LeaveValidating(n) \/ Activate(n) \/ GiveUpConfirmation(n)
    BY <1>1, <2>2
    DEF StartIdle, AskForConfirmation, WrongVersion, RefuseSameVersion, RefuseOversized,
        RefuseFlash, AcceptUpdate, EmptyChunkAsserts, ReceiveChunk, ChunkWriteFails,
        LastWriteFails, Validate, RestartTransfer, KeepWaiting, GiveUp,
        LeaveValidating, Activate, GiveUpConfirmation
  <2>3. CASE \/ BeginHost(n) \/ HostAck(n) \/ HostNack(n) \/ HostAckTimeout(n)
             \/ HostAbort(n) \/ HostSendChunk(n) \/ HostChunkError(n) \/ HostAgree(n)
             \/ HostEnd(n) \/ LeaveError(n) \/ IgnoreEvent(n) \/ Crash(n)
    BY <1>1, <2>3
    DEF BeginHost, HostAck, HostNack, HostAckTimeout, HostAbort, HostSendChunk,
        HostChunkError, HostAgree, HostEnd, LeaveError, IgnoreEvent, Crash
  <2>4. CASE AskAgain(n)
    <3>1. UNCHANGED logVars
      BY <2>4 DEF AskAgain
    <3> QED  BY <1>1, <3>1
  <2>5. CASE ConfirmAlone(n) \/ ConfirmUpdate(n)
    BY <2>1, <2>5 DEF ConfirmAlone, ConfirmUpdate
  <2> QED  BY <1>2, <2>2, <2>3, <2>4, <2>5 DEF RunEventThread, ClientStep, HostStep
<1>3. ASSUME NEW o \in Offer, Initiate(o)
      PROVE  Growing
  BY <1>3 DEF Initiate, Growing
<1>4. ASSUME NEW n \in Node, NEW tmr \in Timer, TimerExpires(n, tmr)
      PROVE  Growing
  BY <1>1, <1>4 DEF TimerExpires
<1>5. ASSUME NEW m \in Node, NEW n \in Node, ProcessMessage(m, n) \/ LoseFrame(m, n)
      PROVE  Growing
  BY <1>1, <1>5 DEF ProcessMessage, LoseFrame
<1>6. CASE UNCHANGED vars
  BY <1>1, <1>6 DEF vars
<1> QED  BY <1>2, <1>3, <1>4, <1>5, <1>6 DEF Next

SoundNow == SoundNet(net, asked', installed')

\* A dull frame leaves the channels sound.
LEMMA TransmitDull ==
  ASSUME TypeOK, SoundNow, NEW n \in Node, NEW to \in Node \cup {None},
         NEW frame \in Frame, Dull(frame), Transmit(n, to, frame)
  PROVE  SoundNet(net', asked', installed')
BY SendSound, DullSound DEF Transmit, TypeOK, SoundNow

\* The steps of a client that send nothing, or a frame that says nothing of an
\* offer.
LEMMA ClientDullNet ==
  ASSUME IInv, SoundNow, NEW n \in Node,
         ClientStep(n), ~ConfirmUpdate(n)
  PROVE  SoundNet(net', asked', installed')
<1> USE DEF Handles
<1>1. TypeOK /\ MachineOK /\ CountersInRange
  BY TypeMachine DEF IInv, NodeInv, CountersInRange
<1>2. /\ client[n].host \in Node \cup {None} /\ noinit[n].host \in Node \cup {None}
      /\ Len(client[n].rx) \in 0..NumChunks
  BY <1>1, TypeFields, BoundAssumption DEF Bounded
<1>3. UNCHANGED net => SoundNet(net', asked', installed')
  BY DEF SoundNow
<1>4. CASE ConfirmAlone(n) \/ EmptyChunkAsserts(n) \/ LastWriteFails(n) \/ KeepWaiting(n) \/ Activate(n)
  BY <1>3, <1>4 DEF ConfirmAlone, EmptyChunkAsserts, LastWriteFails, KeepWaiting, Activate
<1>5. CASE AskForConfirmation(n)
  BY <1>1, <1>2, <1>5, TransmitDull, FrameTypes, DullFrames DEF AskForConfirmation
<1>6. CASE WrongVersion(n)
  BY <1>1, <1>2, <1>6, TransmitDull, FrameTypes, DullFrames DEF WrongVersion, Err
<1>7. CASE \/ RefuseSameVersion(n) \/ RefuseOversized(n) \/ RefuseFlash(n)
  <2>1. evq[n] # <<>> /\ Received(n).type = "START"
    BY <1>7 DEF RefuseSameVersion, RefuseOversized, RefuseFlash, UpdateRequest
  <2>2. Received(n).src \in Node
    BY <1>1, <2>1, RestType, EventFields
  <2>3. \E err \in Err : Transmit(n, Received(n).src, Result(n, "ACK", err))
    BY <1>7 DEF RefuseSameVersion, RefuseOversized, RefuseFlash, Refuse, Err
  <2> QED  BY <1>1, <2>2, <2>3, TransmitDull, FrameTypes, DullFrames
<1>8. CASE AcceptUpdate(n) \/ RestartTransfer(n)
  <2>1. evq[n] # <<>> /\ Received(n).type = "START"
    BY <1>8 DEF AcceptUpdate, UpdateRequest, RestartTransfer
  <2>2. Received(n).src \in Node
    BY <1>1, <2>1, RestType, EventFields
  <2> DEFINE ack == Result(n, "ACK", "NONE")
             req == ChunkRequest(n, 0)
  <2>3. PICK to \in Node \cup {None} : net' = Send(Send(net, n, to, ack), n, to, req)
    BY <1>2, <1>8, <2>2 DEF AcceptUpdate, RestartTransfer
  <2>4. ack \in Frame /\ req \in Frame
    BY FrameTypes, ZeroInRange DEF Err
  <2>5. Sound(to, ack, asked', installed') /\ Sound(to, req, asked', installed')
    BY DullFrames, DullSound
  <2> DEFINE ch == Send(net, n, to, ack)
  <2> HIDE DEF ack, req
  <2>6. ch \in [Node \X Node -> Bounded(Frame, NetLength)]
    BY <1>1, <2>4, SendType DEF TypeOK
  <2>7. SoundNet(ch, asked', installed')
    BY <1>1, <2>4, <2>5, SendSound DEF TypeOK, SoundNow
  <2>8. net' = Send(ch, n, to, req)
    BY <2>3
  <2> HIDE DEF ch
  <2> QED  BY <2>4, <2>5, <2>6, <2>7, <2>8, SendSound
<1>9. CASE ReceiveChunk(n) \/ ChunkWriteFails(n)
  <2>1. Len(client[n].rx) + 1 \in 0..NumChunks
    <3>1. ~LastChunk(n)
      BY <1>9 DEF ReceiveChunk, ChunkWriteFails
    <3> QED  BY <1>2, <3>1, BoundAssumption DEF LastChunk
  <2>2. Transmit(n, client[n].host, ChunkRequest(n, Len(client[n].rx) + 1))
    BY <1>9 DEF ReceiveChunk, ChunkWriteFails, AskNext
  <2> QED  BY <1>1, <1>2, <2>1, <2>2, TransmitDull, FrameTypes, DullFrames
<1>10. CASE Validate(n)
  <2> DEFINE err == Verdict(client'[n])
  <2>1. err \in Err
    BY DEF Verdict, Err
  <2>2. PICK written \in BOOLEAN :
          /\ TakeChunk(n, written)
          /\ IF err = "NONE" THEN UNCHANGED net
             ELSE Transmit(n, client'[n].host, Result(n, "END", err))
    BY <1>10 DEF Validate
  <2>3. client'[n].host \in Node \cup {None}
    BY <1>1, <2>2, TakeChunkType DEF ClientContext
  <2> HIDE DEF err
  <2> QED  BY <1>1, <1>3, <2>1, <2>2, <2>3, TransmitDull, FrameTypes, DullFrames
<1>11. CASE AskAgain(n)
  <2>1. PICK state \in {"RECEIVING", "REBOOT_REQ", "REBOOT_DONE"} :
          Transmit(n, client[n].host, Request(n, state))
    BY <1>11 DEF AskAgain
  <2>2. Request(n, state) \in Frame /\ Dull(Request(n, state))
    BY <1>2, FrameTypes, DullFrames DEF Request
  <2> QED  BY <1>1, <1>2, <2>1, <2>2, TransmitDull
<1>12. CASE GiveUp(n)
  BY <1>1, <1>2, <1>12, TransmitDull, FrameTypes, DullFrames DEF GiveUp, Err
<1>13. CASE LeaveValidating(n)
  <2>1. UNCHANGED net \/ Transmit(n, client[n].host, Plain(n, "REBOOT_REQ"))
    BY <1>13 DEF LeaveValidating
  <2> QED  BY <1>1, <1>2, <1>3, <2>1, TransmitDull, FrameTypes, DullFrames
<1>14. CASE GiveUpConfirmation(n)
  BY <1>1, <1>2, <1>14, TransmitDull, FrameTypes, DullFrames DEF GiveUpConfirmation, Err
<1> QED
  BY <1>4, <1>5, <1>6, <1>7, <1>8, <1>9, <1>10, <1>11, <1>12, <1>13, <1>14 DEF ClientStep

\* A client that confirms has told the truth: its host offers nothing but the
\* image that the client runs now.
LEMMA ConfirmNet ==
  ASSUME IInv, SoundNow, Growing, NEW n \in Node, Founded(n), ConfirmUpdate(n)
  PROVE  SoundNet(net', asked', installed')
<1>1. TypeOK
  BY DEF IInv
<1>2. sm[n].state = "REBOOT_DONE" /\ noinit[n].magic
  BY DEF ConfirmUpdate, Handles, IInv, NodeInv, Recorded, ClientState
<1>3. PICK o \in asked : /\ o.host = noinit[n].host /\ o.client = n
                         /\ Sha[o.img] = noinit[n].sha
  BY <1>2 DEF Founded
<1>4. o \in Offer /\ o.img \in Image /\ boot[n].running \in Image
  BY <1>1, OfferAssumption DEF TypeOK, Offers, Boot
<1>5. installed'[n] = installed[n] \cup {boot[n].running}
  BY <1>1 DEF ConfirmUpdate, Confirm, TypeOK
<1>6. ASSUME Distinct, NEW p \in Offer, p.host = noinit[n].host
      PROVE  p.img \in installed'[p.client]
  <2>1. Sha[boot[n].running] = Sha[o.img]
    BY <1>2, <1>3 DEF Founded
  <2>2. boot[n].running = o.img
    BY <1>4, <1>6, <2>1 DEF Distinct, ShaTellsImages
  <2>3. p.client = n /\ p.img = o.img
    BY <1>3, <1>4, <1>6 DEF Distinct, OneUpdatePerHost
  <2> QED  BY <1>5, <2>2, <2>3
<1> DEFINE frame == Result(n, "END", "NONE")
<1>7. Sound(noinit[n].host, frame, asked', installed')
  BY <1>6 DEF Sound, Result
<1>8. frame \in Frame
  BY FrameTypes DEF Err
<1>9. noinit[n].host \in Node \cup {None} /\ net' = Send(net, n, noinit[n].host, frame)
  BY <1>1, TypeFields DEF ConfirmUpdate, Transmit
<1> QED  BY <1>1, <1>7, <1>8, <1>9, SendSound DEF TypeOK, SoundNow

\* The frames of a host: its requests are asked for, and its agreement goes to
\* a client, which hosts nothing.
LEMMA HostNet ==
  ASSUME IInv, SoundNow, Growing, NEW n \in Node, Founded(n),
         SoundQueue(n, evq[n], asked, installed), HostStep(n)
  PROVE  SoundNet(net', asked', installed')
<1> USE DEF Handles
<1>1. TypeOK /\ MachineOK
  BY TypeMachine DEF IInv
<1>2. UNCHANGED net => SoundNet(net', asked', installed')
  BY DEF SoundNow
<1>3. ASSUME NEW o \in asked, o.host = n
      PROVE  /\ o \in Offer /\ o.client \in Node /\ StartFrame(o) \in Frame
             /\ Sound(o.client, StartFrame(o), asked', installed')
  <2>1. o \in Offer
    BY <1>1 DEF TypeOK
  <2>2. Sound(o.client, StartFrame(o), asked', installed')
    BY <1>3 DEF Growing, Sound, StartFrame, Offered
  <2> QED  BY <2>1, <2>2, StartFrameType
<1>4. sm[n].state \in HostState => host[n].offer \in asked /\ host[n].offer.host = n
  BY DEF Founded
<1>5. CASE HostAck(n) \/ HostNack(n) \/ HostAbort(n) \/ HostChunkError(n) \/ HostEnd(n)
  BY <1>2, <1>5 DEF HostAck, HostNack, HostAbort, HostChunkError, HostEnd
<1>6. CASE BeginHost(n)
  <2> DEFINE o == Received(n).offer
  <2>1. o \in asked /\ o.host = n
    <3>1. Received(n) = evq[n][1] /\ 1 \in DOMAIN evq[n] /\ Received(n).type = "BEGIN_HOST"
      BY <1>1, <1>6 DEF BeginHost, Received, MachineOK, Bounded
    <3> QED  BY <3>1 DEF SoundQueue, Sound
  <2>2. net' = Send(net, n, o.client, StartFrame(o))
    BY <1>6 DEF BeginHost, Transmit
  <2> QED  BY <1>1, <1>3, <2>1, <2>2, SendSound DEF TypeOK, SoundNow
<1>7. CASE HostAckTimeout(n)
  <2> DEFINE o == host[n].offer
  <2>1. o \in asked /\ o.host = n
    BY <1>4, <1>7 DEF HostAckTimeout, HostState
  <2>2. UNCHANGED net \/ net' = Send(net, n, o.client, StartFrame(o))
    BY <1>7 DEF HostAckTimeout, Transmit
  <2> QED  BY <1>1, <1>2, <1>3, <2>1, <2>2, SendSound DEF TypeOK, SoundNow
<1>8. CASE HostSendChunk(n)
  <2> DEFINE h     == host[n]
             piece == [img |-> h.offer.img,
                       seq |-> IF h.left = 0 THEN 0 ELSE NumChunks - h.left + 1]
             frame == [type |-> "PAYLOAD", src |-> n, piece |-> piece]
             to    == h.offer.client
  <2>1. h.offer \in asked /\ h.offer.host = n /\ to \in Node
    BY <1>3, <1>4, <1>8 DEF HostSendChunk, HostState
  <2>2. piece \in Piece
    <3>1. h.offer.img \in Image
      BY <1>3, <2>1, OfferAssumption DEF Offers
    <3>2. h.left \in 0..NumChunks
      BY <1>1, TypeFields
    <3>3. (IF h.left = 0 THEN 0 ELSE NumChunks - h.left + 1) \in 0..NumChunks
      BY <3>2, BoundAssumption
    <3> QED  BY <3>1, <3>3 DEF Piece
  <2>3. frame \in Frame /\ Dull(frame)
    BY <2>2, FrameTypes, DullFrames
  <2>4. PICK slow \in BOOLEAN :
          net' = Send(IF slow THEN Send(net, n, to, Plain(n, "HEARTBEAT")) ELSE net,
                      n, to, frame)
    BY <1>8 DEF HostSendChunk
  <2> DEFINE ch == IF slow THEN Send(net, n, to, Plain(n, "HEARTBEAT")) ELSE net
  <2> HIDE DEF piece, frame, to
  <2>5. /\ ch \in [Node \X Node -> Bounded(Frame, NetLength)]
        /\ SoundNet(ch, asked', installed')
    <3>1. Plain(n, "HEARTBEAT") \in Frame /\ Dull(Plain(n, "HEARTBEAT"))
      BY FrameTypes, DullFrames
    <3> QED  BY <1>1, <2>1, <3>1, SendType, SendSound, DullSound DEF TypeOK, SoundNow
  <2> QED  BY <2>1, <2>3, <2>4, <2>5, SendSound, DullSound
<1>9. CASE HostAgree(n)
  <2> DEFINE o == host[n].offer
  <2>1. o \in asked /\ o.host = n
    BY <1>4, <1>9 DEF HostAgree, HostState
  <2>2. o \in Offer /\ o.client \in Node
    BY <1>3, <2>1
  <2>3. PICK frame \in {Plain(n, "REBOOT"), Result(n, "END", "NONE")} :
          net' = Send(net, n, o.client, frame)
    BY <1>9 DEF HostAgree, Transmit
  <2>4. Sound(o.client, Result(n, "END", "NONE"), asked', installed')
    BY <2>2 DEF Sound, Result, Distinct, RolesApart
  <2>5. Sound(o.client, Plain(n, "REBOOT"), asked', installed')
    BY DullFrames, DullSound
  <2>6. frame \in Frame
    BY FrameTypes DEF Err
  <2> QED  BY <1>1, <2>2, <2>3, <2>4, <2>5, <2>6, SendSound DEF TypeOK, SoundNow
<1> QED  BY <1>5, <1>6, <1>7, <1>8, <1>9 DEF HostStep

\* The channels stay sound.
LEMMA ThreadNet ==
  ASSUME IInv, FoundedInv, Growing, NEW n \in Node, RunEventThread(n) \/ Crash(n)
  PROVE  SoundNet(net', asked', installed')
<1>1. SoundNow /\ Founded(n) /\ SoundQueue(n, evq[n], asked, installed)
  BY SoundGrows DEF FoundedInv, SoundNow
<1>2. CASE StartIdle(n) \/ LeaveError(n) \/ IgnoreEvent(n) \/ Crash(n)
  BY <1>1, <1>2 DEF StartIdle, LeaveError, IgnoreEvent, Crash, SoundNow
<1>3. CASE ClientStep(n)
  BY <1>1, <1>3, ClientDullNet, ConfirmNet
<1>4. CASE HostStep(n)
  BY <1>1, <1>4, HostNet
<1> QED  BY <1>2, <1>3, <1>4 DEF RunEventThread
-----------------------------------------------------------------------------
(* What the nodes know goes back to an offer.                              *)

\* A node that is in no update any more keeps at most its callback and its
\* record.
LEMMA SettledFounded ==
  ASSUME NEW n, Founded(n), Growing,
         sm'[n].state \in {"INIT", "IDLE", "ERROR"},
         sm'[n].cb \in {sm[n].cb, None}, noinit'[n] \in {noinit[n], NoReboot}
  PROVE  Founded(n)'
<1>1. sm'[n].cb # None => sm'[n].cb \in asked' /\ sm'[n].cb.host = n
  BY DEF Founded, Growing
<1>2. noinit'[n].magic =>
        \E o \in asked' : /\ o.host = noinit'[n].host /\ o.client = n
                          /\ Sha[o.img] = noinit'[n].sha
  BY DEF Founded, Growing, NoReboot
<1> QED  BY <1>1, <1>2 DEF Founded, HostState

\* So does one that stays in its update.
LEMMA StayingFounded ==
  ASSUME NEW n, Founded(n), Growing,
         \/ sm'[n].state = sm[n].state
         \/ /\ sm'[n].state \in {"VALIDATING", "REBOOT_REQ"}
            /\ sm[n].state \in {"RECEIVING", "VALIDATING", "REBOOT_REQ"},
         sm'[n].cb = sm[n].cb, noinit'[n] = noinit[n], boot'[n] = boot[n],
         client'[n].host = client[n].host \/ sm'[n].state \notin ClientState,
         client'[n].img = client[n].img \/ sm'[n].state \notin ClientState,
         host'[n].offer = host[n].offer
  PROVE  Founded(n)'
<1>1. sm'[n].cb # None => sm'[n].cb \in asked' /\ sm'[n].cb.host = n
  BY DEF Founded, Growing
<1>2. noinit'[n].magic =>
        \E o \in asked' : /\ o.host = noinit'[n].host /\ o.client = n
                          /\ Sha[o.img] = noinit'[n].sha
  BY DEF Founded, Growing
<1>3. sm'[n].state \in HostState =>
        /\ host'[n].offer \in asked' /\ host'[n].offer.host = n
        /\ sm'[n].cb = host'[n].offer
  BY DEF Founded, Growing, HostState
<1>4. sm'[n].state \in {"RECEIVING", "VALIDATING", "REBOOT_REQ"} =>
        Offered(asked', client'[n].host, n, client'[n].img)
  BY DEF Founded, Growing, Offered, ClientState
<1>5. sm'[n].state = "REBOOT_DONE" => Sha[boot'[n].running] = noinit'[n].sha
  BY DEF Founded
<1> QED  BY <1>1, <1>2, <1>3, <1>4, <1>5 DEF Founded

\* A reset settles the node.
LEMMA RestartFounded ==
  ASSUME TypeOK, Growing, NEW n \in Node, Founded(n), Restart(n),
         noinit'[n] \in {noinit[n], NoReboot}
  PROVE  Founded(n)'
BY SettledFounded DEF Restart, BootState, TypeOK

\* The error state settles the node.
LEMMA ErrorFounded ==
  ASSUME TypeOK, Growing, NEW n \in Node, Founded(n),
         \E err, q : GotoErrorWith(n, err, q), noinit' = noinit
  PROVE  Founded(n)'
<1>1. sm'[n].state = "ERROR" /\ sm'[n].cb = sm[n].cb
  BY DEF GotoErrorWith, GotoThen, TypeOK
<1> QED  BY <1>1, SettledFounded

\* The first event of a queue is as sound as all of it.
LEMMA HeadSound ==
  ASSUME MachineOK, NEW n \in Node, evq[n] # <<>>, NEW as, NEW ins,
         SoundQueue(n, evq[n], as, ins)
  PROVE  Sound(n, Received(n), as, ins)
<1>1. 1 \in DOMAIN evq[n] /\ Received(n) = evq[n][1]
  BY DEF MachineOK, Bounded, Received
<1> QED  BY <1>1 DEF SoundQueue

\* A step of the event thread, or a reset, on its own node.
LEMMA ThreadFounded ==
  ASSUME IInv, FoundedInv, Growing, NEW n \in Node, RunEventThread(n) \/ Crash(n)
  PROVE  Founded(n)'
<1> USE DEF nodeVars, logVars, Handles
<1>1. TypeOK /\ MachineOK /\ NodeInv(n) /\ Founded(n)
  BY TypeMachine DEF IInv, FoundedInv
<1>2. evq[n] # <<>> => Sound(n, Received(n), asked, installed) /\ Received(n) \in Event
  BY <1>1, HeadSound, RestType DEF FoundedInv
<1>3. CASE \/ WrongVersion(n) \/ EmptyChunkAsserts(n) \/ GiveUpConfirmation(n) \/ Crash(n)
           \/ ConfirmAlone(n) \/ Activate(n)
  <2>1. Restart(n) /\ noinit'[n] \in {noinit[n], NoReboot}
    BY <1>1, <1>3
    DEF WrongVersion, EmptyChunkAsserts, GiveUpConfirmation, Crash, ConfirmAlone,
        Activate, TypeOK
  <2> QED  BY <1>1, <2>1, RestartFounded
<1>4. CASE StartIdle(n) \/ ConfirmUpdate(n) \/ HostEnd(n)
  <2>1. Goto(n, "IDLE") /\ noinit'[n] = NoReboot
    BY <1>1, <1>4 DEF StartIdle, ConfirmUpdate, HostEnd, TypeOK
  <2>2. sm'[n].state = "IDLE" /\ sm'[n].cb = sm[n].cb
    BY <1>1, <2>1 DEF Goto, TypeOK
  <2> QED  BY <1>1, <2>1, <2>2, SettledFounded
<1>5. CASE LeaveError(n)
  <2>1. sm'[n].state = "IDLE" /\ sm'[n].cb = sm[n].cb /\ noinit'[n] = NoReboot
    <3> DEFINE new == [sm[n] EXCEPT !.state = "IDLE", !.pend = None]
    <3>1. new.state = "IDLE" /\ new.cb = sm[n].cb
      BY <1>1, TypeFields DEF Machine
    <3>2. sm' = [sm EXCEPT ![n] = new] /\ noinit' = [noinit EXCEPT ![n] = NoReboot]
      BY <1>5 DEF LeaveError
    <3> HIDE DEF new
    <3> QED  BY <1>1, <3>1, <3>2 DEF TypeOK
  <2> QED  BY <1>1, <2>1, SettledFounded
<1>6. CASE \/ RefuseFlash(n) \/ ChunkWriteFails(n) \/ LastWriteFails(n) \/ GiveUp(n)
           \/ HostNack(n) \/ HostAbort(n) \/ HostChunkError(n)
  <2>1. (\E err, q : GotoErrorWith(n, err, q)) /\ noinit' = noinit
    BY <1>6 DEF RefuseFlash, ChunkWriteFails, LastWriteFails, GiveUp, HostNack, HostAbort,
                HostChunkError, HostError, GotoError
  <2> QED  BY <1>1, <2>1, ErrorFounded
<1>7. CASE RefuseSameVersion(n) \/ RefuseOversized(n)
  <2>1. sm' = sm /\ sm[n].state = "IDLE" /\ noinit' = noinit
    BY <1>7 DEF RefuseSameVersion, RefuseOversized, UpdateRequest, Stay
  <2> QED  BY <1>1, <2>1, SettledFounded
<1>8. CASE HostAckTimeout(n)
  <2>1. noinit' = noinit /\ boot' = boot /\ host'[n].offer = host[n].offer /\ client' = client
    BY <1>1, <1>8, TypeFields DEF HostAckTimeout, TypeOK, HostContext
  <2>2. sm' = sm \/ \E err, q : GotoErrorWith(n, err, q)
    BY <1>8 DEF HostAckTimeout, HostError, GotoError, Stay
  <2> QED  BY <1>1, <2>1, <2>2, ErrorFounded, StayingFounded
<1>9. CASE \/ KeepWaiting(n) \/ IgnoreEvent(n) \/ HostAgree(n) \/ HostSendChunk(n)
           \/ RestartTransfer(n) \/ AskAgain(n) \/ ReceiveChunk(n)
  <2>1. sm' = sm /\ noinit' = noinit /\ boot' = boot
    BY <1>9 DEF KeepWaiting, IgnoreEvent, HostAgree, HostSendChunk, RestartTransfer,
                AskAgain, ReceiveChunk, Stay
  <2>2. host'[n].offer = host[n].offer
    BY <1>1, <1>9, TypeFields, ZenonT(60)
    DEF KeepWaiting, IgnoreEvent, HostAgree, HostSendChunk, RestartTransfer,
        AskAgain, ReceiveChunk, TypeOK, HostContext
  <2>3. client'[n].host = client[n].host /\ client'[n].img = client[n].img
    <3>1. CASE KeepWaiting(n) \/ IgnoreEvent(n) \/ HostAgree(n) \/ HostSendChunk(n)
      BY <3>1 DEF KeepWaiting, IgnoreEvent, HostAgree, HostSendChunk
    <3>2. CASE RestartTransfer(n)
      BY <1>1, <3>2, TypeFields DEF RestartTransfer, TypeOK, ClientContext
    <3>4. CASE AskAgain(n)
      <4>1. client' = [client EXCEPT ![n].retry = client[n].retry + 1]
        BY <3>4 DEF AskAgain
      <4> QED  BY <1>1, <4>1, TypeFields DEF TypeOK, ClientContext
    <3>3. CASE ReceiveChunk(n)
      BY <1>1, <3>3, TypeFields DEF ReceiveChunk, TakeChunk, TypeOK, ClientContext
    <3> QED  BY <1>9, <3>1, <3>2, <3>3, <3>4
  <2> QED  BY <1>1, <2>1, <2>2, <2>3, StayingFounded
<1>10. CASE Validate(n)
  <2>a. PICK written \in BOOLEAN :
          /\ TakeChunk(n, written)
          /\ \E p, err, q : GotoThen(n, "VALIDATING", p, err, q)
    BY <1>10 DEF Validate
  <2>1. PICK p, err, q : TakeChunk(n, written) /\ GotoThen(n, "VALIDATING", p, err, q)
    BY <2>a
  <2>2. /\ sm'[n].state = "VALIDATING" /\ sm[n].state = "RECEIVING" /\ sm'[n].cb = sm[n].cb
        /\ client'[n].host = client[n].host /\ client'[n].img = client[n].img
    BY <1>1, <2>1, TypeFields DEF GotoThen, TakeChunk, Chunk, TypeOK, ClientContext
  <2>3. noinit' = noinit /\ boot' = boot /\ host' = host
    BY <1>10 DEF Validate
  <2> QED  BY <1>1, <2>2, <2>3, StayingFounded
<1>11. CASE LeaveValidating(n)
  <2>1. noinit' = noinit /\ boot' = boot /\ host' = host /\ sm[n].state = "VALIDATING"
    BY <1>11 DEF LeaveValidating
  <2>2. CASE sm[n].pend = "REBOOT_REQ"
    <3> DEFINE new == [sm[n] EXCEPT !.state = "REBOOT_REQ", !.pend = None]
    <3>1. new.state = "REBOOT_REQ" /\ new.cb = sm[n].cb
      BY <1>1, TypeFields DEF Machine
    <3>2. sm' = [sm EXCEPT ![n] = new] /\ client' = [client EXCEPT ![n].retry = 0]
      BY <1>11, <2>2 DEF LeaveValidating
    <3> HIDE DEF new
    <3>3. client'[n].host = client[n].host /\ client'[n].img = client[n].img
      BY <1>1, <3>2, TypeFields DEF TypeOK, ClientContext
    <3>4. sm'[n].state = "REBOOT_REQ" /\ sm'[n].cb = sm[n].cb
      BY <1>1, <3>1, <3>2 DEF TypeOK
    <3> QED  BY <1>1, <2>1, <3>3, <3>4, StayingFounded
  <2>3. CASE sm[n].pend = "ERROR"
    <3> DEFINE new == [sm[n] EXCEPT !.state = "ERROR", !.pend = "IDLE"]
    <3>1. new.state = "ERROR" /\ new.cb = sm[n].cb
      BY <1>1, TypeFields DEF Machine
    <3>2. sm' = [sm EXCEPT ![n] = new]
      BY <1>11, <2>3 DEF LeaveValidating
    <3> HIDE DEF new
    <3>3. sm'[n].state = "ERROR" /\ sm'[n].cb = sm[n].cb
      BY <1>1, <3>1, <3>2 DEF TypeOK
    <3> QED  BY <1>1, <2>1, <3>3, SettledFounded
  <2> QED  BY <1>11, <2>2, <2>3 DEF LeaveValidating
<1>12. CASE AskForConfirmation(n)
  <2>1. sm'[n].state = "REBOOT_DONE" /\ sm'[n].cb = sm[n].cb
    BY <1>1, <1>12 DEF AskForConfirmation, Goto, TypeOK
  <2>2. noinit' = noinit /\ boot' = boot /\ asked' = asked
        /\ Sha[boot[n].running] = noinit[n].sha
    BY <1>12 DEF AskForConfirmation
  <2> QED  BY <1>1, <2>1, <2>2 DEF Founded, HostState
<1>13. CASE AcceptUpdate(n)
  <2> DEFINE e == Received(n)
  <2>1. sm'[n].state = "RECEIVING" /\ sm'[n].cb = sm[n].cb
    BY <1>1, <1>13 DEF AcceptUpdate, Goto, TypeOK
  <2>2. /\ client'[n].host = e.src /\ client'[n].img = e.img /\ asked' = asked
        /\ noinit'[n].host = e.src /\ noinit'[n].sha = Sha[e.img]
    BY <1>1, <1>13 DEF AcceptUpdate, NoClient, Note, TypeOK
  <2>3. Offered(asked, e.src, n, e.img)
    BY <1>2, <1>13 DEF AcceptUpdate, UpdateRequest, Sound
  <2>4. \E o \in asked' : /\ o.host = noinit'[n].host /\ o.client = n
                          /\ Sha[o.img] = noinit'[n].sha
    BY <2>2, <2>3 DEF Offered
  <2> QED  BY <1>1, <2>1, <2>2, <2>3, <2>4 DEF Founded, HostState
<1>14. CASE BeginHost(n)
  <2> DEFINE o == Received(n).offer
  <2>1. sm'[n].state = "HOST_REQ_UPDATE" /\ sm'[n].cb = o /\ host'[n].offer = o
    BY <1>1, <1>14 DEF BeginHost, TypeOK
  <2>2. noinit' = noinit /\ asked' = asked
    BY <1>14 DEF BeginHost
  <2>3. o \in asked /\ o.host = n
    BY <1>2, <1>14 DEF BeginHost, Sound
  <2> QED  BY <1>1, <2>1, <2>2, <2>3 DEF Founded, HostState
<1>15. CASE HostAck(n)
  <2>1. sm'[n].state = "HOST_UPDATE" /\ sm'[n].cb = sm[n].cb /\ sm[n].state = "HOST_REQ_UPDATE"
    BY <1>1, <1>15 DEF HostAck, Goto, TypeOK
  <2>2. noinit' = noinit /\ asked' = asked /\ host' = host
    BY <1>15 DEF HostAck
  <2> QED  BY <1>1, <2>1, <2>2 DEF Founded, HostState
<1> QED
  BY <1>3, <1>4, <1>5, <1>6, <1>7, <1>8, <1>9, <1>10, <1>11, <1>12, <1>13, <1>14, <1>15
  DEF RunEventThread, ClientStep, HostStep

\* A node that nothing happens to.
LEMMA SameFounded ==
  ASSUME NEW n, Founded(n), Same(n), Growing
  PROVE  Founded(n)'
BY StayingFounded DEF Same

\* Where the frames go and come from does not matter to the nodes.
LEMMA QuietFounded ==
  ASSUME Growing, UNCHANGED <<sm, nodeVars>>, NEW n, Founded(n)
  PROVE  Founded(n)'
BY StayingFounded DEF nodeVars

\* Every step of an event thread and every reset keep the facts about offers.
LEMMA ThreadStepFounded ==
  ASSUME IInv, FoundedInv, Growing, NEW n \in Node, RunEventThread(n) \/ Crash(n)
  PROVE  FoundedInv'
<1>1. SoundNet(net', asked', installed')
  BY ThreadNet
<1>2. ASSUME NEW m \in Node
      PROVE  SoundQueue(m, evq'[m], asked', installed') /\ Founded(m)'
  <2>1. SoundQueue(m, evq[m], asked', installed') /\ Founded(m)
    BY SoundGrows DEF FoundedInv
  <2>2. CASE m = n
    <3>1. SoundQueue(m, evq'[m], asked', installed')
      BY <2>1, <2>2, ThreadQueue, DrainedSound
    <3> QED  BY <2>2, <3>1, ThreadFounded
  <2>3. CASE m # n
    <3>1. Same(m)
      BY <2>3, OtherNode DEF IInv
    <3> QED  BY <2>1, <3>1, SameFounded DEF Same
  <2> QED  BY <2>2, <2>3
<1> QED  BY <1>1, <1>2 DEF FoundedInv

\* The event of an expired timer says nothing of an offer.
LEMMA TimerStepFounded ==
  ASSUME IInv, FoundedInv, Growing, NEW n \in Node, NEW tmr \in Timer, TimerExpires(n, tmr)
  PROVE  FoundedInv'
<1> USE DEF nodeVars, logVars
<1>1. TypeOK /\ MachineOK
  BY TypeMachine DEF IInv
<1>2. SoundNet(net', asked', installed')
  BY DEF TimerExpires, FoundedInv
<1>3. ASSUME NEW m \in Node
      PROVE  SoundQueue(m, evq'[m], asked', installed') /\ Founded(m)'
  <2>1. SoundQueue(m, evq[m], asked', installed') /\ Founded(m)
    BY SoundGrows DEF FoundedInv
  <2>2. CASE m # n
    <3>1. Same(m)
      BY <1>1, <2>2, OtherNode
    <3> QED  BY <2>1, <3>1, SameFounded DEF Same
  <2>3. CASE m = n /\ Len(evq[n]) < QueueLength
    <3> DEFINE e == Expiry(n, tmr)
    <3>1. e \in Event /\ Dull(e)
      <4>1. Expiry(n, "update") = Result(n, "ABORT", "ABORTED")
        BY DEF Expiry
      <4>2. Expiry(n, "chunk") = [type |-> "CHUNK_TIMEOUT"]
            /\ Expiry(n, "ack") = [type |-> "ACK_TIMEOUT"]
        BY DEF Expiry
      <4>3. Expiry(n, "update") \in Event /\ Dull(Expiry(n, "update"))
        BY <4>1, FrameTypes, DullFrames DEF Event, Err
      <4>4. \A t \in {"chunk", "ack"} : Expiry(n, t) \in Event /\ Dull(Expiry(n, t))
        BY <4>2 DEF Event, Local, Dull
      <4> QED  BY <4>3, <4>4 DEF Timer
    <3>2. /\ evq' = [evq EXCEPT ![n] = Append(evq[n], e)]
          /\ UNCHANGED <<sm, client, host, boot>>
      BY <2>3 DEF TimerExpires
    <3> HIDE DEF e
    <3>3. evq[n] \in Seq(Event) /\ evq'[n] = Append(evq[n], e)
      BY <1>1, <3>2 DEF MachineOK, Bounded
    <3>4. SoundQueue(m, evq'[m], asked', installed')
      BY <2>1, <2>3, <3>1, <3>3, AppendSound, DullSound
    <3>5. noinit' = noinit
      BY DEF TimerExpires
    <3> QED  BY <2>1, <3>2, <3>4, <3>5, StayingFounded
  <2>4. CASE m = n /\ ~(Len(evq[n]) < QueueLength)
    <3>1. Restart(n) /\ noinit' = noinit
      BY <2>4 DEF TimerExpires
    <3>2. SoundQueue(m, evq'[m], asked', installed')
      BY <1>1, <2>1, <2>4, <3>1, DrainedRestart, DrainedSound
    <3> QED  BY <1>1, <2>1, <2>4, <3>1, <3>2, RestartFounded
  <2> QED  BY <2>2, <2>3, <2>4
<1> QED  BY <1>2, <1>3 DEF FoundedInv

\* A frame is what it was when it was sent.
LEMMA NetworkStepFounded ==
  ASSUME IInv, FoundedInv, Growing, NEW m \in Node, NEW k \in Node,
         ProcessMessage(m, k) \/ LoseFrame(m, k)
  PROVE  FoundedInv'
<1> DEFINE ch == net[<<m, k>>]
           e  == Head(ch)
<1>1. TypeOK /\ MachineOK
  BY TypeMachine DEF IInv
<1>2. /\ ch \in Seq(Frame) /\ ch # <<>> /\ e \in Event
      /\ SoundQueue(k, ch, asked', installed')
  <2>1. ch \in Bounded(Frame, NetLength) /\ ch # <<>>
    BY <1>1 DEF ProcessMessage, LoseFrame, TypeOK
  <2>2. SoundQueue(k, ch, asked', installed')
    BY SoundGrows DEF FoundedInv, SoundNet
  <2> QED  BY <2>1, <2>2, TailBounded, BoundAssumption DEF Event, Bounded
<1>3. net' = [net EXCEPT ![<<m, k>>] = Tail(ch)]
  BY DEF ProcessMessage, LoseFrame
<1>4. Sound(k, e, asked', installed') /\ SoundQueue(k, Tail(ch), asked', installed')
  <2>1. 1 \in DOMAIN ch /\ e = ch[1]
    BY <1>2
  <2>2. \A i \in DOMAIN Tail(ch) : i + 1 \in DOMAIN ch /\ Tail(ch)[i] = ch[i + 1]
    BY <1>2
  <2> HIDE DEF ch, e
  <2> QED  BY <1>2, <2>1, <2>2 DEF SoundQueue
<1> HIDE DEF ch, e
<1>5. SoundNet(net', asked', installed')
  <2>1. ASSUME NEW a \in Node, NEW b \in Node
        PROVE  SoundQueue(b, net'[<<a, b>>], asked', installed')
    <3>1. <<a, b>> \in Node \X Node
      OBVIOUS
    <3>2. net'[<<a, b>>] = net[<<a, b>>] \/ (b = k /\ net'[<<a, b>>] = Tail(ch))
      BY <1>1, <1>3, <3>1 DEF TypeOK
    <3> QED  BY <1>4, <3>2, SoundGrows DEF FoundedInv, SoundNet
  <2> QED  BY <2>1 DEF SoundNet
<1>6. UNCHANGED <<sm, nodeVars>>
  BY DEF ProcessMessage, LoseFrame
<1>7. ASSUME NEW n \in Node
      PROVE  SoundQueue(n, evq'[n], asked', installed')
  <2>1. SoundQueue(n, evq[n], asked', installed')
    BY SoundGrows DEF FoundedInv
  <2>2. evq'[n] = evq[n] \/ (n = k /\ evq'[n] = Append(evq[n], e))
    BY <1>1 DEF ProcessMessage, LoseFrame, Push, MachineOK, ch, e
  <2>3. evq[n] \in Seq(Event)
    BY <1>1 DEF MachineOK, Bounded
  <2> QED  BY <1>2, <1>4, <2>1, <2>2, <2>3, AppendSound
<1> QED  BY <1>5, <1>6, <1>7, QuietFounded DEF FoundedInv

\* An application asks before anything is said of its offer.
LEMMA InitiateStepFounded ==
  ASSUME IInv, FoundedInv, Growing, NEW o \in Offer, Initiate(o)
  PROVE  FoundedInv'
<1> DEFINE e == [type |-> "BEGIN_HOST", offer |-> o]
<1>1. MachineOK
  BY TypeMachine DEF IInv
<1>2. e \in Event /\ Sound(o.host, e, asked', installed')
  BY DEF Event, Local, Sound, Initiate
<1>3. SoundNet(net', asked', installed')
  BY SoundGrows DEF FoundedInv, Initiate
<1>4. UNCHANGED <<sm, nodeVars>>
  BY DEF Initiate
<1>5. evq' = evq \/ evq' = [evq EXCEPT ![o.host] = Append(evq[o.host], e)]
  BY DEF Initiate
<1> HIDE DEF e
<1>6. ASSUME NEW n \in Node
      PROVE  SoundQueue(n, evq'[n], asked', installed')
  <2>1. SoundQueue(n, evq[n], asked', installed')
    BY SoundGrows DEF FoundedInv
  <2>2. evq'[n] = evq[n] \/ (n = o.host /\ evq'[n] = Append(evq[n], e))
    BY <1>1, <1>5 DEF MachineOK
  <2>3. evq[n] \in Seq(Event)
    BY <1>1 DEF MachineOK, Bounded
  <2> QED  BY <1>2, <2>1, <2>2, <2>3, AppendSound
<1> QED  BY <1>3, <1>4, <1>6, QuietFounded DEF FoundedInv

\* At boot nothing has been said.
LEMMA FoundedInit == Init => FoundedInv
<1> SUFFICES ASSUME Init PROVE FoundedInv
  OBVIOUS
<1>1. \A m, n \in Node : net[<<m, n>>] = <<>>
  BY DEF Init
<1>2. SoundNet(net, asked, installed)
  BY <1>1 DEF SoundNet, SoundQueue
<1>3. ASSUME NEW n \in Node
      PROVE  SoundQueue(n, evq[n], asked, installed) /\ Founded(n)
  <2>1. evq[n] = <<[type |-> "INIT_SUCCESS"]>>
    BY DEF Init
  <2>2. SoundQueue(n, evq[n], asked, installed)
    BY <2>1 DEF SoundQueue, Sound
  <2>3. sm[n] = BootState /\ noinit[n] = NoReboot
    BY DEF Init
  <2> QED  BY <2>2, <2>3 DEF Founded, BootState, NoReboot, HostState
<1> QED  BY <1>2, <1>3 DEF FoundedInv

\* Every step keeps these facts.
LEMMA FoundedStep == IInv /\ FoundedInv /\ [Next]_vars => FoundedInv'
<1> SUFFICES ASSUME IInv, FoundedInv, [Next]_vars PROVE FoundedInv'
  OBVIOUS
<1>1. Growing
  BY NextGrows DEF IInv
<1>2. CASE UNCHANGED vars
  <2>1. SoundNet(net', asked', installed')
    BY <1>2 DEF FoundedInv, vars, logVars
  <2>2. \A n \in Node : SoundQueue(n, evq'[n], asked', installed')
    BY <1>2 DEF FoundedInv, vars, logVars
  <2>3. UNCHANGED <<sm, nodeVars>>
    BY <1>2 DEF vars
  <2> QED  BY <1>1, <2>1, <2>2, <2>3, QuietFounded DEF FoundedInv
<1> QED
  BY <1>1, <1>2, ThreadStepFounded, TimerStepFounded, NetworkStepFounded, InitiateStepFounded
  DEF Next

\* In every state that can be reached, what the nodes know and what is on its
\* way to them goes back to an offer.
LEMMA AlwaysFounded == Spec => []FoundedInv
<1>1. Spec => []IInv
  BY Invariance
<1> QED  BY <1>1, FoundedInit, FoundedStep, PTL DEF Spec
-----------------------------------------------------------------------------
(* The answers.  Nothing tells an event thread that a callback was called  *)
(* already: it is the order of its states that keeps it from calling again. *)

\* The request of o is the i-th event in the queue of its host.
Begins(o, i) ==
  /\ i \in DOMAIN evq[o.host]
  /\ evq[o.host][i].type = "BEGIN_HOST"
  /\ evq[o.host][i].offer = o

Hosting(o) == sm[o.host].state \in HostState /\ host[o.host].offer = o

\* An offer that waits or is hosted has no answer yet, and it waits in one
\* place at most, never while it is hosted.
Once(o) ==
  /\ Len(answers[o]) <= 1
  /\ o \notin asked => answers[o] = <<>>
  /\ Hosting(o) => answers[o] = <<>>
  /\ \A i \in Nat : Begins(o, i) => answers[o] = <<>> /\ ~Hosting(o)
  /\ \A i, j \in Nat : Begins(o, i) /\ Begins(o, j) => i = j

\* The requests in the queue move up, and no answer is given.
LEMMA OnceKept ==
  ASSUME NEW o, Once(o), answers'[o] = answers[o], o \in asked => o \in asked',
         Hosting(o)' => Hosting(o),
         NEW k \in Nat, \A i \in Nat : Begins(o, i)' => Begins(o, i + k)
  PROVE  Once(o)'
<1>1. \A i \in Nat : Begins(o, i)' => answers'[o] = <<>> /\ ~Hosting(o)'
  BY DEF Once
<1>2. ASSUME NEW i \in Nat, NEW j \in Nat, Begins(o, i)', Begins(o, j)'
      PROVE  i = j
  <2>1. i + k = j + k
    BY <1>2 DEF Once
  <2> QED  BY <2>1
<1>3. /\ Len(answers'[o]) <= 1
      /\ o \notin asked' => answers'[o] = <<>>
      /\ Hosting(o)' => answers'[o] = <<>>
  BY DEF Once
<1> QED  BY <1>1, <1>2, <1>3 DEF Once

\* With the roles apart, a client has no callback.
LEMMA ClientUntold ==
  ASSUME RolesApart, TypeOK, NEW n \in Node, Founded(n),
         \E h, img : Offered(asked, h, n, img)
  PROVE  sm[n].cb = None
<1>1. PICK o \in asked : o.client = n
  BY DEF Offered
<1>2. asked \subseteq Offer
  BY DEF TypeOK
<1> QED  BY <1>1, <1>2 DEF Founded, RolesApart

\* A callback is called when the host leaves its update, and for that update;
\* it hears of a success only from the END of a client.
Told(n, success) ==
  /\ Report(host[n].offer, success)
  /\ success => Handles(n, sm[n].state, "END") /\ Received(n).err = "NONE"

Answering(n) ==
  \/ answers' = answers
  \/ /\ sm[n].state \in HostState
     /\ sm'[n].state \notin HostState
     /\ \E success \in BOOLEAN : Told(n, success)

\* The error state calls the callback of the update that is hosted, if any.
LEMMA ErrorAnswers ==
  ASSUME TypeOK, NEW n \in Node, Founded(n), \E err, q : GotoErrorWith(n, err, q),
         sm[n].state \in HostState \/ sm[n].cb = None
  PROVE  Answering(n)
<1>1. sm'[n].state = "ERROR" /\ Report(sm[n].cb, FALSE)
  <2>1. sm'[n].state = "ERROR"
    BY DEF GotoErrorWith, GotoThen, TypeOK
  <2>2. Report(sm[n].cb, FALSE)
    BY DEF GotoErrorWith
  <2> QED  BY <2>1, <2>2
<1>2. CASE sm[n].state \in HostState
  <2>1. sm[n].cb = host[n].offer
    BY <1>2 DEF Founded
  <2>2. Told(n, FALSE)
    BY <1>1, <2>1 DEF Told
  <2>3. sm'[n].state \notin HostState
    BY <1>1 DEF HostState
  <2> QED  BY <1>2, <2>2, <2>3 DEF Answering
<1>3. CASE sm[n].cb = None
  BY <1>1, <1>3 DEF Answering, Report
<1> QED  BY <1>2, <1>3

\* A step of an event thread, or a reset, answers at most that.
LEMMA ThreadAnswers ==
  ASSUME RolesApart, IInv, FoundedInv, NEW n \in Node, RunEventThread(n) \/ Crash(n)
  PROVE  Answering(n)
<1> USE DEF nodeVars, logVars, Handles
<1>1. TypeOK /\ MachineOK /\ Founded(n)
  BY TypeMachine DEF IInv, FoundedInv
<1>2. answers' = answers => Answering(n)
  BY DEF Answering
<1>3. CASE \/ StartIdle(n) \/ AskForConfirmation(n) \/ ConfirmAlone(n) \/ WrongVersion(n)
           \/ RefuseSameVersion(n) \/ RefuseOversized(n) \/ AcceptUpdate(n)
           \/ EmptyChunkAsserts(n) \/ ReceiveChunk(n) \/ Validate(n)
           \/ RestartTransfer(n) \/ KeepWaiting(n) \/ Activate(n) \/ ConfirmUpdate(n)
           \/ GiveUpConfirmation(n)
  BY <1>2, <1>3
  DEF StartIdle, AskForConfirmation, ConfirmAlone, WrongVersion, RefuseSameVersion,
      RefuseOversized, AcceptUpdate, EmptyChunkAsserts, ReceiveChunk, Validate,
      RestartTransfer, KeepWaiting, Activate, ConfirmUpdate, GiveUpConfirmation
<1>4. CASE \/ BeginHost(n) \/ HostAck(n) \/ HostSendChunk(n) \/ HostAgree(n)
           \/ LeaveError(n) \/ IgnoreEvent(n) \/ Crash(n)
  BY <1>2, <1>4 DEF BeginHost, HostAck, HostSendChunk, HostAgree, LeaveError, IgnoreEvent,
                    Crash
<1>5. CASE AskAgain(n)
  <2>1. UNCHANGED logVars
    BY <1>5 DEF AskAgain
  <2> QED  BY <1>2, <2>1
<1>6. CASE RefuseFlash(n)
  <2>1. Offered(asked, Received(n).src, n, Received(n).img)
    BY <1>1, <1>6, HeadSound DEF RefuseFlash, UpdateRequest, FoundedInv, Sound
  <2>2. \E err, q : GotoErrorWith(n, err, q)
    BY <1>6 DEF RefuseFlash, GotoError
  <2> QED  BY <1>1, <2>1, <2>2, ClientUntold, ErrorAnswers
<1>7. CASE ChunkWriteFails(n) \/ LastWriteFails(n) \/ GiveUp(n)
  <2>1. sm[n].state \in {"RECEIVING", "REBOOT_REQ"}
    BY <1>7 DEF ChunkWriteFails, LastWriteFails, GiveUp, TakeChunk, Chunk
  <2>2. \E err, q : GotoErrorWith(n, err, q)
    BY <1>7 DEF ChunkWriteFails, LastWriteFails, GiveUp, GotoError
  <2>3. sm[n].cb = None
    BY <1>1, <2>1, ClientUntold DEF Founded
  <2> QED  BY <1>1, <2>2, <2>3, ErrorAnswers
<1>8. CASE LeaveValidating(n)
  <2>1. sm[n].state = "VALIDATING" /\ (answers' = answers \/ Report(sm[n].cb, FALSE))
    BY <1>8 DEF LeaveValidating
  <2>2. sm[n].cb = None
    BY <1>1, <2>1, ClientUntold DEF Founded
  <2> QED  BY <1>2, <2>1, <2>2 DEF Report
<1>9. CASE HostNack(n) \/ HostAbort(n) \/ HostChunkError(n)
  <2>1. sm[n].state \in HostState /\ \E err, q : GotoErrorWith(n, err, q)
    BY <1>9 DEF HostNack, HostAbort, HostChunkError, HostError, GotoError, HostState
  <2> QED  BY <1>1, <2>1, ErrorAnswers
<1>10. CASE HostAckTimeout(n)
  <2>1. /\ sm[n].state \in HostState
        /\ answers' = answers \/ \E err, q : GotoErrorWith(n, err, q)
    BY <1>10 DEF HostAckTimeout, HostError, GotoError, HostState
  <2> QED  BY <1>1, <1>2, <2>1, ErrorAnswers
<1>11. CASE HostEnd(n)
  <2>1. sm[n].state \in HostState /\ Told(n, Received(n).err = "NONE")
    BY <1>11 DEF HostEnd, HostState, Told
  <2>2. sm'[n].state = "IDLE"
    BY <1>1, <1>11 DEF HostEnd, Goto, TypeOK
  <2>3. (Received(n).err = "NONE") \in BOOLEAN
    OBVIOUS
  <2> QED  BY <2>1, <2>2, <2>3 DEF Answering, HostState
<1> QED
  BY <1>3, <1>4, <1>5, <1>6, <1>7, <1>8, <1>9, <1>10, <1>11
  DEF RunEventThread, ClientStep, HostStep

\* Only the request at the head of the queue starts an update.
LEMMA ThreadHosting ==
  ASSUME IInv, NEW n \in Node, RunEventThread(n) \/ Crash(n), sm'[n].state \in HostState
  PROVE  \/ sm[n].state \in HostState /\ host'[n].offer = host[n].offer
         \/ /\ evq[n] # <<>> /\ Received(n).type = "BEGIN_HOST"
            /\ host'[n].offer = Received(n).offer
<1> USE DEF nodeVars, logVars, Handles
<1>1. TypeOK
  BY DEF IInv
<1>2. CASE \/ WrongVersion(n) \/ EmptyChunkAsserts(n) \/ GiveUpConfirmation(n) \/ Crash(n)
           \/ ConfirmAlone(n) \/ Activate(n)
  <2>1. sm'[n].state = "INIT"
    BY <1>1, <1>2 DEF WrongVersion, EmptyChunkAsserts, GiveUpConfirmation, Crash,
                      ConfirmAlone, Activate, Restart, BootState, TypeOK
  <2> QED  BY <2>1 DEF HostState
<1>3. CASE \/ StartIdle(n) \/ ConfirmUpdate(n) \/ HostEnd(n) \/ AskForConfirmation(n)
           \/ AcceptUpdate(n)
  <2>1. \E s \in {"IDLE", "REBOOT_DONE", "RECEIVING"} : Goto(n, s)
    BY <1>3 DEF StartIdle, ConfirmUpdate, HostEnd, AskForConfirmation, AcceptUpdate
  <2>2. sm'[n].state \in {"IDLE", "REBOOT_DONE", "RECEIVING"}
    BY <1>1, <2>1 DEF Goto, TypeOK
  <2> QED  BY <2>2 DEF HostState
<1>4. CASE LeaveError(n) \/ LeaveValidating(n)
  <2>1. sm'[n].state \in {"IDLE", "REBOOT_REQ", "ERROR"}
    <3>1. \E s \in {"IDLE", "REBOOT_REQ", "ERROR"} :
            \E p : sm' = [sm EXCEPT ![n] = [sm[n] EXCEPT !.state = s, !.pend = p]]
      BY <1>4 DEF LeaveError, LeaveValidating
    <3>a. PICK s \in {"IDLE", "REBOOT_REQ", "ERROR"} :
            \E p : sm' = [sm EXCEPT ![n] = [sm[n] EXCEPT !.state = s, !.pend = p]]
      BY <3>1
    <3>2. PICK p : sm' = [sm EXCEPT ![n] = [sm[n] EXCEPT !.state = s, !.pend = p]]
      BY <3>a
    <3>3. [sm[n] EXCEPT !.state = s, !.pend = p].state = s
      BY <1>1, TypeFields DEF Machine
    <3> QED  BY <1>1, <3>2, <3>3 DEF TypeOK
  <2> QED  BY <2>1 DEF HostState
<1>5. CASE \/ RefuseFlash(n) \/ ChunkWriteFails(n) \/ LastWriteFails(n) \/ GiveUp(n)
           \/ HostNack(n) \/ HostAbort(n) \/ HostChunkError(n)
  <2>1. \E err, q : GotoErrorWith(n, err, q)
    BY <1>5 DEF RefuseFlash, ChunkWriteFails, LastWriteFails, GiveUp, HostNack, HostAbort,
                HostChunkError, HostError, GotoError
  <2>2. sm'[n].state = "ERROR"
    BY <1>1, <2>1 DEF GotoErrorWith, GotoThen, TypeOK
  <2> QED  BY <2>2 DEF HostState
<1>6. CASE Validate(n)
  <2>1. \E p, err, q : GotoThen(n, "VALIDATING", p, err, q)
    BY <1>6 DEF Validate
  <2>2. sm'[n].state = "VALIDATING"
    BY <1>1, <2>1 DEF GotoThen, TypeOK
  <2> QED  BY <2>2 DEF HostState
<1>7. CASE HostAckTimeout(n)
  <2>1. host'[n].offer = host[n].offer /\ sm[n].state \in HostState
    BY <1>1, <1>7, TypeFields DEF HostAckTimeout, TypeOK, HostContext, HostState
  <2> QED  BY <2>1
<1>8. CASE HostAck(n)
  BY <1>8 DEF HostAck, HostState
<1>9. CASE BeginHost(n)
  BY <1>1, <1>9 DEF BeginHost, TypeOK
<1>10. CASE \/ KeepWaiting(n) \/ IgnoreEvent(n) \/ HostAgree(n) \/ HostSendChunk(n)
            \/ RestartTransfer(n) \/ AskAgain(n) \/ ReceiveChunk(n)
            \/ RefuseSameVersion(n) \/ RefuseOversized(n)
  <2>1. sm' = sm
    BY <1>10 DEF KeepWaiting, IgnoreEvent, HostAgree, HostSendChunk, RestartTransfer,
                 AskAgain, ReceiveChunk, RefuseSameVersion, RefuseOversized, Stay
  <2>2. host'[n].offer = host[n].offer
    BY <1>1, <1>10, TypeFields, ZenonT(60)
    DEF KeepWaiting, IgnoreEvent, HostAgree, HostSendChunk, RestartTransfer,
        AskAgain, ReceiveChunk, RefuseSameVersion, RefuseOversized, TypeOK, HostContext
  <2> QED  BY <2>1, <2>2
<1> QED
  BY <1>2, <1>3, <1>4, <1>5, <1>6, <1>7, <1>8, <1>9, <1>10
  DEF RunEventThread, ClientStep, HostStep

\* What Report does to one offer.
LEMMA ReportOne ==
  ASSUME AnswersOK, NEW p \in Offer \cup {None}, NEW success \in BOOLEAN, Report(p, success),
         NEW o \in Offer
  PROVE  /\ p # o => answers'[o] = answers[o]
         /\ p = o => \/ answers'[o] = answers[o]
                     \/ answers'[o] = Append(answers[o], success)
         /\ p = o /\ answers[o] = <<>> => answers'[o] = <<success>>
<1>1. CASE p = None
  <2>1. p # o
    BY <1>1, OfferAssumption
  <2> QED  BY <1>1, <2>1 DEF Report
<1>2. CASE p # None
  <2> DEFINE new == IF Len(answers[p]) < MaxAnswers THEN Append(answers[p], success)
                    ELSE answers[p]
  <2>1. answers' = [answers EXCEPT ![p] = new] /\ p \in Offer
    BY <1>2 DEF Report
  <2>2. answers[p] = <<>> => new = <<success>>
    BY BoundAssumption
  <2>3. new = answers[p] \/ new = Append(answers[p], success)
    OBVIOUS
  <2> HIDE DEF new
  <2> QED  BY <2>1, <2>2, <2>3 DEF AnswersOK
<1> QED  BY <1>1, <1>2

\* A step of an event thread, or a reset.
LEMMA ThreadOnce ==
  ASSUME RolesApart, IInv, IInv', FoundedInv, Growing, NEW n \in Node,
         RunEventThread(n) \/ Crash(n), NEW o \in Offer, Once(o)
  PROVE  Once(o)'
<1>1. TypeOK /\ MachineOK /\ AnswersOK /\ Founded(n)
  BY TypeMachine DEF IInv, FoundedInv
<1>2. o.host \in Node
  BY OfferAssumption DEF Offers
<1>3. o \in asked => o \in asked'
  BY DEF Growing
<1>4. Answering(n)
  BY ThreadAnswers
<1>5. CASE o.host # n
  <2>1. Same(o.host)
    BY <1>1, <1>2, <1>5, OtherNode
  <2>2. answers'[o] = answers[o]
    <3>1. CASE answers' = answers
      BY <3>1
    <3>2. CASE sm[n].state \in HostState /\ \E success \in BOOLEAN : Told(n, success)
      <4>1. host[n].offer # o /\ host[n].offer \in Offer \cup {None}
        BY <1>1, <1>5, <3>2, TypeFields DEF Founded
      <4> QED  BY <1>1, <3>2, <4>1, ReportOne DEF Told
    <3> QED  BY <1>4, <3>1, <3>2 DEF Answering
  <2>3. Hosting(o)' => Hosting(o)
    BY <2>1 DEF Same, Hosting
  <2>4. \A i \in Nat : Begins(o, i)' => Begins(o, i + 0)
    BY <2>1 DEF Same, Begins
  <2> QED  BY <1>3, <2>2, <2>3, <2>4, OnceKept
<1>6. CASE o.host = n
  <2>1. \A i \in Nat : Begins(o, i)' => Begins(o, i + 1)
    BY <1>6, ThreadQueue DEF Drained, Begins
  <2>2. Hosting(o)' => Hosting(o) \/ Begins(o, 1)
    <3> SUFFICES ASSUME Hosting(o)' PROVE Hosting(o) \/ Begins(o, 1)
      OBVIOUS
    <3>1. sm'[n].state \in HostState /\ host'[n].offer = o
      BY <1>6 DEF Hosting
    <3>2. CASE sm[n].state \in HostState /\ host'[n].offer = host[n].offer
      BY <1>6, <3>1, <3>2 DEF Hosting
    <3>3. CASE /\ evq[n] # <<>> /\ Received(n).type = "BEGIN_HOST"
               /\ host'[n].offer = Received(n).offer
      <4>1. 1 \in DOMAIN evq[n] /\ Received(n) = evq[n][1]
        BY <1>1, <3>3 DEF MachineOK, Bounded, Received
      <4> QED  BY <1>6, <3>1, <3>3, <4>1 DEF Begins
    <3> QED  BY <3>1, <3>2, <3>3, ThreadHosting
  <2>3. CASE answers' = answers
    <3>1. CASE Begins(o, 1)
      <4>1. \A i \in Nat : ~Begins(o, i)'
        <5> SUFFICES ASSUME NEW i \in Nat, Begins(o, i)' PROVE FALSE
          OBVIOUS
        <5>1. i + 1 = 1
          BY <2>1, <3>1 DEF Once
        <5>2. i \in DOMAIN evq'[n]
          BY <1>6 DEF Begins
        <5>3. evq'[n] \in Seq(Event)
          BY DEF IInv, TypeOK, Bounded
        <5> QED  BY <5>1, <5>2, <5>3
      <4>2. answers'[o] = <<>>
        BY <2>3, <3>1 DEF Once
      <4> QED  BY <4>1, <4>2 DEF Once
    <3>2. CASE ~Begins(o, 1)
      <4>1. Hosting(o)' => Hosting(o)
        BY <2>2, <3>2
      <4> QED  BY <1>3, <2>1, <2>3, <4>1, OnceKept
    <3> QED  BY <3>1, <3>2
  <2>4. CASE /\ sm[n].state \in HostState
             /\ sm'[n].state \notin HostState
             /\ \E success \in BOOLEAN : Told(n, success)
    <3>1. ~Hosting(o)'
      BY <1>6, <2>4 DEF Hosting
    <3>2. PICK success \in BOOLEAN : Report(host[n].offer, success)
      BY <2>4 DEF Told
    <3>3. host[n].offer \in Offer \cup {None}
      BY <1>1, TypeFields
    <3>4. CASE host[n].offer = o
      <4>1. Hosting(o) /\ answers[o] = <<>> /\ o \in asked
        BY <1>1, <1>6, <2>4, <3>4 DEF Hosting, Once, Founded
      <4>2. answers'[o] = <<success>>
        BY <1>1, <3>2, <3>3, <3>4, <4>1, ReportOne
      <4>3. \A i \in Nat : ~Begins(o, i)'
        BY <2>1, <4>1 DEF Once
      <4> QED  BY <1>3, <3>1, <4>1, <4>2, <4>3 DEF Once
    <3>5. CASE host[n].offer # o
      <4>1. answers'[o] = answers[o]
        BY <1>1, <3>2, <3>3, <3>5, ReportOne
      <4> QED  BY <1>3, <2>1, <3>1, <4>1, OnceKept
    <3> QED  BY <3>4, <3>5
  <2> QED  BY <1>4, <2>3, <2>4 DEF Answering
<1> QED  BY <1>5, <1>6

\* The other steps.
LEMMA TimerOnce ==
  ASSUME IInv, NEW n \in Node, NEW tmr \in Timer, TimerExpires(n, tmr),
         NEW o \in Offer, Once(o)
  PROVE  Once(o)'
<1>1. TypeOK /\ MachineOK
  BY TypeMachine DEF IInv
<1>2. answers' = answers /\ asked' = asked
  BY DEF TimerExpires, logVars
<1>3. o.host \in Node
  BY OfferAssumption DEF Offers
<1>4. CASE o.host # n
  <2>1. Same(o.host)
    BY <1>1, <1>3, <1>4, OtherNode
  <2>2. Hosting(o)' => Hosting(o)
    BY <2>1 DEF Same, Hosting
  <2>3. \A i \in Nat : Begins(o, i)' => Begins(o, i + 0)
    BY <2>1 DEF Same, Begins
  <2> QED  BY <1>2, <2>2, <2>3, OnceKept
<1>5. CASE o.host = n /\ Len(evq[n]) < QueueLength
  <2> DEFINE e == Expiry(n, tmr)
  <2>1. e.type # "BEGIN_HOST"
    BY DEF Expiry, Result, Timer
  <2>2. evq' = [evq EXCEPT ![n] = Append(evq[n], e)] /\ sm' = sm /\ host' = host
    BY <1>5 DEF TimerExpires
  <2> HIDE DEF e
  <2>3. evq[n] \in Seq(Event) /\ evq'[n] = Append(evq[n], e)
    BY <1>1, <2>2 DEF MachineOK, Bounded
  <2>4. \A i \in DOMAIN Append(evq[n], e) :
          (i \in DOMAIN evq[n] /\ Append(evq[n], e)[i] = evq[n][i]) \/ Append(evq[n], e)[i] = e
    BY <2>3
  <2>5. \A i \in Nat : Begins(o, i)' => Begins(o, i + 0)
    BY <1>5, <2>1, <2>3, <2>4 DEF Begins
  <2>6. Hosting(o)' => Hosting(o)
    BY <2>2 DEF Hosting
  <2> QED  BY <1>2, <2>5, <2>6, OnceKept
<1>6. CASE o.host = n /\ ~(Len(evq[n]) < QueueLength)
  <2>1. Restart(n)
    BY <1>6 DEF TimerExpires
  <2>2. sm'[n].state = "INIT" /\ evq'[n] = <<[type |-> "INIT_SUCCESS"]>>
    BY <1>1, <2>1 DEF Restart, BootState, TypeOK
  <2>3. \A i \in Nat : Begins(o, i)' => Begins(o, i + 0)
    BY <1>6, <2>2 DEF Begins
  <2>4. Hosting(o)' => Hosting(o)
    BY <1>6, <2>2 DEF Hosting, HostState
  <2> QED  BY <1>2, <2>3, <2>4, OnceKept
<1> QED  BY <1>4, <1>5, <1>6

\* A frame is no request of an application.
LEMMA NetworkOnce ==
  ASSUME IInv, NEW m \in Node, NEW k \in Node, ProcessMessage(m, k) \/ LoseFrame(m, k),
         NEW o \in Offer, Once(o)
  PROVE  Once(o)'
<1> DEFINE e == Head(net[<<m, k>>])
<1>1. TypeOK /\ MachineOK
  BY TypeMachine DEF IInv
<1>2. o.host \in Node
  BY OfferAssumption DEF Offers
<1>3. e \in Frame /\ e.type # "BEGIN_HOST"
  <2>1. net[<<m, k>>] \in Bounded(Frame, NetLength) /\ net[<<m, k>>] # <<>>
    BY <1>1 DEF ProcessMessage, LoseFrame, TypeOK
  <2>2. e \in Frame
    BY <2>1, TailBounded, BoundAssumption
  <2> QED  BY <2>2 DEF Frame
<1>4. evq'[o.host] = evq[o.host] \/ evq'[o.host] = Append(evq[o.host], e)
  BY <1>1, <1>2 DEF ProcessMessage, LoseFrame, Push, MachineOK
<1>5. evq[o.host] \in Seq(Event) /\ e \in Event
  BY <1>1, <1>2, <1>3 DEF MachineOK, Bounded, Event
<1>6. sm' = sm /\ host' = host /\ answers' = answers /\ asked' = asked
  BY DEF ProcessMessage, LoseFrame, nodeVars, logVars
<1> HIDE DEF e
<1>7. \A i \in DOMAIN Append(evq[o.host], e) :
        \/ i \in DOMAIN evq[o.host] /\ Append(evq[o.host], e)[i] = evq[o.host][i]
        \/ Append(evq[o.host], e)[i] = e
  BY <1>5, AppendElements
<1>8. \A i \in Nat : Begins(o, i)' => Begins(o, i + 0)
  BY <1>3, <1>4, <1>7, SMTT(30) DEF Begins
<1>9. Hosting(o)' => Hosting(o)
  BY <1>6 DEF Hosting
<1> QED  BY <1>6, <1>8, <1>9, OnceKept

\* A new offer is queued, or turned down and answered.
LEMMA InitiateOnce ==
  ASSUME IInv, FoundedInv, NEW p \in Offer, Initiate(p), NEW o \in Offer, Once(o)
  PROVE  Once(o)'
<1> DEFINE e == [type |-> "BEGIN_HOST", offer |-> p]
<1>1. TypeOK /\ MachineOK /\ AnswersOK
  BY TypeMachine DEF IInv
<1>2. o.host \in Node /\ p.host \in Node
  BY OfferAssumption DEF Offers
<1>3. sm' = sm /\ host' = host /\ asked' = asked \cup {p} /\ p \notin asked
  BY DEF Initiate, nodeVars
<1>4. Hosting(o)' => Hosting(o)
  BY <1>3 DEF Hosting
<1>5. evq[o.host] \in Seq(Event) /\ e \in Event
  BY <1>1, <1>2 DEF MachineOK, Bounded, Event, Local
<1>6. CASE /\ evq' = [evq EXCEPT ![p.host] = Append(evq[p.host], e)]
           /\ answers' = answers
  <2> HIDE DEF e
  <2>1. evq'[o.host] = evq[o.host] \/ evq'[o.host] = Append(evq[o.host], e)
    BY <1>1, <1>2, <1>6 DEF MachineOK
  <2>2. \A i \in DOMAIN Append(evq[o.host], e) :
          \/ i \in DOMAIN evq[o.host] /\ Append(evq[o.host], e)[i] = evq[o.host][i]
          \/ i = Len(evq[o.host]) + 1 /\ Append(evq[o.host], e)[i] = e
    BY <1>5
  <2>3. CASE p # o
    <3>1. \A i \in Nat : Begins(o, i)' => Begins(o, i + 0)
      BY <2>1, <2>2, <2>3, SMTT(30) DEF Begins, e
    <3> QED  BY <1>3, <1>4, <1>6, <3>1, OnceKept
  <2>4. CASE p = o
    <3>1. \A i \in Nat : ~Begins(o, i)
      BY <1>2, <1>3, <2>4 DEF FoundedInv, SoundQueue, Sound, Begins
    <3>2. ~Hosting(o)
      BY <1>2, <1>3, <2>4 DEF FoundedInv, Founded, Hosting
    <3>3. answers'[o] = <<>>
      BY <1>3, <1>6, <2>4 DEF Once
    <3>4. \A i \in Nat : Begins(o, i)' => i = Len(evq[o.host]) + 1
      BY <2>1, <2>2, <3>1 DEF Begins
    <3> QED  BY <1>4, <3>2, <3>3, <3>4 DEF Once
  <2> QED  BY <2>3, <2>4
<1>7. CASE evq' = evq /\ Report(p, FALSE)
  <2>1. \A i \in Nat : Begins(o, i)' => Begins(o, i + 0)
    BY <1>7 DEF Begins
  <2>2. CASE p # o
    <3>1. answers'[o] = answers[o]
      BY <1>1, <1>7, <2>2, ReportOne
    <3> QED  BY <1>3, <1>4, <2>1, <3>1, OnceKept
  <2>3. CASE p = o
    <3>1. \A i \in Nat : ~Begins(o, i)
      BY <1>2, <1>3, <2>3 DEF FoundedInv, SoundQueue, Sound, Begins
    <3>2. ~Hosting(o)
      BY <1>2, <1>3, <2>3 DEF FoundedInv, Founded, Hosting
    <3>3. answers'[o] = <<FALSE>>
      BY <1>1, <1>3, <1>7, <2>3, ReportOne DEF Once
    <3>4. o \in asked'
      BY <1>3, <2>3
    <3>5. \A i \in Nat : ~Begins(o, i)'
      BY <2>1, <3>1
    <3>6. Len(answers'[o]) <= 1
      BY <3>3
    <3> QED  BY <1>4, <3>2, <3>4, <3>5, <3>6 DEF Once
  <2> QED  BY <2>2, <2>3
<1> QED  BY <1>6, <1>7 DEF Initiate

OnceInv == \A o \in Offer : Once(o)

\* Every step keeps each offer in one place.
LEMMA OnceStep ==
  RolesApart /\ IInv /\ IInv' /\ FoundedInv /\ OnceInv /\ [Next]_vars => OnceInv'
<1> SUFFICES ASSUME RolesApart, IInv, IInv', FoundedInv, OnceInv, [Next]_vars,
                    NEW o \in Offer
             PROVE  Once(o)'
  BY DEF OnceInv
<1>1. Once(o) /\ Growing
  BY NextGrows DEF OnceInv, IInv
<1>2. CASE UNCHANGED vars
  BY <1>1, <1>2 DEF Once, Begins, Hosting, vars, nodeVars, logVars
<1> QED
  BY <1>1, <1>2, ThreadOnce, TimerOnce, NetworkOnce, InitiateOnce DEF Next

\* At boot no offer has been made.
LEMMA OnceInit == Init => OnceInv
<1> SUFFICES ASSUME Init, NEW o \in Offer PROVE Once(o)
  BY DEF OnceInv
<1>1. o.host \in Node
  BY OfferAssumption DEF Offers
<1>2. sm[o.host].state = "INIT" /\ evq[o.host] = <<[type |-> "INIT_SUCCESS"]>>
  BY <1>1 DEF Init, BootState
<1>3. answers[o] = <<>>
  BY DEF Init
<1> QED  BY <1>2, <1>3 DEF Once, Begins, Hosting, HostState

\* The application gets at most one answer to each update it asks for,
\* whatever is lost, repeated, timed out or reset, provided that no node hosts
\* one update and is the client of another: the error state of a client calls
\* whichever callback its node has.
THEOREM AnswersAreSingle ==
  ASSUME RolesApart
  PROVE  Spec => []AnsweredOnce
<1>1. OnceInv => AnsweredOnce
  BY DEF OnceInv, Once, AnsweredOnce
<1>2. IInv /\ IInv' /\ FoundedInv /\ OnceInv /\ [Next]_vars => OnceInv'
  BY OnceStep
<1> QED  BY <1>1, <1>2, OnceInit, Invariance, AlwaysFounded, PTL DEF Spec
-----------------------------------------------------------------------------
(* The update service: an END that reports success has been sent by the    *)
(* client of the update that the host is busy with, after it confirmed.    *)

\* What the host tells its application is true.
LEMMA ToldTruth ==
  ASSUME Distinct, IInv, FoundedInv, NEW n \in Node, sm[n].state \in HostState,
         NEW success \in BOOLEAN, Told(n, success)
  PROVE  /\ host[n].offer \in asked /\ host[n].offer \in Offer
         /\ success => host[n].offer.img \in installed[host[n].offer.client]
<1>1. host[n].offer \in asked /\ host[n].offer.host = n
  BY DEF FoundedInv, Founded
<1>2. host[n].offer \in Offer
  BY <1>1 DEF IInv, TypeOK
<1>3. ASSUME success PROVE Sound(n, Received(n), asked, installed)
  BY <1>3, HeadSound, TypeMachine DEF Told, Handles, FoundedInv, IInv
<1>4. success => host[n].offer.img \in installed[host[n].offer.client]
  BY <1>1, <1>2, <1>3 DEF Told, Handles, Sound
<1> QED  BY <1>1, <1>2, <1>4

\* No step answers TRUE without the image installed.
LEMMA SuccessStep ==
  ASSUME Distinct, IInv, FoundedInv, [Next]_vars, SuccessMeansInstalled
  PROVE  SuccessMeansInstalled'
<1>1. AnswersOK /\ Growing /\ RolesApart
  BY TypeMachine, NextGrows DEF IInv, Distinct
<1>2. \A o \in Offer : o.client \in Node
  BY OfferAssumption DEF Offers
<1>3. CASE answers' = answers
  BY <1>1, <1>2, <1>3 DEF SuccessMeansInstalled, Growing
<1>4. ASSUME NEW p \in Offer, NEW success \in BOOLEAN, Report(p, success),
             success => p.img \in installed[p.client]
      PROVE  SuccessMeansInstalled'
  <2> SUFFICES ASSUME NEW o \in Offer, NEW i \in DOMAIN answers'[o], answers'[o][i]
               PROVE  o.img \in installed'[o.client]
    BY DEF SuccessMeansInstalled
  <2>1. CASE answers'[o] = answers[o]
    BY <1>1, <1>2, <2>1 DEF SuccessMeansInstalled, Growing
  <2>2. CASE p = o /\ answers'[o] = Append(answers[o], success)
    <3>1. answers[o] \in Seq(BOOLEAN)
      BY <1>1 DEF AnswersOK, Bounded
    <3>2. \/ i \in DOMAIN answers[o] /\ answers'[o][i] = answers[o][i]
          \/ answers'[o][i] = success
      <4>1. i \in DOMAIN Append(answers[o], success)
        BY <2>2
      <4>2. success \in BOOLEAN
        OBVIOUS
      <4>3. \/ i \in DOMAIN answers[o] /\ Append(answers[o], success)[i] = answers[o][i]
            \/ Append(answers[o], success)[i] = success
        BY <3>1, <4>1, <4>2, AppendElements, ZenonT(30)
      <4> QED  BY <2>2, <4>3, ZenonT(30)
    <3>3. CASE i \in DOMAIN answers[o] /\ answers'[o][i] = answers[o][i]
      BY <1>1, <1>2, <3>3 DEF SuccessMeansInstalled, Growing
    <3>4. CASE answers'[o][i] = success
      BY <1>1, <1>2, <1>4, <2>2, <3>4 DEF Growing
    <3> QED  BY <3>2, <3>3, <3>4
  <2> QED  BY <1>1, <1>4, <2>1, <2>2, ReportOne
<1>5. ASSUME NEW n \in Node, RunEventThread(n) \/ Crash(n)
      PROVE  SuccessMeansInstalled'
  <2>1. CASE sm[n].state \in HostState /\ \E success \in BOOLEAN : Told(n, success)
    <3>1. PICK success \in BOOLEAN : Told(n, success)
      BY <2>1
    <3> QED  BY <1>4, <2>1, <3>1, ToldTruth DEF Told
  <2> QED  BY <1>1, <1>3, <1>5, <2>1, ThreadAnswers DEF Answering
<1>6. ASSUME NEW o \in Offer, Initiate(o)
      PROVE  SuccessMeansInstalled'
  BY <1>3, <1>4, <1>6 DEF Initiate
<1>7. ASSUME NEW n \in Node, NEW tmr \in Timer, TimerExpires(n, tmr)
      PROVE  SuccessMeansInstalled'
  BY <1>3, <1>7 DEF TimerExpires, logVars
<1>8. ASSUME NEW m \in Node, NEW n \in Node, ProcessMessage(m, n) \/ LoseFrame(m, n)
      PROVE  SuccessMeansInstalled'
  BY <1>3, <1>8 DEF ProcessMessage, LoseFrame, logVars
<1>9. CASE UNCHANGED vars
  BY <1>3, <1>9 DEF vars, logVars
<1> QED  BY <1>5, <1>6, <1>7, <1>8, <1>9 DEF Next

\* An application that hears of a success can rely on it: its client has
\* confirmed the image, if every host offers one image to one client and no two
\* images report the same SHA.
THEOREM SuccessIsTrue ==
  ASSUME Distinct
  PROVE  Spec => []SuccessMeansInstalled
<1>1. Init => SuccessMeansInstalled
  BY DEF Init, SuccessMeansInstalled
<1>2. IInv /\ FoundedInv /\ SuccessMeansInstalled /\ [Next]_vars => SuccessMeansInstalled'
  BY SuccessStep
<1> QED  BY <1>1, <1>2, Invariance, AlwaysFounded, PTL DEF Spec
-----------------------------------------------------------------------------
(* Refinement of the update service.                                       *)

\* The boot loader of n keeps its image or takes the previous one back.
Reverting(n) ==
  /\ boot' = [boot EXCEPT ![n] = Revert(boot[n])]
  /\ UNCHANGED <<asked, answers, installed>>

\* That is the end of a trial, or nothing.
LEMMA RevertPromised ==
  ASSUME TypeOK, NEW n \in Node, Reverting(n)
  PROVE  [Promise!Next]_(Promise!vars)
<1>1. CASE boot[n].confirmed
  <2>1. boot' = boot
    BY <1>1 DEF Reverting, Revert, TypeOK
  <2> QED  BY <2>1 DEF Reverting, Promise!vars
<1>2. CASE ~boot[n].confirmed
  <2>1. boot' = [boot EXCEPT ![n] = [running |-> boot[n].prev, prev |-> boot[n].prev,
                                     confirmed |-> TRUE]]
    BY <1>2 DEF Reverting, Revert
  <2>2. Promise!FallBack(n)
    BY <1>2, <2>1 DEF Reverting, Promise!FallBack
  <2> QED  BY <2>2 DEF Promise!Next
<1> QED  BY <1>1, <1>2

\* A slot holds one image at most.
LEMMA OneImageHeld ==
  ASSUME NEW cells, NEW img1, NEW img2, Holds(cells, img1), Holds(cells, img2)
  PROVE  img1 = img2
<1>1. 1 \in 1..NumChunks
  BY BoundAssumption
<1>2. cells[1] = {[img |-> img1, seq |-> 1]} /\ cells[1] = {[img |-> img2, seq |-> 1]}
  BY <1>1 DEF Holds, Chunks
<1>3. [img |-> img1, seq |-> 1] = [img |-> img2, seq |-> 1]
  BY <1>2
<1> QED  BY <1>3

\* The image that a client activates was offered to it.
LEMMA ActivatePromised ==
  ASSUME IInv, FoundedInv, NEW n \in Node, Activate(n)
  PROVE  [Promise!Next]_(Promise!vars)
<1> DEFINE img == client[n].img
<1>1. TypeOK /\ NodeInv(n) /\ Founded(n) /\ sm[n].state = "REBOOT_REQ"
  BY DEF IInv, FoundedInv, Activate, Handles
<1>2. boot[n].confirmed /\ Holds(slot[n], img)
  BY <1>1 DEF NodeInv, Recorded, Filled
<1>3. PICK o \in asked : o.client = n /\ o.img = img
  BY <1>1 DEF Founded, Offered
<1>4. o \in Offer /\ img \in Image
  BY <1>1, <1>3, OfferAssumption DEF TypeOK, Offers
<1> HIDE DEF img
<1>5. (CHOOSE i \in Image : Holds(slot[n], i)) = img
  BY <1>2, <1>4, OneImageHeld
<1>6. TrialOf(boot[n], slot[n]) = [running |-> o.img, prev |-> boot[n].running,
                                   confirmed |-> FALSE]
  BY <1>2, <1>3, <1>4, <1>5 DEF TrialOf
<1>7. /\ boot' = [boot EXCEPT ![n] = TrialOf(boot[n], slot[n])]
      /\ UNCHANGED <<asked, answers, installed>>
  BY DEF Activate, logVars
<1>8. Promise!Try(n, o)
  BY <1>2, <1>3, <1>6, <1>7 DEF Promise!Try
<1> QED  BY <1>4, <1>8 DEF Promise!Next

\* The image that a node confirms is there to stay.
LEMMA ConfirmPromised ==
  ASSUME NEW n \in Node, ConfirmAlone(n) \/ ConfirmUpdate(n)
  PROVE  [Promise!Next]_(Promise!vars)
<1>1. Promise!Keep(n)
  BY DEF ConfirmAlone, ConfirmUpdate, Confirm, Promise!Keep
<1> QED  BY <1>1 DEF Promise!Next

\* Nothing happens but that an application is told something.
LEMMA AnswerPromised ==
  ASSUME Distinct, IInv, FoundedInv, NEW n \in Node, Answering(n),
         UNCHANGED <<asked, boot, installed>>
  PROVE  [Promise!Next]_(Promise!vars)
<1>1. CASE answers' = answers
  BY <1>1 DEF Promise!vars
<1>2. CASE sm[n].state \in HostState /\ \E success \in BOOLEAN : Told(n, success)
  <2>1. PICK success \in BOOLEAN : Told(n, success)
    BY <1>2
  <2> DEFINE o == host[n].offer
  <2>2. o \in asked /\ o \in Offer /\ (success => o.img \in installed[o.client])
    BY <1>2, <2>1, ToldTruth
  <2>3. o # None
    BY <2>2, OfferAssumption
  <2>4. Promise!Told(o, success)
    BY <2>1, <2>3 DEF Told, Report, Promise!Told
  <2>5. Promise!Answer(o, success)
    BY <2>2, <2>4 DEF Promise!Answer
  <2> QED  BY <2>2, <2>5 DEF Promise!Next
<1> QED  BY <1>1, <1>2 DEF Answering

\* A step of an event thread, or a reset.
LEMMA ThreadPromised ==
  ASSUME Distinct, IInv, FoundedInv, NEW n \in Node, RunEventThread(n) \/ Crash(n)
  PROVE  [Promise!Next]_(Promise!vars)
<1> USE DEF nodeVars, logVars
<1>1. TypeOK /\ Answering(n)
  BY ThreadAnswers DEF IInv, Distinct
<1>2. CASE \/ WrongVersion(n) \/ EmptyChunkAsserts(n) \/ GiveUpConfirmation(n) \/ Crash(n)
  <2>1. Reverting(n)
    BY <1>2 DEF WrongVersion, EmptyChunkAsserts, GiveUpConfirmation, Crash, Reverting
  <2> QED  BY <1>1, <2>1, RevertPromised
<1>3. CASE ConfirmAlone(n) \/ ConfirmUpdate(n) \/ Activate(n)
  BY <1>3, ConfirmPromised, ActivatePromised
<1>4. CASE \/ StartIdle(n) \/ AskForConfirmation(n) \/ RefuseSameVersion(n)
           \/ RefuseOversized(n) \/ RefuseFlash(n) \/ AcceptUpdate(n) \/ ReceiveChunk(n)
           \/ ChunkWriteFails(n) \/ LastWriteFails(n) \/ Validate(n)
           \/ RestartTransfer(n) \/ KeepWaiting(n) \/ GiveUp(n) \/ LeaveValidating(n)
  <2>1. UNCHANGED <<asked, boot, installed>>
    BY <1>4 DEF StartIdle, AskForConfirmation, RefuseSameVersion, RefuseOversized,
                RefuseFlash, AcceptUpdate, ReceiveChunk, ChunkWriteFails, LastWriteFails,
                Validate, RestartTransfer, KeepWaiting, GiveUp, LeaveValidating
  <2> QED  BY <1>1, <2>1, AnswerPromised
<1>5. CASE \/ BeginHost(n) \/ HostAck(n) \/ HostNack(n) \/ HostAckTimeout(n)
           \/ HostAbort(n) \/ HostSendChunk(n) \/ HostChunkError(n) \/ HostAgree(n)
           \/ HostEnd(n) \/ LeaveError(n) \/ IgnoreEvent(n)
  <2>1. UNCHANGED <<asked, boot, installed>>
    BY <1>5 DEF BeginHost, HostAck, HostNack, HostAckTimeout, HostAbort, HostSendChunk,
                HostChunkError, HostAgree, HostEnd, LeaveError, IgnoreEvent
  <2> QED  BY <1>1, <2>1, AnswerPromised
<1>6. CASE AskAgain(n)
  <2>1. UNCHANGED <<asked, boot, installed>>
    BY <1>6 DEF AskAgain
  <2> QED  BY <1>1, <2>1, AnswerPromised
<1> QED
  BY <1>2, <1>3, <1>4, <1>5, <1>6 DEF RunEventThread, ClientStep, HostStep

\* The steps of the timers, the network and the applications.
LEMMA OtherPromised ==
  ASSUME TypeOK,
         \/ \E n \in Node, tmr \in Timer : TimerExpires(n, tmr)
         \/ \E m, n \in Node : ProcessMessage(m, n) \/ LoseFrame(m, n)
         \/ \E o \in Offer : Initiate(o)
         \/ UNCHANGED vars
  PROVE  [Promise!Next]_(Promise!vars)
<1> USE DEF nodeVars, logVars
<1>1. UNCHANGED <<asked, answers, boot, installed>> => [Promise!Next]_(Promise!vars)
  BY DEF Promise!vars
<1>2. ASSUME NEW n \in Node, NEW tmr \in Timer, TimerExpires(n, tmr)
      PROVE  [Promise!Next]_(Promise!vars)
  <2>1. UNCHANGED <<asked, answers, boot, installed>> \/ Reverting(n)
    BY <1>2 DEF TimerExpires, Reverting
  <2> QED  BY <1>1, <2>1, RevertPromised
<1>3. ASSUME NEW m \in Node, NEW n \in Node, ProcessMessage(m, n) \/ LoseFrame(m, n)
      PROVE  [Promise!Next]_(Promise!vars)
  BY <1>1, <1>3 DEF ProcessMessage, LoseFrame
<1>4. ASSUME NEW o \in Offer, Initiate(o)
      PROVE  [Promise!Next]_(Promise!vars)
  <2>1. o # None
    BY OfferAssumption
  <2>2. UNCHANGED answers \/ Promise!Told(o, FALSE)
    BY <1>4, <2>1 DEF Initiate, Report, Promise!Told
  <2>3. Promise!Ask(o)
    BY <1>4, <2>2 DEF Initiate, Promise!Ask
  <2> QED  BY <2>3 DEF Promise!Next
<1>5. CASE UNCHANGED vars
  BY <1>1, <1>5 DEF vars
<1> QED  BY <1>2, <1>3, <1>4, <1>5

\* The protocol implements the update service: a node tries only what was
\* offered to it, goes back unless the image is confirmed, and an application
\* hears of a success only after that, whatever frames are lost, timers expire,
\* writes fail or nodes are reset.
THEOREM UpdateImplemented ==
  ASSUME Distinct
  PROVE  Spec => PromiseKept
<1>1. Init => Promise!Init
  BY DEF Init, Promise!Init
<1>2. IInv /\ FoundedInv /\ [Next]_vars => [Promise!Next]_(Promise!vars)
  BY ThreadPromised, OtherPromised DEF Next, IInv
<1> QED
  BY <1>1, <1>2, Invariance, AlwaysFounded, PTL DEF Spec, PromiseKept, Promise!Spec
=============================================================================
