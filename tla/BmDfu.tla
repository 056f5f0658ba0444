-------------------------------- MODULE BmDfu --------------------------------
(***************************************************************************)
(* Firmware update over Bristlemouth (src/src/lib/bcmp/dfu): every node    *)
(* runs one event thread over one state machine and can be the host or the *)
(* client of an update.  The module has the event queue of each node, the  *)
(* frames in flight between nodes, the one-shot timers, the secondary      *)
(* image slot, the no-init RAM that outlives a reset and the boot loader's *)
(* test swap.                                                              *)
(*                                                                         *)
(* One action is one run of libSmRun (dequeue, run, transition, exit and   *)
(* entry functions), one frame handled by the BCMP thread, one timer       *)
(* callback, one call of bm_dfu_initiate_update, or one reset.             *)
(***************************************************************************)
EXTENDS Naturals, Sequences, FiniteSets

CONSTANTS
  Node,             \* node ids
  Image,            \* firmware images
  Sha,              \* the git SHA an image reports, [Image -> value]
  Factory,          \* the image a node is shipped with, [Node -> Image]
  Offer,            \* the updates applications may ask for
  Oversized,        \* the images that do not fit the secondary slot
  ConfirmSettings,  \* the values of "dfu_confirm" nodes may start with
  NumChunks,        \* chunks of an image
  MaxChunkRetries,  \* BM_DFU_MAX_CHUNK_RETRIES
  MaxAckRetries,    \* BM_DFU_MAX_ACK_RETRIES
  QueueLength,      \* slots of dfu_event_queue
  NetLength,        \* bound: frames in flight from one node to another
  MaxCrashes,       \* bound: resets from outside the update code
  MaxAnswers,       \* bound: finish callbacks counted for one offer
  Faults,           \* the calls of the environment that may fail
  None              \* no node, no image, no offer, no state

Offers == [host: Node, client: Node, img: Image, force: BOOLEAN]

ASSUME ImageAssumption ==
  /\ Factory \in [Node -> Image]
  /\ Oversized \subseteq Image
  /\ None \notin Node \cup Image

ASSUME OfferAssumption ==
  /\ Offer \subseteq Offers
  /\ None \notin Offer
  /\ \A o \in Offer : o.host # o.client

ASSUME BoundAssumption ==
  /\ {NumChunks, MaxChunkRetries, MaxAckRetries} \subseteq Nat \ {0}
  /\ {QueueLength, NetLength, MaxAnswers} \subseteq Nat \ {0}
  /\ MaxCrashes \in Nat

ASSUME EnvironmentAssumption ==
  /\ ConfirmSettings \subseteq BOOLEAN
  /\ Faults \subseteq {"loss", "erase", "write", "read", "tx"}

VARIABLES
  sm,         \* dfu_ctx: state, pending state, error, finish callback
  evq,        \* dfu_event_queue of each node
  client,     \* client_ctx
  host,       \* host_ctx
  armed,      \* the running one-shot timers
  noinit,     \* client_update_reboot_info
  slot,       \* the secondary image slot
  boot,       \* the image a node runs and what the boot loader will do next
  confirmOn,  \* the configuration value "dfu_confirm"
  net,        \* frames in flight
  asked,      \* history: the offers handed to bm_dfu_initiate_update
  answers,    \* history: what the finish callback of each offer was told
  installed,  \* history: the images a node confirmed
  crashes     \* history: resets from outside

nodeVars == <<client, host, armed, noinit, slot, boot, confirmOn>>
logVars  == <<asked, answers, installed, crashes>>
vars     == <<sm, evq, nodeVars, net, logVars>>
-----------------------------------------------------------------------------
(* Values.                                                                 *)

HostState   == {"HOST_REQ_UPDATE", "HOST_UPDATE"}
ClientState == {"RECEIVING", "VALIDATING", "REBOOT_REQ", "REBOOT_DONE"}
State       == {"INIT", "IDLE", "ERROR"} \cup ClientState \cup HostState

Err == {"NONE", "TOO_LARGE", "SAME_VER", "MISMATCH_LEN", "BAD_CRC",
        "IMG_CHUNK_ACCESS", "TIMEOUT", "BM_FRAME", "ABORTED", "WRONG_VER",
        "CONFIRMATION_ABORT", "FLASH_ACCESS"}

\* "All errors below this are fatal"
Fatal(err) == err = "FLASH_ACCESS"

Timer == {"chunk", "ack", "update"}

\* Chunk number seq of an image; 0 is the empty chunk a host sends when it
\* has nothing left.
Piece == [img: Image, seq: 0..NumChunks]

\* The chunks of an image, in order.
Chunks(img) == [i \in 1..NumChunks |-> [img |-> img, seq |-> i]]

\* The slot has, for each part, the chunks programmed there since the last
\* erase: with none the part is blank, with one it holds that chunk, with
\* more, a torn one among them, its content is undefined.
Cell  == SUBSET Piece
Blank == [i \in 1..NumChunks |-> {}]
Torn(p) == [img |-> p.img, seq |-> 0]

Holds(cells, img) == cells = [i \in 1..NumChunks |-> {Chunks(img)[i]}]

Frame ==
       [type: {"START"}, src: Node, img: Image, force: BOOLEAN]
  \cup [type: {"PAYLOAD_REQ"}, src: Node, seq: 0..NumChunks]
  \cup [type: {"PAYLOAD"}, src: Node, piece: Piece]
  \cup [type: {"ACK", "END", "ABORT"}, src: Node, err: Err]
  \cup [type: {"HEARTBEAT", "REBOOT_REQ", "REBOOT", "BOOT_COMPLETE"}, src: Node]

Local ==
       [type: {"NONE", "INIT_SUCCESS", "ACK_TIMEOUT", "CHUNK_TIMEOUT"}]
  \cup [type: {"BEGIN_HOST"}, offer: Offer]

Event == Frame \cup Local

Nop == [type |-> "NONE"]
-----------------------------------------------------------------------------
(* Queues and channels.                                                    *)

\* Mutant: a queue without a limit.
PushAnyway(q, e) == Append(q, e)

\* xQueueSend with no waiting time: what does not fit is dropped.
Push(q, e) == IF Len(q) < QueueLength THEN Append(q, e) ELSE q

\* Mutant: no NOP event.
PushNothing(q) == q

\* bm_dfu_set_pending_state_change adds a NOP event so that the thread runs.
PushNop(q) == Push(q, Nop)

\* A frame that finds the channel full is lost.
Send(ch, from, to, frame) ==
  IF to = None \/ Len(ch[<<from, to>>]) >= NetLength THEN ch
  ELSE [ch EXCEPT ![<<from, to>>] = Append(@, frame)]

Plain(n, type)       == [type |-> type, src |-> n]
Result(n, type, err) == [type |-> type, src |-> n, err |-> err]
ChunkRequest(n, seq) == [type |-> "PAYLOAD_REQ", src |-> n, seq |-> seq]

Received(n) == Head(evq[n])

\* The event thread of n is in this state and takes an event of this type.
Handles(n, state, type) ==
  /\ sm[n].state = state
  /\ evq[n] # <<>>
  /\ Received(n).type = type

Transmit(n, to, frame) == net' = Send(net, n, to, frame)
Arm(n, tmr)    == armed' = [armed EXCEPT ![n] = @ \cup {tmr}]
Disarm(n, tmr) == armed' = [armed EXCEPT ![n] = @ \ {tmr}]

\* Mutant: failures are not reported.
ReportSuccess(o, success) ==
  answers' = IF o = None \/ ~success THEN answers
             ELSE [answers EXCEPT ![o] = Append(@, success)]

\* What the finish callback of an offer is told; no callback, no answer.
Report(o, success) ==
  answers' = IF o = None THEN answers
             ELSE [answers EXCEPT ![o] = IF Len(@) < MaxAnswers
                                         THEN Append(@, success) ELSE @]
-----------------------------------------------------------------------------
(* How a run of libSmRun ends.                                             *)

\* The queue of n without the event that is being handled.
Rest(n) == Tail(evq[n])

\* No state change: the event is used up.
Stay(n) ==
  /\ evq' = [evq EXCEPT ![n] = Rest(n)]
  /\ UNCHANGED sm

\* The run function asked for state s, and the entry function of s asks for
\* nothing.
Goto(n, s) ==
  /\ sm' = [sm EXCEPT ![n] = [state |-> s, pend |-> None,
                              err |-> @.err, cb |-> @.cb]]
  /\ evq' = [evq EXCEPT ![n] = PushNop(Rest(n))]

\* The entry function of s in turn asks for state p, with this error noted;
\* the transition to p waits for the next event.  q is the queue before the
\* NOP events of the two requests.
GotoThen(n, s, p, err, q) ==
  /\ sm' = [sm EXCEPT ![n] = [state |-> s, pend |-> p, err |-> err, cb |-> @.cb]]
  /\ evq' = [evq EXCEPT ![n] = PushNop(PushNop(q))]

\* The entry function of the error state tells the callback and leaves for
\* IDLE unless the error is fatal.
GotoErrorWith(n, err, q) ==
  /\ IF Fatal(err)
     THEN /\ sm' = [sm EXCEPT ![n] = [state |-> "ERROR", pend |-> None,
                                      err |-> err, cb |-> @.cb]]
          /\ evq' = [evq EXCEPT ![n] = PushNop(q)]
     ELSE GotoThen(n, "ERROR", "IDLE", err, q)
  /\ Report(sm[n].cb, FALSE)

GotoError(n, err) == GotoErrorWith(n, err, Rest(n))

NoReboot  == [magic |-> FALSE, host |-> None, sha |-> None]
NoClient  == [host |-> None, img |-> None, rx |-> <<>>, off |-> 0, retry |-> 0]
NoHost    == [offer |-> None, left |-> 0, retry |-> 0]
BootState == [state |-> "INIT", pend |-> None, err |-> "NONE", cb |-> None]

\* A reset of the node: RAM is initialised and bm_dfu_init queues its event.
Restart(n) ==
  /\ sm' = [sm EXCEPT ![n] = BootState]
  /\ evq' = [evq EXCEPT ![n] = <<[type |-> "INIT_SUCCESS"]>>]
  /\ client' = [client EXCEPT ![n] = NoClient]
  /\ host' = [host EXCEPT ![n] = NoHost]
  /\ armed' = [armed EXCEPT ![n] = {}]

\* The boot loader goes back to the previous image unless the running one
\* was confirmed.
Revert(b) == IF b.confirmed THEN b
             ELSE [running |-> b.prev, prev |-> b.prev, confirmed |-> TRUE]

\* After boot_set_pending it swaps in the image of the slot for a trial,
\* provided that the slot holds one.
TrialOf(b, cells) ==
  IF \E img \in Image : Holds(cells, img)
  THEN [running |-> CHOOSE img \in Image : Holds(cells, img),
        prev |-> b.running, confirmed |-> FALSE]
  ELSE Revert(b)

\* Mutant: the image is taken for confirmed and the boot loader not told.
ConfirmUntold(n) ==
  /\ UNCHANGED boot
  /\ installed' = [installed EXCEPT ![n] = @ \cup {boot[n].running}]

\* boot_set_confirmed.
Confirm(n) ==
  /\ boot' = [boot EXCEPT ![n].confirmed = TRUE]
  /\ installed' = [installed EXCEPT ![n] = @ \cup {boot[n].running}]
-----------------------------------------------------------------------------
(* s_init_run, and the entry of the state it chooses.                      *)

\* No update was in progress.
StartIdle(n) ==
  /\ Handles(n, "INIT", "INIT_SUCCESS")
  /\ ~noinit[n].magic
  /\ Goto(n, "IDLE")
  /\ noinit' = [noinit EXCEPT ![n] = NoReboot]
  /\ UNCHANGED <<client, host, armed, slot, boot, confirmOn, net, logVars>>

RebootDone(n) ==
  /\ Handles(n, "INIT", "INIT_SUCCESS")
  /\ noinit[n].magic

\* Mutant: the version that runs is not compared.
AskUnchecked(n) ==
  /\ RebootDone(n)
  /\ confirmOn[n]
  /\ Goto(n, "REBOOT_DONE")
  /\ client' = [client EXCEPT ![n] = [@ EXCEPT !.host = noinit[n].host,
                                                    !.retry = 0]]
  /\ Arm(n, "chunk")
  /\ Transmit(n, noinit[n].host, Plain(n, "BOOT_COMPLETE"))
  /\ UNCHANGED <<host, noinit, slot, boot, confirmOn, logVars>>

\* The new image runs: ask the host to confirm it.
AskForConfirmation(n) ==
  /\ RebootDone(n)
  /\ Sha[boot[n].running] = noinit[n].sha
  /\ confirmOn[n]
  /\ Goto(n, "REBOOT_DONE")
  /\ client' = [client EXCEPT ![n] = [@ EXCEPT !.host = noinit[n].host,
                                                    !.retry = 0]]
  /\ Arm(n, "chunk")
  /\ Transmit(n, noinit[n].host, Plain(n, "BOOT_COMPLETE"))
  /\ UNCHANGED <<host, noinit, slot, boot, confirmOn, logVars>>

\* "dfu_confirm" is off: confirm without the host, turn it on and reset.
ConfirmAlone(n) ==
  /\ RebootDone(n)
  /\ Sha[boot[n].running] = noinit[n].sha
  /\ ~confirmOn[n]
  /\ Confirm(n)
  /\ confirmOn' = [confirmOn EXCEPT ![n] = TRUE]
  /\ noinit' = [noinit EXCEPT ![n] = NoReboot]
  /\ Restart(n)
  /\ UNCHANGED <<slot, net, asked, answers, crashes>>

\* Another image runs: tell the host, forget the update and reset.
WrongVersion(n) ==
  /\ RebootDone(n)
  /\ Sha[boot[n].running] # noinit[n].sha
  /\ Transmit(n, noinit[n].host, Result(n, "END", "WRONG_VER"))
  /\ noinit' = [noinit EXCEPT ![n] = NoReboot]
  /\ boot' = [boot EXCEPT ![n] = Revert(@)]
  /\ Restart(n)
  /\ UNCHANGED <<slot, confirmOn, logVars>>
-----------------------------------------------------------------------------
(* The client: s_idle_run and bm_dfu_client_process_update_request.        *)

UpdateRequest(n) == Handles(n, "IDLE", "START")

Wanted(n) == Sha[Received(n).img] # Sha[boot[n].running] \/ Received(n).force

Refuse(n, err) == Transmit(n, Received(n).src, Result(n, "ACK", err))

RefuseSameVersion(n) ==
  /\ UpdateRequest(n)
  /\ ~Wanted(n)
  /\ client' = [client EXCEPT ![n].host = Received(n).src]
  /\ Refuse(n, "SAME_VER")
  /\ Stay(n)
  /\ UNCHANGED <<host, armed, noinit, slot, boot, confirmOn, logVars>>

RefuseOversized(n) ==
  /\ UpdateRequest(n)
  /\ Wanted(n)
  /\ Received(n).img \in Oversized
  /\ client' = [client EXCEPT ![n] = [@ EXCEPT !.host = Received(n).src,
                                                    !.img = Received(n).img]]
  /\ Refuse(n, "TOO_LARGE")
  /\ Stay(n)
  /\ UNCHANGED <<host, armed, noinit, slot, boot, confirmOn, logVars>>

\* The slot cannot be opened or erased: a fatal error, on the host as well.
RefuseFlash(n) ==
  /\ UpdateRequest(n)
  /\ Wanted(n)
  /\ "erase" \in Faults
  /\ client' = [client EXCEPT ![n] = [@ EXCEPT !.host = Received(n).src,
                                                    !.img = Received(n).img]]
  /\ Refuse(n, "FLASH_ACCESS")
  /\ GotoError(n, "FLASH_ACCESS")
  /\ armed' = [armed EXCEPT ![n] = @ \ {"chunk"}]
  /\ UNCHANGED <<host, noinit, slot, boot, confirmOn, asked, installed, crashes>>

\* Mutant: the record is left without its magic number.
NoteUnmarked(e) == [magic |-> FALSE, host |-> e.src, sha |-> Sha[e.img]]

\* The record of the update that outlives the reset.
Note(e) == [magic |-> TRUE, host |-> e.src, sha |-> Sha[e.img]]

\* Erase the slot, acknowledge, note the update in no-init RAM, and ask for
\* the first chunk.
AcceptUpdate(n) ==
  LET e == Received(n) IN
  /\ UpdateRequest(n)
  /\ Wanted(n)
  /\ e.img \notin Oversized
  /\ client' = [client EXCEPT ![n] = [NoClient EXCEPT !.host = e.src, !.img = e.img]]
  /\ slot' = [slot EXCEPT ![n] = Blank]
  /\ noinit' = [noinit EXCEPT ![n] = Note(e)]
  /\ net' = Send(Send(net, n, e.src, Result(n, "ACK", "NONE")),
                 n, e.src, ChunkRequest(n, 0))
  /\ Goto(n, "RECEIVING")
  /\ Arm(n, "chunk")
  /\ UNCHANGED <<host, boot, confirmOn, logVars>>
-----------------------------------------------------------------------------
(* The client: s_client_receiving_run, s_client_validating_entry.          *)

Chunk(n) == Handles(n, "RECEIVING", "PAYLOAD")

\* bm_dfu_process_payload asserts that the chunk is not empty.
EmptyChunkAsserts(n) ==
  /\ Chunk(n)
  /\ Received(n).piece.seq = 0
  /\ boot' = [boot EXCEPT ![n] = Revert(@)]
  /\ Restart(n)
  /\ UNCHANGED <<noinit, slot, confirmOn, net, logVars>>

\* flash_area_write programs a part of the slot and reads it back: it can
\* only succeed where nothing else was programmed since the last erase.
ReadsBack(cell, p) == cell \subseteq {p}

\* The chunk joins the running CRC and is written: the offset moves, or the
\* write fails and leaves that part of the slot undefined.
TakeChunk(n, written) ==
  LET c  == client[n]
      p  == Received(n).piece
      at == c.off + 1
  IN
  /\ Chunk(n)
  /\ p.seq # 0
  /\ IF written THEN ReadsBack(slot[n][at], p)
     ELSE ~ReadsBack(slot[n][at], p) \/ "write" \in Faults
  /\ client' = [client EXCEPT ![n] =
                  [c EXCEPT !.rx = Append(@, p),
                            !.off = IF written THEN at ELSE @, !.retry = 0]]
  /\ slot' = [slot EXCEPT ![n][at] =
                @ \cup (IF written THEN {p} ELSE {p, Torn(p)})]

\* The queue after the chunk was taken: a failed write has asked for ERROR.
AfterWrite(n, written) == IF written THEN Rest(n) ELSE PushNop(Rest(n))

LastChunk(n) == Len(client[n].rx) + 1 >= NumChunks

AskNext(n) ==
  Transmit(n, client[n].host, ChunkRequest(n, Len(client[n].rx) + 1))

ReceiveChunk(n) ==
  /\ TakeChunk(n, TRUE)
  /\ ~LastChunk(n)
  /\ AskNext(n)
  /\ Stay(n)
  /\ Arm(n, "chunk")
  /\ UNCHANGED <<host, noinit, boot, confirmOn, logVars>>

\* The next chunk is asked for, and its timer started, after the error.
ChunkWriteFails(n) ==
  /\ TakeChunk(n, FALSE)
  /\ ~LastChunk(n)
  /\ AskNext(n)
  /\ GotoError(n, "BM_FRAME")
  /\ Arm(n, "chunk")
  /\ UNCHANGED <<host, noinit, boot, confirmOn, asked, installed, crashes>>

\* bm_dfu_process_end writes what is left of the last page, and fails; the
\* write of a page before it may have failed as well.
LastWriteFails(n) ==
  /\ LastChunk(n)
  /\ TakeChunk(n, FALSE)
  /\ \E written \in BOOLEAN : GotoErrorWith(n, "BM_FRAME", AfterWrite(n, written))
  /\ Disarm(n, "chunk")
  /\ UNCHANGED <<host, noinit, boot, confirmOn, net, asked, installed, crashes>>

\* Mutant: the CRC of what was received is enough.
VerdictOnCrc(c) == IF c.rx # Chunks(c.img) THEN "BAD_CRC" ELSE "NONE"

\* The length and the CRC of what was received.
Verdict(c) ==
  IF c.off # NumChunks THEN "MISMATCH_LEN"
  ELSE IF c.rx # Chunks(c.img) THEN "BAD_CRC" ELSE "NONE"

\* After the last chunk the state becomes VALIDATING even when the chunk
\* could not be written; its entry checks the length and the CRC.
Validate(n) ==
  /\ LastChunk(n)
  /\ Disarm(n, "chunk")
  /\ \E written \in BOOLEAN :
       LET c   == client'[n]
           err == Verdict(c)
           q   == AfterWrite(n, written)
       IN /\ TakeChunk(n, written)
          /\ IF err = "NONE"
             THEN /\ GotoThen(n, "VALIDATING", "REBOOT_REQ", sm[n].err, q)
                  /\ UNCHANGED net
             ELSE /\ GotoThen(n, "VALIDATING", "ERROR", err, q)
                  /\ Transmit(n, c.host, Result(n, "END", err))
  /\ UNCHANGED <<host, noinit, boot, confirmOn, logVars>>

\* The host asks again although the client has acknowledged: start over,
\* with the image of the first request and without erasing the slot.
RestartTransfer(n) ==
  LET c == client[n] IN
  /\ Handles(n, "RECEIVING", "START")
  /\ client' = [client EXCEPT ![n] =
                  [c EXCEPT !.rx = <<>>, !.off = 0, !.retry = 0]]
  /\ net' = Send(Send(net, n, c.host, Result(n, "ACK", "NONE")),
                 n, c.host, ChunkRequest(n, 0))
  /\ Stay(n)
  /\ Arm(n, "chunk")
  /\ UNCHANGED <<host, noinit, slot, boot, confirmOn, logVars>>

KeepWaiting(n) ==
  /\ Handles(n, "RECEIVING", "HEARTBEAT")
  /\ Stay(n)
  /\ Arm(n, "chunk")
  /\ UNCHANGED <<client, host, noinit, slot, boot, confirmOn, net, logVars>>

\* What a client asks its host for while it waits in a state.
Request(n, state) ==
  CASE state = "RECEIVING"   -> ChunkRequest(n, Len(client[n].rx))
    [] state = "REBOOT_REQ"  -> Plain(n, "REBOOT_REQ")
    [] state = "REBOOT_DONE" -> Plain(n, "BOOT_COMPLETE")

AskAgain(n) ==
  \E state \in {"RECEIVING", "REBOOT_REQ", "REBOOT_DONE"} :
    /\ Handles(n, state, "CHUNK_TIMEOUT")
    /\ client[n].retry + 1 < MaxChunkRetries
    /\ client' = [client EXCEPT ![n].retry = @ + 1]
    /\ Transmit(n, client[n].host, Request(n, state))
    /\ Stay(n)
    /\ Arm(n, "chunk")
    /\ UNCHANGED <<host, noinit, slot, boot, confirmOn, logVars>>

GiveUp(n) ==
  /\ \E state \in {"RECEIVING", "REBOOT_REQ"} : Handles(n, state, "CHUNK_TIMEOUT")
  /\ client[n].retry + 1 >= MaxChunkRetries
  /\ client' = [client EXCEPT ![n].retry = @ + 1]
  /\ Transmit(n, client[n].host, Result(n, "ABORT", "ABORTED"))
  /\ GotoError(n, "TIMEOUT")
  /\ Disarm(n, "chunk")
  /\ UNCHANGED <<host, noinit, slot, boot, confirmOn, asked, installed, crashes>>

\* s_client_validating_run does nothing, so the next event, whatever it is,
\* takes the state its entry function asked for.
LeaveValidating(n) ==
  /\ sm[n].state = "VALIDATING"
  /\ evq[n] # <<>>
  /\ \/ /\ sm[n].pend = "REBOOT_REQ"
        /\ sm' = [sm EXCEPT ![n] = [@ EXCEPT !.state = "REBOOT_REQ", !.pend = None]]
        /\ evq' = [evq EXCEPT ![n] = Rest(n)]
        /\ client' = [client EXCEPT ![n].retry = 0]
        /\ Transmit(n, client[n].host, Plain(n, "REBOOT_REQ"))
        /\ Arm(n, "chunk")
        /\ UNCHANGED answers
     \/ /\ sm[n].pend = "ERROR"
        /\ sm' = [sm EXCEPT ![n] = [@ EXCEPT !.state = "ERROR", !.pend = "IDLE"]]
        /\ evq' = [evq EXCEPT ![n] = PushNop(Rest(n))]
        /\ Report(sm[n].cb, FALSE)
        /\ UNCHANGED <<client, net, armed>>
  /\ UNCHANGED <<host, noinit, slot, boot, confirmOn, asked, installed, crashes>>

\* The host agrees: boot_set_pending and reset.
Activate(n) ==
  /\ Handles(n, "REBOOT_REQ", "REBOOT")
  /\ boot' = [boot EXCEPT ![n] = TrialOf(@, slot[n])]
  /\ Restart(n)
  /\ UNCHANGED <<noinit, slot, confirmOn, net, logVars>>

\* The host has answered BOOT_COMPLETE, with whatever result: keep the image.
ConfirmUpdate(n) ==
  /\ Handles(n, "REBOOT_DONE", "END")
  /\ Confirm(n)
  /\ Transmit(n, noinit[n].host, Result(n, "END", "NONE"))
  /\ Goto(n, "IDLE")
  /\ noinit' = [noinit EXCEPT ![n] = NoReboot]
  /\ Disarm(n, "chunk")
  /\ UNCHANGED <<client, host, slot, confirmOn, asked, answers, crashes>>

\* Nobody confirms: abort, forget the update and reset to the old image.
GiveUpConfirmation(n) ==
  /\ Handles(n, "REBOOT_DONE", "CHUNK_TIMEOUT")
  /\ client[n].retry + 1 >= MaxChunkRetries
  /\ Transmit(n, client[n].host, Result(n, "ABORT", "CONFIRMATION_ABORT"))
  /\ noinit' = [noinit EXCEPT ![n] = NoReboot]
  /\ boot' = [boot EXCEPT ![n] = Revert(@)]
  /\ Restart(n)
  /\ UNCHANGED <<slot, confirmOn, logVars>>
-----------------------------------------------------------------------------
(* The host.                                                               *)

\* bm_dfu_initiate_update, called by an application task.  A call that is
\* turned down gets its callback at once; one that is let in finds its event
\* behind whatever the queue holds, so the node may be in another state when
\* the event is handled.
Initiate(o) ==
  /\ o \in Offer \ asked
  /\ asked' = asked \cup {o}
  /\ IF sm[o.host].state = "IDLE" /\ Len(evq[o.host]) < QueueLength
     THEN /\ evq' = [evq EXCEPT ![o.host] =
                       Append(@, [type |-> "BEGIN_HOST", offer |-> o])]
          /\ UNCHANGED answers
     ELSE /\ Report(o, FALSE)
          /\ UNCHANGED evq
  /\ UNCHANGED <<sm, nodeVars, net, installed, crashes>>

StartFrame(o) ==
  [type |-> "START", src |-> o.host, img |-> o.img, force |-> o.force]

\* s_idle_run and s_host_req_update_entry.
BeginHost(n) ==
  LET o == Received(n).offer IN
  /\ Handles(n, "IDLE", "BEGIN_HOST")
  /\ sm' = [sm EXCEPT ![n] = [state |-> "HOST_REQ_UPDATE", pend |-> None,
                              err |-> @.err, cb |-> o]]
  /\ evq' = [evq EXCEPT ![n] = PushNop(Rest(n))]
  /\ host' = [host EXCEPT ![n] = [offer |-> o, left |-> NumChunks, retry |-> 0]]
  /\ Transmit(n, o.client, StartFrame(o))
  /\ Arm(n, "ack")
  /\ UNCHANGED <<client, noinit, slot, boot, confirmOn, logVars>>

\* bm_dfu_host_transition_to_error.
HostError(n, err) ==
  /\ GotoError(n, err)
  /\ armed' = [armed EXCEPT ![n] = @ \ {"ack", "update"}]

\* Mutant: the update has no time limit.
HostAckUntimed(n) ==
  /\ Handles(n, "HOST_REQ_UPDATE", "ACK")
  /\ Received(n).err = "NONE"
  /\ Goto(n, "HOST_UPDATE")
  /\ Disarm(n, "ack")
  /\ UNCHANGED <<client, host, noinit, slot, boot, confirmOn, net, logVars>>

\* The client accepts: the time for the whole update starts.
HostAck(n) ==
  /\ Handles(n, "HOST_REQ_UPDATE", "ACK")
  /\ Received(n).err = "NONE"
  /\ Goto(n, "HOST_UPDATE")
  /\ armed' = [armed EXCEPT ![n] = (@ \ {"ack"}) \cup {"update"}]
  /\ UNCHANGED <<client, host, noinit, slot, boot, confirmOn, net, logVars>>

\* The client refuses: its error, a fatal one included, becomes the host's.
HostNack(n) ==
  /\ Handles(n, "HOST_REQ_UPDATE", "ACK")
  /\ Received(n).err # "NONE"
  /\ HostError(n, Received(n).err)
  /\ UNCHANGED <<client, host, noinit, slot, boot, confirmOn, net,
                 asked, installed, crashes>>

HostAckTimeout(n) ==
  LET h == host[n] IN
  /\ Handles(n, "HOST_REQ_UPDATE", "ACK_TIMEOUT")
  /\ host' = [host EXCEPT ![n].retry = @ + 1]
  /\ IF h.retry + 1 >= MaxAckRetries
     THEN HostError(n, "TIMEOUT") /\ UNCHANGED net
     ELSE /\ Transmit(n, h.offer.client, StartFrame(h.offer))
          /\ Stay(n)
          /\ Arm(n, "ack")
          /\ UNCHANGED answers
  /\ UNCHANGED <<client, noinit, slot, boot, confirmOn, asked, installed, crashes>>

\* Aborted by the client, or by the update timer of the host.
HostAbort(n) ==
  /\ \E state \in HostState : Handles(n, state, "ABORT")
  /\ HostError(n, Received(n).err)
  /\ UNCHANGED <<client, host, noinit, slot, boot, confirmOn, net,
                 asked, installed, crashes>>

\* The chunk that comes next is sent, whichever chunk was asked for.  A slow
\* read of the external flash lets a heartbeat out first.
HostSendChunk(n) ==
  LET h     == host[n]
      piece == [img |-> h.offer.img,
                seq |-> IF h.left = 0 THEN 0 ELSE NumChunks - h.left + 1]
      to    == h.offer.client
  IN
  /\ Handles(n, "HOST_UPDATE", "PAYLOAD_REQ")
  /\ host' = [host EXCEPT ![n].left = IF @ = 0 THEN 0 ELSE @ - 1]
  /\ \E slow \in BOOLEAN :
       LET ch == IF slow THEN Send(net, n, to, Plain(n, "HEARTBEAT")) ELSE net
       IN net' = Send(ch, n, to, [type |-> "PAYLOAD", src |-> n, piece |-> piece])
  /\ Stay(n)
  /\ UNCHANGED <<client, armed, noinit, slot, boot, confirmOn, logVars>>

HostChunkError(n) ==
  /\ Handles(n, "HOST_UPDATE", "PAYLOAD_REQ")
  /\ \/ "read" \in Faults /\ HostError(n, "FLASH_ACCESS")
     \/ "tx" \in Faults /\ HostError(n, "IMG_CHUNK_ACCESS")
  /\ UNCHANGED <<client, host, noinit, slot, boot, confirmOn, net,
                 asked, installed, crashes>>

\* Every request to reboot and every completed boot of the client is agreed
\* to.
HostAgree(n) ==
  /\ \/ /\ Handles(n, "HOST_UPDATE", "REBOOT_REQ")
        /\ Transmit(n, host[n].offer.client, Plain(n, "REBOOT"))
     \/ /\ Handles(n, "HOST_UPDATE", "BOOT_COMPLETE")
        /\ Transmit(n, host[n].offer.client, Result(n, "END", "NONE"))
  /\ Stay(n)
  /\ UNCHANGED <<client, host, armed, noinit, slot, boot, confirmOn, logVars>>

\* Mutant: the end of an update is taken for its success.
HostEndBlindly(n) ==
  /\ Handles(n, "HOST_UPDATE", "END")
  /\ Report(host[n].offer, TRUE)
  /\ Goto(n, "IDLE")
  /\ noinit' = [noinit EXCEPT ![n] = NoReboot]
  /\ Disarm(n, "update")
  /\ UNCHANGED <<client, host, slot, boot, confirmOn, net, asked, installed, crashes>>

\* Mutant: the host stays in its state.
HostEndStays(n) ==
  /\ Handles(n, "HOST_UPDATE", "END")
  /\ Report(host[n].offer, Received(n).err = "NONE")
  /\ Stay(n)
  /\ UNCHANGED <<nodeVars, net, asked, installed, crashes>>

\* The client reports the end: tell the callback.
HostEnd(n) ==
  /\ Handles(n, "HOST_UPDATE", "END")
  /\ Report(host[n].offer, Received(n).err = "NONE")
  /\ Goto(n, "IDLE")
  /\ noinit' = [noinit EXCEPT ![n] = NoReboot]
  /\ Disarm(n, "update")
  /\ UNCHANGED <<client, host, slot, boot, confirmOn, net, asked, installed, crashes>>
-----------------------------------------------------------------------------
(* The rest of the event thread.                                           *)

\* s_error_run does nothing: after a non-fatal error any event leads to IDLE.
LeaveError(n) ==
  /\ sm[n].state = "ERROR"
  /\ sm[n].pend = "IDLE"
  /\ evq[n] # <<>>
  /\ sm' = [sm EXCEPT ![n] = [@ EXCEPT !.state = "IDLE", !.pend = None]]
  /\ evq' = [evq EXCEPT ![n] = Rest(n)]
  /\ noinit' = [noinit EXCEPT ![n] = NoReboot]
  /\ UNCHANGED <<client, host, armed, slot, boot, confirmOn, net, logVars>>

\* The events a state reacts to.
Awaited(state) ==
  CASE state = "INIT"            -> {"INIT_SUCCESS"}
    [] state = "IDLE"            -> {"START", "BEGIN_HOST"}
    [] state = "ERROR"           -> {}
    [] state = "RECEIVING"       -> {"PAYLOAD", "CHUNK_TIMEOUT", "START", "HEARTBEAT"}
    [] state = "VALIDATING"      -> {}
    [] state = "REBOOT_REQ"      -> {"REBOOT", "CHUNK_TIMEOUT"}
    [] state = "REBOOT_DONE"     -> {"END", "CHUNK_TIMEOUT"}
    [] state = "HOST_REQ_UPDATE" -> {"ACK", "ACK_TIMEOUT", "ABORT"}
    [] state = "HOST_UPDATE"     -> {"PAYLOAD_REQ", "REBOOT_REQ", "BOOT_COMPLETE",
                                     "END", "ABORT"}

\* Any other event is used up without effect.
IgnoreEvent(n) ==
  /\ evq[n] # <<>>
  /\ sm[n].pend = None
  /\ Received(n).type \notin Awaited(sm[n].state)
  /\ Stay(n)
  /\ UNCHANGED <<nodeVars, net, logVars>>

ClientStep(n) ==
  \/ AskForConfirmation(n) \/ ConfirmAlone(n) \/ WrongVersion(n)
  \/ RefuseSameVersion(n) \/ RefuseOversized(n) \/ RefuseFlash(n)
  \/ AcceptUpdate(n) \/ EmptyChunkAsserts(n) \/ ReceiveChunk(n)
  \/ ChunkWriteFails(n) \/ LastWriteFails(n) \/ Validate(n)
  \/ RestartTransfer(n) \/ KeepWaiting(n) \/ AskAgain(n) \/ GiveUp(n)
  \/ LeaveValidating(n) \/ Activate(n) \/ ConfirmUpdate(n)
  \/ GiveUpConfirmation(n)

HostStep(n) ==
  \/ BeginHost(n) \/ HostAck(n) \/ HostNack(n) \/ HostAckTimeout(n)
  \/ HostAbort(n) \/ HostSendChunk(n) \/ HostChunkError(n) \/ HostAgree(n)
  \/ HostEnd(n)

\* bm_dfu_event_thread.
RunEventThread(n) ==
  StartIdle(n) \/ ClientStep(n) \/ HostStep(n) \/ LeaveError(n) \/ IgnoreEvent(n)
-----------------------------------------------------------------------------
(* The BCMP thread, the timer task, and the environment.                   *)

\* bm_dfu_process_message: while a node takes part in an update it takes
\* frames from its peer only.  The state is read now, by another thread than
\* the one that will handle the event.
FromPeer(n, src) ==
  /\ sm[n].state \in ClientState => src = client[n].host
  /\ sm[n].state \in HostState => src = host[n].offer.client

ProcessMessage(m, n) ==
  /\ net[<<m, n>>] # <<>>
  /\ net' = [net EXCEPT ![<<m, n>>] = Tail(@)]
  /\ evq' = IF FromPeer(n, m)
            THEN [evq EXCEPT ![n] = Push(@, Head(net[<<m, n>>]))] ELSE evq
  /\ UNCHANGED <<sm, nodeVars, logVars>>

LoseFrame(m, n) ==
  /\ "loss" \in Faults
  /\ net[<<m, n>>] # <<>>
  /\ net' = [net EXCEPT ![<<m, n>>] = Tail(@)]
  /\ UNCHANGED <<sm, evq, nodeVars, logVars>>

\* Mutant: the handlers of the chunk and the ack timer are swapped.
ExpirySwapped(n, tmr) ==
  CASE tmr = "ack"    -> [type |-> "CHUNK_TIMEOUT"]
    [] tmr = "chunk"  -> [type |-> "ACK_TIMEOUT"]
    [] tmr = "update" -> Result(n, "ABORT", "ABORTED")

Expiry(n, tmr) ==
  CASE tmr = "chunk"  -> [type |-> "CHUNK_TIMEOUT"]
    [] tmr = "ack"    -> [type |-> "ACK_TIMEOUT"]
    [] tmr = "update" -> Result(n, "ABORT", "ABORTED")

\* A timer callback queues its event, and asserts when the queue is full.
TimerExpires(n, tmr) ==
  /\ tmr \in armed[n]
  /\ IF Len(evq[n]) < QueueLength
     THEN /\ evq' = [evq EXCEPT ![n] = Append(@, Expiry(n, tmr))]
          /\ Disarm(n, tmr)
          /\ UNCHANGED <<sm, client, host, boot>>
     ELSE /\ boot' = [boot EXCEPT ![n] = Revert(@)]
          /\ Restart(n)
  /\ UNCHANGED <<noinit, slot, confirmOn, net, logVars>>

\* A reset from outside: a watchdog keeps the no-init RAM, a loss of power
\* does not.
Crash(n) ==
  /\ crashes < MaxCrashes
  /\ crashes' = crashes + 1
  /\ \E power \in BOOLEAN :
       noinit' = IF power THEN [noinit EXCEPT ![n] = NoReboot] ELSE noinit
  /\ boot' = [boot EXCEPT ![n] = Revert(@)]
  /\ Restart(n)
  /\ UNCHANGED <<slot, confirmOn, net, asked, answers, installed>>
-----------------------------------------------------------------------------
Init ==
  /\ sm = [n \in Node |-> BootState]
  /\ evq = [n \in Node |-> <<[type |-> "INIT_SUCCESS"]>>]
  /\ client = [n \in Node |-> NoClient]
  /\ host = [n \in Node |-> NoHost]
  /\ armed = [n \in Node |-> {}]
  /\ noinit = [n \in Node |-> NoReboot]
  /\ slot = [n \in Node |-> Blank]
  /\ boot = [n \in Node |-> [running |-> Factory[n], prev |-> Factory[n],
                             confirmed |-> TRUE]]
  /\ confirmOn \in [Node -> ConfirmSettings]
  /\ net = [link \in Node \X Node |-> <<>>]
  /\ asked = {}
  /\ answers = [o \in Offer |-> <<>>]
  /\ installed = [n \in Node |-> {}]
  /\ crashes = 0

Next ==
  \/ \E n \in Node : RunEventThread(n) \/ Crash(n)
  \/ \E n \in Node, tmr \in Timer : TimerExpires(n, tmr)
  \/ \E m, n \in Node : ProcessMessage(m, n) \/ LoseFrame(m, n)
  \/ \E o \in Offer : Initiate(o)

Spec == Init /\ [][Next]_vars

\* The threads and timers of a running system are scheduled for ever, and a
\* frame in flight is delivered or lost.
Fairness ==
  /\ \A n \in Node : WF_vars(RunEventThread(n))
  /\ \A n \in Node, tmr \in Timer : WF_vars(TimerExpires(n, tmr))
  /\ \A m, n \in Node : WF_vars(ProcessMessage(m, n) \/ LoseFrame(m, n))

FairSpec == Spec /\ Fairness
-----------------------------------------------------------------------------
(* Properties.                                                             *)

Bounded(S, k) == {q \in Seq(S) : Len(q) <= k}

Machine == [state: State, pend: {None, "IDLE", "ERROR", "REBOOT_REQ"},
            err: Err, cb: Offer \cup {None}]

ClientContext == [host: Node \cup {None}, img: Image \cup {None},
                  rx: Bounded(Piece, NumChunks), off: 0..NumChunks,
                  retry: 0..MaxChunkRetries]

HostContext == [offer: Offer \cup {None}, left: 0..NumChunks,
                retry: 0..MaxAckRetries]

RebootInfo == [magic: BOOLEAN, host: Node \cup {None},
               sha: {Sha[img] : img \in Image} \cup {None}]

Boot == [running: Image, prev: Image, confirmed: BOOLEAN]

\* Type invariant: every queue, channel, context and history variable keeps
\* its shape and its bound.
TypeOK ==
  /\ sm \in [Node -> Machine]
  /\ evq \in [Node -> Bounded(Event, QueueLength)]
  /\ client \in [Node -> ClientContext]
  /\ host \in [Node -> HostContext]
  /\ armed \in [Node -> SUBSET Timer]
  /\ noinit \in [Node -> RebootInfo]
  /\ slot \in [Node -> [1..NumChunks -> Cell]]
  /\ boot \in [Node -> Boot]
  /\ confirmOn \in [Node -> BOOLEAN]
  /\ net \in [Node \X Node -> Bounded(Frame, NetLength)]
  /\ asked \in SUBSET Offer
  /\ answers \in [Offer -> Bounded(BOOLEAN, MaxAnswers)]
  /\ installed \in [Node -> SUBSET Image]
  /\ crashes \in 0..MaxCrashes

\* A state change asked for by an entry function is never stranded: the NOP
\* event, or another one, is in the queue to carry it out.
PendingServed == \A n \in Node : sm[n].pend # None => evq[n] # <<>>

\* An image runs on trial only between its first boot and its confirmation,
\* and the node then still knows which host it has to ask.
TrialOnRecord ==
  \A n \in Node :
    ~boot[n].confirmed => /\ sm[n].state \in {"INIT", "REBOOT_DONE"}
                          /\ noinit[n].magic

\* A host tells its application that an update succeeded only when the client
\* has confirmed the offered image.
SuccessMeansInstalled ==
  \A o \in Offer : (\E i \in DOMAIN answers[o] : answers[o][i])
                     => o.img \in installed[o.client]

\* A slot is handed to the boot loader only when it holds the image that was
\* accepted, chunk by chunk.
ActivatedSlotIntact ==
  \A n \in Node : sm[n].state = "REBOOT_REQ" => Holds(slot[n], client[n].img)

\* Each chunk a client has received is the one it asked for.
ChunksInOrder ==
  \A n \in Node : sm[n].state = "RECEIVING" =>
    \A i \in DOMAIN client[n].rx : client[n].rx[i].seq = i

\* A node never waits without a limit: while it waits for its peer, a timer
\* runs or has left its event in the queue.
Timed(n, tmr, type) ==
  tmr \in armed[n] \/ \E i \in DOMAIN evq[n] : evq[n][i].type = type

WaitIsTimed ==
  \A n \in Node :
    /\ sm[n].state \in {"RECEIVING", "REBOOT_REQ", "REBOOT_DONE"}
         => Timed(n, "chunk", "CHUNK_TIMEOUT")
    /\ sm[n].state = "HOST_REQ_UPDATE" => Timed(n, "ack", "ACK_TIMEOUT")
    /\ sm[n].state = "HOST_UPDATE" => Timed(n, "update", "ABORT")

\* The application gets one answer for each update it asked for.
AnsweredOnce == \A o \in Offer : Len(answers[o]) <= 1

\* A host is done with every update it starts, and a client with every update
\* it accepts, whatever is lost, fails or restarts on the way.
RolesFinish ==
  \A n \in Node :
    /\ (sm[n].state \in HostState) ~> (sm[n].state \notin HostState)
    /\ (sm[n].state \in ClientState) ~> (sm[n].state \notin ClientState)

\* An image on trial is confirmed or taken back.
TrialEnds == \A n \in Node : ~boot[n].confirmed ~> boot[n].confirmed

\* The application that asks for an update is told how it ended, unless a node
\* is reset or another update is asked for.
OfferAnswered ==
  \A o \in Offer : (asked = {o}) ~> (answers[o] # <<>> \/ crashes > 0 \/ asked # {o})

\* The update service that this protocol implements.
Promise == INSTANCE DfuUpdate

\* Every step of the protocol is one the service allows, or none, as far as
\* the offers made and answered, the image each node runs and the images it
\* has confirmed are concerned.
PromiseKept == Promise!Spec
=============================================================================
