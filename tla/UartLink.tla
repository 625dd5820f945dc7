------------------------------ MODULE UartLink ------------------------------
(***************************************************************************)
(* The serial link to CPU1: components/home/library/uart/uart.cpp.         *)
(* One end sends (the tasks that call Sender, and _sender_task), the other *)
(* receives (_event_task and _callback_task of the peer's UART object, the *)
(* same class).  A message is cut into packets of PAKET_SIZE bytes; each   *)
(* packet is repeated until the peer pulses the acknowledgement line.      *)
(*                                                                         *)
(* Bytes are abstracted to the number of the message they come from.       *)
(***************************************************************************)
EXTENDS Naturals, Sequences

CONSTANTS
    Callers,        \* tasks that call UART::Sender
    MaxMsgs,        \* bound: calls of Sender that get past the busy test
    MaxPk,          \* bound: packets of a message
    QueueLen,       \* length of send_queue (5 in the code)
    HeaderBits,     \* width of paket_header (32 in the code)
    MaxTries,       \* an attempt numbered above this is the last (3 in the code)
    \* Timing assumptions, each FALSE when the schedule is unrestricted.
    ClaimIsAtomic,  \* no task runs between Sender's test of busy and its set
    PatientCallers, \* _Sender's 2000 ms outlast the sending of the packet
    TimelyAck,      \* the 500 ticks outlast the peer's answer, if one comes
    FastCallback    \* the callback returns within _event_task's 1000 ms

ASSUME ConstantsAssumption ==
    /\ MaxMsgs \in Nat
    /\ MaxPk \in Nat \ {0}
    /\ QueueLen \in Nat \ {0}
    /\ HeaderBits \in Nat \ {0}
    /\ MaxTries \in Nat
    /\ ClaimIsAtomic \in BOOLEAN /\ PatientCallers \in BOOLEAN
    /\ TimelyAck \in BOOLEAN /\ FastCallback \in BOOLEAN

Msgs == 1..MaxMsgs
NoMsg == 0               \* no message; as a semaphore, the NULL handle

VARIABLES
    \* Callers
    pc,               \* where each caller is in Sender / _Sender
    job,              \* the message of each caller's last call
    ret,              \* what its last call returned
    \* Fields of the sending UART object
    busy,
    send_paket_sem,   \* a semaphore is named by the message it was made for
    send_paket_error,
    send_queue,
    ack_wait_sem,
    \* Semaphores made by _Sender
    live,             \* those not yet deleted
    given,            \* those holding a token
    misused,          \* a deleted semaphore was given or deleted again
    \* _sender_task
    tx,
    \* Medium and peer
    wire,             \* frames in transit or in the peer's UART ring buffer
    rx,               \* _event_task
    buf,              \* paket_buffer: its size and whose bytes each part holds
    callback_sem,
    wait_sem,
    cb,               \* _callback_task
    \* Observation
    accepted,         \* messages given to xQueueSend so far
    delivered         \* messages handed to the callback task

callerVars == <<pc, job, ret>>
semVars    == <<live, given, misused>>
peerVars   == <<rx, buf, callback_sem, wait_sem, cb, delivered>>
vars == <<callerVars, busy, send_paket_sem, send_paket_error, send_queue,
          ack_wait_sem, semVars, tx, wire, peerVars, accepted>>

Results == {"none", "RET_OK", "RET_BUSY", "RET_HARDWARE_ERROR"}
Item    == [id : Msgs, npk : 1..MaxPk]
NoItem  == [id |-> NoMsg, npk |-> 0]
Frame   == [id : Msgs, cur : 1..MaxPk, tot : 1..MaxPk]

NoBuf   == [tot |-> 0, parts |-> [i \in 1..MaxPk |-> NoMsg]]
IdleTx  == [st |-> "idle", id |-> NoMsg, npk |-> 0, cur |-> 0, try |-> 0,
            sem |-> NoMsg]

TxState == [st : {"idle", "send", "wait", "check", "load", "give"},
            id : Msgs \union {NoMsg}, npk : 0..MaxPk, cur : 0..MaxPk,
            try : 0..(MaxTries + 1), sem : Msgs \union {NoMsg}]
RxState == [st : {"recv", "handoff"}] \union [st : {"decode"}, frame : Frame]
Buffer  == [tot : 0..MaxPk, parts : [1..MaxPk -> Msgs \union {NoMsg}]]

TypeOK ==
    /\ pc \in [Callers -> {"idle", "ready", "claim", "wait"}]
    /\ job \in [Callers -> Item \union {NoItem}]
    /\ ret \in [Callers -> Results]
    /\ busy \in BOOLEAN
    /\ send_paket_sem \in Msgs \union {NoMsg}
    /\ send_paket_error \in {0, 1}
    /\ send_queue \in Seq(Item)
    /\ Len(send_queue) <= QueueLen
    /\ ack_wait_sem \in BOOLEAN
    /\ live \subseteq Msgs
    /\ given \subseteq Msgs
    /\ misused \in BOOLEAN
    /\ tx \in TxState
    /\ wire \in Seq(Frame)
    /\ rx \in RxState
    /\ buf \in Buffer
    /\ callback_sem \in BOOLEAN
    /\ wait_sem \in BOOLEAN
    /\ cb \in {"idle", "read", "dangling", "work"}
    /\ accepted \in 0..MaxMsgs
    /\ delivered \subseteq Msgs

Init ==
    /\ pc = [c \in Callers |-> "idle"]
    /\ job = [c \in Callers |-> NoItem]
    /\ ret = [c \in Callers |-> "none"]
    /\ busy = FALSE
    /\ send_paket_sem = NoMsg
    /\ send_paket_error = 0
    /\ send_queue = <<>>
    /\ ack_wait_sem = FALSE
    /\ live = {} /\ given = {} /\ misused = FALSE
    /\ tx = IdleTx
    /\ wire = <<>>
    /\ rx = [st |-> "recv"]
    /\ buf = NoBuf
    /\ callback_sem = FALSE /\ wait_sem = FALSE
    /\ cb = "idle"
    /\ accepted = 0
    /\ delivered = {}

-----------------------------------------------------------------------------
(* Callers.                                                                *)

\* while(uart.is_busy()) vTaskDelay(...): every caller polls first.
Poll(c) ==
    /\ pc[c] = "idle"
    /\ accepted < MaxMsgs
    /\ ~busy
    /\ pc' = [pc EXCEPT ![c] = "ready"]
    /\ UNCHANGED <<job, ret, busy, send_paket_sem, send_paket_error, send_queue,
                   ack_wait_sem, semVars, tx, wire, peerVars, accepted>>

RefusesNever == FALSE        \* mutant: the test of busy is left out

Refuses == busy

\* Sender's test of busy; the flag is set by a later statement.
TestBusy(c) ==
    /\ pc[c] = "ready"
    /\ ClaimIsAtomic => \A d \in Callers : pc[d] # "claim"
    /\ IF Refuses
         THEN pc' = [pc EXCEPT ![c] = "idle"] /\ ret' = [ret EXCEPT ![c] = "RET_BUSY"]
         ELSE pc' = [pc EXCEPT ![c] = "claim"] /\ UNCHANGED ret
    /\ UNCHANGED <<job, busy, send_paket_sem, send_paket_error, send_queue,
                   ack_wait_sem, semVars, tx, wire, peerVars, accepted>>

EnqueueInFront(q, d) ==      \* mutant: xQueueSendToFront
    IF Len(q) < QueueLen THEN <<d>> \o q ELSE q

\* xQueueSend without waiting: the message is dropped when the queue is full.
Enqueue(q, d) == IF Len(q) < QueueLen THEN Append(q, d) ELSE q

\* busy = true, then _Sender up to the wait: a new semaphore, the error flag
\* cleared, the message queued.  The result of xQueueSend is not looked at.
Claim(c) ==
    /\ pc[c] = "claim"
    /\ accepted < MaxMsgs
    /\ \E n \in 1..MaxPk :
         LET d == [id |-> accepted + 1, npk |-> n] IN
           /\ accepted' = d.id
           /\ job' = [job EXCEPT ![c] = d]
           /\ send_paket_sem' = d.id
           /\ live' = live \union {d.id}
           /\ send_queue' = Enqueue(send_queue, d)
    /\ busy' = TRUE
    /\ send_paket_error' = 0
    /\ pc' = [pc EXCEPT ![c] = "wait"]
    /\ UNCHANGED <<ret, ack_wait_sem, given, misused, tx, wire, peerVars>>

\* The message is still the sender task's to send.
Pending(m) ==
    \/ tx.st # "idle" /\ tx.id = m
    \/ \E i \in 1..Len(send_queue) : send_queue[i].id = m

EndOfWaitNoTimeout(c) ==     \* mutant: the wait has no time-out
    job[c].id \in given

\* xSemaphoreTake succeeds, or gives up after 2000 ms.
EndOfWait(c) ==
    \/ job[c].id \in given
    \/ PatientCallers => ~Pending(job[c].id)

OutcomeAlwaysOk == "RET_OK"  \* mutant: the error flag is not looked at

Outcome == IF send_paket_error = 1 THEN "RET_HARDWARE_ERROR" ELSE "RET_OK"

\* Token or time-out, the handle in send_paket_sem is deleted, whoever's it is,
\* and only the error flag decides what Sender returns.
Return(c) ==
    /\ pc[c] = "wait"
    /\ EndOfWait(c)
    /\ misused' = (misused \/ send_paket_sem \notin live)
    /\ live' = live \ {send_paket_sem}
    /\ given' = given \ {send_paket_sem}
    /\ send_paket_sem' = NoMsg
    /\ ret' = [ret EXCEPT ![c] = Outcome]
    /\ busy' = FALSE
    /\ pc' = [pc EXCEPT ![c] = "idle"]
    /\ UNCHANGED <<job, send_paket_error, send_queue, ack_wait_sem, tx, wire,
                   peerVars, accepted>>

-----------------------------------------------------------------------------
(* _sender_task.                                                           *)

TxStart ==
    /\ tx.st = "idle"
    /\ send_queue # <<>>
    /\ LET d == Head(send_queue) IN
         tx' = [st |-> "send", id |-> d.id, npk |-> d.npk, cur |-> 1, try |-> 0,
                sem |-> NoMsg]
    /\ send_queue' = Tail(send_queue)
    /\ UNCHANGED <<callerVars, busy, send_paket_sem, send_paket_error,
                   ack_wait_sem, semVars, wire, peerVars, accepted>>

CountedNot(n) == n           \* mutant: send_counter is not incremented

Counted(n) == n + 1

\* One attempt: the frame and "##" are written; noise may spoil the frame.
TxSend ==
    /\ tx.st = "send"
    /\ tx' = [tx EXCEPT !.st = "wait", !.try = Counted(@)]
    /\ \/ wire' = Append(wire, [id |-> tx.id, cur |-> tx.cur, tot |-> tx.npk])
       \/ UNCHANGED wire
    /\ UNCHANGED <<callerVars, busy, send_paket_sem, send_paket_error, send_queue,
                   ack_wait_sem, semVars, peerVars, accepted>>

LastTryOneMore == tx.try > MaxTries + 1   \* mutant: one attempt too many

LastTry == tx.try > MaxTries

\* ack_wait_sem taken: sended = false.  The test of send_counter comes after
\* it and raises the error on the last attempt even though it was answered.
TxAcked ==
    /\ tx.st = "wait"
    /\ ack_wait_sem
    /\ ack_wait_sem' = FALSE
    /\ tx' = [tx EXCEPT !.st = "check"]
    /\ send_paket_error' = IF LastTry THEN 1 ELSE send_paket_error
    /\ UNCHANGED <<callerVars, busy, send_paket_sem, send_queue, semVars, wire,
                   peerVars, accepted>>

\* No acknowledgement for 500 ticks: the packet is sent again, or abandoned.
TxTimeout ==
    /\ tx.st = "wait"
    /\ ~ack_wait_sem
    /\ TimelyAck => wire = <<>>
    /\ IF LastTry
         THEN tx' = [tx EXCEPT !.st = "check"] /\ send_paket_error' = 1
         ELSE tx' = [tx EXCEPT !.st = "send"] /\ UNCHANGED send_paket_error
    /\ UNCHANGED <<callerVars, busy, send_paket_sem, send_queue, ack_wait_sem,
                   semVars, wire, peerVars, accepted>>

PacketLoopEndsOnLast == tx.cur = tx.npk   \* mutant: no break on an error

PacketLoopEnds == send_paket_error > 0 \/ tx.cur = tx.npk

\* if (send_paket_error>0) break; else the next turn of the packet loop.
TxNext ==
    /\ tx.st = "check"
    /\ tx' = IF PacketLoopEnds
               THEN [tx EXCEPT !.st = "load"]
               ELSE [tx EXCEPT !.st = "send", !.cur = @ + 1, !.try = 0]
    /\ UNCHANGED <<callerVars, busy, send_paket_sem, send_paket_error, send_queue,
                   ack_wait_sem, semVars, wire, peerVars, accepted>>

\* if (send_paket_sem!=NULL) ...
TxLoadSem ==
    /\ tx.st = "load"
    /\ tx' = IF send_paket_sem = NoMsg
               THEN IdleTx
               ELSE [tx EXCEPT !.st = "give", !.sem = send_paket_sem]
    /\ UNCHANGED <<callerVars, busy, send_paket_sem, send_paket_error, send_queue,
                   ack_wait_sem, semVars, wire, peerVars, accepted>>

\* ... xSemaphoreGive(send_paket_sem).
TxGive ==
    /\ tx.st = "give"
    /\ given' = given \union ({tx.sem} \cap live)
    /\ misused' = (misused \/ tx.sem \notin live)
    /\ tx' = IdleTx
    /\ UNCHANGED <<callerVars, busy, send_paket_sem, send_paket_error, send_queue,
                   ack_wait_sem, live, wire, peerVars, accepted>>

-----------------------------------------------------------------------------
(* The peer: _event_task and _callback_task.                               *)

\* UART_PATTERN_DET: read one frame and pulse ATX; the sender's interrupt
\* handler gives ack_wait_sem, a binary semaphore.  The pulse may be missed.
RxTake ==
    /\ rx.st = "recv"
    /\ wire # <<>>
    /\ rx' = [st |-> "decode", frame |-> Head(wire)]
    /\ wire' = Tail(wire)
    /\ \E seen \in BOOLEAN : ack_wait_sem' = (ack_wait_sem \/ seen)
    /\ UNCHANGED <<callerVars, busy, send_paket_sem, send_paket_error, send_queue,
                   semVars, tx, buf, callback_sem, wait_sem, cb, delivered, accepted>>

StoreNoRealloc(b, f) ==      \* mutant: packet 1 reuses the buffer there is
    LET base == IF b.tot = 0 THEN [NoBuf EXCEPT !.tot = f.tot] ELSE b
    IN  [base EXCEPT !.parts[f.cur] = f.id]

\* paket_decode.  Packet 1 starts a new buffer; the bytes are copied in.
Store(b, f) ==
    LET base == IF f.cur = 1 THEN [NoBuf EXCEPT !.tot = f.tot] ELSE b
    IN  IF base.tot = 0 THEN base
                        ELSE [base EXCEPT !.parts[f.cur] = f.id]

\* paket_header is overwritten with 1 << current_pk, never or-ed, and compared
\* with 2 ^ total_pk; bits at and above HeaderBits are cut off.
Completes(b, f) == Store(b, f).tot # 0 /\ f.cur = f.tot /\ f.tot < HeaderBits

RxDecode ==
    /\ rx.st = "decode"
    /\ LET f == rx.frame IN
         /\ buf' = Store(buf, f)
         /\ cb' = IF f.cur = 1 /\ cb = "read" THEN "dangling" ELSE cb
         /\ IF Completes(buf, f)
              THEN /\ callback_sem' = TRUE
                   /\ rx' = [st |-> "handoff"]
                   /\ delivered' = delivered \union {f.id}
              ELSE /\ rx' = [st |-> "recv"]
                   /\ UNCHANGED <<callback_sem, delivered>>
    /\ UNCHANGED <<callerVars, busy, send_paket_sem, send_paket_error, send_queue,
                   ack_wait_sem, semVars, tx, wire, wait_sem, accepted>>

\* The wait for the callback ends with its token or after 1000 ms.
RxResume ==
    /\ rx.st = "handoff"
    /\ wait_sem \/ ~FastCallback
    /\ wait_sem' = FALSE
    /\ rx' = [st |-> "recv"]
    /\ UNCHANGED <<callerVars, busy, send_paket_sem, send_paket_error, send_queue,
                   ack_wait_sem, semVars, tx, wire, buf, callback_sem, cb,
                   delivered, accepted>>

\* UART_FIFO_OVF and UART_BUFFER_FULL: everything received so far is dropped.
RxOverflow ==
    /\ rx.st = "recv"
    /\ wire # <<>>
    /\ wire' = <<>>
    /\ UNCHANGED <<callerVars, busy, send_paket_sem, send_paket_error, send_queue,
                   ack_wait_sem, semVars, tx, peerVars, accepted>>

CbTake ==
    /\ cb = "idle"
    /\ callback_sem
    /\ callback_sem' = FALSE
    /\ cb' = "read"
    /\ UNCHANGED <<callerVars, busy, send_paket_sem, send_paket_error, send_queue,
                   ack_wait_sem, semVars, tx, wire, rx, buf, wait_sem, delivered,
                   accepted>>

\* The callback sleeps 50 ms, parses the buffer it was given, then works on.
CbParse ==
    /\ cb \in {"read", "dangling"}
    /\ cb' = "work"
    /\ UNCHANGED <<callerVars, busy, send_paket_sem, send_paket_error, send_queue,
                   ack_wait_sem, semVars, tx, wire, rx, buf, callback_sem, wait_sem,
                   delivered, accepted>>

CbDone ==
    /\ cb = "work"
    /\ wait_sem' = TRUE
    /\ cb' = "idle"
    /\ UNCHANGED <<callerVars, busy, send_paket_sem, send_paket_error, send_queue,
                   ack_wait_sem, semVars, tx, wire, rx, buf, callback_sem, delivered,
                   accepted>>

-----------------------------------------------------------------------------
Caller(c)    == Poll(c) \/ TestBusy(c) \/ Claim(c) \/ Return(c)
SenderTask   == TxStart \/ TxSend \/ TxAcked \/ TxTimeout \/ TxNext \/ TxLoadSem
                \/ TxGive
EventTask    == RxTake \/ RxDecode \/ RxResume
CallbackTask == CbTake \/ CbParse \/ CbDone

Next ==
    \/ \E c \in Callers : Caller(c)
    \/ SenderTask
    \/ EventTask
    \/ RxOverflow
    \/ CallbackTask

Spec == Init /\ [][Next]_vars

\* Every task runs again when it can: FreeRTOS schedules by priority and every
\* task of higher priority blocks on a queue, a semaphore or a delay.
Fairness ==
    /\ \A c \in Callers : WF_vars(TestBusy(c) \/ Claim(c) \/ Return(c))
    /\ WF_vars(SenderTask)
    /\ WF_vars(EventTask)
    /\ WF_vars(CallbackTask)

FairSpec == Spec /\ Fairness
-----------------------------------------------------------------------------
(* Properties.                                                             *)

Whole(b) == b.tot > 0 /\ \A i \in 1..b.tot : b.parts[i] = b.parts[1] /\ b.parts[i] # NoMsg

\* What the callback task parses (uart.cpp 34, 268) is one complete message:
\* every part of the buffer was filled, from a single message, and the buffer
\* has not been freed under the callback by a later packet 1 (uart.cpp 163-166).
CallbackReadsWhole ==
    /\ cb # "dangling"
    /\ cb = "read" => Whole(buf)

\* paket_decode never copies a packet outside the buffer, which was sized by
\* the first packet of some message (uart.cpp 165, 170), not by this one's.
BufferFits ==
    rx.st = "decode" => LET b == Store(buf, rx.frame)
                        IN  b.tot = 0 \/ rx.frame.cur <= b.tot

\* A caller told RET_OK (uart.cpp 123-154) has had its message handed to the
\* peer's callback, or the peer is just decoding the last packet of it; this is
\* so for messages of fewer than HeaderBits packets.
OkMeansReceived ==
    \A c \in Callers :
      ret[c] = "RET_OK" /\ pc[c] # "wait" /\ job[c].npk < HeaderBits =>
        \/ job[c].id \in delivered
        \/ /\ rx.st = "decode"
           /\ rx.frame = [id |-> job[c].id, cur |-> job[c].npk, tot |-> job[c].npk]

\* The semaphore a call makes is given and deleted while it exists, once, and
\* never under another call that waits on it (uart.cpp 115-116, 126-132).
SemaphoresSound ==
    /\ ~misused
    /\ \A c \in Callers : pc[c] = "wait" => job[c].id \in live

\* Between the two ends: messages are handed over in the order they were
\* queued, whatever is lost, late or repeated.
Ordered == INSTANCE OrderedLink WITH accepted <- accepted, delivered <- delivered
InOrder == Ordered!Spec

\* Every Sender call returns, even one whose wake-up went to another call.
CallReturns == \A c \in Callers : pc[c] = "wait" ~> pc[c] = "idle"

\* The sender task never stops on a message: whatever the peer does, a queued
\* message is eventually sent or abandoned and leaves the sender.
MessageLeaves == \A m \in Msgs : Pending(m) ~> ~Pending(m)

\* uart.cpp 103, "3 kez denendi no ack" (tried three times, no ack): the error is
\* raised for want of an acknowledgement, never by the step that receives one.
ErrorOnlyWithoutAck ==
    [][send_paket_error' > send_paket_error => ~(ack_wait_sem /\ ~ack_wait_sem')]_vars
=============================================================================
