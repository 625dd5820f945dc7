------------------------ MODULE UartGuaranteeProofs ------------------------
(***************************************************************************)
(* The four promises of the serial link to CPU1, for every number of       *)
(* callers, messages and packets, each under the timing it needs: that     *)
(* Sender's test of busy and its set are not interrupted, and that a wait  *)
(* of the code does not run out before what it waits for.                  *)
(***************************************************************************)
EXTENDS UartLinkProofs

\* Sender tests and sets busy without another task between, and its 2000 ms outlast the
\* sending of its message.
CallsAlone == ClaimIsAtomic /\ PatientCallers

\* And the 500 ticks outlast the peer's answer.
AcksInTime == CallsAlone /\ TimelyAck

\* And the peer's 1000 ms outlast its callback.
OnTime == AcksInTime /\ FastCallback

-----------------------------------------------------------------------------
(* One call at a time: the message in work is that of the call that waits. *)

Calling(c) == pc[c] \in {"claim", "wait"}

OneCall ==
    /\ \A c, d \in Callers : Calling(c) /\ Calling(d) => c = d
    /\ busy <=> \E c \in Callers : pc[c] = "wait"
    /\ \A c \in Callers : pc[c] = "wait" =>
         job[c] \in Item /\ send_paket_sem = job[c].id /\ job[c].id \in live
    /\ ~misused

\* The sender task and its queue have the message of the call that waits, one of the
\* two, or nothing; and as long as they have it the call has not been woken.
OneMessage ==
    /\ ~busy => tx.st = "idle" /\ send_queue = << >> /\ given = {}
    /\ tx.st # "idle" \/ send_queue # << >> => given = {}
    /\ given \subseteq {send_paket_sem}
    /\ tx.st # "idle" => send_queue = << >>
    /\ send_queue # << >> => Len(send_queue) = 1
    /\ tx.st = "give" => tx.sem = send_paket_sem
    /\ \A c \in Callers : pc[c] = "wait" =>
         /\ send_queue # << >> => send_queue[1] = job[c]
         /\ tx.st # "idle" => tx.id = job[c].id /\ tx.npk = job[c].npk

-----------------------------------------------------------------------------
(* One packet at a time: each is repeated until it was taken, and the next *)
(* is not sent before.                                                     *)

\* A buffer with the first k of the n packets of the message m.
Filled(m, k, n) == [tot |-> n, parts |-> [i \in 1..MaxPk |-> IF i <= k THEN m ELSE NoMsg]]

\* The buffer when the frame in work is decoded.
Decoded == IF rx.st = "decode" THEN Store(buf, rx.frame) ELSE buf

\* The peer has the last packet of m, the n-th.
HasLast(m, n) ==
    \/ m \in delivered
    \/ rx.st = "decode" /\ rx.frame = [id |-> m, cur |-> n, tot |-> n]

\* The sender knows that its packet was taken, or has given up.
Answered == ack_wait_sem \/ (tx.st \in {"check", "load", "give"} /\ send_paket_error = 0)

OnePacket ==
    /\ tx.st # "wait" => wire = << >> /\ ~ack_wait_sem
    /\ ack_wait_sem => wire = << >>
    /\ wire # << >> =>
         Len(wire) = 1 /\ wire[1] = [id |-> tx.id, cur |-> tx.cur, tot |-> tx.npk]
    /\ tx.st \in {"send", "wait"} =>
         \/ tx.cur = 1
         \/ \E k \in {tx.cur - 1, tx.cur} : Decoded = Filled(tx.id, k, tx.npk)
    /\ Answered =>
         /\ Decoded = Filled(tx.id, tx.cur, tx.npk)
         /\ tx.cur = tx.npk /\ tx.npk < HeaderBits => HasLast(tx.id, tx.npk)
    /\ tx.st \in {"load", "give"} /\ send_paket_error = 0 => tx.cur = tx.npk

-----------------------------------------------------------------------------
(* The peer: while the callback has the buffer the event task waits.       *)

\* The frame in work fits the buffer and continues it.
Fits ==
    rx.st = "decode" =>
        /\ rx.frame.cur <= rx.frame.tot
        /\ Store(buf, rx.frame) = Filled(rx.frame.id, rx.frame.cur, rx.frame.tot)

HandedOver ==
    /\ rx.st = "handoff" => Whole(buf)
    /\ rx.st # "handoff" => ~callback_sem /\ ~wait_sem /\ cb = "idle"
    /\ callback_sem => ~wait_sem /\ cb = "idle"
    /\ wait_sem => cb = "idle"
    /\ cb # "dangling"

\* A call that was told RET_OK, or will be, has had its message taken.
Told ==
    \A c \in Callers :
        /\ job[c].npk < HeaderBits
        /\ \/ ret[c] = "RET_OK" /\ pc[c] # "wait"
           \/ pc[c] = "wait" /\ tx.st = "idle" /\ send_queue = << >> /\ send_paket_error = 0
        => HasLast(job[c].id, job[c].npk)

CallInv == OneCall /\ OneMessage
LinkInv == CallInv /\ OnePacket /\ Fits /\ Told

-----------------------------------------------------------------------------
(* The steps.                                                              *)

\* Nothing is under way while a caller is about to make its call.
LEMMA ClaimIsAlone ==
  ASSUME OneCall, OneMessage, NEW c \in Callers, pc[c] = "claim"
  PROVE  /\ ~busy /\ tx.st = "idle" /\ send_queue = << >> /\ given = {}
         /\ \A d \in Callers \ {c} : ~Calling(d)
<1>1. \A d \in Callers \ {c} : ~Calling(d)
  BY DEF OneCall, Calling
<1>2. ~busy
  BY <1>1 DEF OneCall, Calling
<1> QED
  BY <1>1, <1>2 DEF OneMessage

\* A call ends when its message has left the sender.
LEMMA ReturnIsDone ==
  ASSUME Typed, PatientCallers, OneCall, OneMessage, NEW c \in Callers, Return(c)
  PROVE  /\ tx.st = "idle" /\ send_queue = << >>
         /\ send_paket_sem = job[c].id /\ send_paket_sem \in live
         /\ \A d \in Callers \ {c} : ~Calling(d)
<1>1. pc[c] = "wait" /\ (job[c].id \in given \/ ~Pending(job[c].id))
  BY DEF Return, EndOfWait
<1>2. tx.st = "idle"
  BY <1>1 DEF OneMessage, Pending
<1>3. send_queue = << >>
  <2>1. send_queue # << >> => given = {} /\ 1 \in 1..Len(send_queue) /\ send_queue[1] = job[c]
    BY <1>1 DEF OneMessage
  <2> QED BY <1>1, <2>1 DEF Pending
<1> QED
  BY <1>1, <1>2, <1>3 DEF OneCall, Calling

LEMMA OneCallNext ==
  ASSUME CallsAlone, Typed, OneCall, OneMessage, [Next]_vars
  PROVE  OneCall'
<1>1. ASSUME NEW c \in Callers, Poll(c)
      PROVE  OneCall'
  BY <1>1 DEF Poll, OneCall, Calling, Typed, TypeOK, semVars
<1>2. ASSUME NEW c \in Callers, TestBusy(c)
      PROVE  OneCall'
  <2>1. CASE busy
    <3>1. pc[c] = "ready" /\ pc' = [pc EXCEPT ![c] = "idle"]
      BY <1>2, <2>1 DEF TestBusy, Refuses
    <3> QED
      BY <1>2, <3>1 DEF TestBusy, OneCall, Calling, Typed, TypeOK, semVars
  <2>2. CASE ~busy
    <3>1. pc[c] = "ready" /\ pc' = [pc EXCEPT ![c] = "claim"]
      BY <1>2, <2>2 DEF TestBusy, Refuses
    <3>2. \A d \in Callers : ~Calling(d)
      BY <1>2, <2>2 DEF TestBusy, OneCall, Calling, CallsAlone
    <3> QED
      BY <1>2, <3>1, <3>2 DEF TestBusy, OneCall, Calling, Typed, TypeOK, semVars
  <2> QED BY <2>1, <2>2
<1>3. ASSUME NEW c \in Callers, Claim(c)
      PROVE  OneCall'
  <2>1. \A d \in Callers \ {c} : ~Calling(d)
    BY <1>3, ClaimIsAlone DEF Claim
  <2>2. PICK n \in 1..MaxPk :
          LET d == [id |-> accepted + 1, npk |-> n] IN
            /\ job' = [job EXCEPT ![c] = d]
            /\ send_paket_sem' = d.id
            /\ live' = live \union {d.id}
    BY <1>3 DEF Claim
  <2> DEFINE d == [id |-> accepted + 1, npk |-> n]
  <2>3. d \in Item
    BY <1>3, ConstantsAssumption DEF Claim, Item, Msgs, Typed, TypeOK
  <2> HIDE DEF d
  <2>4. job'[c] = d /\ send_paket_sem' = d.id /\ d.id \in live'
    BY <2>2 DEF d, Typed, TypeOK
  <2>5. pc' = [pc EXCEPT ![c] = "wait"] /\ busy' = TRUE /\ misused' = misused
    BY <1>3 DEF Claim
  <2> QED
    BY <2>1, <2>3, <2>4, <2>5 DEF OneCall, Calling, Typed, TypeOK
<1>4. ASSUME NEW c \in Callers, Return(c)
      PROVE  OneCall'
  <2>1. send_paket_sem \in live /\ \A d \in Callers \ {c} : ~Calling(d)
    BY <1>4, ReturnIsDone DEF CallsAlone
  <2>2. pc' = [pc EXCEPT ![c] = "idle"] /\ busy' = FALSE /\ ~misused'
    BY <1>4, <2>1 DEF Return, OneCall
  <2> QED
    BY <2>1, <2>2 DEF OneCall, Calling, Typed, TypeOK
<1>5. CASE TxGive
  <2>1. PICK c \in Callers : pc[c] = "wait"
    BY <1>5 DEF TxGive, OneMessage, OneCall
  <2>2. tx.sem \in live
    BY <1>5, <2>1 DEF TxGive, OneMessage, OneCall
  <2> QED
    BY <1>5, <2>2 DEF TxGive, OneCall, Calling, callerVars
<1>6. CASE \/ TxStart \/ TxSend \/ TxAcked \/ TxTimeout \/ TxNext \/ TxLoadSem
           \/ EventTask \/ RxOverflow \/ CallbackTask \/ UNCHANGED vars
  <2>1. UNCHANGED <<pc, job, busy, send_paket_sem, live, misused>>
    BY <1>6 DEF TxStart, TxSend, TxAcked, TxTimeout, TxNext, TxLoadSem, EventTask, RxTake,
                RxDecode, RxResume, RxOverflow, CallbackTask, CbTake, CbParse, CbDone,
                vars, callerVars, semVars
  <2> QED BY <2>1 DEF OneCall, Calling
<1> QED
  BY <1>1, <1>2, <1>3, <1>4, <1>5, <1>6 DEF Next, Caller, SenderTask

LEMMA OneMessageNext ==
  ASSUME CallsAlone, Typed, OneCall, OneMessage, [Next]_vars
  PROVE  OneMessage'
<1>1. ASSUME NEW c \in Callers, Poll(c) \/ TestBusy(c)
      PROVE  OneMessage'
  <2>1. UNCHANGED <<job, busy, send_paket_sem, send_queue, tx, given>>
        /\ \A d \in Callers : pc'[d] = "wait" => pc[d] = "wait"
    BY <1>1 DEF Poll, TestBusy, semVars, Typed, TypeOK
  <2> QED BY <2>1 DEF OneMessage
<1>2. ASSUME NEW c \in Callers, Claim(c)
      PROVE  OneMessage'
  <2>1. /\ tx.st = "idle" /\ send_queue = << >> /\ given = {}
        /\ \A d \in Callers \ {c} : ~Calling(d)
    BY <1>2, ClaimIsAlone DEF Claim
  <2>2. PICK n \in 1..MaxPk :
          LET d == [id |-> accepted + 1, npk |-> n] IN
            /\ job' = [job EXCEPT ![c] = d]
            /\ send_queue' = Enqueue(send_queue, d)
    BY <1>2 DEF Claim
  <2> DEFINE d == [id |-> accepted + 1, npk |-> n]
  <2>3. job'[c] = d /\ send_queue' = Enqueue(send_queue, d)
    BY <2>2 DEF Typed, TypeOK
  <2> HIDE DEF d
  <2>4. send_queue' = <<d>>
    BY <2>1, <2>3, ConstantsAssumption DEF Enqueue
  <2>5. Len(send_queue') = 1 /\ send_queue'[1] = d
    BY <2>4
  <2>6. UNCHANGED <<tx, given>> /\ busy' = TRUE /\ \A e \in Callers \ {c} : pc'[e] = pc[e]
    BY <1>2 DEF Claim, Typed, TypeOK
  <2> QED
    BY <2>1, <2>3, <2>5, <2>6 DEF OneMessage, Calling
<1>3. ASSUME NEW c \in Callers, Return(c)
      PROVE  OneMessage'
  <2>1. /\ tx.st = "idle" /\ send_queue = << >> /\ \A d \in Callers \ {c} : ~Calling(d)
        /\ send_paket_sem = job[c].id
    BY <1>3, ReturnIsDone DEF CallsAlone
  <2>2. given' = {}
    BY <1>3 DEF Return, OneMessage
  <2>3. UNCHANGED <<tx, send_queue>> /\ pc' = [pc EXCEPT ![c] = "idle"]
    BY <1>3 DEF Return
  <2> QED
    BY <2>1, <2>2, <2>3 DEF OneMessage, Calling, Typed, TypeOK
<1>4. CASE TxStart
  <2>1. /\ tx.st = "idle" /\ send_queue # << >> /\ send_queue' = Tail(send_queue)
        /\ tx' = [st |-> "send", id |-> Head(send_queue).id, npk |-> Head(send_queue).npk,
                  cur |-> 1, try |-> 0, sem |-> NoMsg]
        /\ UNCHANGED <<pc, job, busy, send_paket_sem, given>>
    BY <1>4 DEF TxStart, callerVars, semVars
  <2>2. given = {} /\ Len(send_queue) = 1 /\ busy /\ send_queue \in Seq(Item)
    BY <2>1 DEF OneMessage, Typed, TypeOK
  <2>3. send_queue' = << >> /\ Head(send_queue) = send_queue[1]
    BY <2>1, <2>2
  <2>4. tx'.st = "send" /\ tx'.id = send_queue[1].id /\ tx'.npk = send_queue[1].npk
    BY <2>1, <2>3
  <2> QED
    BY <2>1, <2>2, <2>3, <2>4 DEF OneMessage
<1>5. CASE TxSend \/ TxAcked \/ TxTimeout \/ TxNext
  <2>1. /\ tx.st # "idle" /\ tx'.st \in {"wait", "check", "send", "load"}
        /\ tx'.id = tx.id /\ tx'.npk = tx.npk
    BY <1>5 DEF TxSend, TxAcked, TxTimeout, TxNext, Typed, TypeOK, TxState
  <2>2. UNCHANGED <<pc, job, busy, send_paket_sem, send_queue, given>>
    BY <1>5 DEF TxSend, TxAcked, TxTimeout, TxNext, callerVars, semVars
  <2> QED
    BY <2>1, <2>2 DEF OneMessage
<1>6. CASE TxLoadSem
  <2>1. tx.st = "load" /\ UNCHANGED <<pc, job, busy, send_paket_sem, send_queue, given>>
    BY <1>6 DEF TxLoadSem, callerVars, semVars
  <2>2. PICK c \in Callers : pc[c] = "wait"
    BY <2>1 DEF OneMessage, OneCall
  <2>3. send_paket_sem # NoMsg
    BY <2>2 DEF OneCall, Item, Msgs, NoMsg
  <2>4. tx' = [tx EXCEPT !.st = "give", !.sem = send_paket_sem]
    BY <1>6, <2>3 DEF TxLoadSem
  <2>5. tx'.st = "give" /\ tx'.sem = send_paket_sem /\ tx'.id = tx.id /\ tx'.npk = tx.npk
    BY <2>4 DEF Typed, TypeOK, TxState
  <2> QED
    BY <2>1, <2>5 DEF OneMessage
<1>7. CASE TxGive
  <2>1. /\ tx.st = "give" /\ tx' = IdleTx
        /\ UNCHANGED <<pc, job, busy, send_paket_sem, send_queue>>
    BY <1>7 DEF TxGive, callerVars
  <2>2. busy /\ send_queue = << >> /\ given = {} /\ tx.sem = send_paket_sem
    BY <2>1 DEF OneMessage
  <2>3. given' \subseteq {send_paket_sem}
    BY <1>7, <2>2 DEF TxGive
  <2> QED
    BY <2>1, <2>2, <2>3 DEF OneMessage, IdleTx
<1>8. CASE EventTask \/ RxOverflow \/ CallbackTask \/ UNCHANGED vars
  <2>1. UNCHANGED <<pc, job, busy, send_paket_sem, send_queue, tx, given>>
    BY <1>8 DEF EventTask, RxTake, RxDecode, RxResume, RxOverflow, CallbackTask, CbTake,
                CbParse, CbDone, vars, callerVars, semVars
  <2> QED BY <2>1 DEF OneMessage
<1> QED
  BY <1>1, <1>2, <1>3, <1>4, <1>5, <1>6, <1>7, <1>8 DEF Next, Caller, SenderTask

LEMMA StoreFilled ==
  ASSUME NEW b, NEW f \in Frame,
         \/ f.cur = 1
         \/ \E k \in {f.cur - 1, f.cur} : b = Filled(f.id, k, f.tot)
  PROVE  Store(b, f) = Filled(f.id, f.cur, f.tot)
<1>1. f.id \in Msgs /\ f.cur \in 1..MaxPk /\ f.tot \in 1..MaxPk /\ f.tot # 0
  BY DEF Frame
<1>2. CASE f.cur = 1
  <2> DEFINE p == [i \in 1..MaxPk |-> NoMsg]
  <2>1. NoBuf = [tot |-> 0, parts |-> p]
    BY DEF NoBuf
  <2>2. [p EXCEPT ![1] = f.id] = [i \in 1..MaxPk |-> IF i <= 1 THEN f.id ELSE NoMsg]
    <3>1. \A i \in 1..MaxPk : i <= 1 <=> i = 1
      OBVIOUS
    <3> QED BY <3>1
  <2> HIDE DEF p
  <2>3. Store(b, f) = [tot |-> f.tot, parts |-> [p EXCEPT ![1] = f.id]]
    BY <1>1, <1>2, <2>1 DEF Store
  <2> QED BY <1>2, <2>2, <2>3 DEF Filled
<1>3. CASE f.cur # 1
  <2>1. PICK k \in {f.cur - 1, f.cur} : b = Filled(f.id, k, f.tot)
    BY <1>3
  <2> DEFINE p == [i \in 1..MaxPk |-> IF i <= k THEN f.id ELSE NoMsg]
  <2>2. b = [tot |-> f.tot, parts |-> p]
    BY <2>1 DEF Filled
  <2> HIDE DEF p
  <2>3. Store(b, f) = [tot |-> f.tot, parts |-> [p EXCEPT ![f.cur] = f.id]]
    BY <1>1, <1>3, <2>2 DEF Store
  <2>4. [p EXCEPT ![f.cur] = f.id] = [i \in 1..MaxPk |-> IF i <= f.cur THEN f.id ELSE NoMsg]
    <3>1. k \in Nat /\ (k = f.cur \/ f.cur = k + 1)
      BY <1>1, <2>1
    <3>2. \A i \in 1..MaxPk : i = f.cur \/ (i <= k <=> i <= f.cur)
      BY <1>1, <3>1
    <3> DEFINE q == [p EXCEPT ![f.cur] = f.id]
    <3>3. q = [i \in 1..MaxPk |-> IF i = f.cur THEN f.id ELSE p[i]]
      BY DEF p
    <3>4. \A i \in 1..MaxPk : (IF i = f.cur THEN f.id ELSE p[i])
                                  = (IF i <= f.cur THEN f.id ELSE NoMsg)
      BY <1>1, <3>2 DEF p
    <3> HIDE DEF p
    <3> QED BY <3>3, <3>4
  <2> QED BY <2>3, <2>4 DEF Filled
<1> QED BY <1>2, <1>3

\* The last packet of a message that is not too long for paket_header is not lost once
\* it was taken.
LEMMA HasLastStays ==
  ASSUME Typed, Fits, [Next]_vars, NEW m, NEW n, n < HeaderBits, HasLast(m, n)
  PROVE  HasLast(m, n)'
<1>1. CASE RxDecode
  <2>1. /\ rx.st = "decode" /\ rx.frame \in Frame
        /\ IF Completes(buf, rx.frame) THEN delivered' = delivered \union {rx.frame.id}
                                       ELSE UNCHANGED delivered
    BY <1>1 DEF RxDecode, Typed, TypeOK, RxState
  <2>2. CASE rx.frame = [id |-> m, cur |-> n, tot |-> n]
    <3>1. rx.frame.id = m /\ rx.frame.cur = n /\ rx.frame.tot = n
      BY <2>2
    <3>2. Store(buf, rx.frame).tot = n /\ n # 0
      BY <2>1, <3>1 DEF Fits, Filled, Frame
    <3>3. Completes(buf, rx.frame)
      BY <3>1, <3>2 DEF Completes
    <3> QED BY <2>1, <3>1, <3>3 DEF HasLast
  <2>3. CASE m \in delivered
    BY <2>1, <2>3 DEF HasLast
  <2> QED BY <2>2, <2>3 DEF HasLast
<1>2. CASE RxTake
  BY <1>2 DEF RxTake, HasLast
<1>3. CASE RxResume
  BY <1>3 DEF RxResume, HasLast
<1>4. CASE \/ \E c \in Callers : Caller(c)
           \/ SenderTask \/ RxOverflow \/ CallbackTask \/ UNCHANGED vars
  <2>1. UNCHANGED <<rx, delivered>>
    BY <1>4 DEF Caller, Poll, TestBusy, Claim, Return, SenderTask, TxStart, TxSend, TxAcked,
                TxTimeout, TxNext, TxLoadSem, TxGive, RxOverflow, CallbackTask, CbTake,
                CbParse, CbDone, vars, peerVars
  <2> QED BY <2>1 DEF HasLast
<1> QED BY <1>1, <1>2, <1>3, <1>4 DEF Next, EventTask

\* What the peer takes is the packet in work, and its buffer holds it then.
LEMMA TakenFits ==
  ASSUME Typed, OnePacket, RxTake
  PROVE  LET f == [id |-> tx.id, cur |-> tx.cur, tot |-> tx.npk] IN
         /\ rx.st = "recv" /\ tx.st = "wait" /\ wire' = << >>
         /\ rx'.st = "decode" /\ rx'.frame = f
         /\ f \in Frame /\ tx.cur <= tx.npk
         /\ Store(buf, f) = Filled(tx.id, tx.cur, tx.npk)
<1> DEFINE f == [id |-> tx.id, cur |-> tx.cur, tot |-> tx.npk]
<1>1. /\ rx.st = "recv" /\ wire # << >> /\ wire' = Tail(wire)
      /\ rx' = [st |-> "decode", frame |-> Head(wire)]
  BY DEF RxTake
<1>2. tx.st = "wait" /\ Len(wire) = 1 /\ wire[1] = f /\ wire \in Seq(Frame)
  BY <1>1 DEF OnePacket, Typed, TypeOK
<1>3. Head(wire) = f /\ wire' = << >> /\ f \in Frame
  BY <1>1, <1>2
<1>4. tx.cur <= tx.npk /\ tx.npk \in 1..MaxPk /\ tx.cur \in Nat
  BY <1>2 DEF Typed, TxOK
<1>5. f.id = tx.id /\ f.cur = tx.cur /\ f.tot = tx.npk
  OBVIOUS
<1>6. Decoded = buf
  BY <1>1 DEF Decoded
<1> HIDE DEF f
<1>7. \/ f.cur = 1
      \/ \E k \in {f.cur - 1, f.cur} : buf = Filled(f.id, k, f.tot)
  BY <1>2, <1>5, <1>6 DEF OnePacket
<1>8. Store(buf, f) = Filled(f.id, f.cur, f.tot)
  BY <1>3, <1>7, StoreFilled
<1> QED
  BY <1>1, <1>2, <1>3, <1>4, <1>5, <1>8 DEF f

LEMMA OnePacketNext ==
  ASSUME TimelyAck, Typed, OneCall, OneMessage, OnePacket, Fits, [Next]_vars
  PROVE  OnePacket'
<1>1. ASSUME NEW c \in Callers, Caller(c)
      PROVE  OnePacket'
  <2>1. UNCHANGED <<wire, ack_wait_sem, tx, rx, buf, delivered>>
    BY <1>1 DEF Caller, Poll, TestBusy, Claim, Return, peerVars
  <2>2. CASE UNCHANGED send_paket_error
    BY <2>1, <2>2 DEF OnePacket, Answered, Decoded, HasLast
  <2>3. CASE Claim(c)
    <3>1. tx.st = "idle"
      BY <2>3, ClaimIsAlone DEF Claim
    <3> QED BY <2>1, <3>1 DEF OnePacket, Answered, Decoded, HasLast
  <2> QED BY <1>1, <2>2, <2>3 DEF Caller, Poll, TestBusy, Return
<1>2. CASE TxStart
  <2>1. /\ tx.st = "idle" /\ tx'.st = "send" /\ tx'.cur = 1
        /\ UNCHANGED <<wire, ack_wait_sem, rx, buf>>
    BY <1>2 DEF TxStart, peerVars
  <2> QED BY <2>1 DEF OnePacket, Answered
<1>3. CASE TxSend
  <2> DEFINE f == [id |-> tx.id, cur |-> tx.cur, tot |-> tx.npk]
  <2>1. /\ tx.st = "send" /\ tx' = [tx EXCEPT !.st = "wait", !.try = Counted(@)]
        /\ wire' \in {wire, Append(wire, f)}
        /\ UNCHANGED <<ack_wait_sem, rx, buf, delivered>>
    BY <1>3 DEF TxSend, peerVars
  <2>2. tx'.st = "wait" /\ tx'.id = tx.id /\ tx'.cur = tx.cur /\ tx'.npk = tx.npk
    BY <2>1 DEF Typed, TypeOK, TxState
  <2> HIDE DEF f
  <2>3. wire = << >> /\ ~ack_wait_sem /\ wire' \in {<< >>, <<f>>}
    BY <2>1 DEF OnePacket
  <2>4. wire' # << >> => Len(wire') = 1 /\ wire'[1] = f
    BY <2>3
  <2> QED BY <2>1, <2>2, <2>3, <2>4 DEF OnePacket, Answered, Decoded, f
<1>4. CASE TxAcked
  <2>1. /\ tx.st = "wait" /\ ack_wait_sem /\ ~ack_wait_sem' /\ tx' = [tx EXCEPT !.st = "check"]
        /\ UNCHANGED <<wire, rx, buf, delivered>>
    BY <1>4 DEF TxAcked, peerVars
  <2>2. tx'.st = "check" /\ tx'.id = tx.id /\ tx'.cur = tx.cur /\ tx'.npk = tx.npk
    BY <2>1 DEF Typed, TypeOK, TxState
  <2>3. /\ Decoded' = Filled(tx'.id, tx'.cur, tx'.npk)
        /\ tx'.cur = tx'.npk /\ tx'.npk < HeaderBits => HasLast(tx.id, tx.npk)'
    BY <2>1, <2>2 DEF OnePacket, Answered, Decoded, HasLast
  <2> QED BY <2>1, <2>2, <2>3 DEF OnePacket, HasLast
<1>5. CASE TxTimeout
  <2>1. /\ tx.st = "wait" /\ ~ack_wait_sem /\ wire = << >>
        /\ \/ tx' = [tx EXCEPT !.st = "check"] /\ send_paket_error' = 1
           \/ tx' = [tx EXCEPT !.st = "send"]
        /\ UNCHANGED <<wire, ack_wait_sem, rx, buf, delivered>>
    BY <1>5 DEF TxTimeout, peerVars
  <2>2. /\ tx'.id = tx.id /\ tx'.cur = tx.cur /\ tx'.npk = tx.npk
        /\ tx'.st = "send" \/ (tx'.st = "check" /\ send_paket_error' = 1)
    BY <2>1 DEF Typed, TypeOK, TxState
  <2> QED BY <2>1, <2>2 DEF OnePacket, Answered, Decoded
<1>6. CASE TxNext
  <2>1. /\ tx.st = "check"
        /\ UNCHANGED <<send_paket_error, wire, ack_wait_sem, rx, buf, delivered>>
    BY <1>6 DEF TxNext, peerVars
  <2>2. CASE PacketLoopEnds
    <3>1. tx'.st = "load" /\ tx'.id = tx.id /\ tx'.cur = tx.cur /\ tx'.npk = tx.npk
      BY <1>6, <2>2 DEF TxNext, Typed, TypeOK, TxState
    <3>2. send_paket_error = 0 => tx.cur = tx.npk
      BY <2>2 DEF PacketLoopEnds
    <3> QED BY <2>1, <3>1, <3>2 DEF OnePacket, Answered, Decoded, HasLast
  <2>3. CASE ~PacketLoopEnds
    <3>1. tx'.st = "send" /\ tx'.id = tx.id /\ tx'.cur = tx.cur + 1 /\ tx'.npk = tx.npk
          /\ tx.cur \in Nat
      BY <1>6, <2>3 DEF TxNext, Typed, TypeOK, TxState
    <3>2. send_paket_error = 0
      BY <2>3 DEF PacketLoopEnds, Typed, TypeOK
    <3>3. Decoded' = Filled(tx'.id, tx'.cur - 1, tx'.npk)
      BY <2>1, <3>1, <3>2 DEF OnePacket, Answered, Decoded
    <3> QED BY <2>1, <3>1, <3>3 DEF OnePacket, Answered
  <2> QED BY <2>2, <2>3
<1>7. CASE TxLoadSem
  <2>1. /\ tx.st = "load"
        /\ UNCHANGED <<send_paket_error, wire, ack_wait_sem, rx, buf, delivered>>
        /\ tx' = IdleTx \/ tx' = [tx EXCEPT !.st = "give", !.sem = send_paket_sem]
    BY <1>7 DEF TxLoadSem, peerVars
  <2>2. \/ tx'.st = "idle"
        \/ tx'.st = "give" /\ tx'.id = tx.id /\ tx'.cur = tx.cur /\ tx'.npk = tx.npk
    <3>1. IdleTx.st = "idle"
      BY DEF IdleTx
    <3> QED BY <2>1, <3>1 DEF Typed, TypeOK, TxState
  <2>3. UNCHANGED <<send_paket_error, wire, ack_wait_sem, rx, buf, delivered>> /\ wire = << >>
        /\ ~ack_wait_sem
    BY <2>1 DEF OnePacket
  <2>4. CASE tx'.st = "idle"
    BY <2>3, <2>4 DEF OnePacket, Answered
  <2>5. CASE tx'.st = "give" /\ tx'.id = tx.id /\ tx'.cur = tx.cur /\ tx'.npk = tx.npk
    BY <2>1, <2>3, <2>5 DEF OnePacket, Answered, Decoded, HasLast
  <2> QED BY <2>2, <2>4, <2>5
<1>8. CASE TxGive
  BY <1>8 DEF TxGive, IdleTx, OnePacket, Answered
<1>9. CASE RxTake
  <2> DEFINE f == [id |-> tx.id, cur |-> tx.cur, tot |-> tx.npk]
  <2>1. /\ tx.st = "wait" /\ wire' = << >>
        /\ rx'.st = "decode" /\ rx'.frame = f
        /\ Store(buf, f) = Filled(tx.id, tx.cur, tx.npk)
    BY <1>9, TakenFits
  <2> HIDE DEF f
  <2>2. UNCHANGED <<tx, buf, send_paket_error>>
    BY <1>9 DEF RxTake
  <2>3. Decoded' = Filled(tx'.id, tx'.cur, tx'.npk)
    BY <2>1, <2>2 DEF Decoded
  <2>4. tx'.cur = tx'.npk => HasLast(tx.id, tx.npk)'
    BY <2>1, <2>2 DEF HasLast, f
  <2> QED BY <2>1, <2>2, <2>3, <2>4 DEF OnePacket, HasLast
<1>10. CASE RxDecode \/ RxResume \/ RxOverflow \/ CallbackTask \/ UNCHANGED vars
  <2>1. UNCHANGED <<tx, send_paket_error, ack_wait_sem>> /\ wire' \in {wire, << >>}
        /\ (wire' # wire => rx' = rx)
    BY <1>10 DEF RxDecode, RxResume, RxOverflow, CallbackTask, CbTake, CbParse, CbDone, vars,
                 peerVars
  <2>2. Decoded' = Decoded
    BY <1>10 DEF RxDecode, RxResume, RxOverflow, CallbackTask, CbTake, CbParse, CbDone, vars,
                 peerVars, Decoded
  <2>3. tx.npk < HeaderBits /\ HasLast(tx.id, tx.npk) => HasLast(tx.id, tx.npk)'
    <3>1. \A m, n : n < HeaderBits /\ HasLast(m, n) => HasLast(m, n)'
      BY HasLastStays
    <3> QED BY <2>1, <3>1
  <2> QED BY <2>1, <2>2, <2>3 DEF OnePacket, Answered
<1> QED
  BY <1>1, <1>2, <1>3, <1>4, <1>5, <1>6, <1>7, <1>8, <1>9, <1>10
  DEF Next, SenderTask, EventTask

LEMMA FitsNext ==
  ASSUME Typed, OnePacket, Fits, [Next]_vars
  PROVE  Fits'
<1>1. CASE RxTake
  <2>1. /\ rx'.frame.cur <= rx'.frame.tot /\ buf' = buf
        /\ Store(buf, rx'.frame) = Filled(rx'.frame.id, rx'.frame.cur, rx'.frame.tot)
    BY <1>1, TakenFits DEF RxTake
  <2> QED BY <2>1 DEF Fits
<1>2. CASE RxDecode \/ RxResume
  <2>1. rx'.st # "decode"
    BY <1>2 DEF RxDecode, RxResume
  <2> QED BY <2>1 DEF Fits
<1>3. CASE \/ \E c \in Callers : Caller(c)
           \/ SenderTask \/ RxOverflow \/ CallbackTask \/ UNCHANGED vars
  <2>1. UNCHANGED <<rx, buf>>
    BY <1>3 DEF Caller, Poll, TestBusy, Claim, Return, SenderTask, TxStart, TxSend, TxAcked,
                TxTimeout, TxNext, TxLoadSem, TxGive, RxOverflow, CallbackTask, CbTake,
                CbParse, CbDone, vars, peerVars
  <2> QED BY <2>1 DEF Fits
<1> QED
  BY <1>1, <1>2, <1>3 DEF Next, EventTask

LEMMA HandedOverNext ==
  ASSUME FastCallback, Typed, Fits, HandedOver, [Next]_vars
  PROVE  HandedOver'
<1>1. CASE RxTake
  BY <1>1 DEF RxTake, HandedOver
<1>2. CASE RxDecode
  <2> DEFINE f == rx.frame
  <2>1. /\ rx.st = "decode" /\ buf' = Filled(f.id, f.cur, f.tot) /\ f \in Frame
        /\ ~callback_sem /\ ~wait_sem /\ cb = "idle" /\ cb' = cb /\ wait_sem' = wait_sem
    BY <1>2 DEF RxDecode, HandedOver, Fits, Typed, TypeOK, RxState
  <2>2. CASE Completes(buf, f)
    <3>1. rx'.st = "handoff" /\ f.cur = f.tot /\ callback_sem'
      BY <1>2, <2>2 DEF RxDecode, Completes
    <3>2. Whole(buf')
      <4>1. f.id \in Msgs /\ f.id # NoMsg /\ f.tot \in 1..MaxPk /\ f.tot \in Nat
        BY <2>1 DEF Frame, Msgs, NoMsg
      <4>2. /\ buf'.tot = f.tot
            /\ \A i \in 1..MaxPk : i <= f.tot => buf'.parts[i] = f.id
        BY <2>1, <3>1 DEF Filled
      <4>3. \A i \in 1..f.tot : buf'.parts[i] = f.id
        BY <4>1, <4>2, ConstantsAssumption
      <4> QED BY <4>1, <4>2, <4>3 DEF Whole
    <3> QED BY <2>1, <3>1, <3>2 DEF HandedOver, Whole
  <2>3. CASE ~Completes(buf, f)
    <3>1. rx'.st = "recv" /\ UNCHANGED callback_sem
      BY <1>2, <2>3 DEF RxDecode
    <3> QED BY <2>1, <3>1 DEF HandedOver
  <2> QED BY <2>2, <2>3
<1>3. CASE RxResume
  BY <1>3 DEF RxResume, HandedOver
<1>4. CASE CbTake
  BY <1>4 DEF CbTake, HandedOver
<1>5. CASE CbParse
  BY <1>5 DEF CbParse, HandedOver
<1>6. CASE CbDone
  BY <1>6 DEF CbDone, HandedOver
<1>7. CASE \/ \E c \in Callers : Caller(c)
           \/ SenderTask \/ RxOverflow \/ UNCHANGED vars
  <2>1. UNCHANGED <<rx, buf, callback_sem, wait_sem, cb>>
    BY <1>7 DEF Caller, Poll, TestBusy, Claim, Return, SenderTask, TxStart, TxSend, TxAcked,
                TxTimeout, TxNext, TxLoadSem, TxGive, RxOverflow, vars, peerVars
  <2> QED BY <2>1 DEF HandedOver
<1> QED
  BY <1>1, <1>2, <1>3, <1>4, <1>5, <1>6, <1>7 DEF Next, EventTask, CallbackTask

LEMMA ToldNext ==
  ASSUME PatientCallers, Typed, LinkInv, [Next]_vars
  PROVE  Told'
<1> USE DEF LinkInv, CallInv
<1>1. \A m, n : n < HeaderBits /\ HasLast(m, n) => HasLast(m, n)'
  BY HasLastStays
<1>2. ASSUME NEW c \in Callers, Poll(c) \/ TestBusy(c)
      PROVE  Told'
  <2>1. UNCHANGED <<job, tx, send_queue, send_paket_error, rx, delivered>>
    BY <1>2 DEF Poll, TestBusy, peerVars
  <2>2. \A d \in Callers : /\ pc'[d] = "wait" <=> pc[d] = "wait"
                           /\ ret'[d] = "RET_OK" => ret[d] = "RET_OK"
    BY <1>2 DEF Poll, TestBusy, Typed, TypeOK
  <2> QED BY <2>1, <2>2 DEF Told, HasLast
<1>3. ASSUME NEW c \in Callers, Claim(c)
      PROVE  Told'
  <2>1. send_queue = << >> /\ \A d \in Callers \ {c} : ~Calling(d)
    BY <1>3, ClaimIsAlone DEF Claim
  <2>2. PICK n \in 1..MaxPk :
          LET d == [id |-> accepted + 1, npk |-> n] IN
            /\ job' = [job EXCEPT ![c] = d]
            /\ send_queue' = Enqueue(send_queue, d)
    BY <1>3 DEF Claim
  <2>3. send_queue' # << >>
    <3> DEFINE d == [id |-> accepted + 1, npk |-> n]
    <3> HIDE DEF d
    <3>1. send_queue' = <<d>>
      BY <2>1, <2>2, ConstantsAssumption DEF Enqueue, d
    <3> QED BY <3>1
  <2>4. pc' = [pc EXCEPT ![c] = "wait"] /\ UNCHANGED <<ret, rx, delivered>>
        /\ \A d \in Callers \ {c} : job'[d] = job[d]
    BY <1>3, <2>2 DEF Claim, peerVars, Typed, TypeOK
  <2> QED BY <2>1, <2>3, <2>4 DEF Told, HasLast, Calling, Typed, TypeOK
<1>4. ASSUME NEW c \in Callers, Return(c)
      PROVE  Told'
  <2>1. tx.st = "idle" /\ send_queue = << >> /\ \A d \in Callers \ {c} : ~Calling(d)
    BY <1>4, ReturnIsDone
  <2>2. /\ pc[c] = "wait" /\ pc' = [pc EXCEPT ![c] = "idle"]
        /\ ret' = [ret EXCEPT ![c] = Outcome] /\ UNCHANGED <<job, rx, delivered>>
    BY <1>4 DEF Return, peerVars
  <2>3. Outcome = "RET_OK" => send_paket_error = 0
    BY DEF Outcome, Typed, TypeOK
  <2> QED BY <2>1, <2>2, <2>3 DEF Told, HasLast, Calling, Typed, TypeOK
<1>5. CASE SenderTask
  <2>1. UNCHANGED <<pc, job, ret, rx, delivered>>
    BY <1>5 DEF SenderTask, TxStart, TxSend, TxAcked, TxTimeout, TxNext, TxLoadSem, TxGive,
                callerVars, peerVars
  <2>2. CASE tx'.st # "idle"
    BY <2>1, <2>2 DEF Told, HasLast
  <2>3. CASE tx'.st = "idle"
    <3>1. tx.st \in {"load", "give"} /\ UNCHANGED send_paket_error
      <4>1. TxLoadSem \/ TxGive => tx.st \in {"load", "give"} /\ UNCHANGED send_paket_error
        BY DEF TxLoadSem, TxGive
      <4>2. TxSend \/ TxAcked \/ TxTimeout \/ TxNext => tx'.st # "idle"
        BY DEF TxSend, TxAcked, TxTimeout, TxNext, Typed, TypeOK, TxState
      <4>3. TxStart => tx'.st # "idle"
        BY DEF TxStart
      <4> QED BY <1>5, <2>3, <4>1, <4>2, <4>3 DEF SenderTask
    <3>2. send_paket_error = 0 /\ tx.npk < HeaderBits => HasLast(tx.id, tx.npk)
      BY <3>1 DEF OnePacket, Answered
    <3>3. \A c \in Callers : pc[c] = "wait" => tx.id = job[c].id /\ tx.npk = job[c].npk
      BY <3>1 DEF OneMessage
    <3> QED BY <2>1, <3>1, <3>2, <3>3 DEF Told, HasLast
  <2> QED BY <2>2, <2>3
<1>6. CASE EventTask \/ RxOverflow \/ CallbackTask \/ UNCHANGED vars
  <2>1. UNCHANGED <<pc, job, ret, tx, send_queue, send_paket_error>>
    BY <1>6 DEF EventTask, RxTake, RxDecode, RxResume, RxOverflow, CallbackTask, CbTake,
                CbParse, CbDone, vars, callerVars
  <2> QED BY <1>1, <2>1 DEF Told
<1> QED
  BY <1>2, <1>3, <1>4, <1>5, <1>6 DEF Next, Caller

LEMMA LinkInit == Init => LinkInv /\ HandedOver
<1> SUFFICES ASSUME Init PROVE LinkInv /\ HandedOver
  OBVIOUS
<1>1. \A c \in Callers : pc[c] = "idle" /\ ret[c] = "none"
  BY DEF Init
<1>2. tx.st = "idle" /\ rx.st = "recv"
  BY DEF Init, IdleTx
<1>3. OneCall /\ OneMessage
  BY <1>1, <1>2 DEF Init, OneCall, OneMessage, Calling
<1>4. OnePacket /\ Fits /\ HandedOver
  BY <1>2 DEF Init, OnePacket, Fits, HandedOver, Answered
<1>5. Told
  BY <1>1 DEF Told
<1> QED BY <1>3, <1>4, <1>5 DEF LinkInv, CallInv

LEMMA CallsHold == CallsAlone => (Spec => [](Typed /\ CallInv))
<1> SUFFICES ASSUME CallsAlone PROVE Spec => [](Typed /\ CallInv)
  OBVIOUS
<1>1. Typed /\ CallInv /\ [Next]_vars => Typed' /\ CallInv'
  BY NextTyped, OneCallNext, OneMessageNext DEF CallInv
<1>2. Init => Typed /\ CallInv
  BY InitTyped, LinkInit DEF LinkInv
<1> QED BY <1>1, <1>2, PTL DEF Spec

LEMMA LinkHolds == AcksInTime => (Spec => [](Typed /\ LinkInv))
<1> SUFFICES ASSUME AcksInTime PROVE Spec => [](Typed /\ LinkInv)
  OBVIOUS
<1>1. Typed /\ LinkInv /\ [Next]_vars => Typed' /\ LinkInv'
  BY NextTyped, OneCallNext, OneMessageNext, OnePacketNext, FitsNext, ToldNext
  DEF LinkInv, CallInv, AcksInTime, CallsAlone
<1>2. Init => Typed /\ LinkInv
  BY InitTyped, LinkInit
<1> QED BY <1>1, <1>2, PTL DEF Spec

-----------------------------------------------------------------------------
(* The promises.                                                           *)

\* The semaphore of a call is given and deleted once, while it exists, and no call
\* loses the one it waits for to another (uart.cpp 115-116, 126-132).
THEOREM SemaphoresAreSound == CallsAlone => (Spec => []SemaphoresSound)
<1> SUFFICES ASSUME CallsAlone PROVE Spec => []SemaphoresSound
  OBVIOUS
<1>1. Typed /\ CallInv => SemaphoresSound
  BY DEF CallInv, OneCall, SemaphoresSound
<1> QED BY <1>1, CallsHold, PTL

\* paket_decode copies within the buffer the first packet has sized (uart.cpp 165-170).
THEOREM CopiesFit == AcksInTime => (Spec => []BufferFits)
<1> SUFFICES ASSUME AcksInTime PROVE Spec => []BufferFits
  OBVIOUS
<1>1. Typed /\ LinkInv => BufferFits
  BY DEF LinkInv, Fits, BufferFits, Filled
<1> QED BY <1>1, LinkHolds, PTL

\* A caller told RET_OK has had its message handed to the peer's callback, or the peer
\* is at its last packet (uart.cpp 123-154): for any message shorter than paket_header.
THEOREM OkIsTrue == AcksInTime => (Spec => []OkMeansReceived)
<1> SUFFICES ASSUME AcksInTime PROVE Spec => []OkMeansReceived
  OBVIOUS
<1>1. Typed /\ LinkInv => OkMeansReceived
  BY DEF LinkInv, Told, OkMeansReceived, HasLast
<1> QED BY <1>1, LinkHolds, PTL

\* What the callback task of the peer parses is one whole message, and no later packet
\* frees it meanwhile (uart.cpp 34, 163-176, 268).
THEOREM CallbackIsWhole == OnTime => (Spec => []CallbackReadsWhole)
<1> SUFFICES ASSUME OnTime PROVE Spec => []CallbackReadsWhole
  OBVIOUS
<1>1. AcksInTime /\ FastCallback
  BY DEF OnTime
<1>2. Spec => [](Typed /\ LinkInv)
  BY <1>1, LinkHolds
<1>3. Typed /\ LinkInv /\ HandedOver /\ [Next]_vars => HandedOver'
  BY <1>1, HandedOverNext DEF LinkInv
<1>4. Typed /\ LinkInv /\ HandedOver => CallbackReadsWhole
  BY DEF HandedOver, CallbackReadsWhole, Typed, TypeOK, RxState
<1> QED BY <1>2, <1>3, <1>4, LinkInit, PTL DEF Spec
=============================================================================
