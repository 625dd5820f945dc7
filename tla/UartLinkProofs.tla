--------------------------- MODULE UartLinkProofs ---------------------------
(***************************************************************************)
(* What is proved of UartLink for every number of callers, messages and    *)
(* packets and for every schedule.                                         *)
(***************************************************************************)
EXTENDS UartLink, TLAPS

\* The sender task's locals: a message in work has a packet in work, and an
\* attempt is only started while attempts are left.
TxOK ==
    /\ tx.st # "idle" => tx.id \in Msgs /\ tx.npk \in 1..MaxPk /\ tx.cur \in 1..tx.npk
    /\ tx.st = "send" => tx.try <= MaxTries

Typed == TypeOK /\ TxOK

LEMMA InitTyped == Init => Typed
<1> SUFFICES ASSUME Init PROVE Typed
  OBVIOUS
<1> USE ConstantsAssumption DEF Init, Msgs, NoMsg
<1>1. tx \in TxState /\ TxOK
  BY DEF TxState, IdleTx, TxOK
<1>2. rx \in RxState
  BY DEF RxState
<1>3. buf \in Buffer
  BY DEF Buffer, NoBuf
<1>4. job \in [Callers -> Item \union {NoItem}]
  OBVIOUS
<1>5. send_queue \in Seq(Item) /\ Len(send_queue) <= QueueLen /\ wire \in Seq(Frame)
  OBVIOUS
<1>6. pc \in [Callers -> {"idle", "ready", "claim", "wait"}] /\ ret \in [Callers -> Results]
  BY DEF Results
<1>7. accepted \in 0..MaxMsgs /\ delivered \subseteq Msgs /\ live \subseteq Msgs
      /\ given \subseteq Msgs /\ send_paket_sem \in Msgs \union {NoMsg}
  OBVIOUS
<1>8. busy \in BOOLEAN /\ ack_wait_sem \in BOOLEAN /\ misused \in BOOLEAN
      /\ callback_sem \in BOOLEAN /\ wait_sem \in BOOLEAN
  OBVIOUS
<1>9. send_paket_error \in {0, 1} /\ cb \in {"idle", "read", "dangling", "work"}
  OBVIOUS
<1> QED
  BY <1>1, <1>2, <1>3, <1>4, <1>5, <1>6, <1>7, <1>8, <1>9, Zenon DEF Typed, TypeOK

\* Copying a packet into the buffer leaves a buffer.
LEMMA StoreTyped ==
  ASSUME NEW b \in Buffer, NEW f \in Frame PROVE Store(b, f) \in Buffer
<1> DEFINE base == IF f.cur = 1 THEN [NoBuf EXCEPT !.tot = f.tot] ELSE b
<1>1. base \in Buffer
  <2>1. NoBuf \in Buffer
    BY ConstantsAssumption DEF NoBuf, Buffer, NoMsg
  <2>2. [NoBuf EXCEPT !.tot = f.tot] \in Buffer
    BY <2>1 DEF Buffer, Frame
  <2> QED
    BY <2>2
<1> HIDE DEF base
<1>2. [base EXCEPT !.parts[f.cur] = f.id] \in Buffer
  BY <1>1 DEF Buffer, Frame
<1> QED
  BY <1>1, <1>2 DEF Store, base

LEMMA NextTyped == Typed /\ [Next]_vars => Typed'
<1> SUFFICES ASSUME Typed, [Next]_vars PROVE Typed'
  OBVIOUS
<1> USE ConstantsAssumption
    DEF Typed, TypeOK, callerVars, semVars, peerVars
<1>1. ASSUME NEW c \in Callers, Poll(c) PROVE Typed'
  BY <1>1 DEF Poll, TxOK
<1>2. ASSUME NEW c \in Callers, TestBusy(c) PROVE Typed'
  BY <1>2 DEF TestBusy, Results, TxOK
<1>3. ASSUME NEW c \in Callers, Claim(c) PROVE Typed'
  <2>1. PICK n \in 1..MaxPk :
          LET d == [id |-> accepted + 1, npk |-> n] IN
           /\ accepted' = d.id
           /\ job' = [job EXCEPT ![c] = d]
           /\ send_paket_sem' = d.id
           /\ live' = live \union {d.id}
           /\ send_queue' = Enqueue(send_queue, d)
    BY <1>3 DEF Claim
  <2> DEFINE d == [id |-> accepted + 1, npk |-> n]
  <2>2. d \in Item /\ d.id \in Msgs
    BY <1>3 DEF Claim, Item, Msgs
  <2> HIDE DEF d
  <2>3. send_queue' \in Seq(Item) /\ Len(send_queue') <= QueueLen
    BY <2>1, <2>2 DEF d, Enqueue
  <2>4. job' \in [Callers -> Item \union {NoItem}]
    BY <2>1, <2>2 DEF d
  <2> QED
    BY <1>3, <2>1, <2>2, <2>3, <2>4 DEF Claim, TxOK, Msgs, d
<1>4. ASSUME NEW c \in Callers, Return(c) PROVE Typed'
  BY <1>4 DEF Return, Outcome, Results, TxOK
<1>5. CASE TxStart
  <2>1. Head(send_queue) \in Item /\ send_queue' \in Seq(Item)
        /\ Len(send_queue') <= QueueLen
    BY <1>5 DEF TxStart
  <2>2. tx' \in TxState /\ TxOK'
    BY <1>5, <2>1 DEF TxStart, TxState, TxOK, Item, NoMsg
  <2> QED
    BY <1>5, <2>1, <2>2 DEF TxStart
<1>6. CASE TxSend
  <2>1. tx.try + 1 \in 0..(MaxTries + 1)
    BY <1>6 DEF TxSend, Counted, TxState, TxOK
  <2>2. tx' \in TxState
    BY <1>6, <2>1 DEF TxSend, Counted, TxState
  <2>3. TxOK'
    BY <1>6 DEF TxSend, Counted, TxState, TxOK
  <2> DEFINE f == [id |-> tx.id, cur |-> tx.cur, tot |-> tx.npk]
  <2>4. f \in Frame /\ (wire' = Append(wire, f) \/ wire' = wire)
    BY <1>6 DEF TxSend, Counted, TxState, TxOK, Frame
  <2> HIDE DEF f
  <2>5. wire' \in Seq(Frame)
    BY <2>4
  <2> QED
    BY <1>6, <2>2, <2>3, <2>5 DEF TxSend
<1>7. CASE TxAcked
  <2>1. tx' \in TxState /\ TxOK'
    BY <1>7 DEF TxAcked, TxState, TxOK
  <2> QED
    BY <1>7, <2>1 DEF TxAcked
<1>8. CASE TxTimeout
  <2>1. CASE LastTry
    <3>1. tx' \in TxState /\ TxOK'
      BY <1>8, <2>1 DEF TxTimeout, TxState, TxOK
    <3> QED
      BY <1>8, <2>1, <3>1 DEF TxTimeout
  <2>2. CASE ~LastTry
    <3>1. tx' = [tx EXCEPT !.st = "send"] /\ tx.try <= MaxTries
      BY <1>8, <2>2 DEF TxTimeout, LastTry, TxState
    <3>2. tx' \in TxState /\ TxOK'
      BY <1>8, <3>1 DEF TxTimeout, TxState, TxOK
    <3> QED
      BY <1>8, <2>2, <3>2 DEF TxTimeout
  <2> QED
    BY <2>1, <2>2
<1>9. CASE TxNext
  <2>1. CASE send_paket_error > 0 \/ tx.cur = tx.npk
    <3>1. tx' \in TxState /\ TxOK'
      BY <1>9, <2>1 DEF TxNext, PacketLoopEnds, TxState, TxOK
    <3> QED
      BY <1>9, <3>1 DEF TxNext
  <2>2. CASE ~(send_paket_error > 0 \/ tx.cur = tx.npk)
    <3>1. /\ tx' = [tx EXCEPT !.st = "send", !.cur = @ + 1, !.try = 0]
          /\ tx.cur + 1 \in 1..tx.npk
      BY <1>9, <2>2 DEF TxNext, PacketLoopEnds, TxState, TxOK
    <3>2. tx' \in TxState
      <4>1. tx.cur + 1 \in 0..MaxPk /\ 0 \in 0..(MaxTries + 1)
        BY <3>1 DEF TxState
      <4>2. PICK k \in 0..MaxPk : k = tx.cur + 1
        BY <4>1
      <4>3. tx' = [tx EXCEPT !.st = "send", !.cur = k, !.try = 0]
        BY <3>1, <4>2
      <4> QED
        BY <4>1, <4>3 DEF TxState
    <3>3. TxOK'
      BY <1>9, <3>1 DEF TxNext, PacketLoopEnds, TxState, TxOK
    <3> QED
      BY <1>9, <3>2, <3>3 DEF TxNext
  <2> QED
    BY <2>1, <2>2
<1>10. CASE TxLoadSem
  <2>1. CASE send_paket_sem = NoMsg
    <3>1. tx' \in TxState /\ TxOK'
      BY <1>10, <2>1 DEF TxLoadSem, TxState, TxOK, IdleTx, NoMsg
    <3> QED
      BY <1>10, <3>1 DEF TxLoadSem
  <2>2. CASE send_paket_sem # NoMsg
    <3>1. tx' = [tx EXCEPT !.st = "give", !.sem = send_paket_sem]
      BY <1>10, <2>2 DEF TxLoadSem
    <3>2. tx' \in TxState
      <4>1. PICK s \in Msgs \union {NoMsg} : s = send_paket_sem
        OBVIOUS
      <4> QED
        BY <3>1, <4>1 DEF TxState
    <3>3. TxOK'
      BY <1>10, <3>1 DEF TxLoadSem, TxState, TxOK
    <3> QED
      BY <1>10, <3>2, <3>3 DEF TxLoadSem
  <2> QED
    BY <2>1, <2>2
<1>11. CASE TxGive
  <2>1. tx' \in TxState /\ TxOK'
    BY <1>11 DEF TxGive, TxState, TxOK, IdleTx, NoMsg
  <2> QED
    BY <1>11, <2>1 DEF TxGive
<1>12. CASE RxTake
  <2>1. rx' \in RxState /\ wire' \in Seq(Frame)
    BY <1>12 DEF RxTake, RxState
  <2> QED
    BY <1>12, <2>1 DEF RxTake, TxOK
<1>13. CASE RxDecode
  <2>1. rx.frame \in Frame
    BY <1>13 DEF RxDecode, RxState
  <2>2. buf' \in Buffer
    BY <1>13, <2>1, StoreTyped DEF RxDecode
  <2>3. rx' \in RxState
    BY <1>13 DEF RxDecode, RxState
  <2>4. rx.frame.id \in Msgs
    BY <2>1 DEF Frame
  <2> QED
    BY <1>13, <2>2, <2>3, <2>4 DEF RxDecode, TxOK
<1>14. CASE RxResume
  <2>1. rx' \in RxState
    BY <1>14 DEF RxResume, RxState
  <2> QED
    BY <1>14, <2>1 DEF RxResume, TxOK
<1>15. CASE RxOverflow
  BY <1>15 DEF RxOverflow, TxOK
<1>16. CASE CallbackTask
  BY <1>16 DEF CallbackTask, CbTake, CbParse, CbDone, TxOK
<1>17. CASE UNCHANGED vars
  BY <1>17 DEF vars, TxOK
<1> QED
  BY <1>1, <1>2, <1>3, <1>4, <1>5, <1>6, <1>7, <1>8, <1>9, <1>10, <1>11, <1>12,
     <1>13, <1>14, <1>15, <1>16, <1>17 DEF Next, Caller, SenderTask, EventTask

(* Every variable stays in the range its C++ counterpart has (uart.h        *)
(* 51-120), the queue within its capacity and the attempts within the limit *)
(* of the retry loop.                                                       *)
THEOREM TypeCorrect == Spec => []TypeOK
<1>1. Typed => TypeOK
  BY DEF Typed
<1> QED
  BY InitTyped, NextTyped, <1>1, PTL DEF Spec

-----------------------------------------------------------------------------
(* In-order hand-over.                                                     *)

\* p left the queue and is not ahead of the message now in work.
Behind(p) ==
    /\ p <= accepted
    /\ tx.st # "idle" => p <= tx.id
    /\ \A i \in 1..Len(send_queue) : p < send_queue[i].id

\* Message numbers never decrease on the way queue, sender task, wire,
\* receiver, callback; this is what makes the hand-over ordered.
QueueOrder ==
    /\ \A i \in 1..Len(send_queue) : send_queue[i].id <= accepted
    /\ \A i, j \in 1..Len(send_queue) : i < j => send_queue[i].id < send_queue[j].id
    /\ tx.st # "idle" => Behind(tx.id)

WireOrder ==
    /\ \A i \in 1..Len(wire) : Behind(wire[i].id)
    /\ \A i, j \in 1..Len(wire) : i < j => wire[i].id <= wire[j].id

RxOrder ==
    rx.st = "decode" => /\ Behind(rx.frame.id)
                        /\ \A i \in 1..Len(wire) : rx.frame.id <= wire[i].id

DeliveredOrder ==
    \A d \in delivered :
      /\ Behind(d)
      /\ \A i \in 1..Len(wire) : d <= wire[i].id
      /\ rx.st = "decode" => d <= rx.frame.id

OrderInv == QueueOrder /\ WireOrder /\ RxOrder /\ DeliveredOrder

\* The type facts the order argument needs.
LEMMA OrderTypes ==
  Typed => /\ send_queue \in Seq(Item) /\ wire \in Seq(Frame)
           /\ accepted \in Nat /\ delivered \subseteq Nat
           /\ tx.id \in Nat
           /\ \A i \in 1..Len(send_queue) : send_queue[i].id \in Nat
           /\ \A i \in 1..Len(wire) : wire[i].id \in Nat
           /\ rx.st = "decode" => rx.frame \in Frame /\ rx.frame.id \in Nat
<1> SUFFICES ASSUME Typed
             PROVE  /\ send_queue \in Seq(Item) /\ wire \in Seq(Frame)
                    /\ accepted \in Nat /\ delivered \subseteq Nat
                    /\ tx.id \in Nat
                    /\ \A i \in 1..Len(send_queue) : send_queue[i].id \in Nat
                    /\ \A i \in 1..Len(wire) : wire[i].id \in Nat
                    /\ rx.st = "decode" => rx.frame \in Frame /\ rx.frame.id \in Nat
  OBVIOUS
<1>1. Msgs \subseteq Nat
  BY ConstantsAssumption DEF Msgs
<1>2. send_queue \in Seq(Item) /\ wire \in Seq(Frame)
  BY DEF Typed, TypeOK
<1>3. accepted \in Nat /\ delivered \subseteq Nat
  BY <1>1, ConstantsAssumption DEF Typed, TypeOK
<1>4. tx.id \in Nat
  <2>1. tx \in TxState
    BY DEF Typed, TypeOK
  <2>2. \A t \in TxState : t.id \in Msgs \union {NoMsg}
    BY DEF TxState
  <2>3. Msgs \union {NoMsg} \subseteq Nat
    BY <1>1 DEF NoMsg
  <2> QED
    BY <2>1, <2>2, <2>3
<1>5. \A i \in 1..Len(send_queue) : send_queue[i].id \in Nat
  <2>1. \A i \in 1..Len(send_queue) : send_queue[i] \in Item
    BY <1>2
  <2>2. \A d \in Item : d.id \in Nat
    BY <1>1 DEF Item
  <2> QED
    BY <2>1, <2>2
<1>6. \A i \in 1..Len(wire) : wire[i].id \in Nat
  <2>1. \A i \in 1..Len(wire) : wire[i] \in Frame
    BY <1>2
  <2>2. \A f \in Frame : f.id \in Nat
    BY <1>1 DEF Frame
  <2> QED
    BY <2>1, <2>2
<1>7. rx.st = "decode" => rx.frame \in Frame /\ rx.frame.id \in Nat
  BY <1>1 DEF Typed, TypeOK, RxState, Frame
<1> QED
  BY <1>2, <1>3, <1>4, <1>5, <1>6, <1>7

LEMMA InitOrder == Init => OrderInv
BY DEF Init, OrderInv, QueueOrder, WireOrder, RxOrder, DeliveredOrder, Behind, IdleTx

\* A step that leaves the message numbers where they are.
LEMMA SameOrder ==
  OrderInv /\ UNCHANGED <<accepted, delivered, send_queue, wire, rx>>
    /\ tx'.id = tx.id /\ (tx'.st = "idle") = (tx.st = "idle") => OrderInv'
BY DEF OrderInv, QueueOrder, WireOrder, RxOrder, DeliveredOrder, Behind

LEMMA NextOrder == Typed /\ OrderInv /\ [Next]_vars => OrderInv'
<1> SUFFICES ASSUME Typed, OrderInv, [Next]_vars PROVE OrderInv'
  OBVIOUS
<1> DEFINE T == /\ send_queue \in Seq(Item) /\ wire \in Seq(Frame)
                /\ accepted \in Nat /\ delivered \subseteq Nat
                /\ tx.id \in Nat
                /\ \A i \in 1..Len(send_queue) : send_queue[i].id \in Nat
                /\ \A i \in 1..Len(wire) : wire[i].id \in Nat
                /\ rx.st = "decode" => rx.frame \in Frame /\ rx.frame.id \in Nat
<1>0. T
  BY OrderTypes
<1> USE DEF callerVars, semVars, peerVars
<1>1. ASSUME NEW c \in Callers, Poll(c) \/ TestBusy(c) \/ Return(c) PROVE OrderInv'
  BY <1>1, SameOrder DEF Poll, TestBusy, Return
<1>2. ASSUME NEW c \in Callers, Claim(c) PROVE OrderInv'
  <2>1. PICK n \in 1..MaxPk :
          send_queue' = Enqueue(send_queue, [id |-> accepted + 1, npk |-> n])
    BY <1>2 DEF Claim
  <2>2. accepted' = accepted + 1 /\ UNCHANGED <<tx, wire, rx, delivered>>
    BY <1>2 DEF Claim
  <2>3. /\ Len(send_queue') \in Nat
        /\ \A i \in 1..Len(send_queue') :
             \/ i \in 1..Len(send_queue) /\ send_queue'[i] = send_queue[i]
             \/ i = Len(send_queue) + 1 /\ send_queue'[i].id = accepted + 1
    BY <2>1, <1>0 DEF Enqueue
  <2>4. ASSUME NEW p \in Nat, Behind(p) PROVE Behind(p)'
    BY <2>2, <2>3, <2>4, <1>0 DEF Behind
  <2>5. QueueOrder'
    <3>1. \A i \in 1..Len(send_queue) : send_queue[i].id <= accepted
      BY DEF OrderInv, QueueOrder
    <3>2. \A i \in 1..Len(send_queue') : send_queue'[i].id <= accepted + 1
      BY <2>3, <3>1, <1>0
    <3>3. \A i, j \in 1..Len(send_queue') :
            i < j => send_queue'[i].id < send_queue'[j].id
      <4>1. \A i, j \in 1..Len(send_queue) :
              i < j => send_queue[i].id < send_queue[j].id
        BY DEF OrderInv, QueueOrder
      <4> QED
        BY <2>3, <3>1, <4>1, <1>0
    <3>4. tx.st # "idle" => Behind(tx.id)'
      BY <2>2, <2>4, <1>0 DEF OrderInv, QueueOrder
    <3> QED
      BY <2>2, <3>2, <3>3, <3>4 DEF QueueOrder
  <2>6. WireOrder' /\ RxOrder' /\ DeliveredOrder'
    BY <2>2, <2>4, <1>0 DEF OrderInv, WireOrder, RxOrder, DeliveredOrder
  <2> QED
    BY <2>5, <2>6 DEF OrderInv
<1>3. CASE TxStart
  <2>1. /\ send_queue' = Tail(send_queue) /\ send_queue # <<>>
        /\ tx'.st # "idle" /\ tx'.id = send_queue[1].id /\ tx.st = "idle"
        /\ UNCHANGED <<accepted, wire, rx, delivered>>
    BY <1>3, <1>0 DEF TxStart
  <2>2. /\ Len(send_queue) \in Nat /\ 1 \in 1..Len(send_queue)
        /\ \A i \in 1..Len(send_queue') :
             i + 1 \in 1..Len(send_queue) /\ send_queue'[i] = send_queue[i + 1]
    BY <2>1, <1>0
  <2>3. ASSUME NEW p \in Nat, Behind(p) PROVE Behind(p)'
    <3>1. p <= accepted' /\ p <= tx'.id
      BY <2>1, <2>2, <2>3, <1>0 DEF Behind
    <3>2. \A i \in 1..Len(send_queue') : p < send_queue'[i].id
      BY <2>2, <2>3 DEF Behind
    <3> QED
      BY <3>1, <3>2 DEF Behind
  <2>4. QueueOrder'
    BY <2>1, <2>2, <1>0 DEF OrderInv, QueueOrder, Behind
  <2>5. WireOrder' /\ RxOrder' /\ DeliveredOrder'
    BY <2>1, <2>3, <1>0 DEF OrderInv, WireOrder, RxOrder, DeliveredOrder
  <2> QED
    BY <2>4, <2>5 DEF OrderInv
<1>4. CASE TxSend
  <2>1. /\ tx'.st # "idle" /\ tx'.id = tx.id /\ tx.st # "idle"
        /\ UNCHANGED <<accepted, send_queue, rx, delivered>>
        /\ \/ wire' = wire
           \/ wire' = Append(wire, [id |-> tx.id, cur |-> tx.cur, tot |-> tx.npk])
    BY <1>4 DEF TxSend, Typed, TypeOK, TxState
  <2>2. /\ Len(wire') \in Nat
        /\ \A i \in 1..Len(wire') :
             \/ i \in 1..Len(wire) /\ wire'[i] = wire[i]
             \/ i = Len(wire) + 1 /\ wire'[i].id = tx.id
    BY <2>1, <1>0
  <2>3. ASSUME NEW p, Behind(p) PROVE Behind(p)' /\ p <= tx.id
    BY <2>1, <2>3 DEF Behind
  <2>4. Behind(tx.id)
    BY <2>1 DEF OrderInv, QueueOrder
  <2>5. QueueOrder'
    BY <2>1, <2>3, <2>4 DEF OrderInv, QueueOrder
  <2>6. WireOrder'
    BY <2>1, <2>2, <2>3, <2>4, <1>0 DEF OrderInv, WireOrder
  <2>7. RxOrder'
    BY <2>1, <2>2, <2>3, <1>0 DEF OrderInv, RxOrder
  <2>8. DeliveredOrder'
    BY <2>1, <2>2, <2>3, <1>0 DEF OrderInv, DeliveredOrder
  <2> QED
    BY <2>5, <2>6, <2>7, <2>8 DEF OrderInv
<1>5. CASE TxAcked \/ TxTimeout \/ TxNext
  BY <1>5, SameOrder DEF TxAcked, TxTimeout, TxNext, Typed, TypeOK, TxState
<1>6. CASE TxLoadSem \/ TxGive
  <2>1. /\ UNCHANGED <<accepted, send_queue, wire, rx, delivered>>
        /\ tx.st # "idle" /\ (tx'.st = "idle" \/ tx'.id = tx.id)
    <3>1. tx \in TxState
      BY DEF Typed, TypeOK
    <3>2. /\ UNCHANGED <<accepted, send_queue, wire, rx, delivered>>
          /\ tx.st # "idle"
          /\ tx' = IdleTx \/ tx' = [tx EXCEPT !.st = "give", !.sem = send_paket_sem]
      BY <1>6 DEF TxLoadSem, TxGive
    <3>3. CASE tx' = IdleTx
      BY <3>2, <3>3 DEF IdleTx
    <3>4. CASE tx' = [tx EXCEPT !.st = "give", !.sem = send_paket_sem]
      BY <3>1, <3>2, <3>4 DEF TxState
    <3> QED
      BY <3>2, <3>3, <3>4
  <2>2. ASSUME NEW p, Behind(p) PROVE Behind(p)'
    BY <2>1, <2>2 DEF Behind
  <2> QED
    BY <2>1, <2>2 DEF OrderInv, QueueOrder, WireOrder, RxOrder, DeliveredOrder
<1>7. CASE RxTake
  <2>1. /\ wire' = Tail(wire) /\ wire # <<>>
        /\ rx'.st = "decode" /\ rx'.frame = wire[1]
        /\ UNCHANGED <<accepted, send_queue, tx, delivered>>
    BY <1>7, <1>0 DEF RxTake
  <2>2. /\ Len(wire) \in Nat /\ 1 \in 1..Len(wire)
        /\ \A i \in 1..Len(wire') : i + 1 \in 1..Len(wire) /\ wire'[i] = wire[i + 1]
    BY <2>1, <1>0
  <2>3. ASSUME NEW p, Behind(p) PROVE Behind(p)'
    BY <2>1, <2>3 DEF Behind
  <2> QED
    BY <2>1, <2>2, <2>3, <1>0
       DEF OrderInv, QueueOrder, WireOrder, RxOrder, DeliveredOrder
<1>8. CASE RxDecode
  <2>1. /\ UNCHANGED <<accepted, send_queue, tx, wire>>
        /\ rx.st = "decode" /\ rx'.st # "decode"
        /\ delivered' = delivered \/ delivered' = delivered \union {rx.frame.id}
    BY <1>8 DEF RxDecode
  <2>2. ASSUME NEW p, Behind(p) PROVE Behind(p)'
    BY <2>1, <2>2 DEF Behind
  <2> QED
    BY <2>1, <2>2, <1>0 DEF OrderInv, QueueOrder, WireOrder, RxOrder, DeliveredOrder
<1>9. CASE RxResume \/ RxOverflow
  <2>1. /\ UNCHANGED <<accepted, send_queue, tx, delivered>>
        /\ rx'.st # "decode"
        /\ wire' = wire \/ wire' = <<>>
    BY <1>9 DEF RxResume, RxOverflow
  <2>2. ASSUME NEW p, Behind(p) PROVE Behind(p)'
    BY <2>1, <2>2 DEF Behind
  <2> QED
    BY <2>1, <2>2, <1>0 DEF OrderInv, QueueOrder, WireOrder, RxOrder, DeliveredOrder
<1>10. CASE CallbackTask
  BY <1>10, SameOrder DEF CallbackTask, CbTake, CbParse, CbDone
<1>11. CASE UNCHANGED vars
  BY <1>11, SameOrder DEF vars
<1> QED
  BY <1>1, <1>2, <1>3, <1>4, <1>5, <1>6, <1>7, <1>8, <1>9, <1>10, <1>11
     DEF Next, Caller, SenderTask, EventTask

\* What one step does to the two variables of OrderedLink.
LEMMA StepOrdered == Typed /\ OrderInv /\ [Next]_vars => [Ordered!Next]_Ordered!vars
<1> SUFFICES ASSUME Typed, OrderInv, [Next]_vars PROVE [Ordered!Next]_Ordered!vars
  OBVIOUS
<1> USE DEF callerVars, semVars, peerVars, Ordered!vars
<1>1. ASSUME NEW c \in Callers, Claim(c) PROVE Ordered!Next
  BY <1>1 DEF Claim, Ordered!Next, Ordered!Accept
<1>2. CASE RxDecode
  <2>1. CASE delivered' = delivered
    BY <1>2, <2>1 DEF RxDecode
  <2>2. CASE delivered' # delivered
    <3> DEFINE m == rx.frame.id
    <3>1. delivered' = delivered \union {m} /\ accepted' = accepted /\ rx.st = "decode"
      BY <1>2, <2>2 DEF RxDecode
    <3>2. m \in Msgs
      BY <3>1 DEF Typed, TypeOK, RxState, Frame
    <3>3. m \in 1..accepted
      BY <3>1, <3>2, OrderTypes, ConstantsAssumption DEF OrderInv, RxOrder, Behind, Msgs
    <3>4. \A d \in delivered : d <= m
      BY <3>1 DEF OrderInv, DeliveredOrder
    <3> QED
      BY <3>1, <3>3, <3>4 DEF Ordered!Next, Ordered!Deliver
  <2> QED
    BY <2>1, <2>2
<1>3. ASSUME NEW c \in Callers, Poll(c) \/ TestBusy(c) \/ Return(c)
      PROVE UNCHANGED <<accepted, delivered>>
  BY <1>3 DEF Poll, TestBusy, Return
<1>4. CASE SenderTask
  BY <1>4 DEF SenderTask, TxStart, TxSend, TxAcked, TxTimeout, TxNext, TxLoadSem, TxGive
<1>5. CASE RxTake \/ RxResume \/ RxOverflow \/ CallbackTask
  BY <1>5 DEF RxTake, RxResume, RxOverflow, CallbackTask, CbTake, CbParse, CbDone
<1>6. CASE UNCHANGED vars
  BY <1>6 DEF vars
<1> QED
  BY <1>1, <1>2, <1>3, <1>4, <1>5, <1>6 DEF Next, Caller, EventTask

(* Whatever is lost, late or repeated, and however the calling tasks race   *)
(* for the busy flag, the peer's callback is run for queued messages only   *)
(* and never goes back to an older one: UartLink implements OrderedLink     *)
(* (uart.cpp 40-177).                                                       *)
THEOREM HandOverOrdered == Spec => InOrder
<1>1. Init => Ordered!Init
  BY DEF Init, Ordered!Init
<1> QED
  BY <1>1, InitTyped, NextTyped, InitOrder, NextOrder, StepOrdered, PTL
     DEF Spec, InOrder, Ordered!Spec
=============================================================================
