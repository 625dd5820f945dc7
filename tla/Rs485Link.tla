----------------------------- MODULE Rs485Link -----------------------------
(***************************************************************************)
(* The RS485 bus: components/home/library/rs485/rs485.cpp.  Several boards *)
(* write packets on one line, each from its sender task, and one board     *)
(* puts them together: its event task fills a single buffer, whoever the   *)
(* packets are from, and hands it to its callback task.  Both ends run the *)
(* same code.  The acknowledgement is the packet's header sent back; its   *)
(* only effect is that the sender waits no longer, for the wait that fails *)
(* leaves the loop without an error.  A write never falls short; the pings *)
(* to the boards are not here.                                             *)
(***************************************************************************)
EXTENDS Naturals, Sequences, FiniteSets

CONSTANTS
    Nodes,       \* boards that send to the one that receives
    Callers,     \* tasks of a board that may be in Sender at a time
    MaxMsgs,     \* bound: messages of all boards together
    MaxPk,       \* bound: packets of a message
    QueueLen     \* length of send_queue

VARIABLES
    accepted,    \* messages Sender has taken, numbered, for each board
    claiming,    \* tasks of each board past the test of busy and not at its set
    waiting,     \* tasks that wait in _Sender
    busy, sem,   \* of the object they share: busy, send_paket_sem
    queue,       \* send_queue
    job,         \* the message the sender task is at
    bus,         \* packets written and not yet processed
    rx,          \* the event task waits for the callback
    buf, ready,  \* paket_buffer by packets, and whose message it is said to be
    callback_sem, wait_sem,
    cb,          \* the message the callback task was started for
    delivered,   \* messages of each board the callback was run for
    \* Observations
    spoiled,     \* messages that lost a packet or met another on the bus
    late,        \* a callback took longer than the event task waits
    hasty        \* boards one of whose calls did not wait for its message, or
                 \* two of whose calls shared the semaphore

callVars     == <<claiming, waiting, busy>>
senderVars   == <<accepted, callVars, sem, queue, job>>
receiverVars == <<rx, buf, ready, callback_sem, wait_sem, cb, delivered>>
vars == <<senderVars, bus, receiverVars, spoiled, late, hasty>>

Msg    == [node : Nodes, id : 1..MaxMsgs, tot : 1..MaxPk]
None   == [node |-> "none"]
Packet == [msg : Msg, cur : 1..MaxPk]
NoJob  == [at |-> "idle"]
Empty  == [i \in 1..MaxPk |-> None]

TypeOK ==
    /\ accepted \in [Nodes -> 0..MaxMsgs]
    /\ claiming \in [Nodes -> 0..Callers] /\ waiting \in [Nodes -> 0..Callers]
    /\ busy \in [Nodes -> BOOLEAN]
    /\ sem \in [Nodes -> {"none", "up", "given"}]
    /\ \A n \in Nodes : queue[n] \in Seq(Msg) /\ Len(queue[n]) <= QueueLen
    /\ job \in [Nodes -> [msg : Msg, cur : 1..MaxPk, at : {"write", "ack"}] \union {NoJob}]
    /\ bus \in Seq(Packet)
    /\ rx \in {"read", "wait"}
    /\ buf \in [1..MaxPk -> Msg \union {None}]
    /\ ready \in Msg \union {None} /\ cb \in Msg \union {None}
    /\ callback_sem \in BOOLEAN /\ wait_sem \in BOOLEAN
    /\ delivered \in [Nodes -> SUBSET (1..MaxMsgs)]
    /\ spoiled \subseteq Msg
    /\ late \in BOOLEAN
    /\ hasty \subseteq Nodes

Init ==
    /\ accepted = [n \in Nodes |-> 0]
    /\ claiming = [n \in Nodes |-> 0] /\ waiting = [n \in Nodes |-> 0]
    /\ busy = [n \in Nodes |-> FALSE]
    /\ sem = [n \in Nodes |-> "none"]
    /\ queue = [n \in Nodes |-> <<>>]
    /\ job = [n \in Nodes |-> NoJob]
    /\ bus = <<>>
    /\ rx = "read"
    /\ buf = Empty /\ ready = None /\ cb = None
    /\ callback_sem = FALSE /\ wait_sem = FALSE
    /\ delivered = [n \in Nodes |-> {}]
    /\ spoiled = {}
    /\ late = FALSE
    /\ hasty = {}

-----------------------------------------------------------------------------
(* A board that sends.                                                     *)

QueuedFront(q, m) == IF Len(q) < QueueLen THEN <<m>> \o q ELSE q
                                          \* mutant: at the front of the queue

Queued(q, m) == IF Len(q) < QueueLen THEN Append(q, m) ELSE q

\* The messages taken so far, and those of the calls that are about to, of all boards.
Taken == {m \in Nodes \X (1..MaxMsgs) : m[2] <= accepted[m[1]] + claiming[m[1]]}

\* Sender finds the link free; the flag is set by a later statement, and another task
\* may find it free as well.
TestBusy(n) ==
    /\ ~busy[n]
    /\ claiming[n] + waiting[n] < Callers
    /\ Cardinality(Taken) < MaxMsgs
    /\ claiming' = [claiming EXCEPT ![n] = @ + 1]
    /\ UNCHANGED <<accepted, waiting, busy, sem, queue, job, bus, receiverVars,
                   spoiled, late, hasty>>

\* busy is set, and _Sender makes a semaphore, in place of the one there is, and puts
\* the message into the queue; a full queue is not noticed.
Send(n, tot) ==
    /\ claiming[n] > 0
    /\ claiming' = [claiming EXCEPT ![n] = @ - 1]
    /\ waiting' = [waiting EXCEPT ![n] = @ + 1]
    /\ busy' = [busy EXCEPT ![n] = TRUE]
    /\ accepted' = [accepted EXCEPT ![n] = @ + 1]
    /\ sem' = [sem EXCEPT ![n] = "up"]
    /\ queue' = [queue EXCEPT ![n] =
                    Queued(@, [node |-> n, id |-> accepted'[n], tot |-> tot])]
    /\ hasty' = IF waiting[n] = 0 /\ queue[n] = <<>> /\ job[n] = NoJob
                   THEN hasty \ {n} ELSE hasty \union {n}
    /\ UNCHANGED <<job, bus, receiverVars, spoiled, late>>

\* Sender returns: the semaphore was given, or 2000 ms have passed.  The one deleted is
\* the one that is there.
Return(n) ==
    /\ waiting[n] > 0
    /\ waiting' = [waiting EXCEPT ![n] = @ - 1]
    /\ busy' = [busy EXCEPT ![n] = FALSE]
    /\ sem' = [sem EXCEPT ![n] = "none"]
    /\ hasty' = IF sem[n] = "up" THEN hasty \union {n} ELSE hasty
    /\ UNCHANGED <<accepted, claiming, queue, job, bus, receiverVars, spoiled, late>>

Take(n) ==
    /\ job[n].at = "idle" /\ queue[n] # <<>>
    /\ job' = [job EXCEPT ![n] = [msg |-> Head(queue[n]), cur |-> 1, at |-> "write"]]
    /\ queue' = [queue EXCEPT ![n] = Tail(@)]
    /\ UNCHANGED <<accepted, callVars, sem, bus, receiverVars, spoiled, late, hasty>>

\* Some packets of the board's message are on the line and some are not.
Partial(n) ==
    \/ job[n].at = "write" /\ job[n].cur > 1
    \/ job[n].at = "ack" /\ job[n].cur < job[n].msg.tot

\* The next packet is written, and may be lost on the line.
Write(n, lost) ==
    /\ job[n].at = "write"
    /\ bus' = IF lost THEN bus ELSE Append(bus, [msg |-> job[n].msg, cur |-> job[n].cur])
    /\ job' = [job EXCEPT ![n].at = "ack"]
    /\ spoiled' = spoiled \union (IF lost THEN {job[n].msg} ELSE {})
                          \union {job[k].msg : k \in {k \in Nodes \ {n} : Partial(k)}}
    /\ UNCHANGED <<accepted, callVars, sem, queue, receiverVars, late, hasty>>

LastPacketAny(n) == TRUE           \* mutant: given inside the loop

LastPacket(n) == job[n].cur = job[n].msg.tot

\* The next packet of the message, or none.
Advanced(j) == IF j.cur < j.msg.tot THEN [j EXCEPT !.cur = j.cur + 1, !.at = "write"]
                                    ELSE NoJob

\* The acknowledgement, or 1000 ms without one: the same to the sender.
Acked(n) ==
    /\ job[n].at = "ack"
    /\ job' = [job EXCEPT ![n] = Advanced(@)]
    /\ sem' = [sem EXCEPT ![n] = IF @ = "up" /\ LastPacket(n) THEN "given" ELSE @]
    /\ UNCHANGED <<accepted, callVars, queue, bus, receiverVars, spoiled, late, hasty>>

-----------------------------------------------------------------------------
(* The board that receives.                                                *)

DecodedKept(p) == [buf EXCEPT ![p.cur] = p.msg]   \* mutant: the first packet clears nothing

\* paket_decode: the first packet of any message clears the buffer; what came before
\* is not remembered, so the last packet alone completes it.
Decoded(p) == IF p.cur = 1 THEN [Empty EXCEPT ![1] = p.msg]
              ELSE IF buf = Empty THEN buf
              ELSE [buf EXCEPT ![p.cur] = p.msg]

Completes(p) == p.cur = p.msg.tot /\ (p.cur = 1 \/ buf # Empty)

\* The event task acknowledges, decodes and hands over.
Process ==
    /\ rx = "read" /\ bus # <<>>
    /\ LET p == Head(bus) IN
         /\ buf' = Decoded(p)
         /\ IF Completes(p)
              THEN /\ ready' = p.msg
                   /\ callback_sem' = TRUE
                   /\ rx' = "wait"
              ELSE UNCHANGED <<ready, callback_sem, rx>>
    /\ bus' = Tail(bus)
    /\ UNCHANGED <<senderVars, wait_sem, cb, delivered, spoiled, late, hasty>>

\* wait_sem was given, or 1000 ms have passed.
Waited ==
    /\ rx = "wait" /\ wait_sem
    /\ wait_sem' = FALSE
    /\ rx' = "read"
    /\ UNCHANGED <<senderVars, bus, buf, ready, callback_sem, cb, delivered,
                   spoiled, late, hasty>>

GiveUp ==
    /\ rx = "wait"
    /\ rx' = "read"
    /\ late' = TRUE
    /\ UNCHANGED <<senderVars, bus, buf, ready, callback_sem, wait_sem, cb, delivered,
                   spoiled, hasty>>

\* The callback task.
CallbackBegin ==
    /\ cb = None /\ callback_sem
    /\ callback_sem' = FALSE
    /\ cb' = ready
    /\ delivered' = [delivered EXCEPT ![ready.node] = @ \union {ready.id}]
    /\ UNCHANGED <<senderVars, bus, rx, buf, ready, wait_sem, spoiled, late, hasty>>

CallbackEnd ==
    /\ cb # None
    /\ cb' = None
    /\ wait_sem' = TRUE
    /\ UNCHANGED <<senderVars, bus, rx, buf, ready, callback_sem, delivered, spoiled,
                   late, hasty>>

Next ==
    \/ \E n \in Nodes, tot \in 1..MaxPk : Send(n, tot)
    \/ \E n \in Nodes : TestBusy(n) \/ Return(n) \/ Take(n) \/ Acked(n)
    \/ \E n \in Nodes, lost \in BOOLEAN : Write(n, lost)
    \/ Process \/ Waited \/ GiveUp
    \/ CallbackBegin \/ CallbackEnd

Spec == Init /\ [][Next]_vars
-----------------------------------------------------------------------------
(* Properties.                                                             *)

\* The callback reads the message it was started for, all of it and nothing else
\* (rs485.cpp 10-27, 163-184, 283-291), and until it ends the buffer stays: except
\* a message that lost a packet or had another board's packet between its own, and
\* except after a callback longer than the event task waits for.
CallbackReadsWhole ==
    cb # None /\ cb \notin spoiled /\ ~late =>
        \A i \in 1..MaxPk : buf[i] = IF i <= cb.tot THEN cb ELSE None

\* A Sender call whose semaphore was given has had its message written
\* (rs485.cpp 118-119, 126-138), unless an earlier call of the board gave up waiting
\* while its message was still being sent, or two tasks of the board found the link
\* free (rs485.cpp 143-144) and the end of one message gives the semaphore of both.
GivenMeansSent ==
    \A n \in Nodes \ hasty : sem[n] = "given" => queue[n] = <<>> /\ job[n] = NoJob

\* Whatever is lost, late or mixed, the messages of one board are handed over in the
\* order it sent them.
Ordered(n) == INSTANCE OrderedLink WITH accepted  <- accepted[n],
                                        delivered <- delivered[n]
OrderedInit == \A n \in Nodes : Ordered(n)!Init
OrderedStep == \A n \in Nodes : Ordered(n)!Next \/ UNCHANGED Ordered(n)!vars
InOrder == OrderedInit /\ [][OrderedStep]_vars
=============================================================================
