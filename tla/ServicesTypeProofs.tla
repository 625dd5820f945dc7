------------------------- MODULE ServicesTypeProofs -------------------------
(***************************************************************************)
(* Every variable of the services keeps its type.  Four of the invariants  *)
(* of ServicesProofs have the type in them; here are the other three, with *)
(* the bounds that their types state: the task that asks for the states,   *)
(* the one that tells CPU1 of the functions, and the RS485 bus.            *)
(***************************************************************************)
EXTENDS ServicesProofs

-----------------------------------------------------------------------------
(* The task that asks for the states.  A question brings an answer at the  *)
(* most, and a function is asked again only after a wait that failed: so   *)
(* there are never more answers on their way than waits that failed, and   *)
(* one.                                                                    *)

AnswersBounded ==
    /\ answers \in [1..Walked -> Nat]
    /\ \A f \in 1..Walked : f > target => answers[f] = 0
    /\ \A f \in 1..Walked : f < target => answers[f] <= Patience + 1
    /\ target <= Walked =>
          answers[target] <= IF task = "wait" THEN cnt + 1 ELSE cnt

SyncTypes ==
    /\ known \subseteq 1..Walked
    /\ STATUS_ready \in BOOLEAN /\ late \in BOOLEAN
    /\ AnswersBounded

LEMMA SyncTypesInit == St!Init => SyncTypes
<1> SUFFICES ASSUME St!Init PROVE SyncTypes
  OBVIOUS
<1>1. known \subseteq 1..Walked /\ STATUS_ready \in BOOLEAN /\ late \in BOOLEAN
  BY DEF St!Init
<1>2. answers = [f \in 1..Walked |-> 0] /\ cnt = 0 /\ target = 1 /\ task = "walk"
  BY DEF St!Init
<1> QED BY <1>1, <1>2, WalkAssumption DEF SyncTypes, AnswersBounded

LEMMA SyncTypesNext ==
    SyncInv /\ SyncTypes /\ [St!Next]_(St!vars) => SyncTypes'
<1> SUFFICES ASSUME SyncInv, SyncTypes, [St!Next]_(St!vars) PROVE SyncTypes'
  OBVIOUS
<1> USE WalkAssumption
<1>a. /\ target \in 1..(Walked + 1) /\ cnt \in 0..(Patience + 1)
      /\ cnt > Patience => task = "failed"
      /\ task = "wait" => target <= Walked
  BY DEF SyncInv
<1>b. /\ known \subseteq 1..Walked
      /\ STATUS_ready \in BOOLEAN /\ late \in BOOLEAN
      /\ answers \in [1..Walked -> Nat]
  BY DEF SyncTypes, AnswersBounded
<1>1. CASE UNCHANGED St!vars
  BY <1>1 DEF St!vars, St!syncVars, SyncTypes, AnswersBounded
<1>2. CASE St!End
  BY <1>2 DEF St!End, SyncTypes, AnswersBounded
<1>3. CASE St!Pass
  <2>1. /\ target' = target \/ target' = target + 1
        /\ task = "walk" /\ target <= Walked
        /\ UNCHANGED <<known, task, cnt, STATUS_ready, answers, late>>
    BY <1>3 DEF St!Pass, St!Step
  <2>2. AnswersBounded'
    BY <1>a, <1>b, <2>1 DEF SyncTypes, AnswersBounded
  <2> QED BY <1>b, <2>1, <2>2 DEF SyncTypes
<1>4. CASE St!Ask
  <2>1. /\ task = "walk" /\ target <= Walked
        /\ UNCHANGED <<known, target, cnt, STATUS_ready, late>>
    BY <1>4 DEF St!Ask
  <2>2. CASE task' = "failed" /\ UNCHANGED answers
    BY <1>b, <2>1, <2>2 DEF SyncTypes, AnswersBounded
  <2>3. ASSUME NEW n \in {0, 1}, task' = "wait", answers' = [answers EXCEPT ![target] = @ + n]
        PROVE  SyncTypes'
    <3>1. /\ answers'[target] = answers[target] + n
          /\ \A f \in 1..Walked : f # target => answers'[f] = answers[f]
          /\ answers' \in [1..Walked -> Nat]
      BY <1>a, <1>b, <2>1, <2>3
    <3>2. answers[target] <= cnt
      BY <2>1 DEF SyncTypes, AnswersBounded
    <3>3. AnswersBounded'
      BY <1>a, <1>b, <2>1, <2>3, <3>1, <3>2 DEF SyncTypes, AnswersBounded
    <3> QED BY <1>b, <2>1, <3>3 DEF SyncTypes
  <2> QED BY <1>4, <2>2, <2>3 DEF St!Ask
<1>5. ASSUME NEW f \in 1..Walked, St!Answer(f)
      PROVE  SyncTypes'
  <2>1. /\ answers[f] > 0 /\ answers' = [answers EXCEPT ![f] = @ - 1]
        /\ STATUS_ready' = TRUE
        /\ UNCHANGED <<known, target, cnt, task>>
    BY <1>5 DEF St!Answer, St!syncVars
  <2>2. late' \in BOOLEAN
    BY <1>5 DEF St!Answer
  <2>3. /\ answers' \in [1..Walked -> Nat]
        /\ \A g \in 1..Walked : answers'[g] <= answers[g]
    BY <1>b, <2>1
  <2>4. AnswersBounded'
    <3>1. /\ \A g \in 1..Walked : answers[g] \in Nat /\ answers'[g] \in Nat
          /\ target \in Nat /\ cnt \in Nat
      BY <1>a, <1>b, <2>3
    <3> QED BY <1>a, <2>1, <2>3, <3>1 DEF SyncTypes, AnswersBounded
  <2> QED BY <1>b, <2>1, <2>2, <2>4 DEF SyncTypes
<1>6. CASE St!Answered
  <2>1. /\ task = "wait" /\ task' = "walk" /\ target' = target + 1 /\ STATUS_ready' = FALSE
        /\ UNCHANGED <<known, cnt, answers, late>>
    BY <1>6 DEF St!Answered, St!Step
  <2>2. answers[target] <= cnt + 1 /\ cnt <= Patience
    BY <1>a, <2>1 DEF SyncTypes, AnswersBounded
  <2>3. AnswersBounded'
    BY <1>a, <1>b, <2>1, <2>2 DEF SyncTypes, AnswersBounded
  <2> QED BY <1>b, <2>1, <2>3 DEF SyncTypes
<1>7. CASE St!Timeout
  <2>1. /\ task = "wait" /\ cnt' = cnt + 1 /\ target' = target
        /\ task' = "walk" \/ task' = "failed"
        /\ UNCHANGED <<known, STATUS_ready, answers, late>>
    BY <1>7 DEF St!Timeout, St!Step, St!NextAfterTimeout
  <2>2. AnswersBounded'
    BY <1>a, <1>b, <2>1 DEF SyncTypes, AnswersBounded
  <2> QED BY <1>b, <2>1, <2>2 DEF SyncTypes
<1>8. ASSUME NEW f \in 1..Walked, St!Known(f)
      PROVE  SyncTypes'
  <2>1. UNCHANGED <<target, cnt, task, STATUS_ready, answers, late>>
    BY <1>8 DEF St!Known, St!syncVars
  <2>2. known' \subseteq 1..Walked
    BY <1>8, <1>b DEF St!Known
  <2> QED BY <1>b, <2>1, <2>2 DEF SyncTypes, AnswersBounded
<1> QED BY <1>1, <1>2, <1>3, <1>4, <1>5, <1>6, <1>7, <1>8 DEF St!Next

LEMMA SyncTyped == SyncInv /\ SyncTypes => St!TypeOK
<1> SUFFICES ASSUME SyncInv, SyncTypes PROVE St!TypeOK
  OBVIOUS
<1>1. answers \in [1..Walked -> 0..(Patience + 1)]
  <2> SUFFICES ASSUME NEW f \in 1..Walked PROVE answers[f] \in 0..(Patience + 1)
    BY DEF SyncTypes, AnswersBounded
  <2>1. /\ answers[f] \in Nat /\ target \in 1..(Walked + 1) /\ cnt \in 0..(Patience + 1)
        /\ task = "wait" => cnt <= Patience
    BY WalkAssumption DEF SyncInv, SyncTypes, AnswersBounded
  <2>2. answers[f] <= Patience + 1
    BY <2>1, WalkAssumption DEF SyncTypes, AnswersBounded
  <2> QED BY <2>1, <2>2, WalkAssumption
<1> QED BY <1>1 DEF SyncInv, SyncTypes, St!TypeOK

LEMMA SyncTypesHold == Spec => [](part = "sync" => St!TypeOK)
<1>1. Init => (part = "sync" => SyncTypes)
  BY SyncTypesInit DEF Init
<1>2. (part = "sync" => SyncInv) /\ (part = "sync" => SyncTypes) /\ [Next]_vars
        => (part = "sync" => SyncTypes)'
  <2> SUFFICES ASSUME part = "sync", SyncInv, SyncTypes, [Next]_vars PROVE SyncTypes'
    BY PartIsRigid
  <2>1. [St!Next]_(St!vars)
    BY DEF Next, vars, syncVars, St!vars, St!syncVars
  <2> QED BY <2>1, SyncTypesNext
<1>3. (part = "sync" => SyncInv) /\ (part = "sync" => SyncTypes)
        => (part = "sync" => St!TypeOK)
  BY SyncTyped
<1> QED BY <1>1, <1>2, <1>3, SyncHolds, PTL DEF Spec

-----------------------------------------------------------------------------
(* The task that tells CPU1.  No more pages are announced than there are   *)
(* functions, and no page holds one that is not in the list.               *)

IntroTypes ==
    /\ list \in 0..MaxFunctions /\ count \in 0..list
    /\ task \in {"idle", "page"}
    /\ ps \in 0..MaxFunctions
    /\ sent \in Seq(SUBSET (1..MaxFunctions))

\* A page announced has at least one function to be counted for.
LEMMA PagesAreFew ==
  ASSUME NEW n \in Nat
  PROVE  n \div DEV_NUM + (IF n % DEV_NUM > 0 THEN 1 ELSE 0) \in 0..n
<1> DEFINE d == n \div DEV_NUM
           m == n % DEV_NUM
<1>1. d \in Nat /\ m \in 0..(DEV_NUM - 1) /\ n = d * DEV_NUM + m
  BY PageAssumption
<1> HIDE DEF d, m
<1>2. d <= d * DEV_NUM
  <2>1. d * DEV_NUM = d * (DEV_NUM - 1) + d
    BY <1>1, PageAssumption
  <2>2. d * (DEV_NUM - 1) >= 0
    BY <1>1, PageAssumption
  <2>3. d * DEV_NUM \in Int /\ d * (DEV_NUM - 1) \in Int
    BY <1>1, PageAssumption
  <2> QED BY <1>1, <2>1, <2>2, <2>3
<1>3. d * DEV_NUM \in Int
  BY <1>1, PageAssumption
<1>4. d + (IF m > 0 THEN 1 ELSE 0) \in 0..n
  BY <1>1, <1>2, <1>3, PageAssumption
<1> QED BY <1>4 DEF d, m

LEMMA IntroTypesInit == In!Init => IntroTypes
<1> SUFFICES ASSUME In!Init PROVE IntroTypes
  OBVIOUS
<1>1. /\ list \in 0..MaxFunctions /\ count = 0 /\ ps = 0 /\ task = "idle"
      /\ sent = << >>
  BY DEF In!Init
<1> QED BY <1>1, PageAssumption DEF IntroTypes

LEMMA IntroTypesNext ==
    IntroInv /\ IntroTypes /\ [In!Next]_(In!vars) => IntroTypes'
<1> SUFFICES ASSUME IntroInv, IntroTypes, [In!Next]_(In!vars) PROVE IntroTypes'
  OBVIOUS
<1> USE PageAssumption
<1>1. CASE In!Begin
  <2> DEFINE k == list \div DEV_NUM + (IF list % DEV_NUM > 0 THEN 1 ELSE 0)
  <2>1. /\ count' = list /\ list' = list /\ sent' = << >> /\ task' = "page"
        /\ ps' = k
    BY <1>1 DEF In!Begin
  <2>2. list \in 0..MaxFunctions /\ list \in Nat
    BY DEF IntroTypes
  <2>3. k \in 0..list
    BY <2>2, PagesAreFew
  <2> HIDE DEF k
  <2> QED BY <2>1, <2>2, <2>3 DEF IntroTypes
<1>2. CASE In!Page
  <2> DEFINE pg == IF target = 0 THEN {} ELSE In!LastOf(target)..target
  <2>1. sent' = Append(sent, pg) /\ UNCHANGED <<list, task, count, ps>>
    BY <1>2 DEF In!Page
  <2>2. target \in 0..count /\ count \in 0..list /\ list \in 0..MaxFunctions
    BY DEF IntroInv, IntroTypes
  <2>3. pg \in SUBSET (1..MaxFunctions)
    BY <2>2 DEF In!LastOf
  <2> HIDE DEF pg
  <2>4. sent' \in Seq(SUBSET (1..MaxFunctions))
    BY <2>1, <2>3, AppendProperties DEF IntroTypes
  <2> QED BY <2>1, <2>4 DEF IntroTypes
<1>3. CASE In!Register
  <2>1. list < MaxFunctions /\ list' = list + 1 /\ UNCHANGED <<task, count, ps, sent>>
    BY <1>3 DEF In!Register
  <2> QED BY <2>1 DEF IntroTypes
<1>4. CASE In!End \/ UNCHANGED In!vars
  <2>1. UNCHANGED <<list, count, ps, sent>> /\ (task' = "idle" \/ task' = task)
    BY <1>4 DEF In!End, In!vars
  <2> QED BY <2>1 DEF IntroTypes
<1> QED BY <1>1, <1>2, <1>3, <1>4 DEF In!Next

LEMMA IntroTypesHold == Spec => [](part = "intro" => In!TypeOK)
<1>1. Init => (part = "intro" => IntroTypes)
  BY IntroTypesInit DEF Init
<1>2. (part = "intro" => IntroInv) /\ (part = "intro" => IntroTypes) /\ [Next]_vars
        => (part = "intro" => IntroTypes)'
  <2> SUFFICES ASSUME part = "intro", IntroInv, IntroTypes, [Next]_vars PROVE IntroTypes'
    BY PartIsRigid
  <2>1. [In!Next]_(In!vars)
    BY DEF Next, vars, introVars, In!vars
  <2> QED BY <2>1, IntroTypesNext
<1>3. (part = "intro" => IntroInv) /\ (part = "intro" => IntroTypes)
        => (part = "intro" => In!TypeOK)
  BY DEF IntroInv, IntroTypes, In!TypeOK, In!Functions
<1> QED BY <1>1, <1>2, <1>3, IntroHolds, PTL DEF Spec

-----------------------------------------------------------------------------
(* The RS485 bus.  A board takes no more messages than there may be of all *)
(* boards together, and what the callback is started for is a message.     *)

\* Calls past the test of busy have a message to come, and a caller.
CallsFit ==
    /\ claiming \in [Nodes -> 0..Callers] /\ waiting \in [Nodes -> 0..Callers]
    /\ \A n \in Nodes : /\ claiming[n] + waiting[n] <= Callers
                        /\ accepted[n] + claiming[n] <= MaxMsgs

BusTypes ==
    /\ Rs!TypeOK
    /\ CallsFit
    /\ queue \in [Nodes -> Seq(Rs!Msg)]
    /\ callback_sem => ready \in Rs!Msg

AtWork == [msg : Rs!Msg, cur : 1..MaxPk, at : {"write", "ack"}]

\* The bus counts sets as anyone does.
LEMMA SameCardinality == \A S : Rs!Cardinality(S) = Cardinality(S)
BY DEF Rs!Cardinality, Cardinality

\* Where all boards together have taken fewer messages than they may, each has.
LEMMA OneMoreMessage ==
  ASSUME accepted \in [Nodes -> 0..MaxMsgs], CallsFit, NEW n \in Nodes,
         Cardinality(Rs!Taken) < MaxMsgs
  PROVE  accepted[n] + claiming[n] < MaxMsgs
<1> USE BusAssumption
<1> SUFFICES ASSUME accepted[n] + claiming[n] = MaxMsgs PROVE FALSE
  BY DEF CallsFit
<1> DEFINE own == {n} \X (1..MaxMsgs)
<1>1. IsFiniteSet(1..MaxMsgs) /\ Cardinality(1..MaxMsgs) = MaxMsgs
  BY FS_Interval
<1>2. IsFiniteSet({n}) /\ Cardinality({n}) = 1
  BY FS_Singleton
<1>3. Cardinality(own) = 1 * MaxMsgs
  BY <1>1, <1>2, FS_Product
<1>4. own \in SUBSET Rs!Taken
  BY DEF Rs!Taken
<1>5. IsFiniteSet(Nodes \X (1..MaxMsgs))
  BY <1>1, FS_Product
<1>6. IsFiniteSet(Rs!Taken)
  <2>1. Rs!Taken \in SUBSET (Nodes \X (1..MaxMsgs))
    BY DEF Rs!Taken
  <2> QED BY <1>5, <2>1, FS_Subset
<1>7. Cardinality(own) <= Cardinality(Rs!Taken)
  BY <1>4, <1>6, FS_Subset
<1> HIDE DEF own
<1>8. Cardinality(Rs!Taken) \in Nat
  BY <1>6, FS_CardinalityType
<1> QED BY <1>3, <1>7, <1>8

LEMMA BusTypesInit == Rs!Init => BusTypes
<1> SUFFICES ASSUME Rs!Init PROVE BusTypes
  OBVIOUS
<1> USE BusAssumption
<1>1. /\ accepted \in [Nodes -> 0..MaxMsgs] /\ busy \in [Nodes -> BOOLEAN]
      /\ sem \in [Nodes -> {"none", "up", "given"}]
  BY DEF Rs!Init
<1>2. /\ queue \in [Nodes -> Seq(Rs!Msg)] /\ bus \in Seq(Rs!Packet)
      /\ \A n \in Nodes : queue[n] \in Seq(Rs!Msg) /\ Len(queue[n]) <= QueueLen
  BY DEF Rs!Init
<1>3. /\ job \in [Nodes -> AtWork \union {Rs!NoJob}]
      /\ delivered \in [Nodes -> SUBSET (1..MaxMsgs)]
  BY DEF Rs!Init
<1>4. /\ buf \in [1..MaxPk -> Rs!Msg \union {Rs!None}]
      /\ ready \in Rs!Msg \union {Rs!None} /\ cb \in Rs!Msg \union {Rs!None}
  BY DEF Rs!Init, Rs!Empty
<1>5. /\ rx = "read" /\ ~callback_sem /\ callback_sem \in BOOLEAN /\ wait_sem \in BOOLEAN
      /\ late \in BOOLEAN /\ spoiled = {} /\ hasty = {}
  BY DEF Rs!Init
<1>6. CallsFit
  BY DEF Rs!Init, CallsFit
<1> QED BY <1>1, <1>2, <1>3, <1>4, <1>5, <1>6 DEF BusTypes, CallsFit, Rs!TypeOK, AtWork

LEMMA BusTypesNext ==
    BusType /\ WaitInv /\ BusTypes /\ [Rs!Next]_(Rs!vars) => BusTypes'
<1> SUFFICES ASSUME BusType, WaitInv, BusTypes, [Rs!Next]_(Rs!vars) PROVE BusTypes'
  OBVIOUS
<1> USE BusAssumption
<1>a. BusType'
  BY BusNext
<1>b. /\ busy' \in [Nodes -> BOOLEAN] /\ sem' \in [Nodes -> {"none", "up", "given"}]
      /\ callback_sem' \in BOOLEAN /\ hasty' \subseteq Nodes
  BY <1>a DEF BusType
<1>c. /\ accepted \in [Nodes -> 0..MaxMsgs]
      /\ queue \in [Nodes -> Seq(Rs!Msg)]
      /\ \A n \in Nodes : Len(queue[n]) <= QueueLen
      /\ job \in [Nodes -> AtWork \union {Rs!NoJob}]
      /\ bus \in Seq(Rs!Packet)
      /\ delivered \in [Nodes -> SUBSET (1..MaxMsgs)]
      /\ spoiled \subseteq Rs!Msg
  BY DEF BusTypes, Rs!TypeOK, AtWork
<1>d. /\ buf \in [1..MaxPk -> Rs!Msg \union {Rs!None}]
      /\ ready \in Rs!Msg \union {Rs!None} /\ cb \in Rs!Msg \union {Rs!None}
      /\ rx \in {"read", "wait"} /\ wait_sem \in BOOLEAN /\ late \in BOOLEAN
      /\ callback_sem => ready \in Rs!Msg
  BY DEF BusTypes, Rs!TypeOK
<1>e. CallsFit
  BY DEF BusTypes
\* A step of a sender: what the reader holds stays as it is.
<1>1. ASSUME UNCHANGED <<Rs!receiverVars, late>>,
             accepted' \in [Nodes -> 0..MaxMsgs],
             queue' \in [Nodes -> Seq(Rs!Msg)],
             \A n \in Nodes : Len(queue'[n]) <= QueueLen,
             job' \in [Nodes -> AtWork \union {Rs!NoJob}],
             bus' \in Seq(Rs!Packet),
             spoiled' \subseteq Rs!Msg,
             CallsFit'
      PROVE  BusTypes'
  <2>1. UNCHANGED <<rx, buf, ready, callback_sem, wait_sem, cb, delivered, late>>
    BY <1>1 DEF Rs!receiverVars
  <2>2. \A n \in Nodes : queue'[n] \in Seq(Rs!Msg)
    BY <1>1
  <2> QED BY <1>1, <1>b, <1>c, <1>d, <2>1, <2>2 DEF BusTypes, CallsFit, Rs!TypeOK, AtWork
\* A step of the reader: what the senders hold stays as it is.
<1>2. ASSUME UNCHANGED <<Rs!senderVars, spoiled>>,
             bus' \in Seq(Rs!Packet),
             delivered' \in [Nodes -> SUBSET (1..MaxMsgs)],
             buf' \in [1..MaxPk -> Rs!Msg \union {Rs!None}],
             ready' \in Rs!Msg \union {Rs!None}, cb' \in Rs!Msg \union {Rs!None},
             rx' \in {"read", "wait"}, wait_sem' \in BOOLEAN, late' \in BOOLEAN,
             callback_sem' => ready' \in Rs!Msg
      PROVE  BusTypes'
  <2>1. UNCHANGED <<accepted, claiming, waiting, queue, job, spoiled>>
    BY <1>2 DEF Rs!senderVars, Rs!callVars
  <2>2. \A n \in Nodes : queue'[n] \in Seq(Rs!Msg) /\ Len(queue'[n]) <= QueueLen
    BY <1>c, <2>1
  <2>3. CallsFit'
    BY <1>e, <2>1 DEF CallsFit
  <2> QED BY <1>2, <1>b, <1>c, <2>1, <2>2, <2>3 DEF BusTypes, CallsFit, Rs!TypeOK, AtWork
<1>3. ASSUME NEW n \in Nodes, NEW tot \in 1..MaxPk, Rs!Send(n, tot)
      PROVE  BusTypes'
  <2> DEFINE new == [node |-> n, id |-> accepted[n] + 1, tot |-> tot]
  <2>1. /\ accepted' = [accepted EXCEPT ![n] = accepted[n] + 1]
        /\ claiming[n] > 0 /\ claiming' = [claiming EXCEPT ![n] = claiming[n] - 1]
        /\ waiting' = [waiting EXCEPT ![n] = waiting[n] + 1]
        /\ UNCHANGED <<job, bus, Rs!receiverVars, spoiled, late>>
    BY <1>3 DEF Rs!Send
  <2>2. /\ accepted[n] \in 0..MaxMsgs /\ accepted[n] < MaxMsgs
        /\ claiming[n] \in 0..Callers /\ waiting[n] \in 0..Callers
        /\ claiming[n] + waiting[n] <= Callers /\ accepted[n] + claiming[n] <= MaxMsgs
    BY <1>c, <1>e, <2>1 DEF CallsFit
  <2>3. accepted' \in [Nodes -> 0..MaxMsgs] /\ accepted'[n] = accepted[n] + 1
    BY <1>c, <2>1, <2>2
  <2>4. new \in Rs!Msg
    BY <2>2 DEF Rs!Msg
  <2>5. queue' = [queue EXCEPT ![n] = Rs!Queued(queue[n], new)]
    BY <1>3, <2>3 DEF Rs!Send
  <2> HIDE DEF new
  <2>6. Rs!Queued(queue[n], new) \in Seq(Rs!Msg) /\ Len(Rs!Queued(queue[n], new)) <= QueueLen
    <3>1. /\ queue[n] \in Seq(Rs!Msg) /\ Len(queue[n]) <= QueueLen /\ Len(queue[n]) \in Nat
          /\ Append(queue[n], new) \in Seq(Rs!Msg)
          /\ Len(Append(queue[n], new)) = Len(queue[n]) + 1
      BY <1>c, <2>4, AppendProperties, LenProperties
    <3> QED BY <3>1 DEF Rs!Queued
  <2>7. queue' \in [Nodes -> Seq(Rs!Msg)] /\ \A k \in Nodes : Len(queue'[k]) <= QueueLen
    BY <1>c, <2>5, <2>6
  <2>8. CallsFit'
    <3>1. claiming[n] - 1 \in 0..Callers /\ waiting[n] + 1 \in 0..Callers
      BY <2>1, <2>2
    <3>2. claiming' \in [Nodes -> 0..Callers] /\ waiting' \in [Nodes -> 0..Callers]
      BY <1>e, <2>1, <3>1 DEF CallsFit
    <3>3. /\ claiming'[n] + waiting'[n] <= Callers
          /\ accepted'[n] + claiming'[n] <= MaxMsgs
      BY <1>e, <2>1, <2>2, <2>3 DEF CallsFit
    <3>4. \A k \in Nodes \ {n} : /\ claiming'[k] + waiting'[k] <= Callers
                                 /\ accepted'[k] + claiming'[k] <= MaxMsgs
      BY <1>c, <1>e, <2>1 DEF CallsFit
    <3> QED BY <3>2, <3>3, <3>4 DEF CallsFit
  <2> QED BY <1>1, <1>c, <2>1, <2>3, <2>7, <2>8
<1>4. ASSUME NEW n \in Nodes, Rs!Return(n)
      PROVE  BusTypes'
  <2>1. /\ waiting[n] > 0 /\ waiting' = [waiting EXCEPT ![n] = waiting[n] - 1]
        /\ UNCHANGED <<accepted, claiming, queue, job, bus, Rs!receiverVars, spoiled, late>>
    BY <1>4 DEF Rs!Return
  <2>2. CallsFit'
    <3>1. waiting[n] - 1 \in 0..Callers
      BY <1>e, <2>1 DEF CallsFit
    <3>2. waiting' \in [Nodes -> 0..Callers]
      BY <1>e, <2>1, <3>1 DEF CallsFit
    <3>3. \A k \in Nodes : claiming[k] + waiting'[k] <= Callers
      BY <1>e, <2>1 DEF CallsFit
    <3> QED BY <1>e, <2>1, <3>2, <3>3 DEF CallsFit
  <2> QED BY <1>1, <1>c, <2>1, <2>2
<1>13. ASSUME NEW n \in Nodes, Rs!TestBusy(n)
      PROVE  BusTypes'
  <2>0. Cardinality(Rs!Taken) < MaxMsgs
    BY <1>13, SameCardinality, Zenon DEF Rs!TestBusy
  <2>1. /\ claiming[n] + waiting[n] < Callers
        /\ claiming' = [claiming EXCEPT ![n] = claiming[n] + 1]
        /\ UNCHANGED <<accepted, waiting, queue, job, bus, Rs!receiverVars, spoiled, late>>
    BY <1>13 DEF Rs!TestBusy
  <2>2. accepted[n] + claiming[n] < MaxMsgs
    BY <1>c, <1>e, <2>0, OneMoreMessage
  <2>3. CallsFit'
    <3>1. claiming[n] + 1 \in 0..Callers
      BY <1>e, <2>1 DEF CallsFit
    <3>2. claiming' \in [Nodes -> 0..Callers]
      BY <1>e, <2>1, <3>1 DEF CallsFit
    <3>3. \A k \in Nodes : /\ claiming'[k] + waiting[k] <= Callers
                           /\ accepted[k] + claiming'[k] <= MaxMsgs
      BY <1>c, <1>e, <2>1, <2>2 DEF CallsFit
    <3> QED BY <1>e, <2>1, <3>2, <3>3 DEF CallsFit
  <2> QED BY <1>1, <1>c, <2>1, <2>3
<1>5. ASSUME NEW n \in Nodes, Rs!Take(n)
      PROVE  BusTypes'
  <2> DEFINE w == [msg |-> Head(queue[n]), cur |-> 1, at |-> "write"]
  <2>1. /\ queue[n] # << >> /\ job' = [job EXCEPT ![n] = w]
        /\ queue' = [queue EXCEPT ![n] = Tail(@)]
        /\ UNCHANGED <<accepted, claiming, waiting, bus, Rs!receiverVars, spoiled, late>>
    BY <1>5 DEF Rs!Take, Rs!callVars
  <2>2. /\ queue[n] \in Seq(Rs!Msg) /\ Head(queue[n]) \in Rs!Msg
        /\ Tail(queue[n]) \in Seq(Rs!Msg) /\ Len(Tail(queue[n])) = Len(queue[n]) - 1
        /\ Len(queue[n]) \in Nat
    BY <1>c, <2>1, HeadTailProperties, LenProperties
  <2>3. w \in AtWork
    <3>1. Head(queue[n]).tot \in 1..MaxPk
      BY <2>2 DEF Rs!Msg
    <3> QED BY <2>2, <3>1 DEF AtWork
  <2> HIDE DEF w
  <2>4. job' \in [Nodes -> AtWork \union {Rs!NoJob}]
    BY <1>c, <2>1, <2>3
  <2>5. queue' \in [Nodes -> Seq(Rs!Msg)] /\ \A k \in Nodes : Len(queue'[k]) <= QueueLen
    BY <1>c, <2>1, <2>2
  <2>6. CallsFit'
    BY <1>e, <2>1 DEF CallsFit
  <2> QED BY <1>1, <1>c, <2>1, <2>4, <2>5, <2>6
<1>6. ASSUME NEW n \in Nodes, Rs!Acked(n)
      PROVE  BusTypes'
  <2>1. /\ job[n].at = "ack" /\ job' = [job EXCEPT ![n] = Rs!Advanced(@)]
        /\ UNCHANGED <<accepted, claiming, waiting, queue, bus, Rs!receiverVars, spoiled, late>>
    BY <1>6 DEF Rs!Acked, Rs!callVars
  <2>2. job[n] \in AtWork
    BY <1>c, <2>1 DEF Rs!NoJob
  <2>3. Rs!Advanced(job[n]) \in AtWork \union {Rs!NoJob}
    <3>1. CASE job[n].cur < job[n].msg.tot
      <4>1. job[n].msg.tot \in 1..MaxPk
        BY <2>2 DEF AtWork, Rs!Msg
      <4>2. job[n].cur \in 1..MaxPk /\ job[n].cur + 1 \in 1..MaxPk
        BY <2>2, <3>1, <4>1 DEF AtWork
      <4> DEFINE u == [job[n] EXCEPT !.cur = job[n].cur + 1]
      <4>3. u \in AtWork
        BY <2>2, <4>2 DEF AtWork
      <4>4. Rs!Advanced(job[n]) = [u EXCEPT !.at = "write"]
        BY <3>1 DEF Rs!Advanced
      <4> HIDE DEF u
      <4> QED BY <4>3, <4>4 DEF AtWork
    <3>2. CASE ~(job[n].cur < job[n].msg.tot)
      BY <3>2 DEF Rs!Advanced
    <3> QED BY <3>1, <3>2
  <2>4. job' \in [Nodes -> AtWork \union {Rs!NoJob}]
    BY <1>c, <2>1, <2>3
  <2>5. CallsFit'
    BY <1>e, <2>1 DEF CallsFit
  <2> QED BY <1>1, <1>c, <2>1, <2>4, <2>5
<1>7. ASSUME NEW n \in Nodes, NEW lost \in BOOLEAN, Rs!Write(n, lost)
      PROVE  BusTypes'
  <2> DEFINE w  == [job[n] EXCEPT !.at = "ack"]
             pk == [msg |-> job[n].msg, cur |-> job[n].cur]
  <2>1. /\ job[n].at = "write" /\ job' = [job EXCEPT ![n] = w]
        /\ bus' = bus \/ bus' = Append(bus, pk)
        /\ UNCHANGED <<accepted, claiming, waiting, queue, Rs!receiverVars, late>>
    BY <1>7 DEF Rs!Write, Rs!callVars
  <2>2. job[n] \in AtWork
    BY <1>c, <2>1 DEF Rs!NoJob
  <2>3. w \in AtWork /\ pk \in Rs!Packet /\ job[n].msg \in Rs!Msg
    BY <2>2 DEF AtWork, Rs!Packet
  <2>4. spoiled' \subseteq Rs!Msg
    <3>1. \A k \in Nodes : Rs!Partial(k) => job[k] \in AtWork
      BY <1>c DEF Rs!Partial, Rs!NoJob
    <3>2. \A k \in Nodes : Rs!Partial(k) => job[k].msg \in Rs!Msg
      BY <3>1 DEF AtWork
    <3> QED BY <1>7, <1>c, <2>3, <3>2 DEF Rs!Write
  <2> HIDE DEF w, pk
  <2>5. job' \in [Nodes -> AtWork \union {Rs!NoJob}]
    BY <1>c, <2>1, <2>3
  <2>6. bus' \in Seq(Rs!Packet)
    <3>1. bus \in Seq(Rs!Packet)
      BY <1>c
    <3>2. Append(bus, pk) \in Seq(Rs!Packet)
      BY <2>3, <3>1, AppendProperties
    <3> QED BY <2>1, <3>1, <3>2
  <2>7. CallsFit'
    BY <1>e, <2>1 DEF CallsFit
  <2> QED BY <1>1, <1>c, <2>1, <2>4, <2>5, <2>6, <2>7
<1>8. CASE Rs!Process
  <2> DEFINE p == Head(bus)
  <2>1. /\ bus # << >> /\ buf' = Rs!Decoded(p) /\ bus' = Tail(bus)
        /\ \/ ready' = p.msg /\ callback_sem' = TRUE /\ rx' = "wait"
           \/ UNCHANGED <<ready, callback_sem, rx>>
        /\ UNCHANGED <<Rs!senderVars, wait_sem, cb, delivered, spoiled, late>>
    BY <1>8 DEF Rs!Process
  <2>2. p \in Rs!Packet /\ bus' \in Seq(Rs!Packet)
    BY <1>c, <2>1, HeadTailProperties
  <2>3. p.msg \in Rs!Msg /\ p.cur \in 1..MaxPk
    BY <2>2 DEF Rs!Packet
  <2> HIDE DEF p
  <2>4. Rs!Empty \in [1..MaxPk -> Rs!Msg \union {Rs!None}]
    BY DEF Rs!Empty
  <2>5. buf' \in [1..MaxPk -> Rs!Msg \union {Rs!None}]
    <3>1. [Rs!Empty EXCEPT ![1] = p.msg] \in [1..MaxPk -> Rs!Msg \union {Rs!None}]
      BY <2>3, <2>4
    <3>2. [buf EXCEPT ![p.cur] = p.msg] \in [1..MaxPk -> Rs!Msg \union {Rs!None}]
      BY <1>d, <2>3
    <3> QED BY <1>d, <2>1, <3>1, <3>2 DEF Rs!Decoded
  <2>6. /\ ready' \in Rs!Msg \union {Rs!None} /\ rx' \in {"read", "wait"}
        /\ callback_sem' => ready' \in Rs!Msg
    BY <1>d, <2>1, <2>3
  <2> QED BY <1>2, <1>c, <1>d, <2>1, <2>2, <2>5, <2>6
<1>9. CASE Rs!Waited \/ Rs!GiveUp
  <2>1. /\ UNCHANGED <<Rs!senderVars, bus, buf, ready, callback_sem, cb, delivered, spoiled>>
        /\ rx' = "read" /\ wait_sem' \in BOOLEAN /\ late' \in BOOLEAN
    BY <1>9, <1>d DEF Rs!Waited, Rs!GiveUp
  <2> QED BY <1>2, <1>c, <1>d, <2>1
<1>10. CASE Rs!CallbackBegin
  <2>1. /\ callback_sem /\ cb' = ready
        /\ delivered' = [delivered EXCEPT ![ready.node] = @ \union {ready.id}]
        /\ callback_sem' = FALSE
        /\ UNCHANGED <<Rs!senderVars, bus, rx, buf, ready, wait_sem, spoiled, late>>
    BY <1>10 DEF Rs!CallbackBegin
  <2>2. ready.node \in Nodes /\ ready.id \in 1..MaxMsgs
    BY <1>d, <2>1 DEF Rs!Msg
  <2>3. delivered' \in [Nodes -> SUBSET (1..MaxMsgs)]
    BY <1>c, <2>1, <2>2
  <2> QED BY <1>2, <1>c, <1>d, <2>1, <2>3
<1>11. CASE Rs!CallbackEnd
  <2>1. /\ UNCHANGED <<Rs!senderVars, bus, rx, buf, ready, callback_sem, delivered, spoiled, late>>
        /\ cb' = Rs!None /\ wait_sem' = TRUE
    BY <1>11 DEF Rs!CallbackEnd
  <2> QED BY <1>2, <1>c, <1>d, <2>1
<1>12. CASE UNCHANGED Rs!vars
  <2>1. UNCHANGED <<Rs!senderVars, bus, Rs!receiverVars, spoiled, late>>
    BY <1>12 DEF Rs!vars
  <2>2. UNCHANGED <<accepted, claiming, waiting, queue, job>>
    BY <2>1 DEF Rs!senderVars, Rs!callVars
  <2>3. CallsFit'
    BY <1>e, <2>2 DEF CallsFit
  <2> QED BY <1>1, <1>c, <2>1, <2>2, <2>3
<1> QED
  BY <1>13, <1>3, <1>4, <1>5, <1>6, <1>7, <1>8, <1>9, <1>10, <1>11, <1>12 DEF Rs!Next

LEMMA BusTypesHold == Spec => [](part = "bus" => Rs!TypeOK)
<1>1. Init => (part = "bus" => BusTypes)
  BY BusTypesInit DEF Init
<1>2. (part = "bus" => BusType /\ WaitInv) /\ (part = "bus" => BusTypes) /\ [Next]_vars
        => (part = "bus" => BusTypes)'
  <2> SUFFICES ASSUME part = "bus", BusType, WaitInv, BusTypes, [Next]_vars PROVE BusTypes'
    BY PartIsRigid
  <2>1. [Rs!Next]_(Rs!vars)
    BY DEF Next, vars, busVars, Rs!vars, Rs!senderVars, Rs!callVars, Rs!receiverVars
  <2> QED BY <2>1, BusTypesNext
<1>3. (part = "bus" => BusTypes) => (part = "bus" => Rs!TypeOK)
  BY DEF BusTypes
<1> QED BY <1>1, <1>2, <1>3, BusHolds, PTL DEF Spec

-----------------------------------------------------------------------------
\* Every variable of every service keeps its type: no counter, queue, page or id passes
\* the bound the code gives it, whatever is lost, late or mixed.
THEOREM TypeCorrect == Spec => []TypeOK
<1>1. ClimateInv => C!TypeOK
  BY DEF ClimateInv
<1>2. BoardsInv => Bo!TypeOK
  BY DEF BoardsInv
<1>3. SupInv => Su!TypeOK
  BY DEF SupInv
<1>4. LogInv => Lo!TypeOK
  BY DEF LogInv
<1> QED
  BY <1>1, <1>2, <1>3, <1>4, ClimateHolds, BoardsHold, SupHolds, LogHolds,
     SyncTypesHold, IntroTypesHold, BusTypesHold, PTL DEF TypeOK
=============================================================================
