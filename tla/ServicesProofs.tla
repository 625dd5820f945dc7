--------------------------- MODULE ServicesProofs ---------------------------
(***************************************************************************)
(* Theorems about the services of the board: CPU1 is reset for its silence *)
(* only, the walks of the list miss no function, a call on the bus that is *)
(* told its message went out is told the truth, the messages of one board  *)
(* on the bus are handed over in order and read whole, the relay of the    *)
(* air conditioning follows its status, the log keeps the latest lines,    *)
(* and a message from a socket is taken for one of its board.              *)
(***************************************************************************)
EXTENDS Services, SequenceTheorems, FiniteSetTheorems,
        WellFoundedInduction, TLAPS

-----------------------------------------------------------------------------
(* The supervision of CPU1.  As long as no pong is late, the semaphore is  *)
(* only ever given to the ping that waits for it, and the counter is what  *)
(* has been missed, one less between the end of a wait and its judgement.  *)

\* No wait in progress has ended without being counted.
Counted == \/ ping = "idle" /\ ~open
           \/ ping = "reset"
           \/ ping \in {"take", "judge"} /\ open

\* n pings are behind the counter c, exactly if none was skipped.
Behind(c) == /\ c <= missed
             /\ ~skipped /\ missed < MaxCounter => c = missed

OnTime ==
    /\ ping_stat <=> heard
    /\ heard => ~here
    /\ ping_sem => ping = "take" /\ heard
    /\ open /\ ping # "take" => heard
    /\ ping = "idle" /\ open => ping_error_counter = 0
    /\ ping = "reset" => ping_error_counter > 7 /\ ~open
    /\ Counted => Behind(ping_error_counter)
    /\ ping \in {"take", "judge"} /\ ~open /\ ~heard => Behind(ping_error_counter + 1)

SupInv == /\ Su!TypeOK
          /\ ~open /\ heard => missed = 0
          /\ ~tardy => OnTime

LEMMA SupInit == Su!Init => SupInv
<1> SUFFICES ASSUME Su!Init PROVE SupInv
  OBVIOUS
<1>1. ~open /\ ~here /\ ~heard /\ ~ping_stat /\ ~ping_sem
  BY DEF Su!Init
<1>2. ping_error_counter = 0 /\ missed = 0 /\ ping = "idle"
  BY DEF Su!Init
<1>3. OnTime
  BY <1>1, <1>2 DEF OnTime, Counted, Behind
<1>4. /\ sending \in BOOLEAN /\ reset_servisi \in BOOLEAN /\ ping_stat \in BOOLEAN
      /\ ping_sem \in BOOLEAN /\ open \in BOOLEAN /\ here \in BOOLEAN /\ behind \in BOOLEAN
      /\ heard \in BOOLEAN /\ tardy \in BOOLEAN /\ skipped \in BOOLEAN
  BY DEF Su!Init
<1>5. ping_error_counter \in 0..(MaxCounter - 1) /\ missed \in 0..MaxCounter
  BY <1>2, CounterAssumption
<1> QED BY <1>1, <1>2, <1>3, <1>4, <1>5 DEF SupInv, Su!TypeOK

LEMMA SupNext == SupInv /\ [Su!Next]_(Su!vars) => SupInv'
<1> SUFFICES ASSUME SupInv, [Su!Next]_(Su!vars) PROVE SupInv'
  OBVIOUS
<1> USE CounterAssumption DEF SupInv, Su!TypeOK, OnTime, Counted, Behind
<1>1. CASE Su!Send \/ Su!Order \/ UNCHANGED Su!vars
  <2>1. Su!TypeOK'
    <3>1. sending' \in BOOLEAN /\ reset_servisi' \in BOOLEAN
      BY <1>1 DEF Su!Send, Su!Order, Su!vars
    <3>2. UNCHANGED <<ping_stat, ping_sem, ping_error_counter, ping, open, here, behind,
                      heard, missed, tardy, skipped>>
      BY <1>1 DEF Su!Send, Su!Order, Su!vars
    <3> QED BY <3>1, <3>2
  <2>2. (~open /\ heard => missed = 0)'
    BY <1>1 DEF Su!Send, Su!Order, Su!vars
  <2>3. (~tardy => OnTime)'
    BY <1>1 DEF Su!Send, Su!Order, Su!vars
  <2> QED BY <2>1, <2>2, <2>3
<1>2. CASE Su!Skip
  BY <1>2 DEF Su!Skip
<1>3. CASE Su!Ping
  BY <1>3 DEF Su!Ping
<1>4. CASE Su!Pong
  BY <1>4 DEF Su!Pong
<1>5. CASE Su!Close
  <2>1. Su!TypeOK'
    <3>1. open' \in BOOLEAN
      BY <1>5 DEF Su!Close
    <3>3. missed' \in 0..MaxCounter
      <4>1. missed' = 0 \/ missed' = missed \/ (missed < MaxCounter /\ missed' = missed + 1)
        BY <1>5 DEF Su!Close
      <4>2. missed \in 0..MaxCounter
        OBVIOUS
      <4> HIDE DEF SupInv, Su!TypeOK, OnTime, Counted, Behind
      <4> QED BY <4>1, <4>2
    <3>2. UNCHANGED <<sending, reset_servisi, ping_stat, ping_sem, ping_error_counter, ping,
                      here, behind, heard, tardy, skipped>>
      BY <1>5 DEF Su!Close
    <3> QED BY <3>1, <3>2, <3>3
  <2>2. (~open /\ heard => missed = 0)'
    BY <1>5 DEF Su!Close
  <2>3. (~tardy => OnTime)'
    BY <1>5 DEF Su!Close
  <2> QED BY <2>1, <2>2, <2>3
<1>6. CASE Su!Taken
  BY <1>6 DEF Su!Taken
<1>7. CASE Su!Judge
  <2>1. CASE ping_stat
    BY <1>7, <2>1 DEF Su!Judge, Su!Judged
  <2>2. CASE ~ping_stat
    BY <1>7, <2>2 DEF Su!Judge, Su!Judged
  <2> QED BY <2>1, <2>2
<1>8. CASE Su!Reset
  BY <1>8 DEF Su!Reset
<1> QED BY <1>1, <1>2, <1>3, <1>4, <1>5, <1>6, <1>7, <1>8 DEF Su!Next

LEMMA PartIsRigid == [Next]_vars => part' = part
  BY DEF Next, vars

LEMMA SupHolds == Spec => [](part = "ping" => SupInv)
<1>1. Init => (part = "ping" => SupInv)
  BY SupInit DEF Init
<1>2. (part = "ping" => SupInv) /\ [Next]_vars => (part = "ping" => SupInv)'
  <2> SUFFICES ASSUME part = "ping", SupInv, [Next]_vars PROVE SupInv'
    BY PartIsRigid
  <2>1. [Su!Next]_(Su!vars)
    BY DEF Next, vars, pingVars, Su!vars
  <2> QED BY <2>1, SupNext
<1> QED BY <1>1, <1>2, PTL DEF Spec

\* CPU1 is reset only after eight pings in a row without an answer in time, and the
\* counter is the number of such pings, whatever its width: as long as no pong is late.
THEOREM ResetMeansSilence == Spec => []ErrorsAreSilence
<1>1. SupInv => Su!ErrorsAreSilence
  BY DEF SupInv, OnTime, Counted, Behind, Su!ErrorsAreSilence, Su!TypeOK
<1> QED BY <1>1, SupHolds, PTL DEF ErrorsAreSilence
-----------------------------------------------------------------------------
(* The task that asks for the states.  As long as no answer is late, the   *)
(* semaphore is up only when the answer is that of the function asked.     *)

SyncInv ==
    /\ target \in 1..(Walked + 1) /\ cnt \in 0..(Patience + 1)
    /\ remote \in [1..Walked -> BOOLEAN] /\ read \subseteq 1..Walked
    /\ next \in BOOLEAN
    /\ task \in {"walk", "wait", "done", "failed"}
    /\ task = "wait" => target <= Walked /\ remote[target]
    /\ cnt > Patience => task = "failed"
    /\ task = "done" => target = Walked + 1
    /\ STATUS_ready => read # {}
    /\ ~late /\ STATUS_ready => task = "wait" /\ target \in read
    /\ ~late => \A f \in 1..(target - 1) : remote[f] => f \in read
    /\ \A f \in 1..(target - 1) : remote[f] => read # {}

LEMMA SyncInit == St!Init => SyncInv
<1> SUFFICES ASSUME St!Init PROVE SyncInv
  OBVIOUS
<1>1. ~STATUS_ready /\ next \in BOOLEAN
  BY DEF St!Init
<1>2. /\ task = "walk" /\ target = 1 /\ cnt = 0 /\ read = {}
      /\ remote \in [1..Walked -> BOOLEAN]
  BY DEF St!Init
<1> QED BY <1>1, <1>2, WalkAssumption DEF SyncInv

LEMMA SyncNext == SyncInv /\ [St!Next]_(St!vars) => SyncInv'
<1> SUFFICES ASSUME SyncInv, [St!Next]_(St!vars) PROVE SyncInv'
  OBVIOUS
<1> USE WalkAssumption DEF SyncInv
<1>1. CASE UNCHANGED St!vars
  BY <1>1 DEF St!vars, St!syncVars
<1>2. CASE St!End
  BY <1>2 DEF St!End
<1>3. CASE St!Pass
  <2>1. target' = target \/ target' = target + 1
    BY <1>3 DEF St!Pass, St!Step
  <2>2. /\ task = "walk" /\ target <= Walked /\ ~remote[target]
        /\ UNCHANGED <<remote, known, task, cnt, next, STATUS_ready, answers, read, late>>
    BY <1>3 DEF St!Pass
  <2>3. \A f \in 1..(target' - 1) : remote[f] => f \in 1..(target - 1)
    BY <2>1, <2>2
  <2> QED BY <2>1, <2>2, <2>3
<1>4. CASE St!Ask
  <2>1. /\ task = "walk" /\ target <= Walked /\ remote[target]
        /\ task' = "wait" \/ task' = "failed"
        /\ UNCHANGED <<remote, target, cnt, next, STATUS_ready, read, late>>
    BY <1>4 DEF St!Ask
  <2> QED BY <2>1
<1>5. ASSUME NEW f \in 1..Walked, St!Answer(f)
      PROVE  SyncInv'
  <2>1. /\ UNCHANGED <<remote, target, cnt, next, task>>
        /\ read' = read \union {f}
    BY <1>5 DEF St!Answer, St!syncVars
  <2>2. ~late' => ~late /\ task = "wait" /\ f = target /\ ~STATUS_ready
    BY <1>5 DEF St!Answer
  <2>3. read' # {} /\ read' \subseteq 1..Walked
    BY <2>1
  <2> QED BY <2>1, <2>2, <2>3
<1>6. CASE St!Answered
  <2>1. /\ task = "wait" /\ STATUS_ready /\ task' = "walk" /\ target' = target + 1
        /\ UNCHANGED <<remote, cnt, read, late>>
    BY <1>6 DEF St!Answered, St!Step
  <2>2. next' \in BOOLEAN /\ ~STATUS_ready'
    BY <1>6 DEF St!Answered
  <2>3. \A f \in 1..(target' - 1) : f \in 1..(target - 1) \/ f = target
    BY <2>1
  <2> QED BY <2>1, <2>2, <2>3
<1>7. CASE St!Timeout
  <2>1. /\ task = "wait" /\ cnt' = cnt + 1
        /\ cnt' > Patience => task' = "failed"
        /\ cnt' <= Patience => task' = "walk"
        /\ UNCHANGED <<remote, read, late>>
    BY <1>7 DEF St!Timeout, St!Step
  <2>2. ~STATUS_ready /\ UNCHANGED STATUS_ready
    BY <1>7 DEF St!Timeout
  <2>3. next' \in BOOLEAN /\ target' = target
    BY <1>7 DEF St!Timeout, St!NextAfterTimeout, St!Step
  <2> QED BY <2>1, <2>2, <2>3
<1>8. ASSUME NEW f \in 1..Walked, St!Known(f)
      PROVE  SyncInv'
  <2>1. UNCHANGED <<remote, target, cnt, next, task, STATUS_ready, read, late>>
    BY <1>8 DEF St!Known, St!syncVars
  <2> QED BY <2>1
<1> QED BY <1>1, <1>2, <1>3, <1>4, <1>5, <1>6, <1>7, <1>8 DEF St!Next

LEMMA SyncHolds == Spec => [](part = "sync" => SyncInv)
<1>1. Init => (part = "sync" => SyncInv)
  BY SyncInit DEF Init
<1>2. (part = "sync" => SyncInv) /\ [Next]_vars => (part = "sync" => SyncInv)'
  <2> SUFFICES ASSUME part = "sync", SyncInv, [Next]_vars PROVE SyncInv'
    BY PartIsRigid
  <2>1. [St!Next]_(St!vars)
    BY DEF Next, vars, syncVars, St!vars, St!syncVars
  <2> QED BY <2>1, SyncNext
<1> QED BY <1>1, <1>2, PTL DEF Spec

-----------------------------------------------------------------------------
(* The task that tells CPU1.  The pages sent hold what is behind `target', *)
(* and those to come have room for the rest: each takes two more than were *)
(* counted for it.                                                         *)

IntroInv ==
    /\ list \in Nat /\ count \in Nat /\ target \in 0..count
    /\ ps \in Nat /\ cp \in 1..(ps + 1)
    /\ sent \in Seq(SUBSET Nat)
    /\ \A p, q \in 1..Len(sent) : p # q => sent[p] \cap sent[q] = {}
    /\ task = "page" => /\ Len(sent) = cp - 1
                        /\ \A f : (\E p \in 1..Len(sent) : f \in sent[p]) <=> f \in (target + 1)..count
                        /\ target <= (ps + 1 - cp) * DEV_NUM

LEMMA IntroInit == In!Init => IntroInv
<1> SUFFICES ASSUME In!Init PROVE IntroInv
  OBVIOUS
<1> USE PageAssumption
<1>1. /\ list \in Nat /\ count = 0 /\ target = 0 /\ ps = 0 /\ cp = 1 /\ task = "idle"
      /\ sent = << >>
  BY DEF In!Init
<1> QED BY <1>1 DEF IntroInv

\* The pages announced have room for every function.
LEMMA PagesSuffice ==
  ASSUME NEW n \in Nat
  PROVE  LET k == n \div DEV_NUM + (IF n % DEV_NUM > 0 THEN 1 ELSE 0)
         IN  k \in Nat /\ n <= k * DEV_NUM
<1> DEFINE d == n \div DEV_NUM
           m == n % DEV_NUM
<1>1. d \in Nat /\ m \in 0..(DEV_NUM - 1) /\ n = d * DEV_NUM + m
  BY PageAssumption
<1> HIDE DEF d, m
<1>2. CASE m > 0
  <2>1. (d + 1) * DEV_NUM = d * DEV_NUM + DEV_NUM
    BY <1>1, PageAssumption
  <2>2. n <= (d + 1) * DEV_NUM /\ d + 1 \in Nat
    BY <1>1, <2>1, PageAssumption
  <2> QED BY <1>2, <2>2 DEF d, m
<1>3. CASE ~(m > 0)
  <2>1. n <= (d + 0) * DEV_NUM /\ d + 0 \in Nat
    BY <1>1, <1>3, PageAssumption
  <2> QED BY <1>3, <2>1 DEF d, m
<1> QED BY <1>2, <1>3

LEMMA IntroNext == IntroInv /\ [In!Next]_(In!vars) => IntroInv'
<1> SUFFICES ASSUME IntroInv, [In!Next]_(In!vars) PROVE IntroInv'
  OBVIOUS
<1> USE PageAssumption
<1>1. CASE In!Begin
  <2> DEFINE k == list \div DEV_NUM + (IF list % DEV_NUM > 0 THEN 1 ELSE 0)
  <2>1. /\ count' = list /\ target' = list /\ cp' = 1 /\ sent' = << >> /\ list' = list
        /\ ps' = k
    BY <1>1 DEF In!Begin
  <2>2. list \in Nat
    BY DEF IntroInv
  <2>3. k \in Nat /\ list <= k * DEV_NUM
    BY <2>2, PagesSuffice
  <2> HIDE DEF k
  <2>4. Len(sent') = 0 /\ sent' \in Seq(SUBSET Nat)
    BY <2>1
  <2>5. \A p : p \notin 1..Len(sent')
    BY <2>4
  <2>6. (list + 1)..list = {}
    BY <2>2
  <2>7. k + 1 - 1 = k
    BY <2>3
  <2> QED BY <2>1, <2>2, <2>3, <2>4, <2>5, <2>6, <2>7 DEF IntroInv
<1>2. CASE In!Page
  <2> DEFINE pg == IF target = 0 THEN {} ELSE In!LastOf(target)..target
             t == IF target = 0 THEN 0 ELSE In!LastOf(target) - 1
  <2>1. /\ task = "page" /\ cp <= ps /\ cp' = cp + 1 /\ sent' = Append(sent, pg) /\ target' = t
        /\ UNCHANGED <<list, task, count, ps>>
    BY <1>2 DEF In!Page, In!After
  <2>2. /\ target \in 0..count /\ ps \in Nat /\ cp \in 1..(ps + 1)
        /\ sent \in Seq(SUBSET Nat) /\ Len(sent) = cp - 1
        /\ \A f : (\E p \in 1..Len(sent) : f \in sent[p]) <=> f \in (target + 1)..count
        /\ target <= (ps + 1 - cp) * DEV_NUM
        /\ \A p, q \in 1..Len(sent) : p # q => sent[p] \cap sent[q] = {}
    BY <2>1 DEF IntroInv
  <2>3. list \in Nat /\ target \in Nat /\ count \in Nat /\ target <= count
    BY DEF IntroInv
  <2>4. /\ t \in Nat /\ t <= target
        /\ t = 0 \/ t + DEV_NUM <= target
        /\ pg = (t + 1)..target
    <3>1. CASE target = 0
      BY <2>3, <3>1
    <3>2. CASE target # 0
      <4>1. /\ In!LastOf(target) \in 1..target
            /\ In!LastOf(target) = 1 \/ In!LastOf(target) + DEV_NUM + 1 = target
        BY <2>3, <3>2 DEF In!LastOf
      <4>2. t = In!LastOf(target) - 1 /\ pg = In!LastOf(target)..target
        BY <3>2
      <4> HIDE DEF t, pg
      <4> QED BY <4>1, <4>2, <2>3
    <3> QED BY <3>1, <3>2
  <2> HIDE DEF pg, t
  <2>5. pg \in SUBSET Nat
    BY <2>3, <2>4
  <2>6. /\ sent' \in Seq(SUBSET Nat) /\ Len(sent') = Len(sent) + 1
        /\ \A p \in 1..Len(sent) : sent'[p] = sent[p]
        /\ sent'[Len(sent) + 1] = pg
    BY <2>1, <2>2, <2>5, AppendProperties
  <2> DEFINE m == Len(sent) + 1
  <2>7. \A p : p \in 1..Len(sent') <=> p \in 1..Len(sent) \/ p = m
    BY <2>2, <2>6
  <2>8. \A f : (\E p \in 1..Len(sent') : f \in sent'[p]) <=> f \in (t + 1)..count
    <3>1. \A f : f \in (t + 1)..count <=> f \in (target + 1)..count \/ f \in pg
      BY <2>3, <2>4
    <3>2. \A f : (\E p \in 1..Len(sent') : f \in sent'[p])
                   <=> (\E p \in 1..Len(sent) : f \in sent[p]) \/ f \in pg
      BY <2>6, <2>7
    <3> QED BY <2>2, <3>1, <3>2
  <2>9. \A p, q \in 1..Len(sent') : p # q => sent'[p] \cap sent'[q] = {}
    <3>1. \A p \in 1..Len(sent) : \A f \in sent[p] : f \in (target + 1)..count
      BY <2>2
    <3>2. \A p \in 1..Len(sent) : sent[p] \cap pg = {}
      BY <2>3, <2>4, <3>1
    <3> QED BY <2>2, <2>6, <2>7, <3>2
  <2>10. t <= (ps' + 1 - cp') * DEV_NUM
    <3> DEFINE k == ps - cp
    <3>1. k \in Nat /\ ps + 1 - cp = k + 1 /\ ps' + 1 - cp' = k
      BY <2>1, <2>2
    <3> HIDE DEF k
    <3>2. (k + 1) * DEV_NUM = k * DEV_NUM + DEV_NUM /\ k * DEV_NUM \in Nat
      BY <3>1
    <3> DEFINE room == k * DEV_NUM
    <3>3. room \in Nat /\ target <= room + DEV_NUM
      BY <2>2, <3>1, <3>2
    <3> HIDE DEF room
    <3>4. t <= room
      BY <2>3, <2>4, <3>3
    <3> QED BY <3>1, <3>4 DEF room
  <2>11. Len(sent') = cp' - 1 /\ cp' \in 1..(ps' + 1)
    BY <2>1, <2>2, <2>6
  <2>12. t \in 0..count
    BY <2>3, <2>4
  <2> QED BY <2>1, <2>2, <2>3, <2>6, <2>8, <2>9, <2>10, <2>11, <2>12 DEF IntroInv
<1>3. CASE In!End \/ In!Register \/ UNCHANGED In!vars
  <2>1. /\ UNCHANGED <<count, target, ps, cp, sent>>
        /\ list' = list \/ list' = list + 1
    BY <1>3 DEF In!End, In!Register, In!vars
  <2>2. list' \in Nat
    BY <2>1 DEF IntroInv
  <2>3. task' = "page" => task = "page"
    BY <1>3 DEF In!End, In!Register, In!vars
  <2> QED BY <2>1, <2>2, <2>3 DEF IntroInv
<1> QED BY <1>1, <1>2, <1>3 DEF In!Next

LEMMA IntroHolds == Spec => [](part = "intro" => IntroInv)
<1>1. Init => (part = "intro" => IntroInv)
  BY IntroInit DEF Init
<1>2. (part = "intro" => IntroInv) /\ [Next]_vars => (part = "intro" => IntroInv)'
  <2> SUFFICES ASSUME part = "intro", IntroInv, [Next]_vars PROVE IntroInv'
    BY PartIsRigid
  <2>1. [In!Next]_(In!vars)
    BY DEF Next, vars, introVars, In!vars
  <2> QED BY <2>1, IntroNext
<1> QED BY <1>1, <1>2, PTL DEF Spec

\* What full_status_read has passed has been read, each function by the answer to its
\* own question unless an answer was late; and the pages of send_intro hold every
\* function once, for a page of any size: that a page takes two functions more than it
\* was counted for does no harm.
THEOREM WalksAreComplete == Spec => []WalksMissNothing
<1>1. SyncInv => St!PassedIsRead
  <2> SUFFICES ASSUME SyncInv PROVE St!PassedIsRead
    OBVIOUS
  <2>1. \A f \in 1..(target - 1) : f \in 1..Walked
    BY WalkAssumption DEF SyncInv
  <2> QED BY <2>1 DEF SyncInv, St!PassedIsRead
<1>2. IntroInv => In!PagesCoverList
  <2> SUFFICES ASSUME IntroInv PROVE In!PagesCoverList
    OBVIOUS
  <2>1. ASSUME task = "page", cp > ps
        PROVE  Len(sent) = ps /\ UNION {sent[p] : p \in 1..ps} = 1..count
    <3>1. cp = ps + 1 /\ ps \in Nat /\ target \in Nat
      BY <2>1 DEF IntroInv
    <3>2. (ps + 1 - cp) * DEV_NUM = 0
      BY <3>1, PageAssumption
    <3>3. target = 0 /\ Len(sent) = ps
      BY <2>1, <3>1, <3>2 DEF IntroInv
    <3>4. \A f : (\E p \in 1..ps : f \in sent[p]) <=> f \in 1..count
      BY <2>1, <3>3 DEF IntroInv
    <3> QED BY <3>3, <3>4
  <2> QED BY <2>1 DEF IntroInv, In!PagesCoverList
<1> QED BY <1>1, <1>2, SyncHolds, IntroHolds, PTL DEF WalksMissNothing
-----------------------------------------------------------------------------
(* The RS485 bus. *)

Message == [node : Nodes, id : Nat, tot : 1..MaxPk]
Work    == [msg : Message, cur : Nat, at : {"write", "ack"}]
OnBus   == [msg : Message, cur : Nat]

BusType ==
    /\ accepted \in [Nodes -> Nat]
    /\ claiming \in [Nodes -> Nat] /\ waiting \in [Nodes -> Nat]
    /\ busy \in [Nodes -> BOOLEAN] /\ sem \in [Nodes -> {"none", "up", "given"}]
    /\ queue \in [Nodes -> Seq(Message)]
    /\ job \in [Nodes -> Work \cup {Rs!NoJob}]
    /\ bus \in Seq(OnBus)
    /\ callback_sem \in BOOLEAN
    /\ callback_sem => ready \in Message
    /\ delivered \in [Nodes -> SUBSET Nat]
    /\ hasty \subseteq Nodes

\* Unless a call of n was hasty: it waits for the only message of n there is, and no
\* message of n is there when no call waits for it.
Waiting(n) ==
    /\ waiting[n] = 0 => sem[n] = "none"
    /\ n \notin hasty =>
         /\ sem[n] # "up" => queue[n] = << >> /\ job[n] = Rs!NoJob
         /\ queue[n] # << >> => job[n] = Rs!NoJob /\ Len(queue[n]) = 1

WaitInv == \A n \in Nodes : Waiting(n)

\* What the sender of n makes of its queue and its work.
LEMMA BusInit == Rs!Init => BusType /\ WaitInv
<1> SUFFICES ASSUME Rs!Init PROVE BusType /\ WaitInv
  OBVIOUS
<1>1. /\ accepted \in [Nodes -> Nat] /\ claiming \in [Nodes -> Nat]
      /\ waiting \in [Nodes -> Nat] /\ busy \in [Nodes -> BOOLEAN]
      /\ sem \in [Nodes -> {"none", "up", "given"}]
  BY DEF Rs!Init
<1>2. queue \in [Nodes -> Seq(Message)] /\ bus \in Seq(OnBus)
  BY DEF Rs!Init
<1>3. job \in [Nodes -> Work \cup {Rs!NoJob}] /\ delivered \in [Nodes -> SUBSET Nat]
  BY DEF Rs!Init
<1>4. callback_sem \in BOOLEAN /\ ~callback_sem /\ hasty = {}
  BY DEF Rs!Init
<1>5. \A n \in Nodes : sem[n] = "none" /\ queue[n] = << >> /\ job[n] = Rs!NoJob
  BY DEF Rs!Init
<1> QED BY <1>1, <1>2, <1>3, <1>4, <1>5 DEF BusType, WaitInv, Waiting

LEMMA SendShape ==
  ASSUME BusType, NEW n \in Nodes, NEW tot \in 1..MaxPk, Rs!Send(n, tot)
  PROVE  LET new == [node |-> n, id |-> accepted[n] + 1, tot |-> tot]
         IN  /\ new \in Message
             /\ accepted' = [accepted EXCEPT ![n] = @ + 1]
             /\ queue' \in [Nodes -> Seq(Message)]
             /\ \A k \in Nodes \ {n} : queue'[k] = queue[k]
             /\ queue'[n] = queue[n] \/ queue'[n] = Append(queue[n], new)
<1> DEFINE new == [node |-> n, id |-> accepted[n] + 1, tot |-> tot]
<1>1. new \in Message /\ accepted' = [accepted EXCEPT ![n] = @ + 1] /\ accepted'[n] = accepted[n] + 1
  <2>1. accepted \in [Nodes -> Nat] /\ accepted' = [accepted EXCEPT ![n] = @ + 1]
    BY DEF BusType, Rs!Send
  <2>2. accepted[n] \in Nat /\ accepted[n] + 1 \in Nat
    BY <2>1
  <2> QED BY <2>1, <2>2 DEF Message
<1> HIDE DEF new
<1>2. queue' = [queue EXCEPT ![n] = Rs!Queued(@, new)]
  BY <1>1 DEF Rs!Send, new
<1>3. queue'[n] = queue[n] \/ queue'[n] = Append(queue[n], new)
  BY <1>2 DEF BusType, Rs!Queued
<1>4. queue[n] \in Seq(Message)
  BY DEF BusType
<1>5. queue'[n] \in Seq(Message)
  <2>1. Append(queue[n], new) \in Seq(Message)
    BY <1>1, <1>4, AppendProperties
  <2> QED BY <1>3, <1>4, <2>1
<1>6. queue' \in [Nodes -> Seq(Message)] /\ \A k \in Nodes \ {n} : queue'[k] = queue[k]
  BY <1>2, <1>5 DEF BusType
<1> QED BY <1>1, <1>3, <1>6 DEF new

LEMMA TakeShape ==
  ASSUME BusType, NEW n \in Nodes, Rs!Take(n)
  PROVE  /\ queue[n] # << >> /\ Head(queue[n]) \in Message
         /\ queue' \in [Nodes -> Seq(Message)] /\ queue'[n] = Tail(queue[n])
         /\ job' \in [Nodes -> Work \cup {Rs!NoJob}] /\ job'[n].msg = Head(queue[n])
         /\ job[n] = Rs!NoJob
         /\ \A k \in Nodes \ {n} : UNCHANGED <<queue[k], job[k]>>
<1>1. queue[n] \in Seq(Message) /\ queue[n] # << >>
  BY DEF BusType, Rs!Take
<1>2. Head(queue[n]) \in Message /\ Tail(queue[n]) \in Seq(Message)
  BY <1>1, HeadTailProperties
<1> DEFINE w == [msg |-> Head(queue[n]), cur |-> 1, at |-> "write"]
<1>3. w \in Work
  BY <1>2 DEF Work
<1>4. job' = [job EXCEPT ![n] = w] /\ queue' = [queue EXCEPT ![n] = Tail(@)]
  BY DEF Rs!Take
<1>5. job[n] = Rs!NoJob
  <2>1. job[n] \in Work => job[n].at # "idle"
    BY DEF Work
  <2> QED BY <2>1 DEF BusType, Rs!Take
<1> HIDE DEF w
<1>6. job' \in [Nodes -> Work \cup {Rs!NoJob}] /\ job'[n] = w /\ \A k \in Nodes \ {n} : UNCHANGED job[k]
  BY <1>3, <1>4 DEF BusType
<1>7. queue' \in [Nodes -> Seq(Message)] /\ queue'[n] = Tail(queue[n])
      /\ \A k \in Nodes \ {n} : UNCHANGED queue[k]
  BY <1>2, <1>4 DEF BusType
<1> QED BY <1>1, <1>2, <1>5, <1>6, <1>7 DEF w

\* While n works at a message, writing and waiting change where it is in it.
LEMMA WorkShape ==
  ASSUME BusType, NEW n \in Nodes, Rs!Acked(n) \/ \E lost \in BOOLEAN : Rs!Write(n, lost)
  PROVE  /\ job[n] \in Work /\ job' \in [Nodes -> Work \cup {Rs!NoJob}]
         /\ job'[n] = Rs!NoJob \/ job'[n].msg = job[n].msg
         /\ \A k \in Nodes \ {n} : UNCHANGED job[k]
<1>1. job[n] \in Work
  BY DEF BusType, Rs!Acked, Rs!Write, Rs!NoJob
<1>2. CASE Rs!Acked(n)
  <2> DEFINE w == [job[n] EXCEPT !.cur = job[n].cur + 1, !.at = "write"]
  <2>1. w \in Work /\ w.msg = job[n].msg
    <3> DEFINE u == [job[n] EXCEPT !.cur = job[n].cur + 1]
    <3>1. u \in Work /\ u.msg = job[n].msg
      BY <1>1 DEF Work
    <3>2. w = [u EXCEPT !.at = "write"]
      OBVIOUS
    <3> HIDE DEF u, w
    <3> QED BY <3>1, <3>2 DEF Work
  <2>2. job' = [job EXCEPT ![n] = Rs!Advanced(job[n])]
    BY <1>2 DEF Rs!Acked
  <2>5. Rs!Advanced(job[n]) \in {w, Rs!NoJob}
    BY DEF Rs!Advanced
  <2> HIDE DEF w
  <2>3. /\ job'[n] = w \/ job'[n] = Rs!NoJob
        /\ \A k \in Nodes \ {n} : UNCHANGED job[k]
    BY <2>2, <2>5 DEF BusType
  <2>4. job' \in [Nodes -> Work \cup {Rs!NoJob}]
    <3>1. job'[n] \in Work \cup {Rs!NoJob}
      BY <2>1, <2>3
    <3> QED BY <2>2, <3>1 DEF BusType
  <2> QED BY <1>1, <2>1, <2>3, <2>4
<1>3. ASSUME NEW lost \in BOOLEAN, Rs!Write(n, lost)
      PROVE  /\ job' \in [Nodes -> Work \cup {Rs!NoJob}] /\ job'[n].msg = job[n].msg
             /\ \A k \in Nodes \ {n} : UNCHANGED job[k]
  <2> DEFINE w == [job[n] EXCEPT !.at = "ack"]
  <2>1. w \in Work /\ w.msg = job[n].msg
    BY <1>1 DEF Work
  <2>2. job' = [job EXCEPT ![n] = w]
    BY <1>3 DEF Rs!Write
  <2> HIDE DEF w
  <2> QED BY <2>1, <2>2 DEF BusType
<1> QED BY <1>1, <1>2, <1>3

LEMMA BusNext == BusType /\ WaitInv /\ [Rs!Next]_(Rs!vars) => BusType' /\ WaitInv'
<1> SUFFICES ASSUME BusType, WaitInv, [Rs!Next]_(Rs!vars) PROVE BusType' /\ WaitInv'
  OBVIOUS
<1>1. ASSUME NEW n \in Nodes, NEW tot \in 1..MaxPk, Rs!Send(n, tot)
      PROVE  BusType' /\ WaitInv'
  <2> DEFINE new == [node |-> n, id |-> accepted[n] + 1, tot |-> tot]
  <2>1. /\ new \in Message /\ accepted' = [accepted EXCEPT ![n] = @ + 1]
        /\ queue' \in [Nodes -> Seq(Message)]
        /\ \A k \in Nodes \ {n} : queue'[k] = queue[k]
        /\ queue'[n] = queue[n] \/ queue'[n] = Append(queue[n], new)
    BY <1>1, SendShape
  <2>2. /\ claiming[n] > 0 /\ claiming' = [claiming EXCEPT ![n] = @ - 1]
        /\ waiting' = [waiting EXCEPT ![n] = @ + 1] /\ busy' = [busy EXCEPT ![n] = TRUE]
        /\ sem' = [sem EXCEPT ![n] = "up"]
        /\ hasty' = IF waiting[n] = 0 /\ queue[n] = << >> /\ job[n] = Rs!NoJob
                      THEN hasty \ {n} ELSE hasty \cup {n}
        /\ UNCHANGED <<job, bus, callback_sem, ready, delivered>>
    BY <1>1 DEF Rs!Send, Rs!receiverVars
  <2> HIDE DEF new
  <2>3. BusType'
    <3>1. accepted' \in [Nodes -> Nat]
      BY <2>1 DEF BusType
    <3>2. /\ claiming' \in [Nodes -> Nat] /\ waiting' \in [Nodes -> Nat]
          /\ busy' \in [Nodes -> BOOLEAN] /\ sem' \in [Nodes -> {"none", "up", "given"}]
      <4>1. claiming[n] - 1 \in Nat /\ waiting[n] + 1 \in Nat
        BY <2>2 DEF BusType
      <4> QED BY <2>2, <4>1 DEF BusType
    <3>3. hasty' \subseteq Nodes
      BY <2>2 DEF BusType
    <3> QED BY <2>1, <2>2, <3>1, <3>2, <3>3 DEF BusType
  <2>4. Waiting(n)'
    <3>1. waiting'[n] # 0 /\ sem'[n] = "up"
      BY <2>2 DEF BusType
    <3>2. n \notin hasty' => queue[n] = << >> /\ job[n] = Rs!NoJob
      BY <2>2
    <3>3. queue[n] = << >> /\ queue'[n] # << >> => Len(queue'[n]) = 1
      <4>1. queue[n] \in Seq(Message) /\ Len(<< >>) = 0
        BY DEF BusType
      <4>2. Len(Append(queue[n], new)) = Len(queue[n]) + 1
        BY <2>1, <4>1, AppendProperties
      <4>3. queue[n] = << >> => Len(Append(queue[n], new)) = 1
        BY <4>1, <4>2
      <4>4. queue'[n] = queue[n] \/ queue'[n] = Append(queue[n], new)
        BY <2>1
      <4> QED BY <4>3, <4>4
    <3> QED BY <2>2, <3>1, <3>2, <3>3 DEF Waiting
  <2>5. \A k \in Nodes \ {n} : Waiting(k)'
    BY <2>1, <2>2 DEF BusType, WaitInv, Waiting
  <2> QED BY <2>3, <2>4, <2>5 DEF WaitInv
<1>2. ASSUME NEW n \in Nodes, Rs!Return(n)
      PROVE  BusType' /\ WaitInv'
  <2>1. /\ waiting[n] > 0 /\ waiting' = [waiting EXCEPT ![n] = @ - 1]
        /\ busy' = [busy EXCEPT ![n] = FALSE] /\ sem' = [sem EXCEPT ![n] = "none"]
        /\ hasty' = IF sem[n] = "up" THEN hasty \cup {n} ELSE hasty
        /\ UNCHANGED <<accepted, claiming, queue, job, bus, callback_sem, ready, delivered>>
    BY <1>2 DEF Rs!Return, Rs!receiverVars
  <2>2. BusType'
    <3>1. waiting[n] - 1 \in Nat
      BY <2>1 DEF BusType
    <3>2. waiting' \in [Nodes -> Nat] /\ busy' \in [Nodes -> BOOLEAN] /\ hasty' \subseteq Nodes
          /\ sem' \in [Nodes -> {"none", "up", "given"}]
      BY <2>1, <3>1 DEF BusType
    <3> QED BY <2>1, <3>2 DEF BusType
  <2>3. \A k \in Nodes : Waiting(k)'
    BY <2>1 DEF BusType, WaitInv, Waiting
  <2> QED BY <2>2, <2>3 DEF WaitInv
<1>3. ASSUME NEW n \in Nodes, Rs!Take(n)
      PROVE  BusType' /\ WaitInv'
  <2>1. /\ queue[n] # << >> /\ queue' \in [Nodes -> Seq(Message)] /\ queue'[n] = Tail(queue[n])
        /\ job' \in [Nodes -> Work \cup {Rs!NoJob}]
        /\ \A k \in Nodes \ {n} : UNCHANGED <<queue[k], job[k]>>
    BY <1>3, TakeShape
  <2>2. UNCHANGED <<accepted, claiming, waiting, busy, sem, bus, callback_sem, ready,
                     delivered, hasty>>
    BY <1>3 DEF Rs!Take, Rs!receiverVars, Rs!callVars
  <2>3. BusType'
    BY <2>1, <2>2 DEF BusType
  <2>4. Waiting(n)'
    <3>1. n \notin hasty => sem[n] = "up" /\ queue'[n] = << >>
      <4>1. n \notin hasty => sem[n] = "up" /\ Len(queue[n]) = 1
        BY <2>1 DEF WaitInv, Waiting
      <4>2. queue[n] \in Seq(Message) /\ queue'[n] = Tail(queue[n])
        BY <1>3, TakeShape DEF BusType
      <4>3. Len(queue[n]) = 1 => Tail(queue[n]) = << >>
        BY <2>1, <4>2, HeadTailProperties, EmptySeq
      <4> QED BY <4>1, <4>2, <4>3
    <3> QED BY <2>2, <3>1 DEF WaitInv, Waiting
  <2>5. \A k \in Nodes \ {n} : Waiting(k)'
    BY <2>1, <2>2 DEF WaitInv, Waiting
  <2> QED BY <2>3, <2>4, <2>5 DEF WaitInv
<1>4. ASSUME NEW n \in Nodes, Rs!Acked(n) \/ \E lost \in BOOLEAN : Rs!Write(n, lost)
      PROVE  BusType' /\ WaitInv'
  <2>1. /\ job[n] \in Work /\ job' \in [Nodes -> Work \cup {Rs!NoJob}]
        /\ \A k \in Nodes \ {n} : UNCHANGED job[k]
    BY <1>4, WorkShape
  <2>2. UNCHANGED <<accepted, claiming, waiting, busy, queue, callback_sem, ready,
                     delivered, hasty>>
    BY <1>4 DEF Rs!Acked, Rs!Write, Rs!receiverVars, Rs!callVars
  <2>3. bus' \in Seq(OnBus)
    <3>1. CASE Rs!Acked(n)
      BY <3>1 DEF Rs!Acked, BusType
    <3>2. ASSUME NEW lost \in BOOLEAN, Rs!Write(n, lost)
          PROVE  bus' \in Seq(OnBus)
      <4>1. [msg |-> job[n].msg, cur |-> job[n].cur] \in OnBus
        BY <2>1 DEF OnBus, Work
      <4>2. Append(bus, [msg |-> job[n].msg, cur |-> job[n].cur]) \in Seq(OnBus)
        BY <4>1, AppendProperties DEF BusType
      <4> QED BY <3>2, <4>2 DEF Rs!Write, BusType
    <3> QED BY <1>4, <3>1, <3>2
  <2>4. job[n] # Rs!NoJob
    BY <1>4 DEF Rs!Acked, Rs!Write, Rs!NoJob
  <2>5. /\ sem' \in [Nodes -> {"none", "up", "given"}]
        /\ \A k \in Nodes \ {n} : UNCHANGED sem[k]
        /\ sem'[n] = sem[n] \/ (sem[n] = "up" /\ sem'[n] = "given" /\ job'[n] = Rs!NoJob)
    <3>1. CASE Rs!Acked(n)
      <4>1. sem' = [sem EXCEPT ![n] = IF sem[n] = "up" /\ Rs!LastPacket(n) THEN "given" ELSE sem[n]]
        BY <3>1 DEF Rs!Acked
      <4>2. Rs!LastPacket(n) => job'[n] = Rs!NoJob
        <5>1. job'[n] = Rs!Advanced(job[n])
          BY <3>1 DEF Rs!Acked, BusType
        <5>2. Rs!LastPacket(n) => ~(job[n].cur < job[n].msg.tot)
          BY <2>1 DEF Rs!LastPacket, Work
        <5> QED BY <5>1, <5>2 DEF Rs!Advanced
      <4> QED BY <4>1, <4>2 DEF BusType
    <3>2. CASE \E lost \in BOOLEAN : Rs!Write(n, lost)
      BY <3>2 DEF Rs!Write, BusType
    <3> QED BY <1>4, <3>1, <3>2
  <2>6. BusType'
    BY <2>1, <2>2, <2>3, <2>5 DEF BusType
  <2>7. Waiting(n)'
    <3>1. n \notin hasty => sem[n] = "up" /\ queue[n] = << >>
      BY <2>4 DEF WaitInv, Waiting
    <3>2. waiting[n] = 0 => sem[n] = "none"
      BY DEF WaitInv, Waiting
    <3> QED BY <2>2, <2>5, <3>1, <3>2 DEF Waiting
  <2>8. \A k \in Nodes \ {n} : Waiting(k)'
    BY <2>1, <2>2, <2>5 DEF WaitInv, Waiting
  <2> QED BY <2>6, <2>7, <2>8 DEF WaitInv
<1>5. CASE Rs!Process
  <2>1. /\ bus # << >> /\ bus' = Tail(bus)
        /\ UNCHANGED <<accepted, claiming, waiting, busy, sem, queue, job, delivered, hasty>>
    BY <1>5 DEF Rs!Process, Rs!senderVars, Rs!callVars
  <2>2. Head(bus) \in OnBus /\ bus' \in Seq(OnBus)
    BY <2>1, HeadTailProperties DEF BusType
  <2>3. callback_sem' \in BOOLEAN /\ (callback_sem' => ready' \in Message)
    <3>1. Head(bus).msg \in Message
      BY <2>2 DEF OnBus
    <3>2. \/ callback_sem' = TRUE /\ ready' = Head(bus).msg
          \/ UNCHANGED <<callback_sem, ready>>
      BY <1>5 DEF Rs!Process
    <3>3. CASE callback_sem' = TRUE /\ ready' = Head(bus).msg
      BY <3>1, <3>3
    <3>4. CASE UNCHANGED <<callback_sem, ready>>
      <4>1. callback_sem \in BOOLEAN /\ (callback_sem => ready \in Message)
        BY DEF BusType
      <4>2. callback_sem' = callback_sem /\ ready' = ready
        BY <3>4
      <4> QED BY <4>1, <4>2, Zenon
    <3> QED BY <3>2, <3>3, <3>4
  <2> QED BY <2>1, <2>2, <2>3 DEF BusType, WaitInv, Waiting
<1>6. CASE Rs!CallbackBegin
  <2>1. /\ callback_sem /\ callback_sem' = FALSE
        /\ delivered' = [delivered EXCEPT ![ready.node] = @ \cup {ready.id}]
        /\ UNCHANGED <<accepted, claiming, waiting, busy, sem, queue, job, bus, ready, hasty>>
    BY <1>6 DEF Rs!CallbackBegin, Rs!senderVars, Rs!callVars
  <2>2. ready.node \in Nodes /\ ready.id \in Nat
    BY <2>1 DEF BusType, Message
  <2>3. delivered' \in [Nodes -> SUBSET Nat]
    BY <2>1, <2>2 DEF BusType
  <2> QED BY <2>1, <2>3 DEF BusType, WaitInv, Waiting
<1>7. CASE Rs!Waited \/ Rs!GiveUp \/ Rs!CallbackEnd \/ UNCHANGED Rs!vars
  <2>1. UNCHANGED <<accepted, claiming, waiting, busy, sem, queue, job, bus, ready, callback_sem,
                     delivered, hasty>>
    BY <1>7 DEF Rs!Waited, Rs!GiveUp, Rs!CallbackEnd, Rs!vars, Rs!senderVars, Rs!callVars,
                Rs!receiverVars
  <2> QED BY <2>1 DEF BusType, WaitInv, Waiting
<1>8. ASSUME NEW n \in Nodes, Rs!TestBusy(n)
      PROVE  BusType' /\ WaitInv'
  <2>1. /\ claiming' = [claiming EXCEPT ![n] = @ + 1]
        /\ UNCHANGED <<accepted, waiting, busy, sem, queue, job, bus, callback_sem, ready,
                       delivered, hasty>>
    BY <1>8 DEF Rs!TestBusy, Rs!receiverVars
  <2>2. claiming' \in [Nodes -> Nat]
    BY <2>1 DEF BusType
  <2> QED BY <2>1, <2>2 DEF BusType, WaitInv, Waiting
<1> QED BY <1>1, <1>2, <1>3, <1>4, <1>5, <1>6, <1>7, <1>8 DEF Rs!Next

LEMMA BusHolds == Spec => [](part = "bus" => BusType /\ WaitInv)
<1>1. Init => (part = "bus" => BusType /\ WaitInv)
  BY BusInit DEF Init
<1>2. (part = "bus" => BusType /\ WaitInv) /\ [Next]_vars => (part = "bus" => BusType /\ WaitInv)'
  <2> SUFFICES ASSUME part = "bus", BusType, WaitInv, [Next]_vars PROVE BusType' /\ WaitInv'
    BY PartIsRigid
  <2>1. [Rs!Next]_(Rs!vars)
    BY DEF Next, vars, busVars, Rs!vars, Rs!senderVars, Rs!callVars, Rs!receiverVars
  <2> QED BY <2>1, BusNext
<1> QED BY <1>1, <1>2, PTL DEF Spec

\* A call of Sender whose semaphore was given has had its message written, with any
\* number of boards and tasks and queues of any length, unless an earlier call of the
\* board gave up while its message was still to be sent, or two shared the semaphore.
THEOREM GivenIsTrue == Spec => []GivenMeansSent
<1>1. WaitInv => Rs!GivenMeansSent
  BY DEF WaitInv, Waiting, Rs!GivenMeansSent
<1> QED BY <1>1, BusHolds, PTL DEF GivenMeansSent

-----------------------------------------------------------------------------
(* The order of the messages: on their way from the queue to the callback  *)
(* those of one board never pass each other.                               *)

\* The board n has accepted its message number a and is not before it in its work.
AtSender(n, a) ==
    /\ a \in 1..accepted[n]
    /\ job[n] # Rs!NoJob => a <= job[n].msg.id
    /\ \A i \in 1..Len(queue[n]) : a < queue[n][i].id

\* The same of the next state, where the message may be an expression of that state.
AtSenderNext(n, a) ==
    /\ a \in 1..accepted'[n]
    /\ job'[n] # Rs!NoJob => a <= job'[n].msg.id
    /\ \A i \in 1..Len(queue'[n]) : a < queue'[n][i].id

\* Nor is any of its packets on the line.
Ahead(n, a) ==
    /\ AtSender(n, a)
    /\ \A i \in 1..Len(bus) : bus[i].msg.node = n => a <= bus[i].msg.id

QueueOrder(n) ==
    /\ \A i \in 1..Len(queue[n]) : queue[n][i].node = n /\ queue[n][i].id \in 1..accepted[n]
    /\ \A i, j \in 1..Len(queue[n]) : i < j => queue[n][i].id < queue[n][j].id
    /\ job[n] # Rs!NoJob =>
         /\ job[n].msg.node = n /\ job[n].msg.id \in 1..accepted[n]
         /\ \A i \in 1..Len(queue[n]) : job[n].msg.id < queue[n][i].id

LineOrder ==
    /\ \A i \in 1..Len(bus) : AtSender(bus[i].msg.node, bus[i].msg.id)
    /\ \A i, j \in 1..Len(bus) :
          i < j /\ bus[i].msg.node = bus[j].msg.node => bus[i].msg.id <= bus[j].msg.id

ReaderOrder ==
    /\ ready \in Message => Ahead(ready.node, ready.id)
    /\ \A n \in Nodes : \A d \in delivered[n] :
          /\ Ahead(n, d)
          /\ ready \in Message /\ ready.node = n => d <= ready.id

OrderInv == (\A n \in Nodes : QueueOrder(n)) /\ LineOrder /\ ReaderOrder

\* What a step of a sender may do to the order: nothing that is ahead of its work
\* comes behind it.
LEMMA SenderKeeps ==
  ASSUME BusType, OrderInv, UNCHANGED <<bus, ready, delivered>>,
         \A n \in Nodes, a \in Nat : AtSender(n, a) => AtSender(n, a)',
         \A n \in Nodes : QueueOrder(n)'
  PROVE  OrderInv'
<1>1. \A i \in 1..Len(bus) : bus[i].msg.node \in Nodes /\ bus[i].msg.id \in Nat
  <2>1. \A i \in 1..Len(bus) : bus[i] \in OnBus
    BY DEF BusType
  <2> QED BY <2>1 DEF OnBus, Message
<1>2. LineOrder'
  <2>1. LineOrder
    BY DEF OrderInv
  <2> QED BY <1>1, <2>1 DEF LineOrder
<1>3. \A n \in Nodes, a \in Nat : Ahead(n, a) => Ahead(n, a)'
  BY DEF Ahead
<1>4. ReaderOrder'
  <2>1. ready \in Message => ready.node \in Nodes /\ ready.id \in Nat
    BY DEF Message
  <2>2. \A n \in Nodes : \A d \in delivered[n] : d \in Nat
    BY DEF BusType
  <2>3. ReaderOrder
    BY DEF OrderInv
  <2> QED BY <1>3, <2>1, <2>2, <2>3 DEF ReaderOrder
<1> QED BY <1>2, <1>4 DEF OrderInv

LEMMA SendOrder ==
  ASSUME BusType, OrderInv, NEW n \in Nodes, NEW tot \in 1..MaxPk, Rs!Send(n, tot)
  PROVE  OrderInv'
<1> DEFINE new == [node |-> n, id |-> accepted[n] + 1, tot |-> tot]
           q == queue[n]
           r == Append(q, new)
<1>1. /\ new \in Message /\ accepted' = [accepted EXCEPT ![n] = @ + 1]
      /\ \A k \in Nodes \ {n} : queue'[k] = queue[k]
      /\ queue'[n] = q \/ queue'[n] = r
      /\ new.id = accepted[n] + 1 /\ new.node = n
  BY SendShape
<1>2. UNCHANGED <<job, bus, ready, delivered>>
  BY DEF Rs!Send, Rs!receiverVars
<1>3. q \in Seq(Message) /\ accepted[n] \in Nat
  BY DEF BusType
<1> HIDE DEF new, q
<1>4. /\ Len(r) = Len(q) + 1 /\ Len(q) \in Nat
      /\ \A i \in 1..Len(q) : r[i] = q[i]
      /\ r[Len(q) + 1] = new
  BY <1>1, <1>3, AppendProperties
<1>5. \A i \in 1..Len(r) : i \in 1..Len(q) \/ i = Len(q) + 1
  BY <1>4
<1>6. /\ accepted'[n] = accepted[n] + 1
      /\ \A k \in Nodes \ {n} : accepted'[k] = accepted[k]
  BY <1>1 DEF BusType
<1>7. /\ \A i \in 1..Len(q) : q[i].node = n /\ q[i].id \in 1..accepted[n]
      /\ \A i, j \in 1..Len(q) : i < j => q[i].id < q[j].id
      /\ job[n] # Rs!NoJob =>
           /\ job[n].msg.node = n /\ job[n].msg.id \in 1..accepted[n]
           /\ \A i \in 1..Len(q) : job[n].msg.id < q[i].id
  BY DEF OrderInv, QueueOrder, q
<1>8. ASSUME NEW a \in Nat, AtSender(n, a)
      PROVE  AtSender(n, a)'
  <2>1. /\ a \in 1..accepted[n] /\ \A i \in 1..Len(q) : a < q[i].id
        /\ job[n] # Rs!NoJob => a <= job[n].msg.id
    BY <1>8 DEF AtSender, q
  <2>2. a \in 1..(accepted[n] + 1) /\ a < accepted[n] + 1
    BY <1>3, <2>1
  <2>3. \A i \in 1..Len(r) : a < r[i].id
    BY <1>1, <1>4, <1>5, <2>1, <2>2
  <2>4. \A i \in 1..Len(queue'[n]) : a < queue'[n][i].id
    BY <1>1, <2>1, <2>3
  <2> QED BY <1>2, <1>6, <2>1, <2>2, <2>4 DEF AtSender
<1>9. QueueOrder(n)'
  <2>1. \A i \in 1..Len(q) : q[i].id \in 1..(accepted[n] + 1) /\ q[i].id < accepted[n] + 1
    BY <1>3, <1>7
  <2>2. /\ \A i \in 1..Len(r) : r[i].node = n /\ r[i].id \in 1..(accepted[n] + 1)
        /\ \A i, j \in 1..Len(r) : i < j => r[i].id < r[j].id
    <3>1. accepted[n] + 1 \in 1..(accepted[n] + 1)
      BY <1>3
    <3>2. \A i \in 1..Len(r) : r[i].node = n /\ r[i].id \in 1..(accepted[n] + 1)
      BY <1>1, <1>4, <1>5, <1>7, <2>1, <3>1
    <3>3. ASSUME NEW i \in 1..Len(r), NEW j \in 1..Len(r), i < j
          PROVE  r[i].id < r[j].id
      <4>1. i \in 1..Len(q)
        BY <1>4, <3>3
      <4> QED BY <1>1, <1>4, <1>5, <1>7, <2>1, <3>3, <4>1
    <3> QED BY <3>2, <3>3
  <2>3. job[n] # Rs!NoJob =>
           /\ job[n].msg.id \in 1..(accepted[n] + 1)
           /\ job[n].msg.id < accepted[n] + 1
    BY <1>3, <1>7
  <2>4. job[n] # Rs!NoJob => \A i \in 1..Len(r) : job[n].msg.id < r[i].id
    BY <1>1, <1>4, <1>5, <1>7, <2>3
  <2>5. CASE queue'[n] = q
    BY <1>2, <1>6, <1>7, <2>1, <2>3, <2>5 DEF QueueOrder
  <2>6. CASE queue'[n] = r
    BY <1>2, <1>6, <1>7, <2>2, <2>3, <2>4, <2>6 DEF QueueOrder
  <2> QED BY <1>1, <2>5, <2>6
<1>10. \A k \in Nodes \ {n} : QueueOrder(k)' /\ \A a \in Nat : AtSender(k, a) => AtSender(k, a)'
  <2>1. \A k \in Nodes : QueueOrder(k)
    BY DEF OrderInv
  <2> QED BY <1>1, <1>2, <1>6, <2>1 DEF QueueOrder, AtSender
<1> QED BY <1>2, <1>8, <1>9, <1>10, SenderKeeps

LEMMA TakeOrder ==
  ASSUME BusType, OrderInv, NEW n \in Nodes, Rs!Take(n)
  PROVE  OrderInv'
<1> DEFINE q == queue[n]
<1>1. /\ q # << >> /\ queue'[n] = Tail(q) /\ job'[n].msg = Head(q) /\ job[n] = Rs!NoJob
      /\ \A k \in Nodes \ {n} : UNCHANGED <<queue[k], job[k]>>
  BY TakeShape
<1>2. UNCHANGED <<accepted, bus, ready, delivered>>
  BY DEF Rs!Take, Rs!receiverVars
<1>3. q \in Seq(Message) /\ QueueOrder(n)
  BY DEF BusType, OrderInv
<1>4. /\ \A i \in 1..Len(q) : q[i].node = n /\ q[i].id \in 1..accepted[n]
      /\ \A i, j \in 1..Len(q) : i < j => q[i].id < q[j].id
  BY <1>3 DEF QueueOrder
<1> HIDE DEF q
<1>5. /\ Len(q) \in Nat \ {0} /\ Head(q) = q[1] /\ Len(Tail(q)) = Len(q) - 1
      /\ \A i \in 1..Len(Tail(q)) : Tail(q)[i] = q[i + 1]
  BY <1>1, <1>3, HeadTailProperties, EmptySeq
<1>6. \A i \in 1..Len(Tail(q)) : /\ i + 1 \in 1..Len(q) /\ 1 < i + 1
                                 /\ \A j \in 1..Len(Tail(q)) : i < j => i + 1 < j + 1
  BY <1>5
<1>7. 1 \in 1..Len(q)
  BY <1>5
<1>8. QueueOrder(n)'
  <2>1. \A i \in 1..Len(Tail(q)) : /\ Tail(q)[i].node = n /\ Tail(q)[i].id \in 1..accepted[n]
                                   /\ Head(q).id < Tail(q)[i].id
    BY <1>4, <1>5, <1>6, <1>7
  <2>2. \A i, j \in 1..Len(Tail(q)) : i < j => Tail(q)[i].id < Tail(q)[j].id
    BY <1>4, <1>5, <1>6
  <2>3. Head(q).node = n /\ Head(q).id \in 1..accepted[n]
    BY <1>4, <1>5, <1>7
  <2> QED BY <1>1, <1>2, <2>1, <2>2, <2>3 DEF QueueOrder
<1>9. ASSUME NEW a \in Nat, AtSender(n, a)
      PROVE  AtSender(n, a)'
  <2>1. a \in 1..accepted[n] /\ \A i \in 1..Len(q) : a < q[i].id
    BY <1>9 DEF AtSender, q
  <2>2. a <= Head(q).id
    <3>1. a < q[1].id /\ q[1].id \in Nat
      BY <1>4, <1>7, <2>1
    <3> QED BY <1>5, <3>1
  <2>3. \A i \in 1..Len(Tail(q)) : a < Tail(q)[i].id
    BY <1>5, <1>6, <2>1
  <2> QED BY <1>1, <1>2, <2>1, <2>2, <2>3 DEF AtSender
<1>10. \A k \in Nodes \ {n} : QueueOrder(k)' /\ \A a \in Nat : AtSender(k, a) => AtSender(k, a)'
  <2>1. \A k \in Nodes : QueueOrder(k)
    BY DEF OrderInv
  <2> QED BY <1>1, <1>2, <2>1 DEF QueueOrder, AtSender
<1> QED BY <1>2, <1>8, <1>9, <1>10, SenderKeeps

LEMMA AckedOrder ==
  ASSUME BusType, OrderInv, NEW n \in Nodes, Rs!Acked(n)
  PROVE  OrderInv'
<1>1. /\ job[n] # Rs!NoJob
      /\ job'[n] = Rs!NoJob \/ job'[n].msg = job[n].msg
      /\ \A k \in Nodes \ {n} : UNCHANGED job[k]
  <2>1. job[n] # Rs!NoJob
    BY DEF Rs!Acked, Rs!NoJob
  <2> QED BY <2>1, WorkShape
<1>2. UNCHANGED <<accepted, queue, bus, ready, delivered>>
  BY DEF Rs!Acked, Rs!receiverVars
<1>3. \A k \in Nodes : QueueOrder(k)' /\ \A a \in Nat : AtSender(k, a) => AtSender(k, a)'
  <2>1. \A k \in Nodes : QueueOrder(k)
    BY DEF OrderInv
  <2> QED BY <1>1, <1>2, <2>1 DEF QueueOrder, AtSender
<1> QED BY <1>2, <1>3, SenderKeeps

LEMMA WriteOrder ==
  ASSUME BusType, OrderInv, NEW n \in Nodes, NEW lost \in BOOLEAN, Rs!Write(n, lost)
  PROVE  OrderInv'
<1> DEFINE p == [msg |-> job[n].msg, cur |-> job[n].cur]
<1>1. /\ job[n] \in Work /\ job[n] # Rs!NoJob
      /\ job'[n] = Rs!NoJob \/ job'[n].msg = job[n].msg
      /\ \A k \in Nodes \ {n} : UNCHANGED job[k]
  <2>1. job[n] # Rs!NoJob
    BY DEF Rs!Write, Rs!NoJob
  <2> QED BY <2>1, WorkShape
<1>2. UNCHANGED <<accepted, queue, ready, delivered>> /\ bus' \in {bus, Append(bus, p)}
  BY DEF Rs!Write, Rs!receiverVars
<1>3. /\ \A k \in Nodes : QueueOrder(k)
      /\ LineOrder /\ ReaderOrder
  BY DEF OrderInv
<1>4. \A k \in Nodes : QueueOrder(k)' /\ \A a \in Nat : AtSender(k, a) => AtSender(k, a)'
  BY <1>1, <1>2, <1>3 DEF QueueOrder, AtSender
<1>5. CASE bus' = bus
  BY <1>2, <1>4, <1>5, SenderKeeps
<1>6. CASE bus' = Append(bus, p)
  <2>1. /\ p \in OnBus /\ p.msg = job[n].msg /\ p.msg \in Message
        /\ p.msg.node \in Nodes /\ p.msg.id \in Nat
    BY <1>1 DEF OnBus, Work, Message
  <2>2. /\ p.msg.node = n /\ p.msg.id \in 1..accepted[n]
        /\ \A i \in 1..Len(queue[n]) : p.msg.id < queue[n][i].id
    BY <1>1, <1>3, <2>1 DEF QueueOrder
  <2>3. AtSender(n, p.msg.id)
    BY <2>1, <2>2 DEF AtSender
  <2> HIDE DEF p
  <2>4. /\ bus \in Seq(OnBus) /\ Len(bus) \in Nat /\ Len(bus') = Len(bus) + 1
        /\ \A i \in 1..Len(bus) : bus'[i] = bus[i]
        /\ bus'[Len(bus) + 1] = p
    BY <1>6, <2>1, AppendProperties DEF BusType
  <2> DEFINE m == Len(bus) + 1
  <2>5. /\ bus'[m] = p
        /\ \A i \in 1..Len(bus') : (i \in 1..Len(bus) /\ i < m) \/ i = m
    BY <2>4
  <2>6. \A i \in 1..Len(bus) : /\ bus[i].msg.node \in Nodes /\ bus[i].msg.id \in Nat
                               /\ AtSender(bus[i].msg.node, bus[i].msg.id)
    <3>1. \A i \in 1..Len(bus) : bus[i] \in OnBus
      BY <2>4
    <3> QED BY <1>3, <3>1 DEF OnBus, Message, LineOrder
  <2>7. \A i \in 1..Len(bus') : AtSenderNext(bus'[i].msg.node, bus'[i].msg.id)
    <3>1. \A k \in Nodes, a \in Nat : AtSender(k, a) => AtSenderNext(k, a)
      BY <1>4 DEF AtSender, AtSenderNext
    <3>2. AtSenderNext(p.msg.node, p.msg.id)
      BY <2>1, <2>2, <2>3, <3>1
    <3>3. \A i \in 1..Len(bus) : AtSenderNext(bus[i].msg.node, bus[i].msg.id)
      BY <2>6, <3>1
    <3> QED BY <2>4, <2>5, <3>2, <3>3
  <2>8. \A a \in Nat : AtSender(n, a) => a <= p.msg.id
    BY <1>1, <2>1 DEF AtSender
  <2> HIDE DEF m
  <2>9. ASSUME NEW i \in 1..Len(bus'), NEW j \in 1..Len(bus'), i < j,
               bus'[i].msg.node = bus'[j].msg.node
        PROVE  bus'[i].msg.id <= bus'[j].msg.id
    <3>1. i \in 1..Len(bus) /\ bus'[i] = bus[i]
      <4>1. i # m
        BY <2>5, <2>9 DEF m
      <4> QED BY <2>4, <2>5, <4>1
    <3>2. CASE j \in 1..Len(bus)
      BY <1>3, <2>4, <2>9, <3>1, <3>2 DEF LineOrder
    <3>3. CASE j = m
      <4>1. bus[i].msg.node = n
        BY <2>2, <2>5, <2>9, <3>1, <3>3
      <4> QED BY <2>5, <2>6, <2>8, <3>1, <3>3, <4>1
    <3> QED BY <2>5, <3>2, <3>3
  <2>10. \A k \in Nodes, a \in Nat : Ahead(k, a) => Ahead(k, a)'
    <3> SUFFICES ASSUME NEW k \in Nodes, NEW a \in Nat, Ahead(k, a) PROVE Ahead(k, a)'
      OBVIOUS
    <3>1. AtSender(k, a)' /\ AtSender(k, a)
      BY <1>4 DEF Ahead
    <3>2. \A i \in 1..Len(bus') : bus'[i].msg.node = k => a <= bus'[i].msg.id
      BY <2>2, <2>4, <2>5, <2>8, <3>1 DEF Ahead
    <3> QED BY <3>1, <3>2 DEF Ahead
  <2>11. LineOrder'
    BY <2>7, <2>9 DEF LineOrder, AtSender, AtSenderNext
  <2>12. ReaderOrder'
    <3>1. ready \in Message => ready.node \in Nodes /\ ready.id \in Nat
      BY DEF Message
    <3>2. \A k \in Nodes : \A d \in delivered[k] : d \in Nat
      BY DEF BusType
    <3> QED BY <1>2, <1>3, <2>10, <3>1, <3>2 DEF ReaderOrder
  <2> QED BY <1>4, <2>11, <2>12 DEF OrderInv
<1> QED BY <1>2, <1>5, <1>6

LEMMA ProcessOrder ==
  ASSUME BusType, OrderInv, Rs!Process
  PROVE  OrderInv'
<1>1. /\ bus # << >> /\ bus' = Tail(bus)
      /\ UNCHANGED <<accepted, queue, job, delivered>>
      /\ ready' = ready \/ ready' = Head(bus).msg
  BY DEF Rs!Process, Rs!senderVars
<1>2. /\ bus \in Seq(OnBus) /\ Len(bus) \in Nat \ {0} /\ Head(bus) = bus[1] /\ Head(bus) \in OnBus
      /\ Len(bus') = Len(bus) - 1
      /\ \A i \in 1..Len(bus') : bus'[i] = bus[i + 1]
  BY <1>1, HeadTailProperties, EmptySeq DEF BusType
<1>3. /\ 1 \in 1..Len(bus)
      /\ \A i \in 1..Len(bus') : /\ i + 1 \in 1..Len(bus) /\ 1 < i + 1
                                 /\ \A j \in 1..Len(bus') : i < j => i + 1 < j + 1
  BY <1>2
<1>4. LineOrder /\ ReaderOrder /\ \A k \in Nodes : QueueOrder(k)
  BY DEF OrderInv
<1>5. \A k, a : AtSender(k, a) => AtSender(k, a)'
  BY <1>1 DEF AtSender
<1>6. \A k, a : Ahead(k, a) => Ahead(k, a)'
  BY <1>2, <1>3, <1>5 DEF Ahead
<1>7. LineOrder'
  <2>1. \A i \in 1..Len(bus') : AtSender(bus[i + 1].msg.node, bus[i + 1].msg.id)
    BY <1>3, <1>4 DEF LineOrder
  <2>2. \A i \in 1..Len(bus') : AtSenderNext(bus'[i].msg.node, bus'[i].msg.id)
    BY <1>1, <1>2, <2>1 DEF AtSender, AtSenderNext
  <2>3. \A i, j \in 1..Len(bus') :
          i < j /\ bus'[i].msg.node = bus'[j].msg.node => bus'[i].msg.id <= bus'[j].msg.id
    BY <1>2, <1>3, <1>4 DEF LineOrder
  <2> QED BY <2>2, <2>3 DEF LineOrder, AtSender, AtSenderNext
<1>8. ReaderOrder'
  <2>1. CASE ready' = ready
    BY <1>1, <1>4, <1>6, <2>1 DEF ReaderOrder
  <2>2. CASE ready' = Head(bus).msg
    <3> DEFINE h == bus[1].msg
    <3>1. AtSender(h.node, h.id)
      BY <1>3, <1>4 DEF LineOrder
    <3>2. \A i \in 1..Len(bus') : bus'[i].msg.node = h.node => h.id <= bus'[i].msg.id
      BY <1>2, <1>3, <1>4 DEF LineOrder
    <3>3. \A k \in Nodes : \A d \in delivered[k] : h.node = k => d <= h.id
      BY <1>3, <1>4 DEF ReaderOrder, Ahead
    <3> HIDE DEF h
    <3>4. ready' = h
      BY <1>2, <2>2 DEF h
    <3>5. Ahead(ready.node, ready.id)'
      <4>1. AtSenderNext(h.node, h.id)
        BY <1>1, <3>1 DEF AtSender, AtSenderNext
      <4> QED BY <3>2, <3>4, <4>1 DEF Ahead, AtSender, AtSenderNext
    <3> QED BY <1>1, <1>4, <1>6, <3>3, <3>4, <3>5 DEF ReaderOrder
  <2> QED BY <1>1, <2>1, <2>2
<1>9. \A k \in Nodes : QueueOrder(k)'
  BY <1>1, <1>4 DEF QueueOrder
<1> QED BY <1>7, <1>8, <1>9 DEF OrderInv

LEMMA BeginOrder ==
  ASSUME BusType, OrderInv, Rs!CallbackBegin
  PROVE  /\ OrderInv'
         /\ \A n \in Nodes :
              IF n = ready.node THEN Rs!Ordered(n)!Next ELSE UNCHANGED Rs!Ordered(n)!vars
<1>1. /\ callback_sem
      /\ delivered' = [delivered EXCEPT ![ready.node] = @ \cup {ready.id}]
      /\ UNCHANGED <<accepted, queue, job, bus, ready>>
  BY DEF Rs!CallbackBegin, Rs!senderVars
<1>2. ready \in Message /\ ready.node \in Nodes /\ ready.id \in Nat
  BY <1>1 DEF BusType, Message
<1>3. LineOrder /\ ReaderOrder /\ \A k \in Nodes : QueueOrder(k)
  BY DEF OrderInv
<1>4. LineOrder' /\ \A k \in Nodes : QueueOrder(k)'
  BY <1>1, <1>3 DEF LineOrder, QueueOrder, AtSender
<1>5. \A k, a : Ahead(k, a) => Ahead(k, a)'
  BY <1>1 DEF Ahead, AtSender
<1>6. \A k \in Nodes : delivered'[k] = IF k = ready.node THEN delivered[k] \cup {ready.id} ELSE delivered[k]
  BY <1>1 DEF BusType
<1>7. ReaderOrder'
  BY <1>1, <1>2, <1>3, <1>5, <1>6 DEF ReaderOrder
<1>8. ASSUME NEW n \in Nodes, n = ready.node
      PROVE  Rs!Ordered(n)!Next
  <2> DEFINE m == ready.id
  <2>1. m \in 1..accepted[n]
    BY <1>2, <1>3, <1>8 DEF ReaderOrder, Ahead, AtSender
  <2>2. \A d \in delivered[n] : d <= m
    BY <1>2, <1>3, <1>8 DEF ReaderOrder
  <2>3. delivered'[n] = delivered[n] \union {m} /\ accepted'[n] = accepted[n]
    BY <1>1, <1>2, <1>6, <1>8
  <2> HIDE DEF m
  <2> QED BY <2>1, <2>2, <2>3 DEF Rs!Ordered!Next, Rs!Ordered!Deliver
<1>9. ASSUME NEW n \in Nodes, n # ready.node
      PROVE  UNCHANGED Rs!Ordered(n)!vars
  BY <1>1, <1>6, <1>9 DEF Rs!Ordered!vars
<1> QED BY <1>2, <1>4, <1>7, <1>8, <1>9 DEF OrderInv

LEMMA OrderInit == Rs!Init => OrderInv /\ Rs!OrderedInit
<1> SUFFICES ASSUME Rs!Init PROVE OrderInv /\ Rs!OrderedInit
  OBVIOUS
<1>1. /\ bus = << >> /\ ready = Rs!None
      /\ \A n \in Nodes : accepted[n] = 0 /\ queue[n] = << >> /\ job[n] = Rs!NoJob
                          /\ delivered[n] = {}
  BY DEF Rs!Init
<1>2. ready \notin Message
  BY <1>1 DEF Rs!None, Message
<1>3. LineOrder /\ ReaderOrder
  BY <1>1, <1>2 DEF LineOrder, ReaderOrder
<1>4. \A n \in Nodes : QueueOrder(n)
  BY <1>1 DEF QueueOrder
<1>5. Rs!OrderedInit
  BY <1>1 DEF Rs!OrderedInit, Rs!Ordered!Init
<1> QED BY <1>3, <1>4, <1>5 DEF OrderInv

\* Every step keeps the order, and is one of OrderedLink for each board.
LEMMA OrderNext ==
  BusType /\ OrderInv /\ [Rs!Next]_(Rs!vars) => OrderInv' /\ Rs!OrderedStep
<1> SUFFICES ASSUME BusType, OrderInv, [Rs!Next]_(Rs!vars) PROVE OrderInv' /\ Rs!OrderedStep
  OBVIOUS
<1>1. UNCHANGED <<accepted, delivered>> => Rs!OrderedStep
  BY DEF Rs!OrderedStep, Rs!Ordered!vars
<1>2. ASSUME NEW n \in Nodes, NEW tot \in 1..MaxPk, Rs!Send(n, tot)
      PROVE  OrderInv' /\ Rs!OrderedStep
  <2>1. /\ accepted' = [accepted EXCEPT ![n] = @ + 1]
        /\ UNCHANGED delivered
    BY <1>2 DEF Rs!Send, Rs!receiverVars
  <2>2. /\ accepted'[n] = accepted[n] + 1
        /\ \A k \in Nodes \ {n} : accepted'[k] = accepted[k]
    BY <2>1 DEF BusType
  <2>3. Rs!OrderedStep
    BY <2>1, <2>2 DEF Rs!OrderedStep, Rs!Ordered!vars, Rs!Ordered!Next, Rs!Ordered!Accept
  <2> QED BY <1>2, <2>3, SendOrder
<1>3. ASSUME NEW n \in Nodes, Rs!Take(n) \/ Rs!Acked(n) \/ \E lost \in BOOLEAN : Rs!Write(n, lost)
      PROVE  OrderInv' /\ Rs!OrderedStep
  <2>1. UNCHANGED <<accepted, delivered>>
    BY <1>3 DEF Rs!Take, Rs!Acked, Rs!Write, Rs!receiverVars
  <2> QED BY <1>1, <1>3, <2>1, TakeOrder, AckedOrder, WriteOrder
<1>4. CASE Rs!Process
  <2>1. UNCHANGED <<accepted, delivered>>
    BY <1>4 DEF Rs!Process, Rs!senderVars
  <2> QED BY <1>1, <1>4, <2>1, ProcessOrder
<1>5. CASE Rs!CallbackBegin
  <2>1. /\ OrderInv'
        /\ \A n \in Nodes :
             IF n = ready.node THEN Rs!Ordered(n)!Next ELSE UNCHANGED Rs!Ordered(n)!vars
    BY <1>5, BeginOrder
  <2>2. \A n \in Nodes : Rs!Ordered(n)!Next \/ UNCHANGED Rs!Ordered(n)!vars
    BY <2>1
  <2> QED BY <2>1, <2>2 DEF Rs!OrderedStep
<1>6. CASE \/ \E n \in Nodes : Rs!Return(n) \/ Rs!TestBusy(n)
           \/ Rs!Waited \/ Rs!GiveUp \/ Rs!CallbackEnd \/ UNCHANGED Rs!vars
  <2>1. UNCHANGED <<accepted, queue, job, bus, ready, delivered>>
    BY <1>6 DEF Rs!Return, Rs!TestBusy, Rs!Waited, Rs!GiveUp, Rs!CallbackEnd, Rs!vars, Rs!senderVars,
                Rs!receiverVars
  <2>2. OrderInv'
    BY <2>1 DEF OrderInv, QueueOrder, LineOrder, ReaderOrder, Ahead, AtSender
  <2> QED BY <1>1, <2>1, <2>2
<1> QED BY <1>2, <1>3, <1>4, <1>5, <1>6 DEF Rs!Next

\* Whatever is lost, late or mixed with the packets of other boards, the messages of
\* one board are handed over in the order it sent them, with any number of boards and
\* queues of any length: the bus implements OrderedLink for each of them.
THEOREM BusOrdered == Spec => InOrder
<1>1. Init => /\ part = "bus" => BusType /\ WaitInv /\ OrderInv
              /\ part = "bus" => Rs!OrderedInit
  BY BusInit, OrderInit DEF Init
<1>2. (part = "bus" => BusType /\ WaitInv /\ OrderInv) /\ [Next]_vars
        => /\ (part = "bus" => BusType /\ WaitInv /\ OrderInv)'
           /\ part = "bus" => Rs!OrderedStep
  <2> SUFFICES ASSUME part = "bus", BusType, WaitInv, OrderInv, [Next]_vars
               PROVE  BusType' /\ WaitInv' /\ OrderInv' /\ Rs!OrderedStep
    BY PartIsRigid
  <2>1. [Rs!Next]_(Rs!vars)
    BY DEF Next, vars, busVars, Rs!vars, Rs!senderVars, Rs!callVars, Rs!receiverVars
  <2> QED BY <2>1, BusNext, OrderNext
<1> QED BY <1>1, <1>2, PTL DEF Spec, InOrder

-----------------------------------------------------------------------------
(* What the callback of the bus reads.  The packets of an unspoiled        *)
(* message follow each other, first in the buffer and then on the line, up *)
(* to the one its sender is at; and while no callback was late the buffer  *)
(* stays as it was handed over until the callback has ended.               *)

\* The buffer b has the first c packets of m and no other.
Holding(b, m, c) == b = [i \in 1..MaxPk |-> IF i <= c THEN m ELSE Rs!None]

\* What is before the position i of the line l is the packet c of m.
Follows(l, b, i, m, c) ==
    /\ i = 1 => Holding(b, m, c)
    /\ i # 1 => l[i - 1] = [msg |-> m, cur |-> c]

LineWhole ==
    \A i \in 1..Len(bus) :
        /\ bus[i].cur # 0
        /\ bus[i].msg \notin spoiled /\ bus[i].cur # 1
              => Follows(bus, buf, i, bus[i].msg, bus[i].cur - 1)

\* The packets of its message n has written.
Written(n) == IF job[n].at = "write" THEN job[n].cur - 1 ELSE job[n].cur

JobWhole(n) ==
    job[n] # Rs!NoJob =>
        /\ job[n].cur # 0
        /\ Rs!Partial(n) /\ job[n].msg \notin spoiled
              => Follows(bus, buf, Len(bus) + 1, job[n].msg, Written(n))

HandedOver ==
    /\ rx \in {"read", "wait"}
    /\ rx = "wait" /\ ready \notin spoiled => Holding(buf, ready, ready.tot)
    /\ ~late =>
         /\ rx = "read" => ~callback_sem /\ ~wait_sem /\ cb = Rs!None
         /\ callback_sem => ~wait_sem /\ cb = Rs!None
         /\ wait_sem => cb = Rs!None
         /\ cb # Rs!None => cb = ready

WholeInv == LineWhole /\ (\A n \in Nodes : JobWhole(n)) /\ HandedOver

LEMMA WholeInit == Rs!Init => WholeInv
<1> SUFFICES ASSUME Rs!Init PROVE WholeInv
  OBVIOUS
<1>1. bus = << >> /\ \A n \in Nodes : job[n] = Rs!NoJob
  BY DEF Rs!Init
<1>2. rx = "read" /\ ~callback_sem /\ ~wait_sem /\ cb = Rs!None
  BY DEF Rs!Init
<1>3. \A i \in 1..Len(bus) : FALSE
  BY <1>1
<1> QED BY <1>1, <1>2, <1>3 DEF WholeInv, LineWhole, JobWhole, HandedOver

\* A step of a sender leaves the reader alone, and no spoiled message is whole again.
LEMMA SenderHandsOver ==
  ASSUME HandedOver, UNCHANGED <<Rs!receiverVars, late>>, spoiled \subseteq spoiled'
  PROVE  HandedOver'
BY DEF HandedOver, Holding, Rs!receiverVars

LEMMA WriteWhole ==
  ASSUME BusType, WholeInv, NEW n \in Nodes, NEW lost \in BOOLEAN, Rs!Write(n, lost)
  PROVE  WholeInv'
<1> DEFINE m == job[n].msg
           p == [msg |-> m, cur |-> job[n].cur]
<1>1. /\ job[n] \in Work /\ job[n].at = "write" /\ job[n] # Rs!NoJob
      /\ \A k \in Nodes \ {n} : UNCHANGED job[k]
  <2>1. job[n].at = "write" /\ job[n] # Rs!NoJob
    BY DEF Rs!Write, Rs!NoJob
  <2> QED BY <2>1, WorkShape
<1>2. job'[n] = [job[n] EXCEPT !.at = "ack"]
  BY DEF Rs!Write, BusType
<1>3. job'[n].at = "ack" /\ job'[n].msg = m /\ job'[n].cur = job[n].cur
  BY <1>1, <1>2 DEF Work
<1>4. /\ bus' = IF lost THEN bus ELSE Append(bus, p)
      /\ spoiled' = spoiled \cup (IF lost THEN {m} ELSE {})
                            \cup {job[k].msg : k \in {k \in Nodes \ {n} : Rs!Partial(k)}}
      /\ UNCHANGED <<Rs!receiverVars, late, buf>>
  BY DEF Rs!Write, Rs!receiverVars
<1>5. job[n].cur \in Nat /\ job[n].cur # 0 /\ m \in Message
  BY <1>1 DEF WholeInv, JobWhole, Work
<1> HIDE DEF m
<1>6. HandedOver'
  BY <1>4, SenderHandsOver DEF WholeInv
<1>7. \A k \in Nodes \ {n} : JobWhole(k)'
  <2>1. ASSUME NEW k \in Nodes \ {n}
        PROVE  JobWhole(k)'
    <3>1. job'[k] = job[k]
      BY <1>1
    <3>2. Rs!Partial(k)' <=> Rs!Partial(k)
      BY <3>1 DEF Rs!Partial
    <3>3. Rs!Partial(k) => job[k].msg \in spoiled'
      BY <1>4
    <3>4. JobWhole(k)
      BY DEF WholeInv
    <3> QED BY <3>1, <3>2, <3>3, <3>4 DEF JobWhole
  <2> QED BY <2>1
<1>8. CASE lost
  <2>1. bus' = bus /\ spoiled \subseteq spoiled' /\ m \in spoiled'
    BY <1>4, <1>8
  <2>2. JobWhole(n)'
    BY <1>3, <1>5, <2>1 DEF JobWhole
  <2>3. LineWhole'
    <3>1. buf' = buf
      BY <1>4
    <3> QED BY <2>1, <3>1 DEF WholeInv, LineWhole
  <2> QED BY <1>6, <1>7, <2>2, <2>3 DEF WholeInv
<1>9. CASE ~lost
  <2>1. bus' = Append(bus, p) /\ spoiled \subseteq spoiled'
    BY <1>4, <1>9
  <2>2. bus \in Seq(OnBus) /\ p \in OnBus /\ p.msg = m /\ p.cur = job[n].cur
    BY <1>5 DEF BusType, OnBus
  <2> HIDE DEF p
  <2>3. /\ Len(bus) \in Nat /\ Len(bus') = Len(bus) + 1
        /\ \A i \in 1..Len(bus) : bus'[i] = bus[i]
        /\ bus'[Len(bus) + 1] = p
    BY <2>1, <2>2, AppendProperties
  <2>4. \A k \in Message, c \in Nat, i \in 1..(Len(bus) + 1) :
            Follows(bus, buf, i, k, c) => Follows(bus', buf', i, k, c)
    <3>1. \A i \in 1..(Len(bus) + 1) : i # 1 => i - 1 \in 1..Len(bus)
      BY <2>3
    <3> QED BY <1>4, <2>3, <3>1 DEF Follows, Holding
  <2>5. LineWhole'
    <3>1. ASSUME NEW i \in 1..Len(bus)
          PROVE  /\ bus'[i].cur # 0
                 /\ bus'[i].msg \notin spoiled' /\ bus'[i].cur # 1
                       => Follows(bus', buf', i, bus[i].msg, bus[i].cur - 1)
      <4>1. bus[i] \in OnBus /\ bus'[i] = bus[i] /\ i \in 1..(Len(bus) + 1)
        BY <2>2, <2>3
      <4>2. /\ bus[i].cur # 0
            /\ bus[i].msg \notin spoiled /\ bus[i].cur # 1
                  => Follows(bus, buf, i, bus[i].msg, bus[i].cur - 1)
        BY DEF WholeInv, LineWhole
      <4>3. bus[i].msg \in Message /\ bus[i].cur - 1 \in Nat
        BY <4>1, <4>2 DEF OnBus
      <4> QED BY <2>1, <2>4, <4>1, <4>2, <4>3
    <3>2. /\ p.cur # 0
          /\ m \notin spoiled' /\ p.cur # 1 => Follows(bus', buf', Len(bus) + 1, m, p.cur - 1)
      <4>1. p.cur # 1 => Rs!Partial(n)
        BY <1>1, <1>5, <2>2 DEF Rs!Partial
      <4>2. p.cur # 1 /\ m \notin spoiled => Follows(bus, buf, Len(bus) + 1, m, p.cur - 1)
        BY <1>1, <2>2, <4>1 DEF WholeInv, JobWhole, Written, m
      <4>3. p.cur - 1 \in Nat /\ Len(bus) + 1 \in 1..(Len(bus) + 1)
        BY <1>5, <2>2, <2>3
      <4> QED BY <1>5, <2>1, <2>2, <2>4, <4>2, <4>3
    <3>3. \A i \in 1..Len(bus') : i \in 1..Len(bus) \/ i = Len(bus) + 1
      BY <2>3
    <3> QED BY <2>2, <2>3, <3>1, <3>2, <3>3 DEF LineWhole, Follows, Holding
  <2>6. JobWhole(n)'
    <3>1. bus'[Len(bus')] = [msg |-> m, cur |-> job[n].cur] /\ Len(bus') + 1 # 1
          /\ (Len(bus') + 1) - 1 = Len(bus')
      BY <2>3 DEF p
    <3> QED BY <1>3, <1>5, <3>1 DEF JobWhole, Follows, Written
  <2> QED BY <1>6, <1>7, <2>5, <2>6 DEF WholeInv
<1> QED BY <1>8, <1>9

LEMMA AckedWhole ==
  ASSUME BusType, WholeInv, NEW n \in Nodes, Rs!Acked(n)
  PROVE  WholeInv'
<1>1. /\ job[n] \in Work /\ job[n].at = "ack" /\ job[n] # Rs!NoJob
      /\ \A k \in Nodes \ {n} : UNCHANGED job[k]
  <2>1. job[n].at = "ack" /\ job[n] # Rs!NoJob
    BY DEF Rs!Acked, Rs!NoJob
  <2> QED BY <2>1, WorkShape
<1>2. UNCHANGED <<bus, buf, Rs!receiverVars, late, spoiled>>
  BY DEF Rs!Acked, Rs!receiverVars
<1>3. job'[n] = Rs!Advanced(job[n])
  BY DEF Rs!Acked, BusType
<1>4. HandedOver' /\ LineWhole'
  BY <1>2, SenderHandsOver DEF WholeInv, LineWhole, Follows, Holding
<1>5. \A k \in Nodes \ {n} : JobWhole(k)'
  BY <1>1, <1>2 DEF WholeInv, JobWhole, Rs!Partial, Follows, Holding, Written
<1>6. CASE job[n].cur < job[n].msg.tot
  <2>1. job'[n] = [job[n] EXCEPT !.cur = job[n].cur + 1, !.at = "write"]
    BY <1>3, <1>6 DEF Rs!Advanced
  <2>2. /\ job'[n].cur = job[n].cur + 1 /\ job'[n].at = "write" /\ job'[n].msg = job[n].msg
        /\ job[n].cur \in Nat
    BY <1>1, <2>1 DEF Work
  <2>3. Rs!Partial(n) /\ Written(n)' = Written(n) /\ job'[n].cur # 0
    BY <1>1, <1>6, <2>2 DEF Rs!Partial, Written
  <2>4. job[n].msg \notin spoiled => Follows(bus, buf, Len(bus) + 1, job[n].msg, Written(n))
    BY <1>1, <2>3 DEF WholeInv, JobWhole
  <2>5. JobWhole(n)'
    BY <1>2, <2>2, <2>3, <2>4 DEF JobWhole, Follows, Holding
  <2> QED BY <1>4, <1>5, <2>5 DEF WholeInv
<1>7. CASE ~(job[n].cur < job[n].msg.tot)
  BY <1>3, <1>4, <1>5, <1>7 DEF WholeInv, JobWhole, Rs!Advanced
<1> QED BY <1>6, <1>7

\* A packet of an unspoiled message makes the buffer hold one packet more, and the
\* last of them completes it.
LEMMA DecodedHolds ==
  ASSUME BusType, WholeInv, bus # << >>, Head(bus).msg \notin spoiled,
         buf' = Rs!Decoded(Head(bus))
  PROVE  LET p == Head(bus) IN
         /\ Holding(buf', p.msg, p.cur)
         /\ p.cur = p.msg.tot => Rs!Completes(p)
<1> DEFINE p == Head(bus)
           m == p.msg
<1>1. p = bus[1] /\ 1 \in 1..Len(bus) /\ p \in OnBus
  BY HeadTailProperties, EmptySeq DEF BusType
<1>2. p.cur \in Nat /\ p.cur # 0 /\ m \in Message
  BY <1>1 DEF OnBus, WholeInv, LineWhole
<1>3. p.cur # 1 => Holding(buf, m, p.cur - 1)
  BY <1>1 DEF WholeInv, LineWhole, Follows
<1> HIDE DEF p
<1>4. 1 \in 1..MaxPk /\ m.tot \in 1..MaxPk
  BY <1>2, BusAssumption DEF Message
<1>5. m # Rs!None
  <2>1. "id" \in DOMAIN m /\ "id" \notin DOMAIN Rs!None
    BY <1>2 DEF Message, Rs!None
  <2> QED BY <2>1
<1>6. CASE p.cur = 1
  <2>1. buf' = [Rs!Empty EXCEPT ![1] = m]
    BY <1>6 DEF Rs!Decoded, p
  <2>2. buf' = [i \in 1..MaxPk |-> IF i <= 1 THEN m ELSE Rs!None]
    BY <2>1 DEF Rs!Empty
  <2> QED BY <1>6, <2>2 DEF Holding, Rs!Completes, p
<1>7. CASE p.cur # 1
  <2> DEFINE c == p.cur - 1
  <2>1. /\ buf = [i \in 1..MaxPk |-> IF i <= c THEN m ELSE Rs!None]
        /\ c \in Nat /\ 1 <= c /\ p.cur = c + 1
    BY <1>2, <1>3, <1>7 DEF Holding
  <2> HIDE DEF c
  <2>2. buf[1] = m
    BY <1>4, <2>1
  <2>3. buf # Rs!Empty
    BY <1>4, <1>5, <2>2 DEF Rs!Empty
  <2>4. buf' = [buf EXCEPT ![c + 1] = m]
    BY <1>7, <2>1, <2>3 DEF Rs!Decoded, p
  <2>5. buf' = [i \in 1..MaxPk |-> IF i <= c + 1 THEN m ELSE Rs!None]
    <3>1. \A i \in 1..MaxPk : i = c + 1 \/ (i <= c <=> i <= c + 1)
      BY <2>1
    <3> QED BY <2>1, <2>4, <3>1
  <2> QED BY <2>1, <2>3, <2>5 DEF Holding, Rs!Completes, p
<1> QED BY <1>6, <1>7 DEF p

LEMMA ProcessWhole ==
  ASSUME BusType, WholeInv, Rs!Process
  PROVE  WholeInv'
<1> DEFINE p == Head(bus)
<1>1. /\ rx = "read" /\ bus # << >> /\ bus' = Tail(bus) /\ buf' = Rs!Decoded(p)
      /\ UNCHANGED <<job, wait_sem, cb, spoiled, late>>
      /\ IF Rs!Completes(p) THEN ready' = p.msg /\ callback_sem' = TRUE /\ rx' = "wait"
                            ELSE UNCHANGED <<ready, callback_sem, rx>>
  BY DEF Rs!Process, Rs!senderVars
<1>2. /\ p = bus[1] /\ p \in OnBus /\ Len(bus) \in Nat \ {0} /\ Len(bus') = Len(bus) - 1
      /\ \A i \in 1..Len(bus') : bus'[i] = bus[i + 1]
  BY <1>1, HeadTailProperties, EmptySeq DEF BusType
<1>3. p.msg \notin spoiled =>
         Holding(buf', p.msg, p.cur) /\ (p.cur = p.msg.tot => Rs!Completes(p))
  BY <1>1, DecodedHolds
<1> HIDE DEF p
<1>4. ASSUME NEW i \in 1..Len(bus), NEW m \in Message \ spoiled, NEW c \in Nat,
             Follows(bus, buf, i + 1, m, c)
      PROVE  Follows(bus', buf', i, m, c)
  <2>1. bus[i] = [msg |-> m, cur |-> c]
    BY <1>4 DEF Follows
  <2>2. CASE i = 1
    <3>1. p.msg = m /\ p.cur = c
      BY <1>2, <2>1, <2>2
    <3> QED BY <1>3, <2>2, <3>1 DEF Follows
  <2>3. CASE i # 1
    <3>1. i - 1 \in 1..Len(bus') /\ (i - 1) + 1 = i
      BY <1>2, <2>3
    <3>2. bus'[i - 1] = bus[i]
      BY <1>2, <3>1
    <3> QED BY <2>1, <2>3, <3>2 DEF Follows
  <2> QED BY <2>2, <2>3
<1>5. LineWhole'
  <2>1. ASSUME NEW i \in 1..Len(bus')
        PROVE  /\ bus'[i].cur # 0
               /\ bus'[i].msg \notin spoiled /\ bus'[i].cur # 1
                     => Follows(bus', buf', i, bus[i + 1].msg, bus[i + 1].cur - 1)
    <3>1. i + 1 \in 1..Len(bus) /\ i \in 1..Len(bus) /\ bus'[i] = bus[i + 1]
      BY <1>2
    <3>2. bus[i + 1] \in OnBus
      BY <3>1 DEF BusType
    <3>3. /\ bus[i + 1].cur # 0
          /\ bus[i + 1].msg \notin spoiled /\ bus[i + 1].cur # 1
                => Follows(bus, buf, i + 1, bus[i + 1].msg, bus[i + 1].cur - 1)
      BY <3>1 DEF WholeInv, LineWhole
    <3>4. bus[i + 1].msg \in Message /\ bus[i + 1].cur - 1 \in Nat
      BY <3>2, <3>3 DEF OnBus
    <3> QED BY <1>4, <3>1, <3>3, <3>4
  <2> QED BY <1>1, <1>2, <2>1 DEF LineWhole, Follows, Holding
<1>6. \A n \in Nodes : JobWhole(n)'
  <2>1. ASSUME NEW n \in Nodes
        PROVE  JobWhole(n)'
    <3>1. /\ JobWhole(n) /\ job'[n] = job[n]
          /\ Rs!Partial(n)' <=> Rs!Partial(n)
          /\ Written(n)' = Written(n)
      BY <1>1 DEF WholeInv, Rs!Partial, Written
    <3>2. CASE job[n] = Rs!NoJob
      BY <3>1, <3>2 DEF JobWhole
    <3>3. CASE job[n] # Rs!NoJob /\ Rs!Partial(n) /\ job[n].msg \notin spoiled
      <4>1. job[n] \in Work
        BY <3>3 DEF BusType
      <4>2. job[n].msg \in Message \ spoiled /\ Written(n) \in Nat
        BY <3>1, <3>3, <4>1 DEF Work, Written, JobWhole
      <4>3. Follows(bus, buf, Len(bus) + 1, job[n].msg, Written(n))
        BY <3>1, <3>3 DEF JobWhole
      <4>4. Len(bus) \in 1..Len(bus) /\ Len(bus') + 1 = Len(bus)
        BY <1>2
      <4>5. Follows(bus', buf', Len(bus), job[n].msg, Written(n))
        BY <1>4, <4>2, <4>3, <4>4
      <4> QED BY <1>1, <3>1, <3>3, <4>4, <4>5 DEF JobWhole, Follows, Holding
    <3>4. CASE job[n] # Rs!NoJob /\ ~(Rs!Partial(n) /\ job[n].msg \notin spoiled)
      BY <1>1, <3>1, <3>4 DEF JobWhole
    <3> QED BY <3>2, <3>3, <3>4
  <2> QED BY <2>1
<1>7. HandedOver'
  <2>1. CASE Rs!Completes(p)
    <3>1. p.cur = p.msg.tot /\ ready' = p.msg /\ callback_sem' = TRUE /\ rx' = "wait"
      BY <1>1, <2>1 DEF Rs!Completes
    <3>2. p.msg \notin spoiled' => Holding(buf', p.msg, p.msg.tot)
      BY <1>1, <1>3, <3>1
    <3>3. ~late => ~wait_sem /\ cb = Rs!None
      BY <1>1 DEF WholeInv, HandedOver
    <3>4. rx' = "wait" /\ ready' \notin spoiled' => Holding(buf', ready', ready'.tot)
      BY <3>1, <3>2 DEF Holding
    <3> QED BY <1>1, <3>1, <3>3, <3>4 DEF HandedOver
  <2>2. CASE ~Rs!Completes(p)
    <3>1. UNCHANGED <<ready, callback_sem, rx>>
      BY <1>1, <2>2
    <3> QED BY <1>1, <3>1 DEF WholeInv, HandedOver
  <2> QED BY <2>1, <2>2
<1> QED BY <1>5, <1>6, <1>7 DEF WholeInv

LEMMA WholeNext == BusType /\ WholeInv /\ [Rs!Next]_(Rs!vars) => WholeInv'
<1> SUFFICES ASSUME BusType, WholeInv, [Rs!Next]_(Rs!vars) PROVE WholeInv'
  OBVIOUS
<1>1. ASSUME NEW n \in Nodes,
             Rs!Return(n) \/ Rs!TestBusy(n) \/ Rs!Take(n) \/ \E tot \in 1..MaxPk : Rs!Send(n, tot)
      PROVE  WholeInv'
  <2>1. UNCHANGED <<bus, buf, Rs!receiverVars, late, spoiled>>
    BY <1>1 DEF Rs!Send, Rs!Return, Rs!TestBusy, Rs!Take, Rs!receiverVars
  <2>2. HandedOver' /\ LineWhole'
    BY <2>1, SenderHandsOver DEF WholeInv, LineWhole, Follows, Holding
  <2>3. \A k \in Nodes : UNCHANGED job[k] => JobWhole(k)'
    BY <2>1 DEF WholeInv, JobWhole, Rs!Partial, Follows, Holding, Written
  <2>4. CASE Rs!Return(n) \/ Rs!TestBusy(n) \/ \E tot \in 1..MaxPk : Rs!Send(n, tot)
    <3>1. UNCHANGED job
      BY <2>4 DEF Rs!Send, Rs!Return, Rs!TestBusy
    <3> QED BY <2>2, <2>3, <3>1 DEF WholeInv
  <2>5. CASE Rs!Take(n)
    <3>1. job'[n] = [msg |-> Head(queue[n]), cur |-> 1, at |-> "write"]
          /\ \A k \in Nodes \ {n} : UNCHANGED job[k]
      BY <2>5 DEF Rs!Take, BusType
    <3>2. job'[n].at = "write" /\ job'[n].cur = 1
      BY <3>1
    <3>3. JobWhole(n)'
      BY <3>2 DEF JobWhole, Rs!Partial
    <3> QED BY <2>2, <2>3, <3>1, <3>3 DEF WholeInv
  <2> QED BY <1>1, <2>4, <2>5
<1>2. CASE \E n \in Nodes : Rs!Acked(n)
  BY <1>2, AckedWhole
<1>3. CASE \E n \in Nodes, lost \in BOOLEAN : Rs!Write(n, lost)
  BY <1>3, WriteWhole
<1>4. CASE Rs!Process
  BY <1>4, ProcessWhole
<1>5. CASE Rs!Waited \/ Rs!GiveUp \/ Rs!CallbackBegin \/ Rs!CallbackEnd \/ UNCHANGED Rs!vars
  <2>1. UNCHANGED <<job, bus, buf, spoiled, ready>>
    BY <1>5 DEF Rs!Waited, Rs!GiveUp, Rs!CallbackBegin, Rs!CallbackEnd, Rs!vars,
                Rs!senderVars, Rs!receiverVars
  <2>2. LineWhole'
    BY <2>1 DEF WholeInv, LineWhole, Follows, Holding
  <2>3. \A k \in Nodes : JobWhole(k)'
    BY <2>1 DEF WholeInv, JobWhole, Rs!Partial, Follows, Holding, Written
  <2>4. Holding(buf', ready', ready'.tot) <=> Holding(buf, ready, ready.tot)
    BY <2>1 DEF Holding
  <2>5. HandedOver'
    <3>1. HandedOver
      BY DEF WholeInv
    <3>2. CASE Rs!Waited
      BY <2>1, <2>4, <3>1, <3>2 DEF Rs!Waited, HandedOver
    <3>3. CASE Rs!GiveUp
      BY <2>1, <2>4, <3>1, <3>3 DEF Rs!GiveUp, HandedOver
    <3>4. CASE Rs!CallbackBegin
      BY <2>1, <2>4, <3>1, <3>4 DEF Rs!CallbackBegin, HandedOver
    <3>5. CASE Rs!CallbackEnd
      BY <2>1, <2>4, <3>1, <3>5 DEF Rs!CallbackEnd, HandedOver
    <3>6. CASE UNCHANGED Rs!vars
      BY <2>1, <2>4, <3>1, <3>6 DEF Rs!vars, Rs!senderVars, Rs!receiverVars, HandedOver
    <3> QED BY <1>5, <3>2, <3>3, <3>4, <3>5, <3>6
  <2> QED BY <2>2, <2>3, <2>5 DEF WholeInv
<1> QED BY <1>1, <1>2, <1>3, <1>4, <1>5 DEF Rs!Next

LEMMA WholeHolds == Spec => [](part = "bus" => WholeInv)
<1>1. Init => (part = "bus" => WholeInv)
  BY WholeInit DEF Init
<1>2. /\ part = "bus" => BusType /\ WaitInv
      /\ part = "bus" => WholeInv
      /\ [Next]_vars
      => (part = "bus" => WholeInv)'
  <2> SUFFICES ASSUME part = "bus", BusType, WholeInv, [Next]_vars PROVE WholeInv'
    BY PartIsRigid
  <2>1. [Rs!Next]_(Rs!vars)
    BY DEF Next, vars, busVars, Rs!vars, Rs!senderVars, Rs!callVars, Rs!receiverVars
  <2> QED BY <2>1, WholeNext
<1> QED BY <1>1, <1>2, BusHolds, PTL DEF Spec

\* The callback of the bus reads the message it was started for, all of it and nothing
\* else, until it ends: for any number of boards and packets, a message that lost a
\* packet or met another's and a callback that was late excepted.
THEOREM CallbackIsWhole == Spec => []CallbackReadsWhole
<1>1. WholeInv => Rs!CallbackReadsWhole
  <2> SUFFICES ASSUME WholeInv, cb # Rs!None, cb \notin spoiled, ~late
               PROVE  \A i \in 1..MaxPk : buf[i] = IF i <= cb.tot THEN cb ELSE Rs!None
    BY DEF Rs!CallbackReadsWhole
  <2>1. cb = ready /\ rx = "wait"
    BY DEF WholeInv, HandedOver
  <2> QED BY <2>1 DEF WholeInv, HandedOver, Holding
<1> QED BY <1>1, WholeHolds, PTL DEF CallbackReadsWhole

-----------------------------------------------------------------------------
(* The air conditioning.  What a call that runs alone has read is what     *)
(* holds, so when it ends the relay is as the status asks.  A set point is *)
(* equal on both sides, or on its way, or known to be apart.               *)

RelayMatches == ~C!Blind(stat) => (relay <=> C!Role(stat))

Lonely(t) ==
    /\ \A u \in C!Threads : C!Busy(u) => u = t
    /\ run[t].at = "relay" => ~C!Blind(stat) /\ run[t].role = C!Role(stat)
    /\ run[t].at \in {"report", "dial"} => RelayMatches
    /\ run[t].at = "dial" => run[t].set = stat.set

ClimateInv ==
    /\ C!TypeOK
    /\ \A t \in C!Threads : C!Busy(t) /\ run[t].alone => Lonely(t)
    /\ clean => \A t \in C!Threads : C!Busy(t) => run[t].alone
    /\ clean /\ C!Quiet => RelayMatches
    /\ gateway => \E t \in C!Threads : run[t].at \in {"save", "relay", "report"}
    /\ apart \/ dial = stat.set \/ gateway \/ \E t \in C!Threads : run[t].at = "dial"

LEMMA ClimateBusyIsCall ==
    ASSUME C!TypeOK, NEW t \in C!Threads
    PROVE  /\ C!Busy(t) <=> run[t] \in C!Call
           /\ run[t].at \in {"save", "relay", "report", "dial", "idle"}
  BY DEF C!TypeOK, C!Busy, C!Call, C!NoCall

LEMMA RoleIsBoolean == ASSUME NEW s PROVE C!Role(s) \in BOOLEAN
  BY DEF C!Role

LEMMA EffectiveIsStatus ==
    ASSUME NEW s \in C!Status
    PROVE  C!Effective(s) \in C!Status /\ C!Effective(s).set = s.set
  BY DEF C!Effective, C!Status

LEMMA ClimateInit == C!Init => ClimateInv
<1> SUFFICES ASSUME C!Init PROVE ClimateInv
  OBVIOUS
<1>1. \A t \in C!Threads : ~C!Busy(t)
  BY DEF C!Init, C!Busy, C!NoCall
<1>2. C!TypeOK
  <2>1. 0 \in C!Temps
    BY TemperatureAssumption DEF C!Temps
  <2>2. stat \in C!Status /\ disk \in C!Status
    BY <2>1 DEF C!Init, C!Status
  <2>3. run \in [C!Threads -> C!Call \union {C!NoCall}]
    BY DEF C!Init
  <2> QED BY <2>2, <2>3 DEF C!Init, C!TypeOK
<1>3. RelayMatches
  BY DEF C!Init, RelayMatches, C!Blind, C!Role
<1> QED BY <1>1, <1>2, <1>3 DEF ClimateInv, C!Init

LEMMA ClimateSet ==
    ASSUME ClimateInv, NEW t \in C!Threads, ~C!Busy(t), NEW s \in C!Status, C!SetBegin(t, s),
           dial' \in C!Temps, apart' \in BOOLEAN,
           UNCHANGED <<dial, apart>> \/ dial' = s.set
    PROVE  ClimateInv'
<1> DEFINE new == [at |-> "save", role |-> FALSE, set |-> 0, alone |-> C!Quiet]
<1>0. C!TypeOK
  BY DEF ClimateInv
<1>1. /\ stat' = C!Effective(s) /\ gateway' = (gateway \/ s.set # stat.set)
      /\ clean' = (clean /\ C!Quiet)
      /\ run' = [u \in C!Threads |-> IF u = t THEN new
                    ELSE IF C!Busy(u) THEN [run[u] EXCEPT !.alone = FALSE] ELSE run[u]]
      /\ UNCHANGED <<cooling, fixed, disk, relay>>
  BY DEF C!SetBegin
<1>2. new \in C!Call
  BY TemperatureAssumption DEF C!Call, C!Temps, C!Quiet
<1>3. new.at = "save" /\ new.alone = C!Quiet
  OBVIOUS
<1> HIDE DEF new
<1>4. run'[t] = new /\ C!Busy(t)'
  BY <1>1, <1>3 DEF C!Busy
<1>5. ASSUME NEW u \in C!Threads, u # t
      PROVE  /\ run'[u] \in C!Call \union {C!NoCall} /\ run'[u].at = run[u].at
             /\ C!Busy(u)' <=> C!Busy(u)
             /\ C!Busy(u) => run'[u].alone = FALSE
  <2>1. CASE C!Busy(u)
    <3>1. run'[u] = [run[u] EXCEPT !.alone = FALSE]
      BY <1>1, <1>5, <2>1
    <3>2. run[u] \in C!Call
      BY <1>0, <2>1, ClimateBusyIsCall
    <3> QED BY <3>1, <3>2 DEF C!Call, C!Busy
  <2>2. CASE ~C!Busy(u)
    <3>1. run'[u] = run[u]
      BY <1>1, <1>5, <2>2
    <3> QED BY <1>0, <2>2, <3>1 DEF C!TypeOK, C!Busy
  <2> QED BY <2>1, <2>2
<1>6. C!TypeOK'
  <2>1. run' \in [C!Threads -> C!Call \union {C!NoCall}]
    <3>1. \A u \in C!Threads : run'[u] \in C!Call \union {C!NoCall}
      BY <1>2, <1>4, <1>5
    <3> DEFINE F(u) == IF u = t THEN new
                       ELSE IF C!Busy(u) THEN [run[u] EXCEPT !.alone = FALSE] ELSE run[u]
    <3>2. run' = [u \in C!Threads |-> F(u)]
      BY <1>1
    <3> HIDE DEF F
    <3> QED BY <3>1, <3>2
  <2>2. stat' \in C!Status /\ clean' \in BOOLEAN /\ gateway' \in BOOLEAN
    BY <1>0, <1>1, EffectiveIsStatus DEF C!TypeOK
  <2> QED BY <1>0, <1>1, <2>1, <2>2 DEF C!TypeOK
<1>7. ASSUME C!Quiet, NEW u \in C!Threads, C!Busy(u)' PROVE u = t
  BY <1>5, <1>7 DEF C!Quiet
<1>8. ASSUME NEW u \in C!Threads, C!Busy(u)', run'[u].alone PROVE u = t /\ Lonely(u)'
  <2>1. u = t /\ C!Quiet
    BY <1>3, <1>4, <1>5, <1>8
  <2>2. \A v \in C!Threads : C!Busy(v)' => v = u
    BY <1>7, <2>1
  <2> QED BY <1>3, <1>4, <2>1, <2>2 DEF Lonely
<1>9. ASSUME clean', NEW u \in C!Threads, C!Busy(u)' PROVE run'[u].alone
  BY <1>1, <1>3, <1>4, <1>7, <1>9
<1>10. ~C!Quiet'
  BY <1>4 DEF C!Quiet
<1>11. run'[t].at \in {"save", "relay", "report"}
  BY <1>3, <1>4
<1>12. apart' \/ dial' = stat'.set \/ gateway' \/ \E u \in C!Threads : run'[u].at = "dial"
  <2>1. stat'.set = s.set
    BY <1>1, EffectiveIsStatus
  <2>2. CASE UNCHANGED <<dial, apart>>
    <3>1. ASSUME NEW u \in C!Threads, run[u].at = "dial" PROVE run'[u].at = "dial"
      BY <1>5, <3>1 DEF C!Busy
    <3> QED BY <1>1, <2>1, <2>2, <3>1 DEF ClimateInv
  <2> QED BY <2>1, <2>2
<1> QED BY <1>6, <1>8, <1>9, <1>10, <1>11, <1>12 DEF ClimateInv

\* A call goes on or ends: one that was alone stays alone.
LEMMA ClimateGoesOn ==
    ASSUME ClimateInv, NEW t \in C!Threads, C!Busy(t), NEW new \in C!Call \union {C!NoCall},
           run' = [run EXCEPT ![t] = new], new = C!NoCall \/ new.alone = run[t].alone,
           clean' = (clean \/ (new = C!NoCall /\ run[t].alone)),
           UNCHANGED <<cooling, fixed, stat>>, disk' \in C!Status, relay' \in BOOLEAN,
           gateway' \in BOOLEAN, dial' \in C!Temps, apart' \in BOOLEAN,
           run[t].alone /\ Lonely(t) /\ new # C!NoCall => Lonely(t)',
           run[t].alone /\ Lonely(t) /\ new = C!NoCall => RelayMatches',
           gateway' => gateway /\ (run[t].at = "dial" \/ new.at \in {"save", "relay", "report"}),
           apart' \/ dial' = stat.set \/ gateway' \/ \E u \in C!Threads : run'[u].at = "dial"
    PROVE  ClimateInv'
<1>0. C!TypeOK
  BY DEF ClimateInv
<1>1. /\ run' \in [C!Threads -> C!Call \union {C!NoCall}] /\ run'[t] = new
      /\ \A u \in C!Threads : u # t => run'[u] = run[u] /\ (C!Busy(u)' <=> C!Busy(u))
  BY <1>0 DEF C!TypeOK, C!Busy
<1>2. C!TypeOK'
  <2>1. run[t].alone \in BOOLEAN
    BY <1>0, ClimateBusyIsCall DEF C!Call
  <2>2. clean' \in BOOLEAN
    BY <1>0, <2>1 DEF C!TypeOK
  <2> QED BY <1>0, <1>1, <2>2 DEF C!TypeOK
<1>3. C!Busy(t)' <=> new # C!NoCall
  BY <1>1 DEF C!Busy, C!Call, C!NoCall
<1>4. ASSUME NEW u \in C!Threads, C!Busy(u)', run'[u].alone PROVE Lonely(u)'
  <2>1. CASE u = t
    BY <1>1, <1>3, <1>4, <2>1 DEF ClimateInv
  <2>2. CASE u # t
    \* then t was not running
    BY <1>1, <1>4, <2>2 DEF ClimateInv, Lonely
  <2> QED BY <2>1, <2>2
<1>5. ASSUME clean', NEW u \in C!Threads, C!Busy(u)' PROVE run'[u].alone
  <2>1. CASE clean
    BY <1>1, <1>3, <1>5, <2>1 DEF ClimateInv
  <2>2. CASE new = C!NoCall /\ run[t].alone
    BY <1>1, <1>3, <1>5, <2>2 DEF ClimateInv, Lonely
  <2> QED BY <1>5, <2>1, <2>2
<1>6. ASSUME clean', C!Quiet' PROVE RelayMatches'
  BY <1>3, <1>6 DEF ClimateInv, C!Quiet
<1>7. ASSUME gateway' PROVE \E u \in C!Threads : run'[u].at \in {"save", "relay", "report"}
  <2>1. PICK u \in C!Threads : run[u].at \in {"save", "relay", "report"}
    BY <1>7 DEF ClimateInv
  <2>2. CASE u = t
    BY <1>1, <1>7, <2>1, <2>2
  <2>3. CASE u # t
    BY <1>1, <2>1, <2>3
  <2> QED BY <2>2, <2>3
<1> QED BY <1>2, <1>4, <1>5, <1>6, <1>7 DEF ClimateInv

LEMMA ClimateNext == ClimateInv /\ [C!Next]_(C!vars) => ClimateInv'
<1> SUFFICES ASSUME ClimateInv, [C!Next]_(C!vars) PROVE ClimateInv'
  OBVIOUS
<1>0. C!TypeOK
  BY DEF ClimateInv
<1>1. CASE UNCHANGED C!vars
  <2>1. C!TypeOK'
    BY <1>0, <1>1 DEF C!TypeOK, C!vars
  <2>2. RelayMatches' <=> RelayMatches
    BY <1>1 DEF C!vars, RelayMatches, C!Blind, C!Role
  <2>3. \A t \in C!Threads : (C!Busy(t)' <=> C!Busy(t)) /\ (Lonely(t)' <=> Lonely(t))
    BY <1>1 DEF C!vars, Lonely, RelayMatches, C!Busy, C!Blind, C!Role
  <2> QED BY <1>1, <2>1, <2>2, <2>3 DEF ClimateInv, C!vars, C!Quiet
<1>2. ASSUME NEW t \in Tasks, NEW s \in C!Status, C!Command(t, s) PROVE ClimateInv'
  <2>1. t \in C!Threads /\ ~C!Busy(t) /\ C!SetBegin(t, s) /\ UNCHANGED <<dial, apart>>
    BY <1>2 DEF C!Command, C!Threads
  <2> QED BY <1>0, <2>1, ClimateSet DEF C!TypeOK
<1>3. ASSUME NEW d \in C!Temps, C!ReadThermostat(d) PROVE ClimateInv'
  <2> DEFINE s == [stat EXCEPT !.temp = d, !.set = dial]
  <2>1. /\ Reader \in C!Threads /\ ~C!Busy(Reader) /\ C!SetBegin(Reader, s)
        /\ apart' = FALSE /\ dial' = dial
    BY <1>3 DEF C!ReadThermostat, C!Threads
  <2>2. s \in C!Status /\ dial' = s.set
    BY <1>0, <2>1 DEF C!TypeOK, C!Status
  <2> HIDE DEF s
  <2> QED BY <1>0, <2>1, <2>2, ClimateSet DEF C!TypeOK
<1>4. ASSUME NEW t \in C!Threads, C!Decide(t) PROVE ClimateInv'
  <2> DEFINE at == IF C!Blind(stat) THEN "report" ELSE "relay"
             new == [run[t] EXCEPT !.role = C!Role(stat), !.at = at]
  <2>1. /\ run[t].at = "save" /\ disk' = stat
        /\ UNCHANGED <<cooling, fixed, stat, relay, gateway, dial, clean, apart>>
    BY <1>4 DEF C!Decide, C!At
  <2>2. C!Busy(t) /\ run[t] \in C!Call
    BY <1>0, <2>1, ClimateBusyIsCall DEF C!Busy
  <2>3. run' = [run EXCEPT ![t] = new]
    BY <1>0, <1>4, <2>2 DEF C!Decide, C!TypeOK, C!Call
  <2>4. new \in C!Call /\ new.at = at /\ new.role = C!Role(stat) /\ new.alone = run[t].alone
    BY <2>2, RoleIsBoolean DEF C!Call
  <2>5. new # C!NoCall /\ at \in {"report", "relay"}
    BY <2>4 DEF C!Call, C!NoCall
  <2> HIDE DEF new
  <2>6. ASSUME Lonely(t) PROVE Lonely(t)'
    <3>1. \A u \in C!Threads : C!Busy(u)' => C!Busy(u) \/ u = t
      BY <1>0, <2>3 DEF C!Busy, C!TypeOK
    <3>2. C!Blind(stat)' <=> C!Blind(stat)
      BY <2>1 DEF C!Blind
    <3>3. C!Role(stat)' = C!Role(stat)
      BY <2>1 DEF C!Role
    <3>4. C!Blind(stat) => RelayMatches'
      BY <3>2 DEF RelayMatches
    <3>5. run'[t] = new
      BY <1>0, <2>3 DEF C!TypeOK
    <3> QED BY <2>4, <2>6, <3>1, <3>2, <3>3, <3>4, <3>5 DEF Lonely
  <2>7. apart \/ dial = stat.set \/ gateway \/ \E u \in C!Threads : run'[u].at = "dial"
    BY <1>0, <2>1, <2>3 DEF ClimateInv, C!TypeOK
  <2>8. /\ disk' \in C!Status /\ relay' \in BOOLEAN /\ gateway' \in BOOLEAN
        /\ dial' \in C!Temps /\ apart' \in BOOLEAN
    BY <1>0, <2>1 DEF C!TypeOK
  <2>9. clean' = (clean \/ (new = C!NoCall /\ run[t].alone))
    BY <1>0, <2>1, <2>5 DEF C!TypeOK
  <2>10. gateway' => gateway /\ new.at \in {"save", "relay", "report"}
    BY <2>1, <2>4, <2>5
  <2> QED BY <2>1, <2>2, <2>3, <2>4, <2>5, <2>6, <2>7, <2>8, <2>9, <2>10, ClimateGoesOn
<1>5. ASSUME NEW t \in C!Threads, C!Drive(t) PROVE ClimateInv'
  <2> DEFINE new == [run[t] EXCEPT !.at = "report"]
  <2>1. /\ run[t].at = "relay" /\ relay' = run[t].role
        /\ UNCHANGED <<cooling, fixed, stat, disk, gateway, dial, clean, apart>>
    BY <1>5 DEF C!Drive, C!At
  <2>2. C!Busy(t) /\ run[t] \in C!Call
    BY <1>0, <2>1, ClimateBusyIsCall DEF C!Busy
  <2>3. run' = [run EXCEPT ![t] = new]
    BY <1>0, <1>5, <2>2 DEF C!Drive, C!TypeOK, C!Call
  <2>4. new \in C!Call /\ new.at = "report" /\ new.alone = run[t].alone
    BY <2>2 DEF C!Call
  <2>5. new # C!NoCall
    BY <2>4 DEF C!Call, C!NoCall
  <2> HIDE DEF new
  <2>6. ASSUME Lonely(t) PROVE Lonely(t)'
    <3>1. \A u \in C!Threads : C!Busy(u)' => C!Busy(u) \/ u = t
      BY <1>0, <2>3 DEF C!Busy, C!TypeOK
    <3>2. relay' = C!Role(stat)
      BY <2>1, <2>6 DEF Lonely
    <3>3. C!Role(stat)' = C!Role(stat)
      BY <2>1 DEF C!Role
    <3>4. RelayMatches'
      BY <3>2, <3>3 DEF RelayMatches
    <3>5. run'[t] = new
      BY <1>0, <2>3 DEF C!TypeOK
    <3> QED BY <2>4, <2>6, <3>1, <3>4, <3>5 DEF Lonely
  <2>7. apart \/ dial = stat.set \/ gateway \/ \E u \in C!Threads : run'[u].at = "dial"
    BY <1>0, <2>1, <2>3 DEF ClimateInv, C!TypeOK
  <2>8. /\ disk' \in C!Status /\ relay' \in BOOLEAN /\ gateway' \in BOOLEAN
        /\ dial' \in C!Temps /\ apart' \in BOOLEAN
    BY <1>0, <2>1, <2>2 DEF C!TypeOK, C!Call
  <2>9. clean' = (clean \/ (new = C!NoCall /\ run[t].alone))
    BY <1>0, <2>1, <2>5 DEF C!TypeOK
  <2> QED BY <2>1, <2>2, <2>3, <2>4, <2>5, <2>6, <2>7, <2>8, <2>9, ClimateGoesOn
<1>6. ASSUME NEW t \in C!Threads, C!Report(t) PROVE ClimateInv'
  <2>1. /\ run[t].at = "report" /\ gateway' = FALSE
        /\ UNCHANGED <<cooling, fixed, stat, disk, relay, dial, apart>>
    BY <1>6 DEF C!Report, C!At
  <2>2. C!Busy(t) /\ run[t] \in C!Call
    BY <1>0, <2>1, ClimateBusyIsCall DEF C!Busy
  <2>3. RelayMatches' <=> RelayMatches
    BY <2>1 DEF RelayMatches, C!Blind, C!Role
  <2>4. /\ disk' \in C!Status /\ relay' \in BOOLEAN /\ gateway' \in BOOLEAN
        /\ dial' \in C!Temps /\ apart' \in BOOLEAN
    BY <1>0, <2>1 DEF C!TypeOK
  <2>5. Lonely(t) => RelayMatches
    BY <2>1 DEF Lonely
  <2>6. CASE gateway
    <3> DEFINE new == [run[t] EXCEPT !.at = "dial", !.set = stat.set]
    <3>1. run' = [run EXCEPT ![t] = new] /\ clean' = clean
      BY <1>0, <1>6, <2>2, <2>6 DEF C!Report, C!TypeOK, C!Call
    <3>2. new \in C!Call /\ new.at = "dial" /\ new.set = stat.set /\ new.alone = run[t].alone
      BY <1>0, <2>2 DEF C!Call, C!TypeOK, C!Status
    <3>3. new # C!NoCall
      BY <3>2 DEF C!Call, C!NoCall
    <3> HIDE DEF new
    <3>4. run'[t] = new
      BY <1>0, <3>1 DEF C!TypeOK
    <3>5. ASSUME Lonely(t) PROVE Lonely(t)'
      <4>1. \A u \in C!Threads : C!Busy(u)' => C!Busy(u) \/ u = t
        BY <1>0, <3>1 DEF C!Busy, C!TypeOK
      <4> QED BY <2>1, <2>3, <2>5, <3>2, <3>4, <3>5, <4>1 DEF Lonely
    <3>6. clean' = (clean \/ (new = C!NoCall /\ run[t].alone))
      BY <1>0, <3>1, <3>3 DEF C!TypeOK
    <3>7. \E u \in C!Threads : run'[u].at = "dial"
      BY <3>2, <3>4
    <3> QED BY <2>1, <2>2, <2>4, <3>1, <3>2, <3>3, <3>5, <3>6, <3>7, ClimateGoesOn
  <2>7. CASE ~gateway
    <3>1. run' = [run EXCEPT ![t] = C!NoCall] /\ clean' = (clean \/ run[t].alone)
      BY <1>6, <2>7 DEF C!Report, C!Ended
    <3>2. apart \/ dial = stat.set \/ \E u \in C!Threads : run'[u].at = "dial"
      BY <1>0, <2>1, <2>7, <3>1 DEF ClimateInv, C!TypeOK
    <3> QED BY <2>1, <2>2, <2>3, <2>4, <2>5, <3>1, <3>2, ClimateGoesOn
  <2> QED BY <1>0, <2>6, <2>7 DEF C!TypeOK
<1>7. ASSUME NEW t \in C!Threads, C!WriteDial(t) PROVE ClimateInv'
  <2>1. PICK ok \in BOOLEAN : /\ dial' = IF ok THEN run[t].set ELSE dial
                              /\ apart' = ~(ok /\ run[t].alone)
    BY <1>7 DEF C!WriteDial
  <2>2. /\ run[t].at = "dial" /\ run' = [run EXCEPT ![t] = C!NoCall]
        /\ clean' = (clean \/ run[t].alone)
        /\ UNCHANGED <<cooling, fixed, stat, disk, relay, gateway>>
    BY <1>7 DEF C!WriteDial, C!At, C!Ended
  <2>3. C!Busy(t) /\ run[t] \in C!Call
    BY <1>0, <2>2, ClimateBusyIsCall DEF C!Busy
  <2>4. RelayMatches' <=> RelayMatches
    BY <2>2 DEF RelayMatches, C!Blind, C!Role
  <2>5. /\ disk' \in C!Status /\ relay' \in BOOLEAN /\ gateway' \in BOOLEAN
        /\ dial' \in C!Temps /\ apart' \in BOOLEAN
    BY <1>0, <2>1, <2>2, <2>3 DEF C!TypeOK, C!Call
  <2>6. run[t].alone => Lonely(t)
    BY <2>3 DEF ClimateInv
  <2>7. apart' \/ dial' = stat.set
    BY <2>1, <2>2, <2>6 DEF Lonely
  <2> QED BY <2>2, <2>3, <2>4, <2>5, <2>6, <2>7, ClimateGoesOn DEF Lonely
<1>8. ASSUME NEW d \in C!Temps, C!Turn(d) PROVE ClimateInv'
  <2>1. /\ dial' = d /\ apart' = TRUE
        /\ UNCHANGED <<cooling, fixed, stat, disk, relay, gateway, run, clean>>
    BY <1>8 DEF C!Turn
  <2>2. C!TypeOK'
    BY <1>0, <2>1 DEF C!TypeOK
  <2>3. RelayMatches' <=> RelayMatches
    BY <2>1 DEF RelayMatches, C!Blind, C!Role
  <2>4. \A t \in C!Threads : (C!Busy(t)' <=> C!Busy(t)) /\ (Lonely(t)' <=> Lonely(t))
    BY <2>1 DEF Lonely, RelayMatches, C!Busy, C!Blind, C!Role
  <2> QED BY <2>1, <2>2, <2>3, <2>4 DEF ClimateInv, C!Quiet
<1>9. ASSUME NEW power \in BOOLEAN, C!Restart(power) PROVE ClimateInv'
  <2>1. \A t \in C!Threads : ~C!Busy(t)'
    BY <1>9 DEF C!Restart, C!Busy, C!NoCall
  <2>2. stat' = C!Effective(disk) /\ stat' \in C!Status
    BY <1>0, <1>9, EffectiveIsStatus DEF C!Restart, C!TypeOK
  <2>3. relay' = IF C!Blind(stat') THEN relay /\ ~power ELSE C!Role(stat')
    BY <1>9 DEF C!Restart
  <2>4. relay' \in BOOLEAN
    BY <2>3, RoleIsBoolean
  <2>5. C!TypeOK'
    BY <1>0, <1>9, <2>2, <2>4 DEF C!TypeOK, C!Restart
  <2>6. cooling' = cooling
    BY <1>9 DEF C!Restart
  <2>7. RelayMatches'
    BY <2>3, <2>6 DEF RelayMatches, C!Blind, C!Role
  <2> QED BY <1>9, <2>1, <2>5, <2>7 DEF ClimateInv, C!Restart
<1> QED BY <1>1, <1>2, <1>3, <1>4, <1>5, <1>6, <1>7, <1>8, <1>9 DEF C!Next

LEMMA ClimateHolds == Spec => [](part = "climate" => ClimateInv)
<1>1. Init => (part = "climate" => ClimateInv)
  BY ClimateInit DEF Init
<1>2. (part = "climate" => ClimateInv) /\ [Next]_vars => (part = "climate" => ClimateInv)'
  <2> SUFFICES ASSUME part = "climate", ClimateInv, [Next]_vars PROVE ClimateInv'
    BY PartIsRigid
  <2>1. [C!Next]_(C!vars)
    BY DEF Next, vars, climateVars, C!vars
  <2> QED BY <2>1, ClimateNext
<1> QED BY <1>1, <1>2, PTL DEF Spec

\* Within the limits the relay of the air conditioning is what mode, switches and
\* temperatures ask for, outside them it is off in manual mode, and the thermostat has
\* the set point of the status, for any number of commands, reports and restarts of
\* which no two overlapped.
THEOREM RelayIsTrue == Spec => []OutputsFollowStatus
<1>1. ClimateInv => C!OutputsFollowStatus
  <2> SUFFICES ASSUME ClimateInv, C!Quiet, clean
               PROVE  /\ relay => /\ stat.start
                                  /\ stat.auto \/ (stat.motor /\ stat.temp \in MinTemp..MaxTemp)
                      /\ stat.start /\ stat.auto /\ (cooling => stat.temp > 0)
                           => (relay <=> IF cooling THEN stat.temp > stat.set ELSE stat.temp < stat.set)
                      /\ apart \/ dial = stat.set
    BY DEF C!OutputsFollowStatus
  <2>1. RelayMatches
    BY DEF ClimateInv
  <2>2. stat.temp \in Nat
    BY TemperatureAssumption DEF ClimateInv, C!TypeOK, C!Status, C!Temps
  <2>3. stat.temp > 0 => stat.temp # 0
    BY <2>2
  <2>4. \A t \in C!Threads : run[t].at = "idle"
    BY DEF C!Quiet, C!Busy
  <2>5. apart \/ dial = stat.set
    BY <2>4 DEF ClimateInv
  <2> HIDE DEF C!Quiet
  <2>6. relay => /\ stat.start
                 /\ stat.auto \/ (stat.motor /\ stat.temp \in MinTemp..MaxTemp)
    BY <2>1 DEF RelayMatches, C!Blind, C!Role
  <2>7. stat.start /\ stat.auto /\ (cooling => stat.temp > 0)
          => (relay <=> IF cooling THEN stat.temp > stat.set ELSE stat.temp < stat.set)
    <3> SUFFICES ASSUME stat.start, stat.auto, cooling => stat.temp > 0
                 PROVE  relay <=> C!Role(stat)
      BY DEF C!Role
    <3>1. ~C!Blind(stat)
      BY <2>3 DEF C!Blind
    <3> QED BY <2>1, <3>1 DEF RelayMatches
  <2> QED BY <2>5, <2>6, <2>7
<1> QED BY <1>1, ClimateHolds, PTL DEF OutputsFollowStatus

-----------------------------------------------------------------------------
(* The log.  The file that was left holds more than Limit lines, none of   *)
(* them newer than the line in hand, than one that is still in the queue   *)
(* or than one in the file in use; and the file in use holds more than     *)
(* Limit only just before it is left, or after a restart there.            *)

Lines  == 1..MaxLines
Newer  == LOG[Lo!Current]
Older  == LOG[3 - Lo!Current]

\* x is not newer than what is still to be written.
NotBefore(x) ==
    /\ x <= logged
    /\ \A i \in 1..Len(msgQ) : x <= msgQ[i]
    /\ writer # "idle" => x <= mm

FilesKeep ==
    /\ IF kept <= Limit THEN Len(Newer) = kept ELSE Len(Older) + Len(Newer) > Limit
    /\ writer \in {"turn", "empty"} => /\ Newer # <<>> /\ Newer[Len(Newer)] = mm
                                       /\ Len(Newer) > Limit
    /\ writer = "again" => Newer = <<>>
    /\ writer \in {"turn", "empty", "again"} => kept > Limit
    /\ Older # <<>> => NotBefore(Older[Len(Older)])
    /\ Older # <<>> /\ Newer # <<>> => Older[Len(Older)] <= Newer[1]

LogInv ==
    /\ Lo!TypeOK
    /\ kept + Len(msgQ) + (IF writer = "write" THEN 1 ELSE 0) <= logged
    /\ \A i \in 1..Len(msgQ) : msgQ[i] <= logged
    /\ \A i, j \in 1..Len(msgQ) : i <= j => msgQ[i] <= msgQ[j]
    /\ writer # "idle" => /\ mm \in Lines /\ mm <= logged
                          /\ \A i \in 1..Len(msgQ) : mm <= msgQ[i]
    /\ ~stale => FilesKeep

LEMMA LogTypes ==
    ASSUME Lo!TypeOK
    PROVE  /\ Lo!Current \in 1..2 /\ 3 - Lo!Current \in 1..2 /\ 3 - Lo!Current # Lo!Current
           /\ Newer \in Seq(Lines) /\ Older \in Seq(Lines) /\ msgQ \in Seq(Lines)
           /\ Len(Newer) \in Nat /\ Len(Older) \in Nat /\ Len(msgQ) \in Nat
           /\ logged \in Nat /\ kept \in Nat /\ Limit \in Nat /\ Limit > 0
<1>1. Lo!Current \in 1..2 /\ 3 - Lo!Current \in 1..2 /\ 3 - Lo!Current # Lo!Current
  BY DEF Lo!TypeOK, Lo!Current, Lo!Other
<1>2. Newer \in Seq(Lines) /\ Older \in Seq(Lines) /\ msgQ \in Seq(Lines)
  BY <1>1 DEF Lo!TypeOK, Newer, Older, Lines
<1>3. Len(Newer) \in Nat /\ Len(Older) \in Nat /\ Len(msgQ) \in Nat
  BY <1>2, LenProperties
<1>4. logged \in Nat /\ kept \in Nat /\ Limit \in Nat /\ Limit > 0
  BY LogAssumption DEF Lo!TypeOK
<1> QED BY <1>1, <1>2, <1>3, <1>4

LEMMA LineIsNumber ==
    ASSUME NEW s \in Seq(Lines), NEW i \in 1..Len(s)
    PROVE  s[i] \in Nat
  BY LogAssumption, ElementOfSeq DEF Lines

LEMMA LogInit == Lo!Init => LogInv
<1> SUFFICES ASSUME Lo!Init PROVE LogInv
  OBVIOUS
<1>1. <<>> \in Seq(1..MaxLines) /\ Len(<<>>) = 0
  BY EmptySeq
<1>2. Lo!TypeOK
  <2>1. LOG \in [1..2 -> Seq(1..MaxLines)] /\ msgQ \in Seq(1..MaxLines)
    BY <1>1 DEF Lo!Init
  <2>2. Len(msgQ) <= LogQueueLen
    BY <1>1, LogAssumption DEF Lo!Init
  <2>3. logged \in 0..MaxLines /\ kept \in 0..logged /\ mm \in 0..MaxLines
    BY LogAssumption DEF Lo!Init
  <2>4. log_file = 1 /\ saved = 1 /\ writer = "idle"
    BY DEF Lo!Init
  <2>5. logwrite \in BOOLEAN /\ stale \in BOOLEAN
    BY DEF Lo!Init
  <2>6. log_file \in 1..2 /\ saved \in 1..2
    BY <2>4
  <2> QED BY <2>1, <2>2, <2>3, <2>4, <2>5, <2>6 DEF Lo!TypeOK
<1>3. /\ Newer = <<>> /\ Older = <<>> /\ kept = 0 /\ logged = 0 /\ msgQ = <<>>
      /\ writer = "idle"
  BY DEF Lo!Init, Newer, Older, Lo!Current
<1> QED BY <1>1, <1>2, <1>3, LogAssumption DEF LogInv, FilesKeep

\* A line is taken from the queue: it is the oldest that is still to be written.
LEMMA LogTake ==
    ASSUME LogInv, Lo!Take PROVE LogInv'
<1>0. Lo!TypeOK
  BY DEF LogInv
<1>1. /\ writer = "idle" /\ msgQ # <<>> /\ msgQ' = Tail(msgQ) /\ mm' = Head(msgQ)
      /\ writer' = IF logwrite THEN "write" ELSE "idle"
      /\ UNCHANGED <<logged, logwrite, log_file, saved, LOG, kept, stale>>
  BY DEF Lo!Take
<1>2. /\ msgQ \in Seq(Lines) /\ mm' \in Lines /\ mm' = msgQ[1]
      /\ msgQ' \in Seq(Lines) /\ Len(msgQ') = Len(msgQ) - 1 /\ Len(msgQ) \in Nat \ {0}
      /\ \A i \in 1..Len(msgQ') : i + 1 \in 1..Len(msgQ) /\ msgQ'[i] = msgQ[i + 1]
  BY <1>0, <1>1, LogTypes, HeadTailProperties, EmptySeq
<1>3. mm' \in Nat /\ mm' <= logged /\ \A i \in 1..Len(msgQ) : mm' <= msgQ[i]
  BY <1>2, LineIsNumber DEF LogInv
<1>4. /\ \A i \in 1..Len(msgQ') : msgQ'[i] <= logged /\ mm' <= msgQ'[i]
      /\ \A i, j \in 1..Len(msgQ') : i <= j => msgQ'[i] <= msgQ'[j]
  <2>1. \A i \in 1..Len(msgQ') : msgQ'[i] <= logged /\ mm' <= msgQ'[i]
    BY <1>2, <1>3 DEF LogInv
  <2>2. \A i, j \in 1..Len(msgQ') : i <= j => i + 1 <= j + 1
    BY <1>2
  <2>3. \A i, j \in 1..Len(msgQ') : i <= j => msgQ'[i] <= msgQ'[j]
    BY <1>2, <2>2 DEF LogInv
  <2> QED BY <2>1, <2>3
<1>5. kept' + Len(msgQ') + (IF writer' = "write" THEN 1 ELSE 0) <= logged'
  <2>1. kept \in Nat /\ logged \in Nat /\ kept + Len(msgQ) + 0 <= logged
    BY <1>0, <1>1, LogTypes DEF LogInv
  <2> QED BY <1>1, <1>2, <2>1
<1>6. Lo!TypeOK'
  <2>1. msgQ' \in Seq(Lines) /\ Len(msgQ') <= LogQueueLen
    BY <1>0, <1>2, LogAssumption DEF Lo!TypeOK
  <2>2. mm' \in 0..MaxLines
    BY <1>2, LogAssumption DEF Lines
  <2> QED BY <1>0, <1>1, <2>1, <2>2 DEF Lo!TypeOK, Lines
<1>7. ASSUME FilesKeep PROVE FilesKeep'
  <2>1. Newer' = Newer /\ Older' = Older
    BY <1>1 DEF Newer, Older, Lo!Current
  <2>2. ASSUME NEW x, NotBefore(x)
        PROVE  /\ x <= logged' /\ \A i \in 1..Len(msgQ') : x <= msgQ'[i]
               /\ x <= mm'
    BY <1>1, <1>2, <2>2 DEF NotBefore
  <2>3. Older # <<>> => NotBefore(Older[Len(Older)])'
    <3>1. Older # <<>> => NotBefore(Older[Len(Older)])
      BY <1>7 DEF FilesKeep
    <3>2. PICK x : x = Older[Len(Older)]
      OBVIOUS
    <3> QED BY <2>1, <2>2, <3>1, <3>2 DEF NotBefore
  <2>4. writer' \in {"write", "idle"}
    BY <1>1
  <2> QED BY <1>1, <1>7, <2>1, <2>3, <2>4 DEF FilesKeep
<1> QED BY <1>1, <1>2, <1>3, <1>4, <1>5, <1>6, <1>7 DEF LogInv

\* The line in hand is written to the file in use.
LEMMA LogWrite ==
    ASSUME LogInv, Lo!Write PROVE LogInv'
<1>0. /\ Lo!TypeOK /\ LOG \in [1..2 -> Seq(Lines)] /\ log_file \in {1, 2}
      /\ logged \in Nat /\ kept \in Nat /\ Limit \in Nat /\ Limit > 0
  BY LogTypes DEF LogInv, Lo!TypeOK, Lines
<1>1. /\ writer \in {"write", "again"}
      /\ LOG' = [LOG EXCEPT ![log_file] = Append(@, mm)]
      /\ writer' = IF Len(LOG'[log_file]) > Limit THEN "turn" ELSE "idle"
      /\ kept' = IF writer = "write" THEN kept + 1 ELSE kept
      /\ UNCHANGED <<logged, msgQ, logwrite, log_file, saved, mm, stale>>
  BY DEF Lo!Write
<1>2. /\ mm \in Lines /\ mm \in Nat /\ mm <= logged
      /\ \A i \in 1..Len(msgQ) : mm <= msgQ[i]
  BY <1>1, LogAssumption DEF LogInv, Lines
<1>3. Lo!Current = log_file /\ Lo!Current' = log_file /\ 3 - log_file \in {1, 2}
      /\ 3 - log_file # log_file
  BY <1>0, <1>1 DEF Lo!Current
<1>4. Newer' = Append(Newer, mm) /\ Older' = Older /\ Newer' = LOG'[log_file]
  BY <1>0, <1>1, <1>3 DEF Newer, Older
<1>5. /\ Newer \in Seq(Lines) /\ Len(Newer) \in Nat /\ Newer' \in Seq(Lines)
      /\ Len(Newer') = Len(Newer) + 1 /\ Newer'[Len(Newer) + 1] = mm
      /\ \A i \in 1..Len(Newer) : Newer'[i] = Newer[i]
      /\ Older \in Seq(Lines) /\ Len(Older) \in Nat /\ msgQ \in Seq(Lines) /\ Len(msgQ) \in Nat
  <2>1. /\ Newer \in Seq(Lines) /\ Len(Newer) \in Nat /\ Older \in Seq(Lines)
        /\ Len(Older) \in Nat /\ msgQ \in Seq(Lines) /\ Len(msgQ) \in Nat
    BY <1>0, LogTypes
  <2> DEFINE grown == Append(Newer, mm)
  <2>2. /\ grown \in Seq(Lines) /\ Len(grown) = Len(Newer) + 1 /\ grown[Len(Newer) + 1] = mm
        /\ \A i \in 1..Len(Newer) : grown[i] = Newer[i]
    BY <1>2, <2>1, AppendProperties
  <2> HIDE DEF grown
  <2>3. Newer' = grown
    BY <1>4 DEF grown
  <2> QED BY <2>1, <2>2, <2>3
<1>6. Lo!TypeOK'
  <2>1. LOG' \in [1..2 -> Seq(Lines)]
    BY <1>0, <1>1, <1>3, <1>4, <1>5
  <2>2. kept + Len(msgQ) + (IF writer = "write" THEN 1 ELSE 0) <= logged
    BY DEF LogInv
  <2>3. kept' \in 0..logged
    BY <1>0, <1>1, <1>5, <2>2 DEF Lo!TypeOK
  <2>4. writer' \in {"turn", "idle"}
    BY <1>1
  <2> QED BY <1>0, <1>1, <2>1, <2>3, <2>4 DEF Lo!TypeOK, Lines
<1>7. kept' + Len(msgQ') + (IF writer' = "write" THEN 1 ELSE 0) <= logged'
  <2>1. writer' # "write" /\ kept + Len(msgQ) + (IF writer = "write" THEN 1 ELSE 0) <= logged
    BY <1>1 DEF LogInv
  <2> QED BY <1>0, <1>1, <1>5, <2>1
<1>8. ASSUME FilesKeep PROVE FilesKeep'
  <2>1. /\ IF kept <= Limit THEN Len(Newer) = kept ELSE Len(Older) + Len(Newer) > Limit
        /\ writer = "again" => kept > Limit
        /\ Older # <<>> => NotBefore(Older[Len(Older)])
        /\ Older # <<>> /\ Newer # <<>> => Older[Len(Older)] <= Newer[1]
    BY <1>8 DEF FilesKeep
  <2>2. IF kept' <= Limit THEN Len(Newer') = kept' ELSE Len(Older') + Len(Newer') > Limit
    <3>1. CASE writer = "write"
      <4>1. kept' = kept + 1
        BY <1>1, <3>1
      <4>2. CASE kept <= Limit
        <5>1. Len(Newer') = kept'
          BY <1>5, <2>1, <4>1, <4>2
        <5> QED BY <1>0, <1>4, <1>5, <4>1, <5>1
      <4>3. CASE kept > Limit
        BY <1>0, <1>4, <1>5, <2>1, <4>1, <4>3
      <4> QED BY <1>0, <4>2, <4>3
    <3>2. CASE writer = "again"
      <4>1. kept' = kept /\ kept > Limit
        BY <1>1, <2>1, <3>2
      <4> QED BY <1>0, <1>4, <1>5, <2>1, <4>1
    <3> QED BY <1>1, <3>1, <3>2
  <2>3. writer' = "turn" => Len(Newer') > Limit
    BY <1>1, <1>4
  <2>4. Newer' # <<>> /\ Newer'[Len(Newer')] = mm'
    BY <1>1, <1>5, EmptySeq
  <2>5. writer' = "turn" => kept' > Limit
    <3>1. CASE kept' <= Limit
      BY <1>0, <1>5, <2>2, <2>3, <3>1
    <3>2. kept' \in Nat
      BY <1>0, <1>1
    <3> QED BY <1>0, <3>1, <3>2
  <2>6. ASSUME Older # <<>> PROVE NotBefore(Older[Len(Older)])' /\ Older[Len(Older)] <= Newer'[1]
    <3>1. PICK x : x = Older[Len(Older)]
      OBVIOUS
    <3>2. /\ x <= logged /\ \A i \in 1..Len(msgQ) : x <= msgQ[i]
          /\ x <= mm
      BY <1>1, <2>1, <2>6, <3>1 DEF NotBefore
    <3>3. NotBefore(Older[Len(Older)])'
      BY <1>1, <1>4, <3>1, <3>2 DEF NotBefore
    <3>4. x <= Newer'[1]
      <4>1. CASE Newer = <<>>
        BY <1>5, <3>2, <4>1, EmptySeq
      <4>2. CASE Newer # <<>>
        BY <1>5, <2>1, <2>6, <3>1, <4>2, EmptySeq
      <4> QED BY <4>1, <4>2
    <3> QED BY <3>1, <3>3, <3>4
  <2>7. writer' \in {"turn", "idle"}
    BY <1>1
  <2> QED BY <1>4, <2>2, <2>3, <2>4, <2>5, <2>6, <2>7 DEF FilesKeep
<1> QED BY <1>1, <1>2, <1>6, <1>7, <1>8 DEF LogInv

\* The full file is left for the other, which is emptied.
LEMMA LogTurn ==
    ASSUME LogInv, Lo!Turn PROVE LogInv'
<1>1. /\ Lo!TypeOK /\ writer = "turn" /\ log_file' = 3 - log_file /\ writer' = "empty"
      /\ UNCHANGED <<logged, msgQ, logwrite, saved, LOG, mm, kept, stale>>
  BY DEF Lo!Turn, Lo!Other, LogInv
<1>2. log_file \in 1..2 /\ log_file' \in 1..2 /\ 3 - log_file' = log_file
  BY <1>1 DEF Lo!TypeOK
<1>3. Lo!Current' = Lo!Current
  BY <1>1, <1>2 DEF Lo!Current, Lo!Other
<1>4. Newer' = Newer /\ Older' = Older
  BY <1>1, <1>3 DEF Newer, Older
<1>5. Lo!TypeOK'
  BY <1>1, <1>2 DEF Lo!TypeOK
<1>6. FilesKeep => FilesKeep'
  BY <1>1, <1>4 DEF FilesKeep, NotBefore
<1> QED BY <1>1, <1>5, <1>6 DEF LogInv

LEMMA LogEmpty ==
    ASSUME LogInv, Lo!Empty PROVE LogInv'
<1>1. /\ Lo!TypeOK /\ writer = "empty"
      /\ LOG' = [LOG EXCEPT ![log_file] = <<>>]
      /\ writer' = IF log_file = 2 THEN "again" ELSE "idle"
      /\ UNCHANGED <<logged, msgQ, logwrite, log_file, saved, mm, kept, stale>>
  BY DEF Lo!Empty, Lo!Emptied, LogInv
<1>2. /\ LOG \in [1..2 -> Seq(Lines)] /\ log_file \in {1, 2} /\ 3 - log_file \in {1, 2}
      /\ 3 - log_file # log_file /\ 3 - (3 - log_file) = log_file
  BY <1>1 DEF Lo!TypeOK, Lines
<1>3. <<>> \in Seq(Lines) /\ Len(<<>>) = 0
  BY EmptySeq
<1>4. Lo!Current = 3 - log_file /\ Lo!Current' = log_file
  BY <1>1 DEF Lo!Current, Lo!Other
<1>5. Newer' = <<>> /\ Older' = Newer
  BY <1>1, <1>2, <1>4 DEF Newer, Older
<1>6. Lo!TypeOK'
  <2>1. LOG' \in [1..2 -> Seq(Lines)]
    BY <1>1, <1>2, <1>3
  <2>2. writer' \in {"again", "idle"}
    BY <1>1
  <2> QED BY <1>1, <2>1, <2>2 DEF Lo!TypeOK, Lines
<1>7. writer' \in {"again", "idle"}
  BY <1>1
<1>8. /\ kept \in Nat /\ Limit \in Nat /\ Len(Newer) \in Nat
      /\ mm <= logged /\ \A i \in 1..Len(msgQ) : mm <= msgQ[i]
  BY <1>1, LogTypes DEF LogInv
<1>9. ASSUME FilesKeep PROVE FilesKeep'
  <2>1. Newer # <<>> /\ Newer[Len(Newer)] = mm /\ Len(Newer) > Limit /\ kept > Limit
    BY <1>1, <1>9 DEF FilesKeep
  <2>2. ~(kept' <= Limit) /\ Len(Older') + Len(Newer') > Limit
    BY <1>1, <1>3, <1>5, <1>8, <2>1
  <2>3. mm \in Nat
    BY <1>1 DEF Lo!TypeOK
  <2>4. NotBefore(Older[Len(Older)])'
    BY <1>1, <1>5, <1>8, <2>1, <2>3 DEF NotBefore
  <2> QED BY <1>1, <1>5, <1>7, <2>1, <2>2, <2>4 DEF FilesKeep
<1> QED BY <1>1, <1>6, <1>7, <1>8, <1>9 DEF LogInv

\* A line that is logged is newer than every other.
LEMMA LogLogged ==
    ASSUME LogInv, Lo!Log PROVE LogInv'
<1>0. Lo!TypeOK /\ logged \in Nat
  BY LogTypes DEF LogInv
<1>1. /\ logged < MaxLines /\ logged' = logged + 1
      /\ msgQ' = IF Len(msgQ) < LogQueueLen THEN Append(msgQ, logged') ELSE msgQ
      /\ UNCHANGED <<logwrite, log_file, saved, LOG, writer, mm, kept, stale>>
  BY DEF Lo!Log
<1>2. logged' \in Lines /\ logged' > logged /\ logged' \in 0..MaxLines
  BY <1>0, <1>1, LogAssumption DEF Lines
<1>3. /\ msgQ \in Seq(Lines) /\ Append(msgQ, logged') \in Seq(Lines)
      /\ Len(Append(msgQ, logged')) = Len(msgQ) + 1 /\ Len(msgQ) \in Nat
      /\ Append(msgQ, logged')[Len(msgQ) + 1] = logged'
      /\ \A i \in 1..Len(msgQ) : Append(msgQ, logged')[i] = msgQ[i] /\ msgQ[i] \in Nat
  BY <1>0, <1>2, LogTypes, AppendProperties, LineIsNumber
<1>4. Lo!TypeOK'
  <2>1. msgQ' \in Seq(Lines) /\ Len(msgQ') <= LogQueueLen
    BY <1>0, <1>1, <1>3, LogAssumption DEF Lo!TypeOK
  <2>2. kept \in 0..logged'
    BY <1>0, <1>2 DEF Lo!TypeOK
  <2> QED BY <1>0, <1>1, <1>2, <2>1, <2>2 DEF Lo!TypeOK, Lines
<1>5. \A i \in 1..Len(msgQ') : \/ i \in 1..Len(msgQ) /\ msgQ'[i] = msgQ[i] /\ msgQ[i] \in Nat
                               \/ i = Len(msgQ) + 1 /\ msgQ'[i] = logged'
  BY <1>1, <1>3
<1>6. \A i \in 1..Len(msgQ) : msgQ[i] <= logged
  BY DEF LogInv
<1>7. \A i \in 1..Len(msgQ') : msgQ'[i] <= logged'
  BY <1>0, <1>1, <1>5, <1>6
<1>8. \A i, j \in 1..Len(msgQ') : i <= j => msgQ'[i] <= msgQ'[j]
  <2> SUFFICES ASSUME NEW i \in 1..Len(msgQ'), NEW j \in 1..Len(msgQ'), i <= j
               PROVE  msgQ'[i] <= msgQ'[j]
    OBVIOUS
  <2>1. CASE j \in 1..Len(msgQ) /\ msgQ'[j] = msgQ[j]
    <3>1. i \in 1..Len(msgQ) /\ msgQ'[i] = msgQ[i]
      BY <1>3, <1>5, <2>1
    <3> QED BY <2>1, <3>1 DEF LogInv
  <2>2. CASE msgQ'[j] = logged'
    BY <1>7, <2>2
  <2> QED BY <1>5, <2>1, <2>2
<1>9. kept' + Len(msgQ') + (IF writer' = "write" THEN 1 ELSE 0) <= logged'
  <2>1. kept \in Nat /\ Len(msgQ') \in {Len(msgQ), Len(msgQ) + 1}
    BY <1>0, <1>1, <1>3, LogTypes
  <2> DEFINE n == IF writer = "write" THEN 1 ELSE 0
  <2>2. kept + Len(msgQ) + n <= logged /\ kept' = kept /\ n \in {0, 1}
        /\ n = IF writer' = "write" THEN 1 ELSE 0
    BY <1>1 DEF LogInv
  <2> HIDE DEF n
  <2>3. kept' + Len(msgQ') + n <= logged'
    <3>1. Len(msgQ) \in Nat /\ logged' = logged + 1
      BY <1>1, <1>3
    <3> QED BY ONLY <1>0, <2>1, <2>2, <3>1
  <2> QED BY <2>2, <2>3
<1>10. ASSUME NEW x \in Nat, x <= logged, \A i \in 1..Len(msgQ) : x <= msgQ[i]
       PROVE  x <= logged' /\ \A i \in 1..Len(msgQ') : x <= msgQ'[i]
  BY <1>0, <1>1, <1>2, <1>5, <1>10
<1>11. writer # "idle" => /\ mm \in Lines /\ mm <= logged'
                          /\ \A i \in 1..Len(msgQ') : mm <= msgQ'[i]
  <2>1. writer # "idle" => /\ mm \in Lines /\ mm \in Nat /\ mm <= logged
                           /\ \A i \in 1..Len(msgQ) : mm <= msgQ[i]
    BY LogAssumption DEF LogInv, Lines
  <2> QED BY <1>10, <2>1
<1>12. ASSUME FilesKeep PROVE FilesKeep'
  <2>1. Newer' = Newer /\ Older' = Older
    BY <1>1 DEF Newer, Older, Lo!Current
  <2>2. Older # <<>> => Older[Len(Older)] \in Nat
    <3>1. Older # <<>> => Len(Older) \in 1..Len(Older)
      BY <1>0, LogTypes, EmptySeq
    <3> QED BY <1>0, <3>1, LogTypes, LineIsNumber
  <2>3. Older # <<>> => NotBefore(Older[Len(Older)])'
    BY <1>1, <1>10, <1>12, <2>1, <2>2 DEF FilesKeep, NotBefore
  <2> QED BY <1>1, <1>12, <2>1, <2>3 DEF FilesKeep
<1> QED BY <1>1, <1>4, <1>7, <1>8, <1>9, <1>11, <1>12 DEF LogInv

\* A restart between any two accesses leaves a file behind that was not emptied or
\* keeps what the files promise; the line in hand is lost.
LEMMA LogRestart ==
    ASSUME LogInv, Lo!Restart PROVE LogInv'
<1>0. Lo!TypeOK
  BY DEF LogInv
<1>1. /\ log_file' = saved /\ msgQ' = <<>> /\ writer' = "idle" /\ mm' = 0
      /\ stale' = (stale \/ saved # log_file \/ writer = "empty")
      /\ UNCHANGED <<logged, logwrite, saved, LOG, kept>>
  BY DEF Lo!Restart
<1>2. <<>> \in Seq(1..MaxLines) /\ Len(<<>>) = 0
  BY EmptySeq
<1>3. stale' \in BOOLEAN /\ mm' \in 0..MaxLines
  BY <1>1, LogAssumption
<1>4. Lo!TypeOK'
  BY <1>0, <1>1, <1>2, <1>3, LogAssumption DEF Lo!TypeOK
<1>5. 1..Len(msgQ') = {}
  BY <1>1, <1>2
<1>6. kept' + Len(msgQ') + (IF writer' = "write" THEN 1 ELSE 0) <= logged'
  BY <1>0, <1>1, <1>2 DEF Lo!TypeOK
<1>7. ASSUME ~stale' PROVE FilesKeep'
  <2>1. FilesKeep /\ log_file' = log_file /\ writer # "empty"
    BY <1>1, <1>7 DEF LogInv
  <2>2. Newer' = Newer /\ Older' = Older
    BY <1>1, <2>1 DEF Newer, Older, Lo!Current
  <2> QED BY <1>1, <1>5, <2>1, <2>2 DEF FilesKeep, NotBefore
<1> QED BY <1>1, <1>4, <1>5, <1>6, <1>7 DEF LogInv

LEMMA LogNext == LogInv /\ [Lo!Next]_(Lo!vars) => LogInv'
<1> SUFFICES ASSUME LogInv, [Lo!Next]_(Lo!vars) PROVE LogInv'
  OBVIOUS
<1>0. Lo!TypeOK
  BY DEF LogInv
<1>1. CASE UNCHANGED Lo!vars
  <2>1. Lo!TypeOK'
    BY <1>0, <1>1 DEF Lo!TypeOK, Lo!vars
  <2>2. FilesKeep' <=> FilesKeep
    BY <1>1 DEF Lo!vars, FilesKeep, Newer, Older, NotBefore, Lo!Current
  <2> QED BY <1>1, <2>1, <2>2 DEF LogInv, Lo!vars
<1>2. CASE Lo!Save
  <2>1. /\ logwrite' \in BOOLEAN /\ saved' = log_file
        /\ UNCHANGED <<logged, msgQ, log_file, LOG, writer, mm, kept, stale>>
    BY <1>2 DEF Lo!Save
  <2>2. Lo!TypeOK'
    BY <1>0, <2>1 DEF Lo!TypeOK
  <2>3. FilesKeep' <=> FilesKeep
    BY <2>1 DEF FilesKeep, Newer, Older, NotBefore, Lo!Current
  <2> QED BY <2>1, <2>2, <2>3 DEF LogInv
<1> QED BY <1>1, <1>2, LogLogged, LogTake, LogWrite, LogTurn, LogEmpty, LogRestart DEF Lo!Next

LEMMA LogHolds == Spec => [](part = "log" => LogInv)
<1>1. Init => (part = "log" => LogInv)
  BY LogInit DEF Init
<1>2. (part = "log" => LogInv) /\ [Next]_vars => (part = "log" => LogInv)'
  <2> SUFFICES ASSUME part = "log", LogInv, [Next]_vars PROVE LogInv'
    BY PartIsRigid
  <2>1. [Lo!Next]_(Lo!vars)
    BY DEF Next, vars, logVars, Lo!vars
  <2> QED BY <2>1, LogNext
<1> QED BY <1>1, <1>2, PTL DEF Spec

\* A full file's worth of the newest lines is kept, in order, for any limit, any queue
\* and any number of lines, with saves and restarts between any two accesses of the
\* files, until a restart leaves the board on a file that was not emptied.
THEOREM LogIsKept == Spec => []RecentIsKept
<1>1. LogInv => Lo!RecentIsKept
  <2> SUFFICES ASSUME LogInv, ~stale
               PROVE  /\ Newer # <<>> /\ Older # <<>> => Older[Len(Older)] <= Newer[1]
                      /\ kept <= Limit => Len(Newer) = kept
                      /\ kept > Limit => Len(Older) + Len(Newer) > Limit
    BY DEF Lo!RecentIsKept, Newer, Older, Lo!Other, Lo!Last
  <2>1. FilesKeep /\ Lo!TypeOK
    BY DEF LogInv
  <2> QED BY <2>1, LogTypes, LogAssumption DEF FilesKeep
<1> QED BY <1>1, LogHolds, PTL DEF RecentIsKept

-----------------------------------------------------------------------------
(* The list of boards.  A socket that is booked soundly is kept by no      *)
(* entry but that of its board.  Of two entries the one in front is of     *)
(* another board, or of the same and then the one behind was made of an id. *)

EntryFine(e, c, s) ==
    /\ e.mac # Bo!Made => e.id \in {Bo!NoOne, e.mac}
    /\ e.sock \in s => e.mac = c[e.sock]

Apart(e, g) ==
    /\ e.mac # Bo!Made => e.mac # g.mac
    /\ e.id = g.id /\ e.id # Bo!NoOne => g.mac = Bo!Made
    /\ e.mac = Bo!Made => g.mac # e.id

ListFine(l, c, s) ==
    /\ l \in Seq(Bo!Entry)
    /\ \A i \in 1..Len(l) : EntryFine(l[i], c, s)
    /\ \A i, j \in 1..Len(l) : i < j => Apart(l[i], l[j])

BoardsInv ==
    /\ Bo!TypeOK
    /\ \A f \in sound : conn[f] # Bo!NoOne
    /\ ListFine(list, conn, sound)

\* The least of a set of numbers: the intervals below its members are finite sets,
\* and one of them contains no other.
LEMMA SetHasLeast ==
    ASSUME NEW S, S \subseteq Nat, S # {}
    PROVE  Bo!Min(S) \in S /\ \A y \in S : Bo!Min(S) <= y
<1> DEFINE Below == {0..x : x \in S}
           R     == StrictSubsetOrdering(Nat)
<1>1. Below \subseteq FiniteSubsetsOf(Nat)
  <2> SUFFICES ASSUME NEW x \in S PROVE 0..x \in FiniteSubsetsOf(Nat)
    OBVIOUS
  <2>1. IsFiniteSet(0..x)
    BY FS_Interval
  <2> QED BY <2>1 DEF FiniteSubsetsOf
<1>2. PICK t \in Below : \A u \in Below : <<u, t>> \notin R
  <2> HIDE DEF Below, R
  <2>1. IsWellFoundedOn(R, FiniteSubsetsOf(Nat))
    BY FS_StrictSubsetOrderingWellFounded DEF R
  <2>2. Below # {}
    BY DEF Below
  <2> QED BY <1>1, <2>1, <2>2, WFMin
<1>3. PICK x \in S : t = 0..x
  OBVIOUS
<1>4. ASSUME NEW y \in S, ~(x <= y) PROVE FALSE
  <2>1. x \in Nat /\ y \in Nat /\ y < x
    BY <1>4
  <2>2. 0..y \subseteq 0..x /\ x \in 0..x /\ x \notin 0..y
    BY <2>1
  <2>3. <<0..y, 0..x>> \in R
    BY <2>1, <2>2 DEF StrictSubsetOrdering
  <2> QED BY <1>2, <1>3, <2>3
<1>5. \E z \in S : \A y \in S : z <= y
  BY <1>4
<1> QED BY <1>5 DEF Bo!Min

LEMMA FoundByMac ==
    ASSUME Bo!TypeOK, NEW b
    PROVE  \/ Bo!ByMac(b) = 0 /\ \A i \in 1..Len(list) : list[i].mac # b
           \/ Bo!ByMac(b) \in 1..Len(list) /\ list[Bo!ByMac(b)].mac = b
<1> DEFINE I == {i \in 1..Len(list) : list[i].mac = b}
<1>1. Bo!ByMac(b) = IF I # {} THEN Bo!Min(I) ELSE 0
  BY DEF Bo!ByMac, Bo!SelectInSeq
<1>2. I \subseteq Nat
  OBVIOUS
<1>3. CASE I = {}
  BY <1>1, <1>3
<1>4. CASE I # {}
  <2>1. Bo!Min(I) \in I
    <3> HIDE DEF I
    <3> QED BY <1>2, <1>4, SetHasLeast
  <2> QED BY <1>1, <1>4, <2>1
<1> QED BY <1>3, <1>4

LEMMA FoundById ==
    ASSUME Bo!TypeOK, NEW b
    PROVE  \/ Bo!ById(b) = 0 /\ \A i \in 1..Len(list) : list[i].id # b
           \/ Bo!ById(b) \in 1..Len(list) /\ list[Bo!ById(b)].id = b
<1> DEFINE I == {i \in 1..Len(list) : list[i].id = b}
<1>1. Bo!ById(b) = IF I # {} THEN Bo!Min(I) ELSE 0
  BY DEF Bo!ById, Bo!SelectInSeq
<1>2. I \subseteq Nat
  OBVIOUS
<1>3. CASE I = {}
  BY <1>1, <1>3
<1>4. CASE I # {}
  <2>1. Bo!Min(I) \in I
    <3> HIDE DEF I
    <3> QED BY <1>2, <1>4, SetHasLeast
  <2> QED BY <1>1, <1>4, <2>1
<1> QED BY <1>3, <1>4

LEMMA FoundBySock ==
    ASSUME Bo!TypeOK, NEW f, Bo!BySock(f) # 0
    PROVE  Bo!BySock(f) \in 1..Len(list) /\ list[Bo!BySock(f)].sock = f
<1> DEFINE I == {i \in 1..Len(list) : list[i].sock = f}
<1>1. Bo!BySock(f) = IF I # {} THEN Bo!Min(I) ELSE 0
  BY DEF Bo!BySock, Bo!SelectInSeq
<1>2. I \subseteq Nat /\ I # {}
  BY <1>1
<1>3. Bo!Min(I) \in I
  <2> HIDE DEF I
  <2> QED BY <1>2, SetHasLeast
<1> QED BY <1>1, <1>2, <1>3

-----------------------------------------------------------------------------
\* What the list may become.

LEMMA FrontAdded ==
    ASSUME NEW l, NEW c, NEW s, ListFine(l, c, s),
           NEW e \in Bo!Entry, EntryFine(e, c, s), \A i \in 1..Len(l) : Apart(e, l[i])
    PROVE  ListFine(<<e>> \o l, c, s)
<1> DEFINE m == <<e>> \o l
<1>1. l \in Seq(Bo!Entry)
  BY DEF ListFine
<1>2. m \in Seq(Bo!Entry) /\ Len(m) = Len(l) + 1 /\ m[1] = e
      /\ \A i \in 2..Len(m) : m[i] = l[i - 1]
  BY <1>1
<1> HIDE DEF m
<1>3. ASSUME NEW i \in 1..Len(m) PROVE EntryFine(m[i], c, s)
  <2>1. i = 1 \/ (i \in 2..Len(m) /\ i - 1 \in 1..Len(l))
    BY <1>1, <1>2
  <2> QED BY <1>2, <2>1 DEF ListFine
<1>4. ASSUME NEW i \in 1..Len(m), NEW j \in 1..Len(m), i < j PROVE Apart(m[i], m[j])
  <2>1. j \in 2..Len(m) /\ j - 1 \in 1..Len(l)
    BY <1>1, <1>2, <1>4
  <2>2. i = 1 \/ (i \in 2..Len(m) /\ i - 1 \in 1..Len(l) /\ i - 1 < j - 1)
    BY <1>1, <1>2, <1>4
  <2> QED BY <1>2, <2>1, <2>2 DEF ListFine
<1> QED BY <1>2, <1>3, <1>4 DEF ListFine, m

LEMMA OneRemoved ==
    ASSUME NEW l, NEW c, NEW s, ListFine(l, c, s), NEW k \in 1..Len(l)
    PROVE  ListFine(Bo!RemoveAt(l, k), c, s)
<1> DEFINE m == Bo!RemoveAt(l, k)
           At(i) == IF i < k THEN i ELSE i + 1
<1>1. l \in Seq(Bo!Entry) /\ Len(l) \in Nat
  BY DEF ListFine
<1>2. /\ m \in Seq(Bo!Entry) /\ Len(m) = Len(l) - 1
      /\ \A i \in 1..Len(m) : m[i] = l[At(i)] /\ At(i) \in 1..Len(l)
  <2> DEFINE a == SubSeq(l, 1, k - 1)
             b == SubSeq(l, k + 1, Len(l))
  <2>1. a \in Seq(Bo!Entry) /\ Len(a) = k - 1 /\ \A i \in 1..(k - 1) : a[i] = l[i]
    BY <1>1, SubSeqProperties
  <2>2. /\ b \in Seq(Bo!Entry) /\ Len(b) = Len(l) - k
        /\ \A i \in 1..(Len(l) - k) : b[i] = l[k + i]
    BY <1>1, SubSeqProperties
  <2>3. m = a \o b
    BY DEF Bo!RemoveAt
  <2> HIDE DEF a, b, m
  <2>4. m \in Seq(Bo!Entry) /\ Len(m) = Len(l) - 1
    <3>1. a \o b \in Seq(Bo!Entry) /\ Len(a \o b) = Len(a) + Len(b)
      BY <2>1, <2>2, ConcatProperties
    <3> QED BY <1>1, <2>1, <2>2, <2>3, <3>1
  <2>5. ASSUME NEW i \in 1..Len(m) PROVE m[i] = l[At(i)] /\ At(i) \in 1..Len(l)
    <3>1. CASE i < k
      <4>1. i \in 1..(k - 1) /\ i \in 1..(Len(a) + Len(b)) /\ i <= Len(a)
        BY <1>1, <2>1, <2>2, <2>4, <3>1
      <4>2. m[i] = a[i]
        BY <2>1, <2>2, <2>3, <4>1, ConcatProperties
      <4> QED BY <1>1, <2>1, <3>1, <4>1, <4>2
    <3>2. CASE ~(i < k)
      <4>1. i - (k - 1) \in 1..(Len(l) - k) /\ k + (i - (k - 1)) = i + 1
        BY <1>1, <2>4, <3>2
      <4>2. m[i] = b[i - (k - 1)]
        BY <1>1, <2>1, <2>2, <2>3, <2>4, <3>2, ConcatProperties
      <4> QED BY <1>1, <2>2, <2>4, <3>2, <4>1, <4>2
    <3> QED BY <3>1, <3>2
  <2> QED BY <2>4, <2>5
<1> HIDE DEF m
<1>3. ASSUME NEW i \in 1..Len(m) PROVE EntryFine(m[i], c, s)
  BY <1>2 DEF ListFine
<1>4. ASSUME NEW i \in 1..Len(m), NEW j \in 1..Len(m), i < j PROVE Apart(m[i], m[j])
  <2>1. At(i) < At(j)
    BY <1>1, <1>2, <1>4
  <2> HIDE DEF At
  <2> QED BY <1>2, <2>1 DEF ListFine
<1> QED BY <1>2, <1>3, <1>4 DEF ListFine, m

LEMMA IdChanged ==
    ASSUME BoardAssumption, NEW l, NEW c, NEW s, ListFine(l, c, s), NEW k \in 1..Len(l),
           NEW b \in Boards, l[k].mac = b
    PROVE  ListFine([l EXCEPT ![k].id = b], c, s)
<1> PICK m : m = [l EXCEPT ![k].id = b]
  OBVIOUS
<1>1. l \in Seq(Bo!Entry) /\ b # Bo!Made
  BY DEF ListFine, BoardAssumption, Bo!Made
<1>2. PICK e : e = [l[k] EXCEPT !.id = b]
  OBVIOUS
<1>3. l[k] \in Bo!Entry
  BY <1>1
<1>4. e \in Bo!Entry /\ e.mac = b /\ e.id = b /\ e.sock = l[k].sock
  BY <1>2, <1>3 DEF Bo!Entry
<1>5. m \in Seq(Bo!Entry) /\ Len(m) = Len(l) /\ m[k] = e
      /\ \A i \in 1..Len(l) : i # k => m[i] = l[i]
  BY <1>1, <1>2, <1>4
<1>6. ASSUME NEW i \in 1..Len(m) PROVE EntryFine(m[i], c, s)
  <2>1. CASE i = k
    BY <1>4, <1>5, <2>1 DEF ListFine, EntryFine
  <2>2. CASE i # k
    BY <1>5, <2>2 DEF ListFine
  <2> QED BY <2>1, <2>2
<1>7. ASSUME NEW i \in 1..Len(m), NEW j \in 1..Len(m), i < j PROVE Apart(m[i], m[j])
  <2>1. EntryFine(l[i], c, s) /\ EntryFine(l[j], c, s) /\ Apart(l[i], l[j])
    BY <1>5, <1>7 DEF ListFine
  <2>2. CASE i # k /\ j # k
    BY <1>5, <2>1, <2>2
  <2>3. CASE i = k
    <3>1. j # k /\ m[j] = l[j] /\ m[i] = e
      BY <1>1, <1>5, <1>7, <2>3
    <3> QED BY <1>1, <1>4, <2>1, <2>3, <3>1 DEF EntryFine, Apart
  <2>4. CASE j = k
    <3>1. i # k /\ m[i] = l[i] /\ m[j] = e
      BY <1>1, <1>5, <1>7, <2>4
    <3> QED BY <1>1, <1>4, <2>1, <2>4, <3>1 DEF EntryFine, Apart
  <2> QED BY <2>2, <2>3, <2>4
<1> QED BY <1>5, <1>6, <1>7 DEF ListFine

LEMMA SockChanged ==
    ASSUME NEW l, NEW c, NEW s, ListFine(l, c, s), NEW k \in 1..Len(l),
           NEW f \in Fds, f \in s => l[k].mac = c[f]
    PROVE  ListFine([l EXCEPT ![k].sock = f], c, s)
<1> PICK m : m = [l EXCEPT ![k].sock = f]
  OBVIOUS
<1>1. l \in Seq(Bo!Entry)
  BY DEF ListFine
<1>2. PICK e : e = [l[k] EXCEPT !.sock = f]
  OBVIOUS
<1>3. l[k] \in Bo!Entry
  BY <1>1
<1>4. e \in Bo!Entry /\ e.mac = l[k].mac /\ e.id = l[k].id /\ e.sock = f
  BY <1>2, <1>3 DEF Bo!Entry
<1>5. m \in Seq(Bo!Entry) /\ Len(m) = Len(l)
      /\ \A i \in 1..Len(l) :
            /\ m[i].mac = l[i].mac /\ m[i].id = l[i].id
            /\ i # k => m[i] = l[i]
            /\ i = k => m[i].sock = f
  BY <1>1, <1>2, <1>4
<1>6. ASSUME NEW i \in 1..Len(m) PROVE EntryFine(m[i], c, s)
  BY <1>5 DEF ListFine, EntryFine
<1>7. ASSUME NEW i \in 1..Len(m), NEW j \in 1..Len(m), i < j PROVE Apart(m[i], m[j])
  BY <1>5, <1>7 DEF ListFine, Apart
<1> QED BY <1>5, <1>6, <1>7 DEF ListFine

-----------------------------------------------------------------------------
LEMMA BoardsInit == Bo!Init => BoardsInv
  BY DEF Bo!Init, Bo!TypeOK, BoardsInv, ListFine

\* An event that changes the list and no socket.
LEMMA ListChanged ==
    ASSUME BoardsInv, ListFine(list', conn, sound), joined' \subseteq Boards,
           conn' = conn, sound' = sound
    PROVE  BoardsInv'
  BY DEF BoardsInv, ListFine, EntryFine, Apart, Bo!TypeOK, Bo!Entry, Bo!Made, Bo!NoOne

LEMMA NewOf ==
    ASSUME NEW mac, NEW id, NEW f
    PROVE  Bo!NewEntry(mac, id, f) = <<[mac |-> mac, id |-> id, sock |-> f]>> \o list
  BY DEF Bo!NewEntry

LEMMA BoardsNext == BoardAssumption /\ BoardsInv /\ [Bo!Next]_(Bo!vars) => BoardsInv'
<1> SUFFICES ASSUME BoardAssumption, BoardsInv, [Bo!Next]_(Bo!vars) PROVE BoardsInv'
  OBVIOUS
<1> USE DEF BoardsInv
<1>1. /\ list \in Seq(Bo!Entry) /\ joined \subseteq Boards /\ sound \subseteq Fds
      /\ conn \in [Fds -> Boards \union {Bo!NoOne}]
      /\ Bo!Made \notin Boards /\ Bo!NoOne \notin Boards /\ 0 \notin Fds
      /\ Bo!Made # Bo!NoOne
  BY DEF Bo!TypeOK, BoardAssumption, Bo!Made, Bo!NoOne
\* A new entry of a board that has none.
<1>2. ASSUME NEW b \in Boards, Bo!ByMac(b) = 0
      PROVE  /\ ListFine(Bo!NewEntry(b, Bo!NoOne, 0), conn, sound)
             /\ ListFine(Bo!NewEntry(b, b, 0), conn, sound)
             /\ Bo!ById(b) = 0 => ListFine(Bo!NewEntry(Bo!Made, b, 0), conn, sound)
  <2>1. \A i \in 1..Len(list) : list[i].mac # b
    BY <1>2, FoundByMac
  <2>2. \A i \in 1..Len(list) : EntryFine(list[i], conn, sound)
    BY DEF ListFine
  <2>3. ASSUME NEW mac \in {b, Bo!Made}, NEW id \in {b, Bo!NoOne},
               mac = Bo!Made => id = b /\ \A i \in 1..Len(list) : list[i].id # b
        PROVE  ListFine(Bo!NewEntry(mac, id, 0), conn, sound)
    <3> PICK e : e = [mac |-> mac, id |-> id, sock |-> 0]
      OBVIOUS
    <3>1. e \in Bo!Entry /\ e.mac = mac /\ e.id = id /\ e.sock = 0
      BY DEF Bo!Entry
    <3>2. EntryFine(e, conn, sound)
      BY <1>1, <2>3, <3>1 DEF EntryFine
    <3>3. ASSUME NEW i \in 1..Len(list) PROVE Apart(e, list[i])
      BY <1>1, <2>1, <2>2, <2>3, <3>1 DEF Apart, EntryFine
    <3>4. ListFine(<<e>> \o list, conn, sound)
      BY <3>1, <3>2, <3>3, FrontAdded
    <3> QED BY <3>4 DEF Bo!NewEntry
  <2> QED BY <1>1, <2>3, FoundById
<1>3. ASSUME NEW b \in Boards, Bo!Join(b) PROVE BoardsInv'
  <2>1. ListFine(list', conn, sound)
    BY <1>2, <1>3 DEF Bo!Join, Bo!Added
  <2> QED BY <1>1, <1>3, <2>1, ListChanged DEF Bo!Join
<1>4. ASSUME NEW b \in Boards, Bo!Leave(b) PROVE BoardsInv'
  <2>1. ListFine(list', conn, sound)
    BY <1>4, FoundByMac, OneRemoved DEF Bo!Leave, Bo!Removed
  <2> QED BY <1>1, <1>4, <2>1, ListChanged DEF Bo!Leave
<1>5. ASSUME NEW b \in Boards, Bo!ByMac(b) # 0 PROVE ListFine(Bo!Identified(b), conn, sound)
  BY <1>5, FoundByMac, IdChanged DEF Bo!Identified
<1>6. ASSUME NEW b \in Boards, Bo!Ack(b) PROVE BoardsInv'
  <2>1. ListFine(list', conn, sound)
    BY <1>2, <1>5, <1>6 DEF Bo!Ack
  <2> QED BY <1>1, <1>6, <2>1, ListChanged DEF Bo!Ack
<1>7. ASSUME NEW b \in Boards, Bo!Sinfo(b) PROVE BoardsInv'
  <2>1. ListFine(list', conn, sound)
    BY <1>2, <1>5, <1>7 DEF Bo!Sinfo
  <2> QED BY <1>1, <1>7, <2>1, ListChanged DEF Bo!Sinfo
<1>8. ASSUME NEW b \in Boards, NEW m \in Boards, NEW f \in Fds, Bo!Accept(b, f, m)
      PROVE  BoardsInv'
  <2>1. /\ b \in joined /\ conn[f] = Bo!NoOne
        /\ conn' = [conn EXCEPT ![f] = b] /\ joined' = joined
        /\ sound' = sound \union {f} \/ sound' = sound
        /\ sound' # sound => m = b /\ \A i \in 1..Len(list) :
                                        list[i].sock = f => list[i].mac = b
    BY <1>8 DEF Bo!Accept
  <2>2. f \notin sound
    BY <2>1
  <2>3. /\ conn' \in [Fds -> Boards \union {Bo!NoOne}] /\ conn'[f] = b
        /\ \A g \in Fds : g # f => conn'[g] = conn[g]
    BY <1>1, <2>1
  <2>4. sound' \subseteq Fds /\ \A g \in sound' : conn'[g] # Bo!NoOne
    BY <1>1, <2>1, <2>3
  <2>5. ASSUME NEW i \in 1..Len(list) PROVE EntryFine(list[i], conn', sound')
    <3>1. EntryFine(list[i], conn, sound)
      BY DEF ListFine
    <3>2. ASSUME list[i].sock \in sound' PROVE list[i].mac = conn'[list[i].sock]
      <4>1. CASE list[i].sock = f
        BY <2>1, <2>2, <2>3, <3>2, <4>1
      <4>2. CASE list[i].sock # f
        BY <1>1, <2>1, <2>3, <3>1, <3>2, <4>2 DEF EntryFine
      <4> QED BY <4>1, <4>2
    <3> QED BY <3>1, <3>2 DEF EntryFine
  <2>6. ListFine(list, conn', sound')
    BY <2>5 DEF ListFine
  <2>7. f \in sound' => m = conn'[f]
    BY <2>1, <2>2, <2>3
  <2>8. ListFine(list', conn', sound')
    <3>1. CASE Bo!ByMac(m) # 0
      <4>1. Bo!ByMac(m) \in 1..Len(list) /\ list[Bo!ByMac(m)].mac = m
        BY <3>1, FoundByMac
      <4>2. list' = [list EXCEPT ![Bo!ByMac(m)].sock = f]
        BY <1>8, <3>1 DEF Bo!Accept
      <4> QED BY <2>6, <2>7, <4>1, <4>2, SockChanged
    <3>2. CASE Bo!ByMac(m) = 0
      <4> PICK e : e = [mac |-> m, id |-> Bo!NoOne, sock |-> f]
        OBVIOUS
      <4>1. e \in Bo!Entry /\ e.mac = m /\ e.id = Bo!NoOne /\ e.sock = f
        BY DEF Bo!Entry
      <4>2. \A i \in 1..Len(list) : list[i].mac # m
        BY <3>2, FoundByMac
      <4>3. EntryFine(e, conn', sound')
        BY <2>7, <4>1 DEF EntryFine
      <4>4. \A i \in 1..Len(list) : Apart(e, list[i])
        BY <1>1, <4>1, <4>2 DEF Apart
      <4>5. ListFine(<<e>> \o list, conn', sound')
        BY <2>6, <4>1, <4>3, <4>4, FrontAdded
      <4> QED BY <1>8, <3>2, <4>5 DEF Bo!Accept, Bo!NewEntry
    <3> QED BY <3>1, <3>2
  <2>9. list' \in Seq(Bo!Entry)
    BY <2>8 DEF ListFine
  <2> QED BY <1>1, <2>1, <2>3, <2>4, <2>8, <2>9
        DEF Bo!TypeOK, ListFine, EntryFine, Apart, Bo!Entry, Bo!Made, Bo!NoOne
\* Sockets that are closed.
<1>9. ASSUME list' = list, joined' \subseteq Boards, sound' \subseteq sound,
             conn' \in [Fds -> Boards \union {Bo!NoOne}],
             \A g \in sound' : conn'[g] = conn[g]
      PROVE  BoardsInv'
  <2>1. \A g \in sound' : conn'[g] # Bo!NoOne
    BY <1>9
  <2>2. ASSUME NEW i \in 1..Len(list) PROVE EntryFine(list[i], conn', sound')
    BY <1>9 DEF ListFine, EntryFine
  <2>3. ListFine(list, conn', sound')
    BY <2>2 DEF ListFine
  <2> QED BY <1>1, <1>9, <2>1, <2>3
        DEF Bo!TypeOK, ListFine, EntryFine, Apart, Bo!Entry, Bo!Made, Bo!NoOne
<1>10. ASSUME NEW f \in Fds, Bo!Close(f) PROVE BoardsInv'
  BY <1>1, <1>9, <1>10 DEF Bo!Close
<1>11. CASE Bo!Reopen
  BY <1>1, <1>9, <1>11 DEF Bo!Reopen
<1>12. ASSUME list' = <<>>, joined' \subseteq Boards, sound' \subseteq sound,
              conn' \in [Fds -> Boards \union {Bo!NoOne}],
              \A g \in sound' : conn'[g] = conn[g]
       PROVE  BoardsInv'
  <2>1. \A g \in sound' : conn'[g] # Bo!NoOne
    BY <1>12
  <2> QED BY <1>1, <1>12, <2>1
        DEF Bo!TypeOK, ListFine, EntryFine, Apart, Bo!Entry, Bo!Made, Bo!NoOne
<1>13. ASSUME NEW f \in Fds, Bo!Orphan(f) PROVE BoardsInv'
  BY <1>1, <1>12, <1>13 DEF Bo!Orphan
<1>14. CASE Bo!Refresh
  BY <1>1, <1>12, <1>14 DEF Bo!Refresh
<1>15. CASE UNCHANGED Bo!vars
  BY <1>1, <1>9, <1>15 DEF Bo!vars
<1> QED
  BY <1>3, <1>4, <1>6, <1>7, <1>8, <1>10, <1>11, <1>13, <1>14, <1>15 DEF Bo!Next

LEMMA BoardsHold == Spec => [](part = "boards" => BoardsInv)
<1>1. Init => (part = "boards" => BoardsInv)
  BY BoardsInit DEF Init
<1>2. (part = "boards" => BoardsInv) /\ [Next]_vars => (part = "boards" => BoardsInv)'
  <2> SUFFICES ASSUME part = "boards", BoardsInv, [Next]_vars PROVE BoardsInv'
    BY PartIsRigid
  <2>1. [Bo!Next]_(Bo!vars)
    BY DEF Next, vars, boardVars, Bo!vars
  <2> QED BY <2>1, BoardsNext, BoardAssumption
<1> QED BY <1>1, <1>2, PTL DEF Spec

\* A message from a socket that was booked soundly is taken for that of the board
\* that sent it, for any number of boards and sockets, and the entry under a board's
\* MAC comes before any that was made of its id.
THEOREM MessagesHaveSenders == Spec => []SocketTellsBoard
<1>1. BoardsInv => Bo!SocketTellsBoard /\ Bo!RealEntryFirst
  <2> SUFFICES ASSUME BoardsInv PROVE Bo!SocketTellsBoard /\ Bo!RealEntryFirst
    OBVIOUS
  <2> USE DEF BoardsInv
  <2>1. /\ list \in Seq(Bo!Entry) /\ sound \subseteq Fds
        /\ conn \in [Fds -> Boards \union {Bo!NoOne}]
        /\ Bo!Made \notin Boards /\ Bo!NoOne \notin Boards
    BY BoardAssumption DEF Bo!TypeOK, BoardAssumption, Bo!Made, Bo!NoOne
  <2>2. ASSUME NEW f \in sound, NEW i \in 1..Len(list), list[i].sock = f
        PROVE  list[i].mac = conn[f] /\ list[i].id \in {Bo!NoOne, conn[f]}
    <3>1. EntryFine(list[i], conn, sound)
      BY DEF ListFine
    <3>2. conn[f] \in Boards
      BY <2>1
    <3> QED BY <2>1, <2>2, <3>1, <3>2 DEF EntryFine
  <2>3. ASSUME NEW f \in sound, Bo!BySock(f) # 0
        PROVE  LET e == list[Bo!BySock(f)] IN e.mac = conn[f] /\ e.id \in {Bo!NoOne, conn[f]}
    BY <2>2, <2>3, FoundBySock
  <2>4. ASSUME NEW f \in sound, NEW b \in Boards, Bo!ById(b) # 0, list[Bo!ById(b)].sock = f
        PROVE  conn[f] = b
    <3>1. Bo!ById(b) \in 1..Len(list) /\ list[Bo!ById(b)].id = b
      BY <2>4, FoundById
    <3> QED BY <2>1, <2>2, <2>4, <3>1
  <2>5. Bo!SocketTellsBoard
    BY <2>3, <2>4 DEF Bo!SocketTellsBoard
  <2>6. ASSUME NEW i \in 1..Len(list), NEW j \in 1..Len(list), i # j, list[i].mac # Bo!Made
        PROVE  list[i].mac # list[j].mac
    <3>1. i < j \/ j < i
      BY <2>6
    <3> QED BY <2>6, <3>1 DEF ListFine, Apart
  <2>7. ASSUME NEW i \in 1..Len(list), NEW j \in 1..Len(list), i < j,
               list[i].id = list[j].id, list[i].id # Bo!NoOne
        PROVE  list[j].mac = Bo!Made
    BY <2>7 DEF ListFine, Apart
  <2> QED BY <2>5, <2>6, <2>7 DEF Bo!RealEntryFirst
<1> QED BY <1>1, BoardsHold, PTL DEF SocketTellsBoard
=============================================================================
