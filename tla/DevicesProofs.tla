---------------------------- MODULE DevicesProofs ----------------------------
(***************************************************************************)
(* Theorems about the devices.                                             *)
(***************************************************************************)
EXTENDS Devices, SequenceTheorems, TLAPS

LEMMA PartIsRigid == [Next]_vars => part' = part
  BY DEF Next, vars

-----------------------------------------------------------------------------
(* A function of another board.  The last report on its way is what the    *)
(* function did last, so when none is on its way the shadow agrees with    *)
(* it; and what CPU1 was told agrees with the shadow and with its record,  *)
(* except between the storing of a new status and the telling of it.       *)

\* Until CPU1 is told, its word agrees with the record a restart would read.
InStep ==
    /\ run.at # "send" => V!Agrees(told, disk)
    /\ run.at = "idle" => V!Agrees(told, stat)
    /\ run.at = "send" => stat = run.report /\ disk = run.report

RemoteInv ==
    /\ V!TypeOK
    /\ ~lost /\ wire # <<>> => wire[Len(wire)] = dev
    /\ ~lost /\ ~unsent /\ wire = <<>> /\ orders = 0 => V!Agrees(stat, dev)
    /\ ~adrift => InStep

LEMMA AgreesIsTransitive ==
    ASSUME NEW a, NEW b, NEW c, V!Agrees(a, b), V!Agrees(b, c),
           a.counter \in Nat, b.counter \in Nat, c.counter \in Nat
    PROVE  V!Agrees(a, c)
  BY DEF V!Agrees, V!SendsCounter

\* What is not worth storing says nothing new, and what is stored says it all.
LEMMA MergedAgrees ==
    ASSUME NEW s \in V!Status, NEW old \in V!Status
    PROVE  /\ V!Merged(s, old) \in V!Status
           /\ V!Agrees(V!Merged(s, old), s)
           /\ ~V!Changed(old, V!Merged(s, old)) => V!Agrees(old, s)
  BY DEF V!Merged, V!Agrees, V!Changed, V!SendsCounter, V!Status, V!Counting

\* An order that is sent is on its way.
LEMMA OrderedIsKnown ==
    V!TypeOK /\ V!Ordered
        => orders' \in 0..MaxWire /\ (V!Sends => orders' # 0) /\ (~V!Sends => orders' = orders)
<1> SUFFICES ASSUME V!TypeOK, V!Ordered
             PROVE  orders' \in 0..MaxWire /\ (V!Sends => orders' # 0) /\ (~V!Sends => orders' = orders)
  OBVIOUS
<1>1. orders \in 0..MaxWire
  BY DEF V!TypeOK
<1>2. CASE V!Sends
  BY <1>1, <1>2, WireAssumption DEF V!Ordered
<1>3. CASE ~V!Sends
  BY <1>1, <1>3 DEF V!Ordered
<1> QED BY <1>2, <1>3

LEMMA RemoteInit == V!Init => RemoteInv
<1> SUFFICES ASSUME V!Init PROVE RemoteInv
  OBVIOUS
<1>1. stat \in V!Status /\ disk \in V!Status /\ dev \in V!Status /\ told \in V!Told
  BY CounterAssumption DEF V!Init, V!Status, V!Told, V!Possible
<1>2. V!TypeOK
  <2>1. run \in V!Call \union {V!NoCall} /\ kind \in V!Kinds /\ serial \in BOOLEAN
    BY DEF V!Init
  <2>2. wire \in Seq(V!Status) /\ Len(wire) <= MaxWire /\ orders \in 0..MaxWire
    BY WireAssumption DEF V!Init
  <2>3. lost \in BOOLEAN /\ unsent \in BOOLEAN /\ adrift \in BOOLEAN
    BY DEF V!Init
  <2> QED BY <1>1, <2>1, <2>2, <2>3 DEF V!TypeOK
<1> QED BY <1>2 DEF V!Init, RemoteInv

LEMMA RemoteNext == RemoteInv /\ [V!Next]_(V!vars) => RemoteInv'
<1> SUFFICES ASSUME RemoteInv, [V!Next]_(V!vars) PROVE RemoteInv'
  OBVIOUS
<1> USE CounterAssumption, WireAssumption DEF RemoteInv, V!TypeOK
<1>0. run.at \in {"idle", "save", "send"} /\ (run.at = "idle" <=> run = V!NoCall)
      /\ (run.at = "send" => run.report \in V!Status)
  BY DEF V!Call, V!NoCall
<1>1. CASE UNCHANGED V!vars
  BY <1>1 DEF V!vars, InStep, V!Agrees, V!SendsCounter
<1>2. ASSUME NEW s \in V!Possible, NEW obeys \in BOOLEAN, V!BoardReports(s, obeys)
      PROVE  RemoteInv'
  <2>1. s \in V!Status
    BY DEF V!Possible
  <2>2. wire' \in Seq(V!Status) /\ Len(wire') = Len(wire) + 1 /\ wire'[Len(wire')] = s
    BY <1>2, <2>1 DEF V!BoardReports
  <2>3. orders' \in 0..MaxWire
    BY <1>2 DEF V!BoardReports
  <2>6. UNCHANGED <<kind, serial, stat, disk, run, told, unsent, adrift>> /\ dev' = s /\ lost' = FALSE
        /\ Len(wire) < MaxWire
    BY <1>2 DEF V!BoardReports
  <2>7. Len(wire') <= MaxWire
    BY <2>2, <2>6
  <2>4. V!TypeOK'
    BY <2>1, <2>2, <2>3, <2>6, <2>7
  <2>5. InStep => InStep'
    BY <1>2 DEF V!BoardReports, InStep, V!Agrees, V!SendsCounter
  <2> QED BY <1>2, <2>2, <2>4, <2>5 DEF V!BoardReports
<1>3. CASE V!LoseReport
  <2>1. wire' \in Seq(V!Status) /\ Len(wire') = Len(wire) - 1
        /\ (wire' # <<>> => wire'[Len(wire')] = wire[Len(wire)])
    BY <1>3 DEF V!LoseReport
  <2>2. InStep => InStep'
    BY <1>3 DEF V!LoseReport, InStep, V!Agrees, V!SendsCounter
  <2>3. wire' = <<>> => lost'
    <3>1. wire' = <<>> => Len(wire) = 1
      BY <2>1
    <3> QED BY <1>3, <3>1 DEF V!LoseReport
  <2> QED BY <1>3, <2>1, <2>2, <2>3 DEF V!LoseReport
<1>4. CASE V!LoseOrder
  <2>1. InStep => InStep'
    BY <1>4 DEF V!LoseOrder, InStep, V!Agrees, V!SendsCounter
  <2> QED BY <1>4, <2>1 DEF V!LoseOrder
<1>5. CASE V!Command
  <2>1. InStep => InStep'
    BY <1>5 DEF V!Command, InStep, V!Agrees, V!SendsCounter
  <2>2. orders' \in 0..MaxWire /\ (orders' = 0 => orders = 0)
    BY <1>5, OrderedIsKnown DEF V!Command
  <2>3. (~lost /\ ~unsent /\ wire = <<>> /\ orders = 0 => V!Agrees(stat, dev))'
    BY <1>5, <2>2 DEF V!Command, V!Agrees, V!SendsCounter
  <2> QED BY <1>5, <2>1, <2>2, <2>3 DEF V!Command
<1>6. ASSUME NEW v \in BOOLEAN, V!Scenario(v) PROVE RemoteInv'
  <2>1. unsent' \in BOOLEAN /\ (~unsent' => V!Sends)
    BY <1>6 DEF V!Scenario, V!Sends
  <2>2. orders' \in 0..MaxWire /\ (~unsent' => orders' # 0)
    BY <1>6, <2>1, OrderedIsKnown DEF V!Scenario
  <2>3. stat' \in V!Status
    BY <1>6 DEF V!Scenario, V!Status
  <2> QED BY <1>6, <2>1, <2>2, <2>3 DEF V!Scenario
<1>7. CASE V!Handle
  <2> DEFINE new == V!Merged(Head(wire), stat)
  <2>1. Head(wire) \in V!Status /\ wire' \in Seq(V!Status) /\ Len(wire') = Len(wire) - 1
        /\ (wire' # <<>> => wire'[Len(wire')] = wire[Len(wire)])
        /\ (wire' = <<>> => Head(wire) = wire[Len(wire)])
    <3>1. wire # <<>> /\ wire' = Tail(wire)
      BY <1>7 DEF V!Handle
    <3>2. Head(wire) \in V!Status /\ Tail(wire) \in Seq(V!Status) /\ Len(Tail(wire)) = Len(wire) - 1
          /\ Head(wire) = wire[1]
      BY <3>1
    <3>3. \A i \in 1..(Len(wire) - 1) : Tail(wire)[i] = wire[i + 1]
      BY <3>1
    <3>4. Tail(wire) = <<>> => Len(wire) = 1
      <4> HIDE DEF RemoteInv, V!TypeOK
      <4>1. Tail(wire) = <<>> => Len(Tail(wire)) = 0
        OBVIOUS
      <4>2. Len(wire) \in Nat
        BY DEF RemoteInv, V!TypeOK
      <4> QED BY <3>2, <4>1, <4>2
    <3>5. Tail(wire) # <<>> => Len(wire) - 1 \in 1..(Len(wire) - 1)
      BY <3>2
    <3> QED BY <3>1, <3>2, <3>3, <3>4, <3>5
  <2>2. /\ new \in V!Status
        /\ V!Agrees(new, Head(wire))
        /\ ~V!Changed(stat, new) => V!Agrees(stat, Head(wire))
    BY <2>1, MergedAgrees
  <2>3. \/ V!Changed(stat, new) /\ stat' = new /\ run' = [at |-> "save"]
        \/ ~V!Changed(stat, new) /\ stat' = stat /\ run' = run
    BY <1>7 DEF V!Handle
  <2>4. V!TypeOK'
    <3>1. stat' \in V!Status /\ run' \in V!Call \union {V!NoCall}
      BY <2>2, <2>3 DEF V!Call
    <3>2. UNCHANGED <<kind, serial, disk, dev, orders, told, lost, adrift>> /\ unsent' = FALSE
      BY <1>7 DEF V!Handle
    <3>3. Len(wire') <= MaxWire
      BY <2>1
    <3> QED BY <2>1, <3>1, <3>2, <3>3
  <2>5. V!Agrees(stat', Head(wire))
    BY <2>2, <2>3
  <2>6. (~lost /\ ~unsent /\ wire = <<>> /\ orders = 0 => V!Agrees(stat, dev))'
    BY <1>7, <2>1, <2>5 DEF V!Handle, V!Agrees, V!SendsCounter
  <2>7. InStep => InStep'
    BY <1>7, <2>3, <1>0 DEF V!Handle, V!NoCall, InStep, V!Agrees, V!SendsCounter
  <2> QED BY <1>7, <2>1, <2>4, <2>6, <2>7 DEF V!Handle
<1>8. CASE V!Save
  <2>1. V!TypeOK'
    BY <1>8 DEF V!Save, V!Call, V!NoCall
  <2>2. InStep'
    BY <1>8 DEF V!Save, InStep
  <2>3. (~lost /\ ~unsent /\ wire = <<>> /\ orders = 0 => V!Agrees(stat, dev))'
    BY <1>8 DEF V!Save, V!Agrees, V!SendsCounter
  <2> QED BY <1>8, <2>1, <2>2, <2>3 DEF V!Save
<1>9. ASSUME NEW ok \in BOOLEAN, V!Send(ok) PROVE RemoteInv'
  <2>1. run.report \in V!Status
    BY <1>9, <1>0 DEF V!Send
  <2>2. told' \in V!Told
    BY <1>9, <2>1 DEF V!Send, V!Told, V!Status
  <2>3. V!TypeOK'
    BY <1>9, <2>2 DEF V!Send, V!Call, V!NoCall
  <2>4. ~adrift' => InStep'
    BY <1>9, <2>1 DEF V!Send, V!NoCall, InStep, V!Agrees, V!SendsCounter
  <2>5. (~lost /\ ~unsent /\ wire = <<>> /\ orders = 0 => V!Agrees(stat, dev))'
    BY <1>9 DEF V!Send, V!Agrees, V!SendsCounter
  <2> QED BY <1>9, <2>3, <2>4, <2>5 DEF V!Send
<1>10. CASE V!Restart
  <2>1. stat' \in V!Status
    BY <1>10 DEF V!Restart, V!Booted, V!Status
  <2>2. V!TypeOK'
    <3>1. run' \in V!Call \union {V!NoCall} /\ wire' \in Seq(V!Status) /\ Len(wire') <= MaxWire
      BY <1>10 DEF V!Restart
    <3> QED BY <1>10, <2>1, <3>1 DEF V!Restart
  <2>3. ~adrift' => InStep'
    <3> SUFFICES ASSUME ~adrift' PROVE InStep'
      OBVIOUS
    <3>1. run.at # "send" /\ ~adrift /\ UNCHANGED <<kind, disk, told>> /\ run'.at = "idle"
      BY <1>10 DEF V!Restart, V!NoCall
    <3>2. V!Agrees(told, disk)
      BY <3>1 DEF InStep
    <3>3. V!Agrees(told, disk)' /\ V!Agrees(told', V!Booted)
      BY <3>1, <3>2 DEF V!Booted, V!Agrees, V!SendsCounter, V!Status
    <3>4. V!Agrees(told, stat)'
      BY <1>10, <3>1, <3>3 DEF V!Restart, V!Agrees, V!SendsCounter
    <3> QED BY <3>1, <3>3, <3>4 DEF InStep
  <2> QED BY <1>10, <2>2, <2>3 DEF V!Restart
<1> QED BY <1>1, <1>2, <1>3, <1>4, <1>5, <1>6, <1>7, <1>8, <1>9, <1>10 DEF V!Next

LEMMA RemoteHolds == Spec => [](part = "remote" => RemoteInv)
<1>1. Init => (part = "remote" => RemoteInv)
  BY RemoteInit DEF Init
<1>2. (part = "remote" => RemoteInv) /\ [Next]_vars => (part = "remote" => RemoteInv)'
  <2> SUFFICES ASSUME part = "remote", RemoteInv, [Next]_vars PROVE RemoteInv'
    BY PartIsRigid
  <2>1. [V!Next]_(V!vars)
    BY DEF Next, vars, remoteVars, V!vars
  <2> QED BY <2>1, RemoteNext
<1> QED BY <1>1, <1>2, PTL DEF Spec

\* When nothing is on its way any more, the shadow says what the function of the other
\* board does, and CPU1 has been told so, under the same exceptions as in the runs.
THEOREM ShadowIsTrue == Spec => []ShadowAgrees
<1>1. RemoteInv => V!ShadowAgrees
  <2> SUFFICES ASSUME RemoteInv, run = V!NoCall, wire = <<>>, orders = 0, ~lost, ~unsent
               PROVE  V!Agrees(stat, dev) /\ (~adrift => V!Agrees(told, dev))
    BY DEF V!ShadowAgrees
  <2>1. V!Agrees(stat, dev)
    BY DEF RemoteInv
  <2>2. ~adrift => V!Agrees(told, stat)
    BY DEF RemoteInv, InStep, V!NoCall
  <2>3. stat.counter \in Nat /\ dev.counter \in Nat /\ told.counter \in Nat
    BY CounterAssumption DEF RemoteInv, V!TypeOK, V!Status, V!Told
  <2> QED BY <2>1, <2>2, <2>3, AgreesIsTransitive
<1> QED BY <1>1, RemoteHolds, PTL DEF ShadowAgrees

-----------------------------------------------------------------------------
(* A button.  The state machine is in one of its pressed states exactly    *)
(* while the debounced level is pressed, and the debouncing counter counts *)
(* the samples since the level last was what the button shows.             *)

ButtonInv ==
    /\ B!TypeOK
    /\ level <=> state \in {1, 3, 5}
    /\ raw = level => deb = 0
    /\ raw # level => deb = steady /\ deb < DEBOUNCE_TICKS
    /\ clean => /\ ~disable
                /\ seen = "down" <=> level
                /\ state = 1 => held = ticks
                /\ long => level /\ held > LONG_TICKS

\* What a step of the state machine does, as far as it matters here.
KnownStep(n, s, b, t) ==
    /\ n.state \in {0, 1, 2, 3, 5}
    /\ n.state \in {1, 3, 5} <=> b
    /\ n.ev \in {"down", "up", "long", "none"} /\ n.zero \in BOOLEAN
    /\ n.ev = "down" <=> b /\ s \notin {1, 3, 5}
    /\ n.ev = "up" <=> ~b /\ s \in {1, 3, 5}
    /\ n.ev = "long" => s = 1 /\ b /\ t > LONG_TICKS /\ n.state = 5
    /\ n.state = 1 => \/ n.ev = "down" /\ n.zero = TRUE
                      \/ n.ev = "none" /\ s = 1 /\ n.zero = FALSE

LEMMA StepKnown ==
    ASSUME NEW s \in {0, 1, 2, 3, 5}, NEW b \in BOOLEAN, NEW t \in Nat
    PROVE  KnownStep(B!Step(s, b, t), s, b, t)
<1> USE ButtonAssumption
<1>0. s = 0 \/ s = 1 \/ s = 2 \/ s = 3 \/ s = 5
  OBVIOUS
<1>1. CASE b
  <2>1. CASE s = 0
    <3>1. B!Step(s, b, t) = [state |-> 1, ev |-> "down", zero |-> TRUE]
      BY <1>1, <2>1 DEF B!Step
    <3>2. KnownStep([state |-> 1, ev |-> "down", zero |-> TRUE], s, b, t)
      BY <1>1, <2>1 DEF KnownStep
    <3> QED BY <3>1, <3>2
  <2>2. CASE s = 1 /\ t > LONG_TICKS
    <3>1. B!Step(s, b, t) = [state |-> 5, ev |-> "long", zero |-> FALSE]
      BY <1>1, <2>2 DEF B!Step
    <3>2. KnownStep([state |-> 5, ev |-> "long", zero |-> FALSE], s, b, t)
      BY <1>1, <2>2 DEF KnownStep
    <3> QED BY <3>1, <3>2
  <2>3. CASE s = 2
    <3>1. B!Step(s, b, t) = [state |-> 3, ev |-> "down", zero |-> TRUE]
      BY <1>1, <2>3 DEF B!Step
    <3>2. KnownStep([state |-> 3, ev |-> "down", zero |-> TRUE], s, b, t)
      BY <1>1, <2>3 DEF KnownStep
    <3> QED BY <3>1, <3>2
  <2>4. CASE s \in {3, 5} \/ (s = 1 /\ ~(t > LONG_TICKS))
    <3>1. B!Step(s, b, t) = [state |-> s, ev |-> "none", zero |-> FALSE]
      BY <1>1, <2>4 DEF B!Step
    <3>2. KnownStep([state |-> s, ev |-> "none", zero |-> FALSE], s, b, t)
      BY <1>1, <2>4 DEF KnownStep
    <3> QED BY <3>1, <3>2
  <2> QED BY <1>0, <2>1, <2>2, <2>3, <2>4
<1>2. CASE ~b
  <2>1. CASE s = 0 \/ (s = 2 /\ ~(t > SHORT_TICKS))
    <3>1. B!Step(s, b, t) = [state |-> s, ev |-> "none", zero |-> FALSE]
      BY <1>2, <2>1 DEF B!Step
    <3>2. KnownStep([state |-> s, ev |-> "none", zero |-> FALSE], s, b, t)
      BY <1>2, <2>1 DEF KnownStep
    <3> QED BY <3>1, <3>2
  <2>2. CASE s = 1 \/ (s = 3 /\ t < SHORT_TICKS)
    <3>1. B!Step(s, b, t) = [state |-> 2, ev |-> "up", zero |-> TRUE]
      BY <1>2, <2>2 DEF B!Step
    <3>2. KnownStep([state |-> 2, ev |-> "up", zero |-> TRUE], s, b, t)
      BY <1>2, <2>2 DEF KnownStep
    <3> QED BY <3>1, <3>2
  <2>3. CASE s = 2 /\ t > SHORT_TICKS
    <3>1. B!Step(s, b, t) = [state |-> 0, ev |-> "none", zero |-> FALSE]
      BY <1>2, <2>3 DEF B!Step
    <3>2. KnownStep([state |-> 0, ev |-> "none", zero |-> FALSE], s, b, t)
      BY <1>2, <2>3 DEF KnownStep
    <3> QED BY <3>1, <3>2
  <2>4. CASE s = 5 \/ (s = 3 /\ ~(t < SHORT_TICKS))
    <3>1. B!Step(s, b, t) = [state |-> 0, ev |-> "up", zero |-> FALSE]
      BY <1>2, <2>4 DEF B!Step
    <3>2. KnownStep([state |-> 0, ev |-> "up", zero |-> FALSE], s, b, t)
      BY <1>2, <2>4 DEF KnownStep
    <3> QED BY <3>1, <3>2
  <2> QED BY <1>0, <2>1, <2>2, <2>3, <2>4
<1> QED BY <1>1, <1>2

LEMMA CapKnown ==
    /\ B!TickCap \in Nat /\ B!TickCap > LONG_TICKS
    /\ \A n \in Nat : B!Capped(n) \in 0..B!TickCap
    /\ \A n \in 0..B!TickCap : B!Capped(n + 1) >= n
  BY ButtonAssumption DEF B!TickCap, B!Capped

LEMMA ButtonInit == B!Init => ButtonInv
<1> SUFFICES ASSUME B!Init PROVE ButtonInv
  OBVIOUS
<1>1. 0 \in 0..B!TickCap
  BY CapKnown
<1>2. B!TypeOK
  <2>1. level = FALSE /\ disable = FALSE /\ raw = FALSE /\ long = FALSE /\ clean = TRUE
    BY DEF B!Init
  <2>2. deb = 0 /\ steady = 0 /\ state = 0 /\ ticks = 0 /\ held = 0 /\ seen = "up"
    BY DEF B!Init
  <2> HIDE DEF B!Init
  <2>3. deb \in 0..DEBOUNCE_TICKS /\ steady \in 0..DEBOUNCE_TICKS
    BY <2>2, ButtonAssumption
  <2> QED BY <1>1, <2>1, <2>2, <2>3 DEF B!TypeOK
<1> QED BY <1>2, ButtonAssumption DEF B!Init, ButtonInv

LEMMA ButtonNext == ButtonInv /\ [B!Next]_(B!vars) => ButtonInv'
<1> SUFFICES ASSUME ButtonInv, [B!Next]_(B!vars) PROVE ButtonInv'
  OBVIOUS
<1> USE ButtonAssumption DEF ButtonInv, B!TypeOK
<1>1. CASE UNCHANGED B!vars
  BY <1>1 DEF B!vars
<1>2. ASSUME NEW d \in BOOLEAN, B!SetDisable(d) PROVE ButtonInv'
  BY <1>2 DEF B!SetDisable
<1>3. ASSUME NEW l \in BOOLEAN, B!Tick(l) PROVE ButtonInv'
  <2> DEFINE b == IF B!Debounced(l) THEN l ELSE level
             t == B!Capped(IF state > 0 THEN ticks + 1 ELSE ticks)
             n == B!Step(state, b, t)
  <2>1. b \in BOOLEAN /\ t \in 0..B!TickCap /\ t \in Nat
    BY CapKnown
  <2>2. KnownStep(n, state, b, t)
    BY <2>1, StepKnown
  <2>3. /\ level' = b
        /\ deb' = IF l = level \/ B!Debounced(l) THEN 0 ELSE deb + 1
        /\ state' = n.state
        /\ ticks' = IF n.zero THEN 0 ELSE t
        /\ B!Deliver(n.ev)
        /\ raw' = l
        /\ steady' = IF l # raw THEN 1 ELSE IF steady < DEBOUNCE_TICKS THEN steady + 1 ELSE steady
        /\ disable' = disable
    BY <1>3 DEF B!Tick
  <2> HIDE DEF b, t, n
  <2> USE DEF KnownStep
  <2>4. /\ raw' = level' => deb' = 0
        /\ raw' # level' => deb' = steady' /\ deb' < DEBOUNCE_TICKS
        /\ deb' \in 0..DEBOUNCE_TICKS /\ steady' \in 0..DEBOUNCE_TICKS
    BY <2>3 DEF b, B!Debounced
  <2>5. B!Capped(held + 1) \in 0..B!TickCap /\ B!Capped(held + 1) >= held
    BY CapKnown
  <2>6. /\ seen' \in {"down", "up"} /\ held' \in 0..B!TickCap
        /\ long' \in BOOLEAN /\ clean' \in BOOLEAN
    <3>1. 0 \in 0..B!TickCap
      BY CapKnown
    <3>2. CASE disable \/ n.ev = "none"
      BY <2>3, <2>5, <3>2 DEF B!Deliver
    <3>3. CASE ~(disable \/ n.ev = "none")
      BY <2>2, <2>3, <2>5, <3>1, <3>3 DEF B!Deliver
    <3> QED BY <3>2, <3>3
  <2>7. ASSUME clean' PROVE ~disable' /\ (seen' = "down" <=> level')
    BY <2>2, <2>3, <2>7 DEF B!Deliver
  <2>8. ASSUME clean', state' = 1 PROVE held' = ticks'
    <3>1. CASE n.ev = "down" /\ n.zero = TRUE
      BY <2>2, <2>3, <2>7, <2>8, <3>1 DEF B!Deliver
    <3>2. CASE n.ev = "none" /\ state = 1 /\ n.zero = FALSE
      <4>1. clean /\ held = ticks /\ held' = B!Capped(held + 1)
        BY <2>3, <2>8, <3>2 DEF B!Deliver
      <4>2. ticks' = B!Capped(ticks + 1)
        BY <2>3, <3>2 DEF t
      <4> QED BY <4>1, <4>2
    <3> QED BY <2>2, <2>3, <2>8, <3>1, <3>2
  <2>9. ASSUME clean', long' PROVE level' /\ held' > LONG_TICKS
    <3>1. ~disable
      BY <2>3, <2>7, <2>9
    <3>2. CASE n.ev = "none"
      <4>1. clean /\ long /\ held' = B!Capped(held + 1)
        BY <2>3, <2>9, <3>2 DEF B!Deliver
      <4> QED BY <2>2, <2>3, <2>5, <2>6, <3>2, <4>1, CapKnown
    <3>3. CASE n.ev = "long"
      <4>1. clean /\ held' = B!Capped(held + 1) /\ state = 1
        BY <2>2, <2>3, <2>9, <3>1, <3>3 DEF B!Deliver
      <4>2. t = B!Capped(ticks + 1)
        BY <4>1 DEF t
      <4> QED BY <2>2, <2>3, <3>3, <4>1, <4>2
    <3> QED BY <2>2, <2>3, <2>9, <3>1, <3>2, <3>3 DEF B!Deliver
  <2>10. B!TypeOK'
    BY <2>1, <2>2, <2>3, <2>4, <2>6, CapKnown
  <2> QED BY <2>2, <2>3, <2>4, <2>7, <2>8, <2>9, <2>10
<1> QED BY <1>1, <1>2, <1>3 DEF B!Next

LEMMA ButtonHolds == Spec => [](part = "button" => ButtonInv)
<1>1. Init => (part = "button" => ButtonInv)
  BY ButtonInit DEF Init
<1>2. (part = "button" => ButtonInv) /\ [Next]_vars => (part = "button" => ButtonInv)'
  <2> SUFFICES ASSUME part = "button", ButtonInv, [Next]_vars PROVE ButtonInv'
    BY PartIsRigid
  <2>1. [B!Next]_(B!vars)
    BY DEF Next, vars, buttonVars, B!vars
  <2> QED BY <2>1, ButtonNext
<1> QED BY <1>1, <1>2, PTL DEF Spec

\* A function is told what its button does, and "long" only of a press that was long,
\* for any number of samples of the debouncing, of a click and of a long press.
THEOREM ButtonIsHeard == Spec => []EventsTellButton
<1>1. ButtonInv => B!EventsTellButton
  BY ButtonAssumption DEF ButtonInv, B!TypeOK, B!EventsTellButton
<1> QED BY <1>1, ButtonHolds, PTL DEF EventsTellButton

-----------------------------------------------------------------------------
(* A lamp.  A set_status that runs alone gives output after output the     *)
(* status of the lamp; a call of the esp_timer task gives them the status  *)
(* it will end with.  The invariant says how far they have come.           *)

LampLimited == stat /\ counter > 0 => xtimer

LampSet(c) ==
    /\ timer.op = "idle" /\ \A d \in Callers : d # c => ~L!Busy(d)
    /\ \A o \in L!Outs : o < cmd[c].next => out[o] = stat
    /\ LampLimited

\* The status a call of the esp_timer task has once it has come to an output.
LampAim == \/ timer.op \in {"down", "sense"} /\ timer.stat = TRUE
           \/ timer.op \in {"up", "expire", "minute"} /\ timer.stat = FALSE
           \/ timer.op = "toggle" /\ timer.stat = ~stat

LampCalled ==
    /\ \A o \in L!Outs : IF o < timer.next THEN out[o] = timer.stat
                                           ELSE timer.op = "toggle" => out[o] = stat
    /\ timer.next \in L!Outs /\ timer.next > 1 => LampAim
    /\ timer.op \in {"expire", "minute"} /\ timer.stat /\ timer.counter > 0 => xtimer

LampInv ==
    /\ L!TypeOK
    /\ \A c \in Callers : L!Busy(c) /\ cmd[c].alone => LampSet(c)
    /\ clean => /\ \A c \in Callers : L!Busy(c) => cmd[c].alone
                /\ timer.op # "idle" => LampCalled
                /\ L!Quiet => LampLimited /\ \A o \in L!Outs : out[o] = stat

LEMMA LampInit == L!Init => LampInv
<1> SUFFICES ASSUME L!Init PROVE LampInv
  OBVIOUS
<1> USE LampAssumption, CounterAssumption
<1>1. L!TypeOK
  <2>1. timer \in L!Call /\ cmd \in [Callers -> L!Set]
    BY DEF L!Init, L!Idle, L!NoSet, L!Call, L!Set
  <2>2. disk \in L!Rec /\ out \in [L!Outs -> BOOLEAN]
    BY DEF L!Init, L!Rec
  <2>3. stat = FALSE /\ counter = 0 /\ qtimer = FALSE /\ xtimer = FALSE /\ clean = TRUE
        /\ welcome \in BOOLEAN /\ sensed \in BOOLEAN
    BY DEF L!Init
  <2>4. counter \in 0..MaxCounter
    BY <2>3
  <2> HIDE DEF L!Init
  <2> QED BY <2>1, <2>2, <2>3, <2>4 DEF L!TypeOK
<1>2. \A c \in Callers : ~L!Busy(c)
  BY DEF L!Init, L!Busy, L!NoSet
<1>3. timer.op = "idle" /\ LampLimited /\ \A o \in L!Outs : out[o] = stat
  BY DEF L!Init, L!Idle, LampLimited
<1> QED BY <1>1, <1>2, <1>3 DEF LampInv

\* A call that begins spoils those in progress.
LEMMA SpoiledKnown ==
    ASSUME L!TypeOK
    PROVE  /\ L!Spoiled \in [Callers -> L!Set]
           /\ \A c \in Callers : /\ L!Spoiled[c].op = cmd[c].op
                                 /\ L!Busy(c) => ~L!Spoiled[c].alone
  BY DEF L!TypeOK, L!Spoiled, L!Busy, L!Set

\* A call of the esp_timer task begins.
LEMMA LampEnter ==
    ASSUME LampInv, NEW op \in L!Buttons \union {"expire", "minute"},
           NEW first \in 1..(NOuts + 1), NEW n \in 0..MaxCounter,
           L!Enter(op, first, n), UNCHANGED <<stat, counter, disk, out, welcome>>,
           qtimer' \in BOOLEAN, xtimer' \in BOOLEAN, sensed' = sensed,
           first > 1 => first = NOuts + 1,
           op = "toggle" => first = 1,
           op \in {"expire", "minute"} /\ n > 0 => xtimer' \/ (xtimer' = xtimer /\ n = counter)
    PROVE  LampInv'
<1> USE LampAssumption, CounterAssumption
<1>1. /\ timer.op = "idle" /\ timer' = [op |-> op, next |-> first, stat |-> stat, counter |-> n]
      /\ cmd' = L!Spoiled /\ clean' = (clean /\ L!Quiet)
  BY DEF L!Enter
<1>2. L!TypeOK'
  BY <1>1, SpoiledKnown DEF LampInv, L!TypeOK, L!Call, L!Buttons, L!Outs, L!Rec
<1>3. \A c \in Callers : ~(L!Busy(c)' /\ cmd'[c].alone)
  <2>1. \A c \in Callers : L!Busy(c) => ~L!Spoiled[c].alone
    BY SpoiledKnown DEF LampInv
  <2>2. \A c \in Callers : L!Busy(c)' <=> L!Busy(c)
    BY <1>1, SpoiledKnown DEF LampInv, L!Busy
  <2> QED BY <1>1, <2>1, <2>2
<1>4. ASSUME clean' PROVE \A c \in Callers : ~L!Busy(c)'
  BY <1>1, <1>4, SpoiledKnown DEF LampInv, L!Busy, L!Quiet
<1>5. ASSUME clean' PROVE LampCalled'
  <2>1. LampLimited /\ \A o \in L!Outs : out[o] = stat
    BY <1>1, <1>5 DEF LampInv
  <2>2. timer'.next = first /\ timer'.op = op /\ timer'.stat = stat /\ timer'.counter = n
    BY <1>1
  <2>3. \A o \in L!Outs : out'[o] = stat /\ stat' = stat
    BY <2>1
  <2>4. ~(first \in L!Outs /\ first > 1)
    BY DEF L!Outs
  <2>5. op \in {"expire", "minute"} /\ stat /\ n > 0 => xtimer'
    BY <2>1 DEF LampLimited
  <2> QED BY <2>2, <2>3, <2>4, <2>5 DEF LampCalled
<1>6. timer'.op # "idle"
  BY <1>1 DEF L!Buttons
<1> QED BY <1>2, <1>3, <1>4, <1>5, <1>6 DEF LampInv, L!Quiet

LEMMA LampNext == LampInv /\ [L!Next]_(L!vars) => LampInv'
<1> SUFFICES ASSUME LampInv, [L!Next]_(L!vars) PROVE LampInv'
  OBVIOUS
<1> USE LampAssumption, CounterAssumption
<1>0. L!TypeOK
  BY DEF LampInv
<1>1. CASE UNCHANGED L!vars
  <2>1. L!TypeOK'
    BY <1>0, <1>1 DEF L!TypeOK, L!vars
  <2>2. \A c \in Callers : (L!Busy(c)' <=> L!Busy(c)) /\ (LampSet(c)' <=> LampSet(c))
    BY <1>1 DEF L!vars, L!Busy, LampSet, LampLimited
  <2>3. (LampCalled' <=> LampCalled) /\ (LampLimited' <=> LampLimited)
    BY <1>1 DEF L!vars, LampCalled, LampAim, LampLimited
  <2> QED BY <1>1, <2>1, <2>2, <2>3 DEF LampInv, L!vars, L!Quiet
<1>2. ASSUME NEW op \in L!Buttons, L!Press(op) PROVE LampInv'
  <2>1. counter \in 0..MaxCounter /\ qtimer' \in BOOLEAN /\ xtimer' \in BOOLEAN
    BY <1>0, <1>2 DEF L!Press, L!TypeOK
  <2> QED BY <1>2, <2>1, LampEnter DEF L!Press
<1>3. CASE L!Expire
  <2>1. counter \in 0..MaxCounter /\ qtimer' \in BOOLEAN /\ xtimer' \in BOOLEAN
    BY <1>0, <1>3 DEF L!Expire, L!TypeOK
  <2> QED BY <1>3, <2>1, LampEnter DEF L!Expire
<1>4. CASE L!Minute
  <2> DEFINE first == IF L!MinuteLeft = 0 THEN 1 ELSE NOuts + 1
  <2>1. L!MinuteLeft \in 0..MaxCounter
    BY <1>0 DEF L!MinuteLeft, L!TypeOK
  <2>2. L!Enter("minute", first, L!MinuteLeft) /\ UNCHANGED <<stat, counter, disk, out, qtimer, welcome, sensed>>
        /\ xtimer' = (L!MinuteLeft > 0)
    BY <1>4 DEF L!Minute
  <2>3. first \in 1..(NOuts + 1) /\ (first > 1 => first = NOuts + 1)
    OBVIOUS
  <2>4. qtimer' \in BOOLEAN /\ xtimer' \in BOOLEAN
    BY <1>0, <2>2 DEF L!TypeOK
  <2> QED BY <2>1, <2>2, <2>3, <2>4, LampEnter
<1>5. CASE L!Drive
  <2> DEFINE v == L!Level(timer.op, timer.next)
  <2>1. timer.op # "idle" /\ timer.next \in L!Outs /\ timer \in L!Call /\ v \in BOOLEAN
    BY <1>0, <1>5 DEF L!Drive, L!TypeOK, L!Level
  <2>2. /\ out' = [out EXCEPT ![timer.next] = v]
        /\ timer' = [timer EXCEPT !.next = timer.next + 1, !.stat = v]
        /\ UNCHANGED <<stat, counter, disk, xtimer, welcome, sensed, cmd, clean>>
        /\ qtimer' \in BOOLEAN
    BY <1>0, <1>5 DEF L!Drive, L!TypeOK
  <2>3. timer' \in L!Call /\ timer'.op = timer.op /\ timer'.next = timer.next + 1
        /\ timer'.stat = v /\ timer'.counter = timer.counter
    <3> HIDE DEF v
    <3>1. timer.next + 1 \in 1..(NOuts + 1)
      BY <2>1 DEF L!Outs
    <3> QED BY <2>1, <2>2, <3>1 DEF L!Call
  <2>4. L!TypeOK'
    BY <1>0, <2>1, <2>2, <2>3 DEF L!TypeOK
  <2>5. ASSUME clean PROVE LampCalled'
    <3>1. LampCalled
      BY <2>1, <2>5 DEF LampInv
    <3>3. timer.op = "toggle" => v = ~stat
      <4>1. timer.op = "toggle" => v = ~out[timer.next]
        BY <1>0, <2>1 DEF L!Level, L!TypeOK
      <4>2. timer.op = "toggle" => out[timer.next] = stat
        BY <2>1, <3>1 DEF LampCalled, L!Outs
      <4> QED BY <4>1, <4>2
    <3>2. timer.next > 1 => timer.stat = v
      <4>1. timer.next > 1 => LampAim
        BY <2>1, <3>1 DEF LampCalled
      <4>2. timer.op \in {"down", "sense"} => v = TRUE
        BY DEF L!Level
      <4>3. timer.op \in {"up", "expire", "minute"} => v = FALSE
        BY DEF L!Level
      <4> HIDE DEF v
      <4> QED BY <3>3, <4>1, <4>2, <4>3 DEF LampAim
    <3>4. \A o \in L!Outs : IF o < timer'.next THEN out'[o] = v
                                               ELSE timer.op = "toggle" => out'[o] = stat
      <4> SUFFICES ASSUME NEW o \in L!Outs
                   PROVE  IF o < timer'.next THEN out'[o] = v
                                             ELSE timer.op = "toggle" => out'[o] = stat
        OBVIOUS
      <4>1. CASE o = timer.next
        BY <1>0, <2>1, <2>2, <2>3, <4>1 DEF L!TypeOK, L!Outs
      <4>2. CASE o < timer.next
        BY <1>0, <2>1, <2>2, <2>3, <3>1, <3>2, <4>2 DEF LampCalled, L!TypeOK, L!Outs
      <4>3. CASE o > timer.next
        BY <1>0, <2>1, <2>2, <2>3, <3>1, <4>3 DEF LampCalled, L!TypeOK, L!Outs
      <4> QED BY <2>1, <4>1, <4>2, <4>3 DEF L!Outs
    <3>5. LampAim'
      BY <2>1, <2>2, <2>3, <3>3 DEF LampAim, L!Level, L!Call, L!Buttons
    <3>6. timer.op \in {"expire", "minute"} => v = FALSE
      BY DEF L!Level
    <3> QED BY <2>2, <2>3, <3>4, <3>5, <3>6 DEF LampCalled
  <2>6. \A c \in Callers : ~(L!Busy(c) /\ cmd[c].alone) /\ (L!Busy(c)' <=> L!Busy(c))
    BY <2>1, <2>2 DEF LampInv, LampSet, L!Busy
  <2> QED BY <2>1, <2>2, <2>3, <2>4, <2>5, <2>6 DEF LampInv, L!Quiet
<1>6. CASE L!Leave
  <2>1. timer.op # "idle" /\ timer.next \notin L!Outs /\ timer \in L!Call
    BY <1>0, <1>6 DEF L!Leave, L!TypeOK
  <2>2. /\ stat' = timer.stat
        /\ counter' = IF timer.op \in L!Buttons THEN 0 ELSE timer.counter
        /\ xtimer' = (xtimer /\ timer.op \notin L!Buttons)
        /\ timer' = L!Idle
        /\ disk' = [stat |-> stat', counter |-> counter']
        /\ UNCHANGED <<out, qtimer, welcome, sensed, cmd, clean>>
    BY <1>6 DEF L!Leave, L!PressStopsMinutes
  <2>3. stat' \in BOOLEAN /\ counter' \in 0..MaxCounter /\ timer.next = NOuts + 1
    BY <2>1, <2>2 DEF L!Call, L!Outs
  <2>4. L!TypeOK'
    <3>1. timer' \in L!Call /\ timer'.op = "idle"
      BY <2>2 DEF L!Idle, L!Call
    <3> QED BY <1>0, <2>2, <2>3, <3>1 DEF L!TypeOK, L!Rec
  <2>5. \A c \in Callers : ~(L!Busy(c) /\ cmd[c].alone) /\ (L!Busy(c)' <=> L!Busy(c))
    BY <2>1, <2>2 DEF LampInv, LampSet, L!Busy
  <2>6. ASSUME clean PROVE LampLimited' /\ \A o \in L!Outs : out'[o] = stat'
    <3>1. LampCalled
      BY <2>1, <2>6 DEF LampInv
    <3>2. \A o \in L!Outs : o < timer.next
      BY <2>3 DEF L!Outs
    <3>3. \A o \in L!Outs : out'[o] = stat'
      BY <2>2, <3>1, <3>2 DEF LampCalled
    <3>4. LampLimited'
      BY <1>0, <2>1, <2>2, <3>1 DEF LampCalled, LampLimited, L!Call, L!TypeOK
    <3> QED BY <3>3, <3>4
  <2>7. timer'.op = "idle"
    BY <2>2 DEF L!Idle
  <2> QED BY <2>2, <2>4, <2>5, <2>6, <2>7 DEF LampInv
<1>7. ASSUME NEW c \in Callers, NEW s \in BOOLEAN, NEW n \in 0..MaxCounter, L!SetBegin(c, s, n)
      PROVE  LampInv'
  <2>1. /\ ~L!Busy(c) /\ stat' = s /\ counter' = (IF s THEN n ELSE 0)
        /\ xtimer' = (s /\ (xtimer \/ n > 0))
        /\ cmd' = [L!Spoiled EXCEPT ![c] = [op |-> "set", next |-> 1, alone |-> L!Quiet]]
        /\ clean' = (clean /\ L!Quiet)
        /\ UNCHANGED <<disk, out, qtimer, welcome, sensed, timer>>
    BY <1>7 DEF L!SetBegin, L!MinutesRun
  <2>2. L!Spoiled \in [Callers -> L!Set] /\ L!Quiet \in BOOLEAN
    BY <1>0, SpoiledKnown DEF L!Quiet
  <2>3. cmd' \in [Callers -> L!Set] /\ cmd'[c] = [op |-> "set", next |-> 1, alone |-> L!Quiet]
        /\ \A d \in Callers : d # c => cmd'[d] = L!Spoiled[d]
    BY <2>1, <2>2 DEF L!Set, L!Outs
  <2>4. L!TypeOK'
    BY <1>0, <2>1, <2>3 DEF L!TypeOK
  <2>5. \A d \in Callers : d # c => (L!Busy(d)' <=> L!Busy(d)) /\ ~(L!Busy(d)' /\ cmd'[d].alone)
    BY <1>0, <2>3, SpoiledKnown DEF L!Busy
  <2>6. L!Busy(c)' /\ (cmd'[c].alone <=> L!Quiet) /\ cmd'[c].next = 1
    BY <2>2, <2>3 DEF L!Busy
  <2>7. L!Quiet => LampSet(c)'
    <3>1. LampLimited'
      BY <1>0, <2>1 DEF LampLimited, L!TypeOK
    <3>2. \A o \in L!Outs : ~(o < cmd'[c].next)
      BY <2>6 DEF L!Outs
    <3> QED BY <2>1, <2>5, <3>1, <3>2 DEF LampSet, L!Quiet
  <2>8. clean' => L!Quiet
    BY <2>1
  <2>9. L!Quiet => timer'.op = "idle" /\ \A d \in Callers : d # c => ~L!Busy(d)'
    BY <2>1, <2>5 DEF L!Quiet
  <2>10. ~L!Quiet'
    BY <2>6 DEF L!Quiet
  <2> QED BY <2>4, <2>5, <2>6, <2>7, <2>8, <2>9, <2>10 DEF LampInv
<1>8. ASSUME NEW c \in Callers, L!SetDrive(c) PROVE LampInv'
  <2>1. /\ L!Busy(c) /\ cmd[c].next \in L!Outs
        /\ out' = [out EXCEPT ![cmd[c].next] = stat]
        /\ cmd' = [cmd EXCEPT ![c].next = cmd[c].next + 1]
        /\ UNCHANGED <<stat, counter, disk, qtimer, xtimer, welcome, sensed, timer, clean>>
    BY <1>8 DEF L!SetDrive
  <2>2. /\ cmd' \in [Callers -> L!Set] /\ out' \in [L!Outs -> BOOLEAN]
        /\ \A d \in Callers : cmd'[d].op = cmd[d].op /\ cmd'[d].alone = cmd[d].alone
        /\ cmd'[c].next = cmd[c].next + 1
    <3>1. cmd[c] \in L!Set /\ cmd[c].next + 1 \in 1..(NOuts + 1)
      BY <1>0, <2>1 DEF L!TypeOK, L!Outs
    <3>2. cmd'[c] = [cmd[c] EXCEPT !.next = cmd[c].next + 1]
          /\ \A d \in Callers : d # c => cmd'[d] = cmd[d]
      BY <1>0, <2>1 DEF L!TypeOK
    <3>3. cmd'[c] \in L!Set /\ cmd'[c].op = cmd[c].op /\ cmd'[c].alone = cmd[c].alone
          /\ cmd'[c].next = cmd[c].next + 1
      BY <3>1, <3>2 DEF L!Set
    <3>4. cmd' \in [Callers -> L!Set]
      BY <1>0, <2>1, <3>2, <3>3 DEF L!TypeOK
    <3>5. out' \in [L!Outs -> BOOLEAN]
      BY <1>0, <2>1 DEF L!TypeOK
    <3> QED BY <3>2, <3>3, <3>4, <3>5
  <2>3. L!TypeOK'
    BY <1>0, <2>1, <2>2 DEF L!TypeOK
  <2>4. \A d \in Callers : L!Busy(d)' <=> L!Busy(d)
    BY <2>2 DEF L!Busy
  <2>5. \A d \in Callers : d # c => ~(L!Busy(d) /\ cmd[d].alone)
    BY <2>1 DEF LampInv, LampSet
  <2>6. ASSUME cmd[c].alone PROVE LampSet(c)'
    <3>1. LampSet(c)
      BY <2>1, <2>6 DEF LampInv
    <3>2. \A o \in L!Outs : o < cmd'[c].next => out'[o] = stat
      BY <1>0, <2>1, <2>2, <3>1 DEF LampSet, L!TypeOK, L!Outs
    <3> QED BY <2>1, <2>4, <3>1, <3>2 DEF LampSet, LampLimited
  <2>7. clean => timer.op = "idle"
    BY <2>1 DEF LampInv, LampSet
  <2> QED BY <2>1, <2>2, <2>3, <2>4, <2>5, <2>6, <2>7 DEF LampInv, L!Quiet
<1>9. ASSUME NEW c \in Callers, L!SetEnd(c) PROVE LampInv'
  <2>1. /\ L!Busy(c) /\ cmd[c].next \notin L!Outs
        /\ disk' = [stat |-> stat, counter |-> counter]
        /\ clean' = (clean \/ cmd[c].alone)
        /\ cmd' = [cmd EXCEPT ![c] = L!NoSet]
        /\ UNCHANGED <<stat, counter, out, qtimer, xtimer, welcome, sensed, timer>>
    BY <1>9 DEF L!SetEnd
  <2>2. cmd' \in [Callers -> L!Set] /\ cmd'[c].op = "idle" /\ cmd[c] \in L!Set
        /\ \A d \in Callers : d # c => cmd'[d] = cmd[d]
    BY <1>0, <2>1 DEF L!TypeOK, L!Set, L!NoSet
  <2>3. L!TypeOK'
    BY <1>0, <2>1, <2>2 DEF L!TypeOK, L!Rec, L!Set
  <2>4. ~L!Busy(c)' /\ \A d \in Callers : d # c => (L!Busy(d)' <=> L!Busy(d))
    BY <2>2 DEF L!Busy
  <2>5. \A d \in Callers : ~(L!Busy(d)' /\ cmd'[d].alone)
    BY <2>1, <2>2, <2>4 DEF LampInv, LampSet
  <2>6. clean' => cmd[c].alone
    BY <2>1 DEF LampInv
  <2>7. ASSUME cmd[c].alone
        PROVE  /\ timer'.op = "idle" /\ \A d \in Callers : ~L!Busy(d)'
               /\ LampLimited' /\ \A o \in L!Outs : out'[o] = stat'
    <3>1. LampSet(c)
      BY <2>1, <2>7 DEF LampInv
    <3>2. \A o \in L!Outs : o < cmd[c].next
      BY <2>1, <2>2 DEF L!Set, L!Outs
    <3> QED BY <2>1, <2>4, <3>1, <3>2 DEF LampSet, LampLimited
  <2> QED BY <2>3, <2>5, <2>6, <2>7 DEF LampInv
<1>10. ASSUME NEW power \in BOOLEAN, L!Restart(power) PROVE LampInv'
  <2>1. L!TypeOK'
    <3>1. timer' \in L!Call /\ cmd' \in [Callers -> L!Set]
      BY <1>10 DEF L!Restart, L!Idle, L!NoSet, L!Call, L!Set
    <3>2. out' \in [L!Outs -> BOOLEAN]
      BY <1>0, <1>10 DEF L!Restart, L!TypeOK, L!Rec
    <3> QED BY <1>0, <1>10, <3>1, <3>2 DEF L!Restart, L!TypeOK, L!Rec
  <2>2. \A c \in Callers : ~L!Busy(c)'
    BY <1>10 DEF L!Restart, L!Busy, L!NoSet
  <2> QED BY <1>10, <2>1, <2>2 DEF L!Restart, LampInv
<1> QED BY <1>1, <1>2, <1>3, <1>4, <1>5, <1>6, <1>7, <1>8, <1>9, <1>10 DEF L!Next

LEMMA LampHolds == Spec => [](part = "lamp" => LampInv)
<1>1. Init => (part = "lamp" => LampInv)
  BY LampInit DEF Init
<1>2. (part = "lamp" => LampInv) /\ [Next]_vars => (part = "lamp" => LampInv)'
  <2> SUFFICES ASSUME part = "lamp", LampInv, [Next]_vars PROVE LampInv'
    BY PartIsRigid
  <2>1. [L!Next]_(L!vars)
    BY DEF Next, vars, lampVars, L!vars
  <2> QED BY <2>1, LampNext
<1> QED BY <1>1, <1>2, PTL DEF Spec

-----------------------------------------------------------------------------
(* Relays on one expander.  A relay that is clean is touched by at most    *)
(* one call, and then by no other call at all; so what the others read of  *)
(* it and write back is what it is.                                        *)

RelayMatch(d) ==
    /\ stat[d] = pin[d]
    /\ kind[d] = "priz" /\ counter[d] > 0 => ptimer[d]

RelayOnly(t) == \A u \in R!Threads : u # t => ~R!Busy(u)

\* How far a call has come that no other call disturbs.
RelayDone(t) ==
    LET c == run[t]
        d == c.dev IN
    /\ c.at = "back" => pin[d] = c.v
    /\ c.at = "end" => pin[d] = IF c.op \in {"set", "pulse"} THEN stat[d] ELSE c.v
    /\ kind[d] = "priz" /\ c.op = "set" => /\ counter[d] = c.n
                                           /\ c.at = "end" /\ c.n > 0 => ptimer[d]
    /\ kind[d] = "priz" /\ c.op = "minute" /\ c.n > 0 => ptimer[d]

RelayCall(t) ==
    /\ kind[run[t].dev] = "priz" => run[t].op \in {"set", "minute"}
    /\ run[t].at = "write" =>
         \A e \in clean : e # run[t].dev => run[t].byte[e] = pin[e]
    /\ run[t].dev \in clean => RelayOnly(t) /\ RelayDone(t)
    /\ run[t].alone => RelayOnly(t) /\ (run[t].op \in {"set", "pulse"} => RelayDone(t))

RelayInv ==
    /\ R!TypeOK
    /\ \A t \in R!Threads : R!Busy(t) => RelayCall(t)
    /\ \A d \in clean : \/ \E t \in R!Threads : R!Busy(t) /\ run[t].dev = d
                        \/ RelayMatch(d)

LEMMA BusyIsCall ==
    ASSUME R!TypeOK, NEW t \in R!Threads
    PROVE  R!Busy(t) <=> run[t] \in R!Call
  BY DEF R!TypeOK, R!Busy, R!Call, R!NoCall, R!Ops

LEMMA RelayInit == R!Init => RelayInv
<1> SUFFICES ASSUME R!Init PROVE RelayInv
  OBVIOUS
<1>1. R!TypeOK
  <2>1. counter \in [Devices -> 0..MaxCounter]
    BY CounterAssumption DEF R!Init
  <2>2. run \in [R!Threads -> R!Call \union {R!NoCall}]
    BY DEF R!Init
  <2> QED BY <2>1, <2>2 DEF R!Init, R!TypeOK
<1>2. \A t \in R!Threads : ~R!Busy(t)
  BY DEF R!Init, R!Busy, R!NoCall
<1>3. \A d \in clean : RelayMatch(d)
  BY DEF R!Init, RelayMatch
<1> QED BY <1>1, <1>2, <1>3 DEF RelayInv

\* A call begins: the relay it is for is no other's, or it is not clean any more.
LEMMA RelayEnter ==
    ASSUME RelayInv, NEW t \in R!Threads, NEW op \in R!Ops, NEW d \in Devices,
           NEW at \in {"level", "read", "end"}, NEW v \in BOOLEAN, NEW n \in 0..MaxCounter,
           R!Enter(t, op, d, at, v, n), kind' = kind, disk' = disk, pin' = pin,
           stat' \in [Devices -> BOOLEAN], counter' \in [Devices -> 0..MaxCounter],
           ptimer' \in [Devices -> BOOLEAN],
           \A e \in Devices : e # d => /\ stat'[e] = stat[e]
                                       /\ counter'[e] = counter[e] /\ ptimer'[e] = ptimer[e],
           kind[d] = "priz" => op \in {"set", "minute"},
           kind[d] = "priz" /\ op = "set" => counter'[d] = n,
           op = "minute" /\ n > 0 => ptimer'[d],
           at = "end" => op = "minute" /\ v = stat[d]
    PROVE  RelayInv'
<1> DEFINE new == [op |-> op, dev |-> d, at |-> at, v |-> v, n |-> n,
                   byte |-> R!NoByte, alone |-> R!Quiet]
<1>0. R!TypeOK
  BY DEF RelayInv
<1>1. /\ ~R!Busy(t)
      /\ run' = [u \in R!Threads |-> IF u = t THEN new
                   ELSE IF R!Busy(u) THEN [run[u] EXCEPT !.alone = FALSE] ELSE R!NoCall]
      /\ clean' = IF R!Quiet THEN clean ELSE clean \ (R!Touched \union {d})
  BY DEF R!Enter
<1>2. new \in R!Call
  BY DEF R!Call, R!NoByte, R!Quiet, R!Ops, R!Places
<1>3. ASSUME NEW u \in R!Threads, u # t
      PROVE  /\ R!Busy(u)' <=> R!Busy(u)
             /\ R!Busy(u) => run'[u] = [run[u] EXCEPT !.alone = FALSE]
             /\ ~R!Busy(u) => run'[u] = R!NoCall
  BY <1>0, <1>1, <1>3, BusyIsCall DEF R!Busy, R!Call, R!NoCall
<1>4. run'[t] = new /\ R!Busy(t)'
  BY <1>1 DEF R!Busy, R!Ops
<1>5. R!TypeOK'
  <2>1. \A u \in R!Threads : run'[u] \in R!Call \union {R!NoCall}
    <3> SUFFICES ASSUME NEW u \in R!Threads PROVE run'[u] \in R!Call \union {R!NoCall}
      OBVIOUS
    <3>1. CASE u = t
      BY <1>2, <1>4, <3>1
    <3>2. CASE u # t /\ R!Busy(u)
      <4>1. run[u] \in R!Call
        BY <1>0, <3>2, BusyIsCall
      <4> QED BY <1>3, <3>2, <4>1 DEF R!Call
    <3>3. CASE u # t /\ ~R!Busy(u)
      BY <1>3, <3>3
    <3> QED BY <3>1, <3>2, <3>3
  <2>2. run' \in [R!Threads -> R!Call \union {R!NoCall}]
    BY <1>1, <2>1
  <2>3. clean' \subseteq Devices
    BY <1>0, <1>1 DEF R!TypeOK
  <2> QED BY <1>0, <2>2, <2>3 DEF R!TypeOK
<1>6. ASSUME NEW e \in clean' PROVE e \in clean /\ (e = d => R!Quiet)
  BY <1>1
<1>7. ASSUME NEW u \in R!Threads, R!Busy(u), NEW e \in clean' PROVE run[u].dev # e
  BY <1>1, <1>7 DEF R!Touched, R!Quiet
<1>8. ASSUME NEW u \in R!Threads, R!Busy(u)', u # t PROVE RelayCall(u)'
  <2>1. R!Busy(u) /\ run[u] \in R!Call /\ run'[u] = [run[u] EXCEPT !.alone = FALSE]
    BY <1>0, <1>3, <1>8, BusyIsCall
  <2>2. /\ run'[u].dev = run[u].dev /\ run'[u].op = run[u].op /\ run'[u].at = run[u].at
        /\ run'[u].byte = run[u].byte /\ run'[u].alone = FALSE
    BY <2>1 DEF R!Call
  <2>3. RelayCall(u)
    BY <2>1 DEF RelayInv
  <2> QED BY <1>6, <1>7, <2>1, <2>2, <2>3 DEF RelayCall
<1>9. RelayCall(t)'
  <2>1. R!Quiet => RelayOnly(t)'
    BY <1>3 DEF R!Quiet, RelayOnly
  <2>2. /\ run'[t].op = op /\ run'[t].dev = d /\ run'[t].at = at /\ run'[t].v = v
        /\ run'[t].n = n /\ (run'[t].alone <=> R!Quiet)
    BY <1>4
  <2>3. ASSUME R!Quiet, d \in clean \/ op \in {"set", "pulse"} PROVE RelayDone(t)'
    <3>1. at = "end" => pin'[d] = v
      BY <2>3 DEF RelayInv, RelayMatch, R!Quiet
    <3> QED BY <2>2, <3>1 DEF RelayDone
  <2> QED BY <1>6, <2>1, <2>2, <2>3 DEF RelayCall
<1>10. ASSUME NEW e \in clean', e # d PROVE RelayMatch(e)'
  <2>1. e \in clean /\ e \in Devices
    BY <1>0, <1>6, <1>10 DEF R!TypeOK
  <2>2. RelayMatch(e)
    BY <1>7, <1>10, <2>1 DEF RelayInv
  <2> QED BY <1>10, <2>1, <2>2 DEF RelayMatch
<1>11. run'[t].dev = d
  BY <1>4
<1> QED BY <1>4, <1>5, <1>8, <1>9, <1>10, <1>11 DEF RelayInv

\* A call goes on, and nothing changes but for its own relay.
LEMMA RelayGoesOn ==
    ASSUME RelayInv, NEW t \in R!Threads, R!Busy(t), NEW c \in R!Call,
           run' = [run EXCEPT ![t] = c], c.dev = run[t].dev, c.alone = run[t].alone,
           clean' = clean, kind' = kind, disk' \in [Devices -> BOOLEAN], counter' = counter,
           stat' \in [Devices -> BOOLEAN], pin' \in [Devices -> BOOLEAN],
           ptimer' \in [Devices -> BOOLEAN],
           \A e \in Devices : e # c.dev => stat'[e] = stat[e] /\ ptimer'[e] = ptimer[e],
           \A e \in clean : e # c.dev => pin'[e] = pin[e],
           kind[c.dev] = "priz" => c.op \in {"set", "minute"},
           c.at = "write" => \A e \in clean : e # c.dev => c.byte[e] = pin[e],
           RelayDone(t) => RelayDone(t)',
           c.op \in {"set", "pulse"} => run[t].op \in {"set", "pulse"}
    PROVE  RelayInv'
<1>0. R!TypeOK /\ run[t] \in R!Call /\ RelayCall(t)
  BY BusyIsCall DEF RelayInv
<1>1. run'[t] = c /\ \A u \in R!Threads : u # t => run'[u] = run[u]
  BY <1>0 DEF R!TypeOK
<1>2. R!TypeOK'
  <2>1. run' \in [R!Threads -> R!Call \union {R!NoCall}]
    BY <1>0 DEF R!TypeOK
  <2> QED BY <1>0, <2>1 DEF R!TypeOK
<1>3. R!Busy(t)' /\ \A u \in R!Threads : u # t => (R!Busy(u)' <=> R!Busy(u))
  BY <1>1 DEF R!Busy, R!Call, R!Ops
<1>4. \A u \in R!Threads : R!Busy(u) => (RelayOnly(u)' <=> RelayOnly(u))
  BY <1>3 DEF RelayOnly
<1>5. ASSUME NEW u \in R!Threads, u # t, R!Busy(u) PROVE RelayCall(u)'
  <2>1. RelayCall(u) /\ ~RelayOnly(u)
    BY <1>5 DEF RelayInv, RelayOnly
  <2>2. run'[u] = run[u] /\ run[u].dev \notin clean /\ ~run[u].alone
    BY <1>1, <1>5, <2>1 DEF RelayCall
  <2>3. run[t].dev \notin clean
    BY <1>0, <1>5 DEF RelayCall, RelayOnly
  <2> QED BY <2>1, <2>2, <2>3 DEF RelayCall
<1>6. RelayCall(t)'
  <2>1. \A e \in clean : e # c.dev => pin'[e] = pin[e]
    OBVIOUS
  <2>2. run'[t].alone = run[t].alone /\ run'[t].dev = run[t].dev /\ run'[t].op = c.op
        /\ run'[t].at = c.at /\ run'[t].byte = c.byte
    BY <1>1
  <2> QED BY <1>0, <1>4, <2>1, <2>2 DEF RelayCall
<1>7. ASSUME NEW e \in clean, e # c.dev,
             ~\E u \in R!Threads : R!Busy(u)' /\ run'[u].dev = e
      PROVE  RelayMatch(e)'
  <2>1. e \in Devices /\ ~\E u \in R!Threads : R!Busy(u) /\ run[u].dev = e
    BY <1>0, <1>1, <1>3, <1>7 DEF R!TypeOK
  <2>2. RelayMatch(e)
    BY <2>1 DEF RelayInv
  <2> QED BY <1>7, <2>1, <2>2 DEF RelayMatch
<1> QED BY <1>1, <1>2, <1>3, <1>5, <1>6, <1>7 DEF RelayInv

LEMMA RelayNext == RelayInv /\ [R!Next]_(R!vars) => RelayInv'
<1> SUFFICES ASSUME RelayInv, [R!Next]_(R!vars) PROVE RelayInv'
  OBVIOUS
<1> USE CounterAssumption
<1>0. R!TypeOK
  BY DEF RelayInv
<1>1. CASE UNCHANGED R!vars
  <2>1. R!TypeOK'
    BY <1>0, <1>1 DEF R!TypeOK, R!vars
  <2>2. \A t \in R!Threads : (R!Busy(t)' <=> R!Busy(t)) /\ (RelayCall(t)' <=> RelayCall(t))
    BY <1>1 DEF R!vars, R!Busy, RelayCall, RelayOnly, RelayDone
  <2>3. \A d \in clean : RelayMatch(d)' <=> RelayMatch(d)
    BY <1>1 DEF R!vars, RelayMatch
  <2> QED BY <1>1, <2>1, <2>2, <2>3 DEF RelayInv, R!vars
<1>2. ASSUME NEW t \in Tasks, NEW d \in Devices, NEW s \in BOOLEAN, NEW n \in 0..MaxCounter,
             R!Set(t, d, s, n)
      PROVE  RelayInv'
  <2>1. /\ R!Enter(t, "set", d, "read", s, n) /\ UNCHANGED <<kind, disk, pin, ptimer>>
        /\ stat' = [stat EXCEPT ![d] = s] /\ counter' = [counter EXCEPT ![d] = n]
    BY <1>2 DEF R!Set
  <2>2. /\ stat' \in [Devices -> BOOLEAN] /\ counter' \in [Devices -> 0..MaxCounter]
        /\ ptimer' \in [Devices -> BOOLEAN] /\ counter'[d] = n
        /\ \A e \in Devices : e # d => /\ stat'[e] = stat[e] /\ counter'[e] = counter[e]
                                       /\ ptimer'[e] = ptimer[e]
    BY <1>0, <2>1 DEF R!TypeOK
  <2>3. t \in R!Threads /\ "set" \in R!Ops
    BY DEF R!Threads, R!Ops
  <2> QED BY <2>1, <2>2, <2>3, RelayEnter
<1>3. ASSUME NEW t \in R!Threads, NEW d \in Devices, R!Pulse(t, d) PROVE RelayInv'
  <2>1. /\ R!Enter(t, "pulse", d, "read", TRUE, 0) /\ UNCHANGED <<kind, counter, disk, pin, ptimer>>
        /\ stat' = [stat EXCEPT ![d] = TRUE] /\ kind[d] # "priz"
    BY <1>3 DEF R!Pulse
  <2>2. /\ stat' \in [Devices -> BOOLEAN] /\ counter' \in [Devices -> 0..MaxCounter]
        /\ ptimer' \in [Devices -> BOOLEAN]
        /\ \A e \in Devices : e # d => /\ stat'[e] = stat[e] /\ counter'[e] = counter[e]
                                       /\ ptimer'[e] = ptimer[e]
    BY <1>0, <2>1 DEF R!TypeOK
  <2>3. "pulse" \in R!Ops /\ 0 \in 0..MaxCounter
    BY DEF R!Ops
  <2> QED BY <2>1, <2>2, <2>3, RelayEnter
<1>4. ASSUME NEW d \in Devices, NEW op \in {"down", "up", "toggle"}, R!Press(d, op)
      PROVE  RelayInv'
  <2> DEFINE at == IF op = "toggle" THEN "level" ELSE "read"
             v == op = "down"
  <2>1. /\ R!Enter(EspTimer, op, d, at, v, counter[d])
        /\ UNCHANGED <<kind, stat, counter, disk, pin, ptimer>> /\ kind[d] # "priz"
    BY <1>4 DEF R!Press
  <2>2. /\ stat' \in [Devices -> BOOLEAN] /\ counter' \in [Devices -> 0..MaxCounter]
        /\ ptimer' \in [Devices -> BOOLEAN] /\ counter[d] \in 0..MaxCounter
    BY <1>0, <2>1 DEF R!TypeOK
  <2>3. op \in R!Ops /\ EspTimer \in R!Threads /\ at \in {"level", "read", "end"} /\ v \in BOOLEAN
        /\ at # "end" /\ op # "minute"
    BY DEF R!Ops, R!Threads
  <2> HIDE DEF at, v
  <2> QED BY <2>1, <2>2, <2>3, RelayEnter
<1>5. ASSUME NEW d \in Devices, R!Minute(d) PROVE RelayInv'
  <2> DEFINE left == R!MinuteLeft(d)
             at == IF left = 0 THEN "read" ELSE "end"
             v == stat[d] /\ left > 0
  <2>1. left \in 0..MaxCounter
    BY <1>0 DEF R!TypeOK, R!MinuteLeft
  <2>2. /\ R!Enter(EspTimer, "minute", d, at, v, left)
        /\ UNCHANGED <<kind, stat, counter, disk, pin>>
        /\ ptimer' = [ptimer EXCEPT ![d] = left > 0]
    BY <1>5 DEF R!Minute
  <2> HIDE DEF left
  <2>3. /\ stat' \in [Devices -> BOOLEAN] /\ counter' \in [Devices -> 0..MaxCounter]
        /\ ptimer' \in [Devices -> BOOLEAN] /\ (left > 0 => ptimer'[d])
        /\ \A e \in Devices : e # d => ptimer'[e] = ptimer[e]
    <3>1. CASE left > 0
      <4>1. ptimer' = [ptimer EXCEPT ![d] = TRUE]
        BY <2>2, <3>1
      <4> QED BY <1>0, <2>2, <3>1, <4>1 DEF R!TypeOK
    <3>2. CASE ~(left > 0)
      <4>1. (left > 0) = FALSE
        BY <3>2
      <4>2. ptimer' = [ptimer EXCEPT ![d] = FALSE]
        BY <2>2, <4>1, Zenon
      <4> QED BY <1>0, <2>2, <3>2, <4>2 DEF R!TypeOK
    <3> QED BY <3>1, <3>2
  <2>4. "minute" \in R!Ops /\ EspTimer \in R!Threads /\ at \in {"level", "read", "end"}
        /\ v \in BOOLEAN /\ (at = "end" => v = stat[d])
    BY <1>0, <2>1 DEF R!Ops, R!Threads, R!TypeOK
  <2> HIDE DEF at, v
  <2> QED BY <2>1, <2>2, <2>3, <2>4, RelayEnter
<1>6. ASSUME NEW t \in R!Threads, R!ReadLevel(t) PROVE RelayInv'
  <2> DEFINE c == [run[t] EXCEPT !.at = "read", !.v = ~pin[run[t].dev]]
  <2>1. R!Busy(t) /\ run[t].at = "level" /\ run[t] \in R!Call /\ RelayCall(t)
    BY <1>0, <1>6, BusyIsCall DEF R!ReadLevel, R!At, RelayInv
  <2>2. run' = [run EXCEPT ![t] = c] /\ UNCHANGED <<kind, stat, counter, disk, pin, ptimer, clean>>
    BY <1>0, <1>6 DEF R!ReadLevel, R!TypeOK
  <2>3. /\ c \in R!Call /\ c.dev = run[t].dev /\ c.alone = run[t].alone /\ c.at = "read"
        /\ c.op = run[t].op /\ c.n = run[t].n
    BY <1>0, <2>1 DEF R!Call, R!Places, R!TypeOK
  <2>4. run'[t] = c
    BY <1>0, <2>2 DEF R!TypeOK
  <2> HIDE DEF c
  <2>5. RelayDone(t) => RelayDone(t)'
    BY <2>2, <2>3, <2>4 DEF RelayDone
  <2> QED BY <1>0, <2>1, <2>2, <2>3, <2>5, RelayGoesOn DEF R!TypeOK, RelayCall
<1>7. ASSUME NEW t \in R!Threads, R!ReadByte(t) PROVE RelayInv'
  <2> DEFINE c == [run[t] EXCEPT !.at = "write", !.byte = pin]
  <2>1. R!Busy(t) /\ run[t].at = "read" /\ run[t] \in R!Call /\ RelayCall(t)
    BY <1>0, <1>7, BusyIsCall DEF R!ReadByte, R!At, RelayInv
  <2>2. run' = [run EXCEPT ![t] = c] /\ UNCHANGED <<kind, stat, counter, disk, pin, ptimer, clean>>
    BY <1>0, <1>7 DEF R!ReadByte, R!TypeOK
  <2>3. /\ c \in R!Call /\ c.dev = run[t].dev /\ c.alone = run[t].alone /\ c.at = "write"
        /\ c.op = run[t].op /\ c.n = run[t].n /\ c.byte = pin
    BY <1>0, <2>1 DEF R!Call, R!Places, R!TypeOK
  <2>4. run'[t] = c
    BY <1>0, <2>2 DEF R!TypeOK
  <2> HIDE DEF c
  <2>5. RelayDone(t) => RelayDone(t)'
    BY <2>2, <2>3, <2>4 DEF RelayDone
  <2> QED BY <1>0, <2>1, <2>2, <2>3, <2>5, RelayGoesOn DEF R!TypeOK, RelayCall
<1>8. ASSUME NEW t \in R!Threads, R!WriteByte(t) PROVE RelayInv'
  <2> DEFINE c == [run[t] EXCEPT !.at = "back", !.byte = R!NoByte]
  <2>1. R!Busy(t) /\ run[t].at = "write" /\ run[t] \in R!Call /\ RelayCall(t)
    BY <1>0, <1>8, BusyIsCall DEF R!WriteByte, R!At, RelayInv
  <2>2. /\ run' = [run EXCEPT ![t] = c] /\ UNCHANGED <<kind, stat, counter, disk, ptimer, clean>>
        /\ pin' = [run[t].byte EXCEPT ![run[t].dev] = run[t].v]
    BY <1>0, <1>8 DEF R!WriteByte, R!Written, R!TypeOK
  <2>3. /\ c \in R!Call /\ c.dev = run[t].dev /\ c.alone = run[t].alone /\ c.at = "back"
        /\ c.op = run[t].op /\ c.n = run[t].n /\ c.v = run[t].v
    BY <1>0, <2>1 DEF R!Call, R!Places, R!TypeOK, R!NoByte
  <2>4. run'[t] = c
    BY <1>0, <2>2 DEF R!TypeOK
  <2>5. /\ pin' \in [Devices -> BOOLEAN] /\ pin'[run[t].dev] = run[t].v
        /\ \A e \in clean : e # run[t].dev => pin'[e] = pin[e]
    BY <1>0, <2>1, <2>2 DEF RelayCall, R!TypeOK, R!Call
  <2> HIDE DEF c
  <2>6. RelayDone(t) => RelayDone(t)'
    BY <2>2, <2>3, <2>4, <2>5 DEF RelayDone
  <2> QED BY <1>0, <2>1, <2>2, <2>3, <2>5, <2>6, RelayGoesOn DEF R!TypeOK, RelayCall
<1>9. ASSUME NEW t \in R!Threads, R!ReadBack(t) PROVE RelayInv'
  <2> DEFINE d == run[t].dev
             c == [run[t] EXCEPT !.at = "end",
                                 !.v = IF run[t].op = "toggle" THEN run[t].v ELSE pin[d]]
  <2>1. R!Busy(t) /\ run[t].at = "back" /\ run[t] \in R!Call /\ RelayCall(t) /\ d \in Devices
    BY <1>0, <1>9, BusyIsCall DEF R!ReadBack, R!At, RelayInv, R!Call
  <2>2. /\ run' = [run EXCEPT ![t] = c] /\ UNCHANGED <<kind, counter, disk, pin, clean>>
        /\ stat' = IF run[t].op \in {"set", "pulse"} THEN [stat EXCEPT ![d] = pin[d]] ELSE stat
        /\ ptimer' = IF run[t].op = "set" /\ run[t].n > 0 THEN [ptimer EXCEPT ![d] = TRUE]
                                                          ELSE ptimer
    BY <1>0, <1>9 DEF R!ReadBack, R!TypeOK
  <2>3. /\ c \in R!Call /\ c.dev = run[t].dev /\ c.alone = run[t].alone /\ c.at = "end"
        /\ c.op = run[t].op /\ c.n = run[t].n
        /\ c.v = IF run[t].op = "toggle" THEN run[t].v ELSE pin[d]
    BY <1>0, <2>1 DEF R!Call, R!Places, R!TypeOK
  <2>4. run'[t] = c
    BY <1>0, <2>2 DEF R!TypeOK
  <2>5. /\ stat' \in [Devices -> BOOLEAN] /\ ptimer' \in [Devices -> BOOLEAN]
        /\ \A e \in Devices : e # d => stat'[e] = stat[e] /\ ptimer'[e] = ptimer[e]
        /\ run[t].op \in {"set", "pulse"} => stat'[d] = pin[d]
        /\ run[t].op = "set" /\ run[t].n > 0 => ptimer'[d]
        /\ ptimer[d] => ptimer'[d]
    BY <1>0, <2>1, <2>2 DEF R!TypeOK
  <2> HIDE DEF c, d
  <2>6. RelayDone(t) => RelayDone(t)'
    BY <2>1, <2>2, <2>3, <2>4, <2>5 DEF RelayDone, d
  <2>7. pin' \in [Devices -> BOOLEAN]
    BY <1>0, <2>2 DEF R!TypeOK
  <2>8. /\ kind[c.dev] = "priz" => c.op \in {"set", "minute"}
        /\ c.at = "write" => \A e \in clean : e # c.dev => c.byte[e] = pin[e]
        /\ c.dev = run[t].dev /\ c.alone = run[t].alone
        /\ \A e \in Devices : e # c.dev => stat'[e] = stat[e] /\ ptimer'[e] = ptimer[e]
        /\ c.op \in {"set", "pulse"} => run[t].op \in {"set", "pulse"}
        /\ disk' \in [Devices -> BOOLEAN] /\ UNCHANGED <<clean, kind, counter, pin>>
    BY <1>0, <2>1, <2>2, <2>3, <2>5 DEF RelayCall, R!TypeOK, d
  <2>9. \A e \in clean : e # c.dev => pin'[e] = pin[e]
    BY <2>8
  <2>10. run' = [run EXCEPT ![t] = c]
    BY <2>2
  <2> QED BY <2>1, <2>10, <2>3, <2>5, <2>6, <2>7, <2>8, <2>9, RelayGoesOn
<1>10. ASSUME NEW t \in R!Threads, R!End(t) PROVE RelayInv'
  <2> DEFINE d == run[t].dev
             c == run[t]
  <2>1. /\ R!Busy(t) /\ c.at = "end" /\ c \in R!Call /\ RelayCall(t) /\ d \in Devices
        /\ UNCHANGED <<kind, pin, ptimer>>
    BY <1>0, <1>10, BusyIsCall DEF R!End, R!At, RelayInv, R!Call
  <2>2. CASE c.op = "pulse"
    <3> DEFINE new == [c EXCEPT !.op = "set", !.at = "read", !.v = FALSE]
    <3>1. /\ run' = [run EXCEPT ![t] = new] /\ clean' = clean
          /\ stat' = [stat EXCEPT ![d] = FALSE] /\ counter' = counter
          /\ disk' = [disk EXCEPT ![d] = stat[d]]
      BY <1>10, <2>2 DEF R!End
    <3>2. /\ new \in R!Call /\ new.dev = d /\ new.alone = c.alone /\ new.at = "read"
          /\ new.op = "set"
      BY <2>1 DEF R!Call, R!Ops, R!Places
    <3>3. /\ stat' \in [Devices -> BOOLEAN] /\ disk' \in [Devices -> BOOLEAN]
          /\ \A e \in Devices : e # d => stat'[e] = stat[e]
      BY <1>0, <2>1, <3>1 DEF R!TypeOK
    <3>4. kind[d] # "priz"
      BY <2>1, <2>2 DEF RelayCall
    <3>5. run'[t] = new
      BY <1>0, <3>1 DEF R!TypeOK
    <3> HIDE DEF new
    <3>6. RelayDone(t)'
      BY <2>1, <3>2, <3>4, <3>5 DEF RelayDone
    <3>7. /\ pin' \in [Devices -> BOOLEAN] /\ ptimer' \in [Devices -> BOOLEAN]
          /\ \A e \in clean : pin'[e] = pin[e]
          /\ \A e \in Devices : ptimer'[e] = ptimer[e]
          /\ kind' = kind
      BY <1>0, <2>1 DEF R!TypeOK
    <3>8. /\ new.dev = run[t].dev /\ new.alone = run[t].alone
          /\ kind[new.dev] = "priz" => new.op \in {"set", "minute"}
          /\ new.at = "write" => \A e \in clean : e # new.dev => new.byte[e] = pin[e]
          /\ new.op \in {"set", "pulse"} => run[t].op \in {"set", "pulse"}
          /\ \A e \in Devices : e # new.dev => stat'[e] = stat[e] /\ ptimer'[e] = ptimer[e]
          /\ \A e \in clean : e # new.dev => pin'[e] = pin[e]
      BY <2>2, <3>2, <3>3, <3>4, <3>7
    <3> HIDE DEF d, c
    <3> QED BY <2>1, <3>1, <3>2, <3>3, <3>6, <3>7, <3>8, RelayGoesOn
  <2>3. CASE c.op # "pulse"
    <3>1. /\ run' = [run EXCEPT ![t] = R!NoCall]
          /\ stat' = IF c.op = "set" THEN stat ELSE [stat EXCEPT ![d] = c.v]
          /\ counter' = IF c.op = "minute" THEN [counter EXCEPT ![d] = c.n] ELSE counter
          /\ disk' = [disk EXCEPT ![d] = stat'[d]]
          /\ clean' = IF c.op = "set" /\ c.alone THEN clean \union {d} ELSE clean
      BY <1>10, <2>3 DEF R!End
    <3>2. /\ stat' \in [Devices -> BOOLEAN] /\ disk' \in [Devices -> BOOLEAN]
          /\ counter' \in [Devices -> 0..MaxCounter] /\ clean' \subseteq Devices
          /\ run' \in [R!Threads -> R!Call \union {R!NoCall}]
          /\ stat'[d] = IF c.op = "set" THEN stat[d] ELSE c.v
          /\ counter'[d] = IF c.op = "minute" THEN c.n ELSE counter[d]
          /\ \A e \in Devices : e # d => stat'[e] = stat[e] /\ counter'[e] = counter[e]
      BY <1>0, <2>1, <3>1 DEF R!TypeOK, R!Call
    <3>3. R!TypeOK'
      BY <1>0, <2>1, <3>2 DEF R!TypeOK
    <3>4. ~R!Busy(t)' /\ \A u \in R!Threads : u # t => run'[u] = run[u]
      BY <1>0, <3>1 DEF R!TypeOK, R!Busy, R!NoCall
    <3>5. \A u \in R!Threads : u # t => (R!Busy(u)' <=> R!Busy(u))
      BY <3>4 DEF R!Busy
    <3>6. ASSUME NEW u \in R!Threads, R!Busy(u)' PROVE RelayCall(u)'
      <4>1. u # t /\ R!Busy(u) /\ run'[u] = run[u]
        BY <3>4, <3>5, <3>6
      <4>2. RelayCall(u) /\ ~RelayOnly(u) /\ ~RelayOnly(t)
        BY <2>1, <4>1 DEF RelayInv, RelayOnly
      <4>3. d \notin clean /\ run[u].dev \notin clean /\ ~c.alone /\ ~run[u].alone
        BY <2>1, <4>2 DEF RelayCall
      <4>4. clean' = clean
        BY <3>1, <4>3
      <4> QED BY <2>1, <4>1, <4>2, <4>3, <4>4 DEF RelayCall
    <3>7. ASSUME NEW e \in clean', e = d PROVE RelayMatch(e)'
      <4>1. RelayDone(t)
        BY <2>1, <3>1, <3>7 DEF RelayCall
      <4>2. pin[d] = stat'[d]
        BY <2>1, <2>3, <3>2, <4>1 DEF RelayDone
      <4>3. kind[d] = "priz" /\ counter'[d] > 0 => ptimer[d]
        BY <2>1, <3>2, <4>1 DEF RelayDone, RelayCall
      <4> QED BY <2>1, <3>7, <4>2, <4>3 DEF RelayMatch
    <3>8. ASSUME NEW e \in clean', e # d, ~\E u \in R!Threads : R!Busy(u)' /\ run'[u].dev = e
          PROVE  RelayMatch(e)'
      <4>1. e \in clean /\ e \in Devices
        BY <1>0, <3>1, <3>8 DEF R!TypeOK
      <4>2. ~\E u \in R!Threads : R!Busy(u) /\ run[u].dev = e
        BY <3>4, <3>5, <3>8
      <4>3. RelayMatch(e)
        BY <4>1, <4>2 DEF RelayInv
      <4> QED BY <2>1, <3>2, <3>8, <4>1, <4>3 DEF RelayMatch
    <3> QED BY <3>3, <3>6, <3>7, <3>8 DEF RelayInv
  <2> QED BY <2>2, <2>3
<1>11. ASSUME NEW power \in BOOLEAN, R!Restart(power) PROVE RelayInv'
  <2> DEFINE left == [d \in Devices |-> pin[d] /\ ~power]
  <2>1. /\ stat' = [d \in Devices |-> R!BootStat(d, left)]
        /\ pin' = [d \in Devices |-> IF kind[d] \in {"cont", "onoff", "tmrole"}
                                        THEN R!BootStat(d, left) ELSE left[d]]
        /\ disk' = [d \in Devices |-> IF kind[d] \in {"cont", "tmrole"} THEN stat'[d]
                                                                         ELSE disk[d]]
        /\ counter' = [d \in Devices |-> 0] /\ ptimer' = [d \in Devices |-> FALSE]
        /\ run' = [t \in R!Threads |-> R!NoCall] /\ clean' = Devices /\ kind' = kind
    BY <1>11 DEF R!Restart
  <2>2. left \in [Devices -> BOOLEAN]
    BY <1>0 DEF R!TypeOK
  <2> HIDE DEF left
  <2>3. ASSUME NEW d \in Devices
        PROVE  /\ R!BootStat(d, left) \in BOOLEAN
               /\ kind[d] \notin {"cont", "onoff", "tmrole"} => R!BootStat(d, left) = left[d]
    BY <1>0, <2>2 DEF R!BootStat, R!TypeOK, R!Kinds
  <2>4. R!TypeOK'
    <3>1. stat' \in [Devices -> BOOLEAN] /\ pin' \in [Devices -> BOOLEAN]
      BY <2>1, <2>2, <2>3
    <3>2. disk' \in [Devices -> BOOLEAN] /\ counter' \in [Devices -> 0..MaxCounter]
      BY <1>0, <2>1, <3>1 DEF R!TypeOK
    <3> QED BY <1>0, <2>1, <3>1, <3>2 DEF R!TypeOK
  <2>5. \A t \in R!Threads : ~R!Busy(t)'
    BY <2>1 DEF R!Busy, R!NoCall
  <2>6. \A d \in clean' : RelayMatch(d)'
    BY <2>1, <2>3 DEF RelayMatch
  <2> QED BY <2>4, <2>5, <2>6 DEF RelayInv
<1> QED
  BY <1>1, <1>2, <1>3, <1>4, <1>5, <1>6, <1>7, <1>8, <1>9, <1>10, <1>11 DEF R!Next

LEMMA RelayHolds == Spec => [](part = "relay" => RelayInv)
<1>1. Init => (part = "relay" => RelayInv)
  BY RelayInit DEF Init
<1>2. (part = "relay" => RelayInv) /\ [Next]_vars => (part = "relay" => RelayInv)'
  <2> SUFFICES ASSUME part = "relay" => RelayInv, [Next]_vars, part' = "relay"
               PROVE  RelayInv'
    OBVIOUS
  <2>1. part = "relay"
    BY PartIsRigid
  <2>2. [R!Next]_(R!vars)
    BY <2>1 DEF Next, vars, R!vars, relayVars
  <2> QED BY <2>1, <2>2, RelayNext
<1> QED BY <1>1, <1>2, PTL DEF Spec

-----------------------------------------------------------------------------
(* What is energised for some seconds.  Somebody answers for every coil    *)
(* that is on: the timer, a call that will start it, or the callback that  *)
(* has yet to release it; the door's callback answers only for the coil of *)
(* its status.  A valve's call that runs alone knows what it will find.    *)

PulseIn(t, op) == P!Busy(t) /\ run[t].op = op

PulseShape ==
    \A t \in P!Threads : P!Busy(t) =>
        /\ run[t].op = "expire" => t = EspTimer
        /\ run[t].at = "coils" <=> run[t].todo # <<>>
        /\ run[t].at = "start" => run[t].op = "set"
        /\ kind = "door" => run[t].todo \in {<<run[t].dir>>, <<>>}

PulseHas(s, c) == \E i \in 1..Len(s) : s[i] = c

\* A call that will start the timer.
PulseStarts(t) == PulseIn(t, "set") /\ ~(kind = "valve" /\ run[t].at = "mark")

PulseAnswered(c) ==
    \/ qtimer
    \/ \E t \in P!Threads : PulseStarts(t)
    \/ /\ PulseIn(EspTimer, "expire")
       /\ PulseHas(run[EspTimer].todo, c)

PulseDriven == \A c \in P!Coils \ stranded : out[c] => PulseAnswered(c)

\* The status a door will have when the callback in progress, if any, is done.
PulseFinal == IF PulseIn(EspTimer, "expire") THEN run[EspTimer].dir ELSE stat

PulseWanted(c) ==
    \E t \in P!Threads : PulseIn(t, "set") /\ run[t].at = "coils" /\ run[t].dir = c

PulseDoor ==
    kind = "door" =>
        \A c \in P!Coils \ stranded : out[c] \/ PulseWanted(c) => PulseFinal = c

PulseAlone(t) == P!Busy(t) /\ run[t].alone

PulseAlones ==
    \A t \in P!Threads : PulseAlone(t) => \A u \in P!Threads : P!Busy(u) => u = t

PulseStands == \A c \in P!Coils : out[c] <=> c = stat

PulseValve ==
    \A t \in P!Threads : PulseAlone(t) =>
        /\ run[t].op = "expire" => ~qtimer
        /\ run[t].op = "set" /\ stranded = {} =>
             /\ run[t].dir = stat
             /\ run[t].at # "mark" => ~qtimer
             /\ run[t].at = "coils" => /\ run[t].todo = <<stat>>
                                       /\ \A c \in P!Coils : ~out[c]
             /\ run[t].at = "start" => PulseStands

PulseClean ==
    clean =>
        /\ stranded = {}
        /\ \A t \in P!Threads : P!Busy(t) => run[t].alone
        /\ qtimer => PulseStands
        /\ ~qtimer => \/ pos = stat
                      \/ \E t \in P!Threads : PulseStarts(t)
        /\ \A t \in P!Threads : PulseIn(t, "set") /\ run[t].at = "mark" => qtimer

PulseInv ==
    /\ P!TypeOK /\ PulseShape /\ PulseDriven /\ PulseDoor /\ PulseAlones
    /\ kind = "valve" => PulseValve /\ PulseClean

LEMMA PulseTodo ==
    ASSUME NEW s \in P!Todo, s # <<>>
    PROVE  /\ Head(s) \in P!Coils /\ Tail(s) \in P!Todo
           /\ Len(s) > 1 <=> Tail(s) # <<>>
           /\ \A c : PulseHas(s, c) <=> c = Head(s) \/ PulseHas(Tail(s), c)
  <1>1. CASE \E a \in P!Coils : s = <<a>>
    BY <1>1 DEF P!Todo, P!Coils, PulseHas
  <1>2. CASE \E a, b \in P!Coils : s = <<a, b>> /\ s \in P!Orders
    <2>1. PICK a \in P!Coils, b \in P!Coils : s = <<a, b>>
      BY <1>2
    <2>2. Head(s) = a /\ Tail(s) = <<b>> /\ Len(s) = 2
      BY <2>1
    <2>3. \A c : PulseHas(s, c) <=> c = a \/ c = b
      BY <2>1 DEF PulseHas
    <2>4. \A c : PulseHas(<<b>>, c) <=> c = b
      BY DEF PulseHas
    <2>5. <<b>> \in P!Todo
      BY DEF P!Todo, P!Coils
    <2>6. <<b>> # <<>> /\ Len(s) > 1
      BY <2>2
    <2>7. \A c : PulseHas(s, c) <=> c = Head(s) \/ PulseHas(Tail(s), c)
      BY <2>2, <2>3, <2>4
    <2> QED BY <2>2, <2>5, <2>6, <2>7
  <1> QED BY <1>1, <1>2 DEF P!Todo, P!Coils, P!Orders

LEMMA PulseNone == \A c : ~PulseHas(<<>>, c)
  BY DEF PulseHas

LEMMA PulseBoth == \A o \in P!Orders : o \in P!Todo /\ o # <<>> /\ \A c \in P!Coils : PulseHas(o, c)
  BY DEF P!Orders, P!Todo, P!Coils, PulseHas

LEMMA PulseOne == \A c \in P!Coils : <<c>> \in P!Todo /\ <<c>> # <<>> /\ PulseHas(<<c>>, c)
  BY DEF P!Todo, P!Coils, PulseHas

LEMMA PulseBusyIsCall ==
    ASSUME P!TypeOK, NEW t \in P!Threads
    PROVE  P!Busy(t) <=> run[t] \in P!Call
  BY DEF P!TypeOK, P!Busy, P!Call, P!NoCall

LEMMA PulseInit == P!Init => PulseInv
<1> SUFFICES ASSUME P!Init PROVE PulseInv
  OBVIOUS
<1>1. \A t \in P!Threads : ~P!Busy(t)
  BY DEF P!Init, P!Busy, P!NoCall
<1>2. P!TypeOK
  BY DEF P!Init, P!TypeOK, P!Coils
<1>3. \A c \in P!Coils : ~out[c]
  BY DEF P!Init
<1>4. PulseShape /\ PulseDriven /\ PulseDoor /\ PulseAlones /\ PulseValve
  BY <1>1, <1>3 DEF PulseShape, PulseDriven, PulseDoor, PulseWanted, PulseIn, PulseAlones,
     PulseAlone, PulseValve
<1>5. PulseClean
  BY DEF P!Init, PulseClean
<1> QED BY <1>2, <1>4, <1>5 DEF PulseInv

\* A call begins, and no other has run alone from then on.
LEMMA PulseEnter ==
    ASSUME P!TypeOK, NEW t \in P!Threads, ~P!Busy(t), NEW new \in P!Call, P!Enter(t, new)
    PROVE  /\ run' \in [P!Threads -> P!Call \union {P!NoCall}]
           /\ run'[t] = new /\ P!Busy(t)'
           /\ \A u \in P!Threads : u # t =>
                /\ P!Busy(u)' <=> P!Busy(u)
                /\ P!Busy(u) => /\ run'[u].op = run[u].op /\ run'[u].dir = run[u].dir
                                /\ run'[u].at = run[u].at /\ run'[u].todo = run[u].todo
                                /\ run'[u].alone = FALSE
<1>1. run' = [u \in P!Threads |-> IF u = t THEN new
                                   ELSE IF P!Busy(u) THEN [run[u] EXCEPT !.alone = FALSE]
                                   ELSE P!NoCall]
  BY DEF P!Enter
<1>2. ASSUME NEW u \in P!Threads, P!Busy(u)
      PROVE  /\ [run[u] EXCEPT !.alone = FALSE] \in P!Call
             /\ [run[u] EXCEPT !.alone = FALSE].op = run[u].op
             /\ [run[u] EXCEPT !.alone = FALSE].dir = run[u].dir
             /\ [run[u] EXCEPT !.alone = FALSE].at = run[u].at
             /\ [run[u] EXCEPT !.alone = FALSE].todo = run[u].todo
             /\ [run[u] EXCEPT !.alone = FALSE].alone = FALSE
  <2>1. run[u] \in P!Call
    BY <1>2, PulseBusyIsCall
  <2> QED BY <2>1 DEF P!Call
<1>3. \A r \in P!Call : r.op # "idle"
  BY DEF P!Call
<1>4. P!NoCall.op = "idle"
  BY DEF P!NoCall
<1>5. run'[t] = new /\ P!Busy(t)'
  BY <1>1, <1>3 DEF P!Busy
<1>6. ASSUME NEW u \in P!Threads, u # t
      PROVE  /\ P!Busy(u) => run'[u] = [run[u] EXCEPT !.alone = FALSE]
             /\ ~P!Busy(u) => run'[u] = P!NoCall
  BY <1>1, <1>6
<1>7. ASSUME NEW u \in P!Threads, u # t PROVE P!Busy(u)' <=> P!Busy(u)
  BY <1>2, <1>3, <1>4, <1>6, <1>7 DEF P!Busy
<1>8. run' \in [P!Threads -> P!Call \union {P!NoCall}]
  BY <1>1, <1>2
<1> QED BY <1>2, <1>5, <1>6, <1>7, <1>8

\* A call goes on.
LEMMA PulseGoesOn ==
    ASSUME P!TypeOK, NEW t \in P!Threads, NEW new \in P!Call \union {P!NoCall},
           run' = [run EXCEPT ![t] = new]
    PROVE  /\ run' \in [P!Threads -> P!Call \union {P!NoCall}]
           /\ run'[t] = new
           /\ \A u \in P!Threads : u # t => run'[u] = run[u] /\ (P!Busy(u)' <=> P!Busy(u))
  BY DEF P!TypeOK, P!Busy

LEMMA PulseSet ==
    ASSUME PulseInv, NEW t \in Callers, NEW d \in P!Coils, NEW m \in {0, 1}, P!Set(t, d, m)
    PROVE  PulseInv'
<1> DEFINE new == [op |-> "set", dir |-> d, alone |-> P!Quiet,
                   at |-> IF P!Interlock THEN "mark" ELSE "coils", todo |-> P!Pulsed(d)]
<1>0. /\ P!TypeOK /\ PulseShape /\ PulseDriven /\ PulseDoor /\ PulseAlones
      /\ kind = "valve" => PulseValve /\ PulseClean
      /\ t \in P!Threads /\ EspTimer \in P!Threads
  BY DEF PulseInv, P!Threads
<1>1. /\ ~P!Busy(t) /\ P!Enter(t, new) /\ stat' = d /\ moving' = m
      /\ stranded' = stranded \union {c \in P!Crossed(d) : out[c]}
                              \union IF kind = "door" /\ ~P!Quiet THEN P!Coils ELSE {}
      /\ clean' = (clean /\ P!Quiet /\ (P!Interlock => out[d]))
      /\ UNCHANGED <<kind, order, disk, out, qtimer, pos>>
  BY DEF P!Set
<1>2. /\ P!Pulsed(d) \in P!Todo
      /\ P!Pulsed(d) # <<>> <=> ~P!Interlock
      /\ kind # "lift" /\ ~P!Interlock => P!Pulsed(d) = <<d>>
  BY <1>0, PulseBoth, PulseOne DEF P!Pulsed, P!TypeOK, P!Todo, P!Interlock
<1>3. /\ new \in P!Call /\ new.op = "set" /\ new.dir = d /\ new.todo = P!Pulsed(d)
      /\ new.alone = P!Quiet
      /\ P!Interlock => new.at = "mark"
      /\ ~P!Interlock => new.at = "coils"
  <2>1. P!Quiet \in BOOLEAN
    BY DEF P!Quiet
  <2> HIDE DEF P!Quiet, P!Interlock
  <2> QED BY <1>2, <2>1 DEF P!Call
<1> HIDE DEF new
<1>4. /\ run' \in [P!Threads -> P!Call \union {P!NoCall}]
      /\ run'[t] = new /\ P!Busy(t)'
      /\ \A u \in P!Threads : u # t =>
           /\ P!Busy(u)' <=> P!Busy(u)
           /\ P!Busy(u) => /\ run'[u].op = run[u].op /\ run'[u].dir = run[u].dir
                           /\ run'[u].at = run[u].at /\ run'[u].todo = run[u].todo
                           /\ run'[u].alone = FALSE
  BY <1>0, <1>1, <1>3, PulseEnter
<1>5. stranded \subseteq stranded' /\ stranded' \subseteq P!Coils
  BY <1>0, <1>1 DEF P!TypeOK, P!Crossed
<1>6. P!TypeOK'
  <2>1. clean' \in BOOLEAN /\ moving' \in {0, 1}
    BY <1>1
  <2> QED BY <1>0, <1>1, <1>4, <1>5, <2>1 DEF P!TypeOK
<1>7. PulseShape'
  <2>1. ASSUME NEW u \in P!Threads, P!Busy(u)'
        PROVE  /\ run'[u].op = "expire" => u = EspTimer
               /\ run'[u].at = "coils" <=> run'[u].todo # <<>>
               /\ run'[u].at = "start" => run'[u].op = "set"
               /\ kind = "door" => run'[u].todo \in {<<run'[u].dir>>, <<>>}
    <3>1. CASE u = t
      BY <1>2, <1>3, <1>4, <3>1 DEF P!Interlock
    <3>2. CASE u # t
      BY <1>0, <1>4, <2>1, <3>2 DEF PulseShape
    <3> QED BY <3>1, <3>2
  <2> QED BY <1>1, <2>1 DEF PulseShape
<1>8. \A u \in P!Threads : PulseStarts(u) => PulseStarts(u)'
  BY <1>1, <1>4 DEF PulseStarts, PulseIn
<1>9. /\ PulseIn(EspTimer, "expire") <=> PulseIn(EspTimer, "expire")'
      /\ PulseIn(EspTimer, "expire") => run'[EspTimer].todo = run[EspTimer].todo
  BY <1>0, <1>1, <1>3, <1>4 DEF PulseIn
<1>10. PulseDriven'
  <2>1. ASSUME NEW c \in P!Coils, c \notin stranded', out'[c] PROVE PulseAnswered(c)'
    <3>1. PulseAnswered(c)
      BY <1>0, <1>1, <1>5, <2>1 DEF PulseDriven
    <3> QED BY <1>1, <1>8, <1>9, <3>1 DEF PulseAnswered
  <2> QED BY <2>1 DEF PulseDriven
<1>11. ASSUME P!Quiet, NEW u \in P!Threads, P!Busy(u)' PROVE u = t
  BY <1>4, <1>11 DEF P!Quiet
<1>12. ASSUME P!Quiet, ~qtimer, NEW c \in P!Coils, c \notin stranded PROVE ~out[c]
  BY <1>0, <1>12 DEF PulseDriven, PulseAnswered, PulseStarts, PulseIn, P!Quiet
<1>13. PulseDoor'
  <2> SUFFICES ASSUME kind = "door", NEW c \in P!Coils, c \notin stranded',
                      out[c] \/ PulseWanted(c)'
               PROVE  PulseFinal' = c
    BY <1>1 DEF PulseDoor
  <2>1. P!Quiet
    BY <1>1
  <2>2. PulseFinal' = d
    <3>1. ~PulseIn(EspTimer, "expire")
      BY <1>0, <2>1 DEF PulseIn, P!Quiet
    <3> QED BY <1>1, <1>9, <3>1 DEF PulseFinal
  <2>3. CASE PulseWanted(c)'
    BY <1>3, <1>4, <1>11, <2>1, <2>2, <2>3 DEF PulseWanted, PulseIn
  <2>4. CASE out[c]
    BY <1>1, <1>5, <1>12, <2>1, <2>2, <2>4 DEF P!Crossed
  <2> QED BY <2>3, <2>4
<1>14. ASSUME NEW u \in P!Threads, PulseAlone(u)' PROVE u = t /\ P!Quiet
  BY <1>3, <1>4, <1>14 DEF PulseAlone
<1>15. PulseAlones'
  BY <1>11, <1>14 DEF PulseAlones
<1>16. ASSUME kind = "valve" PROVE PulseValve'
  <2>1. ASSUME NEW u \in P!Threads, PulseAlone(u)', stranded' = {}
        PROVE  /\ run'[u].dir = stat'
               /\ run'[u].at # "mark" => ~qtimer'
               /\ run'[u].at = "coils" => /\ run'[u].todo = <<stat'>>
                                          /\ \A c \in P!Coils : ~out'[c]
               /\ run'[u].at # "start"
    <3>1. u = t /\ P!Quiet /\ stranded = {}
      BY <1>5, <1>14, <2>1
    <3>2. P!Interlock <=> qtimer
      BY <1>16 DEF P!Interlock
    <3> QED BY <1>1, <1>2, <1>3, <1>4, <1>12, <1>16, <3>1, <3>2
  <2> QED BY <1>3, <1>4, <1>14, <2>1 DEF PulseValve
<1>17. ASSUME kind = "valve" PROVE PulseClean'
  <2> SUFFICES ASSUME clean' PROVE PulseClean'
    BY DEF PulseClean
  <2>1. clean /\ P!Quiet /\ (P!Interlock => out[d]) /\ (P!Interlock <=> qtimer)
    BY <1>1, <1>17 DEF P!Interlock
  <2>2. stranded' = {}
    BY <1>0, <1>1, <1>17, <2>1 DEF PulseClean, P!Crossed
  <2>3. \A u \in P!Threads : P!Busy(u)' => run'[u].alone
    BY <1>3, <1>4, <1>11, <2>1
  <2>4. qtimer => PulseStands'
    BY <1>0, <1>1, <1>17, <2>1 DEF PulseClean, PulseStands
  <2>5. ~qtimer => PulseStarts(t)'
    BY <1>3, <1>4, <2>1 DEF PulseStarts, PulseIn
  <2>6. \A u \in P!Threads : PulseIn(u, "set")' /\ run'[u].at = "mark" => qtimer
    BY <1>3, <1>4, <1>11, <2>1 DEF PulseIn
  <2> QED BY <1>0, <1>1, <2>2, <2>3, <2>4, <2>5, <2>6 DEF PulseClean
<1> QED BY <1>1, <1>6, <1>7, <1>10, <1>13, <1>15, <1>16, <1>17 DEF PulseInv

LEMMA PulseExpire ==
    ASSUME PulseInv, P!Expire PROVE PulseInv'
<1> DEFINE new == [op |-> "expire", dir |-> stat, alone |-> P!Quiet, at |-> "coils",
                   todo |-> P!Released]
<1>0. /\ P!TypeOK /\ PulseShape /\ PulseDriven /\ PulseDoor /\ PulseAlones
      /\ kind = "valve" => PulseValve /\ PulseClean
      /\ EspTimer \in P!Threads
  BY DEF PulseInv, P!Threads
<1>1. /\ qtimer /\ ~P!Busy(EspTimer) /\ qtimer' = FALSE /\ P!Enter(EspTimer, new)
      /\ clean' = (clean /\ P!Quiet)
      /\ stranded' = IF kind = "door" /\ ~P!Quiet THEN P!Coils ELSE stranded
      /\ pos' = CASE out["ON"] /\ ~out["OFF"] -> "ON"
                  [] out["OFF"] /\ ~out["ON"] -> "OFF"
                  [] OTHER                    -> pos
      /\ UNCHANGED <<kind, order, stat, moving, disk, out>>
  BY DEF P!Expire
<1>2. /\ P!Released \in P!Todo /\ P!Released # <<>> /\ stat \in P!Coils
      /\ kind = "door" => P!Released = <<stat>>
      /\ kind # "door" => \A c \in P!Coils : PulseHas(P!Released, c)
  BY <1>0, PulseBoth, PulseOne DEF P!Released, P!TypeOK
<1>3. /\ new \in P!Call /\ new.op = "expire" /\ new.dir = stat /\ new.todo = P!Released
      /\ new.alone = P!Quiet /\ new.at = "coils"
  <2>1. P!Quiet \in BOOLEAN
    BY DEF P!Quiet
  <2> QED BY <1>2, <2>1 DEF P!Call
<1> HIDE DEF new
<1>4. /\ run' \in [P!Threads -> P!Call \union {P!NoCall}]
      /\ run'[EspTimer] = new /\ P!Busy(EspTimer)'
      /\ \A u \in P!Threads : u # EspTimer =>
           /\ P!Busy(u)' <=> P!Busy(u)
           /\ P!Busy(u) => /\ run'[u].op = run[u].op /\ run'[u].dir = run[u].dir
                           /\ run'[u].at = run[u].at /\ run'[u].todo = run[u].todo
                           /\ run'[u].alone = FALSE
  BY <1>0, <1>1, <1>3, PulseEnter
<1>5. stranded \subseteq stranded' /\ stranded' \subseteq P!Coils
  BY <1>0, <1>1 DEF P!TypeOK
<1>6. P!TypeOK'
  <2>1. clean' \in BOOLEAN /\ qtimer' \in BOOLEAN /\ pos' \in P!Coils \union {"between"}
    BY <1>0, <1>1 DEF P!TypeOK, P!Coils
  <2> QED BY <1>0, <1>1, <1>4, <1>5, <2>1 DEF P!TypeOK
<1>7. PulseShape'
  <2>1. ASSUME NEW u \in P!Threads, P!Busy(u)'
        PROVE  /\ run'[u].op = "expire" => u = EspTimer
               /\ run'[u].at = "coils" <=> run'[u].todo # <<>>
               /\ run'[u].at = "start" => run'[u].op = "set"
               /\ kind = "door" => run'[u].todo \in {<<run'[u].dir>>, <<>>}
    <3>1. CASE u = EspTimer
      BY <1>2, <1>3, <1>4, <3>1
    <3>2. CASE u # EspTimer
      BY <1>0, <1>4, <2>1, <3>2 DEF PulseShape
    <3> QED BY <3>1, <3>2
  <2> QED BY <1>1, <2>1 DEF PulseShape
<1>8. PulseIn(EspTimer, "expire")'
  BY <1>3, <1>4 DEF PulseIn
<1>9. ASSUME kind = "door", P!Quiet, NEW c \in P!Coils, c \notin stranded, out[c]
      PROVE  c = stat
  <2>1. PulseFinal = stat
    BY <1>1 DEF PulseFinal, PulseIn
  <2> QED BY <1>0, <1>9, <2>1 DEF PulseDoor
<1>10. PulseDriven'
  <2>1. ASSUME NEW c \in P!Coils, c \notin stranded', out'[c] PROVE PulseAnswered(c)'
    <3>1. PulseHas(P!Released, c)
      BY <1>1, <1>2, <1>5, <1>9, <2>1, PulseOne
    <3> QED BY <1>3, <1>4, <1>8, <3>1 DEF PulseAnswered
  <2> QED BY <2>1 DEF PulseDriven
<1>11. ASSUME P!Quiet, NEW u \in P!Threads, P!Busy(u)' PROVE u = EspTimer
  BY <1>4, <1>11 DEF P!Quiet
<1>12. PulseDoor'
  <2> SUFFICES ASSUME kind = "door", NEW c \in P!Coils, c \notin stranded',
                      out[c] \/ PulseWanted(c)'
               PROVE  PulseFinal' = c
    BY <1>1 DEF PulseDoor
  <2>1. P!Quiet
    BY <1>1
  <2>2. PulseFinal' = stat
    BY <1>3, <1>4, <1>8 DEF PulseFinal
  <2>3. ~PulseWanted(c)'
    BY <1>3, <1>4, <1>11, <2>1 DEF PulseWanted, PulseIn
  <2> QED BY <1>5, <1>9, <2>1, <2>2, <2>3
<1>13. ASSUME NEW u \in P!Threads, PulseAlone(u)' PROVE u = EspTimer /\ P!Quiet
  BY <1>3, <1>4, <1>13 DEF PulseAlone
<1>14. PulseAlones'
  BY <1>11, <1>13 DEF PulseAlones
<1>15. PulseValve'
  BY <1>1, <1>3, <1>4, <1>13 DEF PulseValve
<1>16. ASSUME kind = "valve" PROVE PulseClean'
  <2> SUFFICES ASSUME clean' PROVE PulseClean'
    BY DEF PulseClean
  <2>1. clean /\ P!Quiet /\ stranded' = {} /\ PulseStands
    BY <1>0, <1>1, <1>16 DEF PulseClean
  <2>2. \A u \in P!Threads : P!Busy(u)' => run'[u].alone
    BY <1>3, <1>4, <1>11, <2>1
  <2>3. pos' = stat
    BY <1>0, <1>1, <2>1 DEF PulseStands, P!TypeOK, P!Coils
  <2>4. \A u \in P!Threads : ~PulseIn(u, "set")'
    BY <1>3, <1>4, <1>11, <2>1 DEF PulseIn
  <2> QED BY <1>1, <2>1, <2>2, <2>3, <2>4 DEF PulseClean
<1> QED BY <1>1, <1>6, <1>7, <1>10, <1>12, <1>14, <1>15, <1>16 DEF PulseInv

LEMMA PulseDrive ==
    ASSUME PulseInv, NEW t \in P!Threads, P!Drive(t) PROVE PulseInv'
<1> DEFINE s == run[t].todo
           at == IF Len(s) > 1 THEN "coils"
                 ELSE IF kind = "valve" /\ run[t].op = "set" THEN "start" ELSE "mark"
           new == [run[t] EXCEPT !.todo = Tail(s), !.at = at]
           c0 == Head(s)
           on == run[t].op = "set"
<1>0. /\ P!TypeOK /\ PulseShape /\ PulseDriven /\ PulseDoor /\ PulseAlones
      /\ kind = "valve" => PulseValve /\ PulseClean
      /\ EspTimer \in P!Threads
  BY DEF PulseInv, P!Threads
<1>1. /\ P!Busy(t) /\ run[t].at = "coils" /\ s # <<>>
      /\ out' = [out EXCEPT ![c0] = on]
      /\ stranded' = IF on THEN stranded ELSE stranded \ {c0}
      /\ pos' = IF on THEN "between" ELSE pos
      /\ UNCHANGED <<kind, order, stat, moving, disk, qtimer, clean>>
  BY DEF P!Drive
<1>2. run[t] \in P!Call /\ s \in P!Todo /\ run[t].op \in {"set", "expire"}
  BY <1>0, <1>1, PulseBusyIsCall DEF P!Call
<1>3. /\ c0 \in P!Coils /\ Tail(s) \in P!Todo /\ (Len(s) > 1 <=> Tail(s) # <<>>)
      /\ \A c : PulseHas(s, c) <=> c = c0 \/ PulseHas(Tail(s), c)
  BY <1>1, <1>2, PulseTodo
<1>4. run' = [run EXCEPT ![t] = new]
  <2>1. run' = [run EXCEPT ![t].todo = Tail(s), ![t].at = at]
    BY <1>0 DEF P!Drive, P!TypeOK
  <2> QED BY <1>0, <1>2, <2>1 DEF P!TypeOK, P!Call
<1>5. at \in {"coils", "mark", "start"} /\ (at = "coils" <=> Tail(s) # <<>>)
      /\ (kind = "valve" /\ on => at # "mark") /\ (at = "start" => kind = "valve" /\ on)
  BY <1>3
<1>6. /\ new \in P!Call /\ new.op = run[t].op /\ new.dir = run[t].dir
      /\ new.alone = run[t].alone /\ new.todo = Tail(s) /\ new.at = at
  <2> HIDE DEF at
  <2> QED BY <1>2, <1>3, <1>5 DEF P!Call
<1> HIDE DEF new, at
<1>7. /\ run' \in [P!Threads -> P!Call \union {P!NoCall}] /\ run'[t] = new
      /\ \A u \in P!Threads : u # t => run'[u] = run[u] /\ (P!Busy(u)' <=> P!Busy(u))
  BY <1>0, <1>4, <1>6, PulseGoesOn
<1>8. \A u \in P!Threads : P!Busy(u)' <=> P!Busy(u)
  BY <1>1, <1>6, <1>7 DEF P!Busy
<1>9. on \in BOOLEAN /\ out' \in [P!Coils -> BOOLEAN] /\ out'[c0] = on
      /\ \A c \in P!Coils : c # c0 => out'[c] = out[c]
  <2>1. on \in BOOLEAN
    OBVIOUS
  <2> HIDE DEF on, c0
  <2> QED BY <1>0, <1>1, <1>3, <2>1 DEF P!TypeOK
<1>10. P!TypeOK'
  <2>1. pos' \in P!Coils \union {"between"} /\ stranded' \subseteq P!Coils
    BY <1>0, <1>1 DEF P!TypeOK
  <2> QED BY <1>0, <1>1, <1>7, <1>9, <2>1 DEF P!TypeOK
<1>11. kind = "door" => s = <<run[t].dir>> /\ Tail(s) = <<>> /\ c0 = run[t].dir
  <2>1. kind = "door" => s = <<run[t].dir>>
    BY <1>0, <1>1 DEF PulseShape
  <2>2. ASSUME NEW d \in P!Coils, NEW r, r = <<d>> PROVE Tail(r) = <<>> /\ Head(r) = d
    BY <2>2
  <2>3. run[t].dir \in P!Coils
    BY <1>2 DEF P!Call
  <2> QED BY <2>1, <2>2, <2>3
<1>12. PulseShape'
  <2>1. ASSUME NEW u \in P!Threads, P!Busy(u)
        PROVE  /\ run'[u].op = "expire" => u = EspTimer
               /\ run'[u].at = "coils" <=> run'[u].todo # <<>>
               /\ run'[u].at = "start" => run'[u].op = "set"
               /\ kind = "door" => run'[u].todo \in {<<run'[u].dir>>, <<>>}
    <3>1. CASE u = t
      BY <1>0, <1>1, <1>5, <1>6, <1>7, <1>11, <3>1 DEF PulseShape
    <3>2. CASE u # t
      BY <1>0, <1>7, <2>1, <3>2 DEF PulseShape
    <3> QED BY <3>1, <3>2
  <2> QED BY <1>1, <1>8, <2>1 DEF PulseShape
<1>13. \A u \in P!Threads : /\ PulseStarts(u) <=> PulseStarts(u)'
                            /\ PulseAlone(u) <=> PulseAlone(u)'
                            /\ \A op \in {"set", "expire"} : PulseIn(u, op) <=> PulseIn(u, op)'
  <2>1. ASSUME NEW u \in P!Threads
        PROVE  /\ PulseAlone(u) <=> PulseAlone(u)'
               /\ \A op \in {"set", "expire"} : PulseIn(u, op) <=> PulseIn(u, op)'
    BY <1>6, <1>7, <1>8 DEF PulseAlone, PulseIn
  <2>2. ASSUME NEW u \in P!Threads PROVE PulseStarts(u) <=> PulseStarts(u)'
    BY <1>1, <1>5, <1>6, <1>7, <2>1 DEF PulseStarts, PulseIn
  <2> QED BY <2>1, <2>2
<1>14. on => PulseStarts(t)
  BY <1>1 DEF PulseStarts, PulseIn
<1>15. ~on => t = EspTimer /\ PulseIn(t, "expire")
  BY <1>0, <1>1, <1>2 DEF PulseShape, PulseIn
<1>16. PulseDriven'
  <2> SUFFICES ASSUME NEW c \in P!Coils, c \notin stranded', out'[c] PROVE PulseAnswered(c)'
    BY DEF PulseDriven
  <2>1. CASE on
    BY <1>13, <1>14, <2>1 DEF PulseAnswered
  <2>2. CASE ~on
    <3>1. c # c0 /\ out[c] /\ c \notin stranded
      BY <1>1, <1>9, <2>2
    <3>2. PulseAnswered(c)
      BY <1>0, <3>1 DEF PulseDriven
    <3>3. PulseHas(run[EspTimer].todo, c) => PulseHas(run'[EspTimer].todo, c)
      BY <1>3, <1>6, <1>7, <1>15, <2>2, <3>1
    <3> QED BY <1>0, <1>1, <1>13, <3>2, <3>3 DEF PulseAnswered
  <2> QED BY <2>1, <2>2
<1>17. PulseFinal' = PulseFinal
  BY <1>0, <1>1, <1>6, <1>7, <1>13 DEF PulseFinal
<1>18. ASSUME NEW c \in P!Coils, PulseWanted(c)' PROVE PulseWanted(c)
  BY <1>1, <1>6, <1>7, <1>13, <1>18 DEF PulseWanted
<1>19. PulseDoor'
  <2> SUFFICES ASSUME kind = "door", NEW c \in P!Coils, c \notin stranded',
                      out'[c] \/ PulseWanted(c)'
               PROVE  PulseFinal = c
    BY <1>1, <1>17 DEF PulseDoor
  <2>1. CASE c \in stranded
    <3>1. c = c0 /\ ~on
      BY <1>1, <2>1
    <3> QED BY <1>11, <1>15, <3>1 DEF PulseFinal
  <2>2. CASE c \notin stranded
    <3>1. CASE out'[c] /\ ~out[c]
      <4>1. on /\ c = c0
        BY <1>9, <3>1
      <4>2. PulseWanted(c)
        BY <1>1, <1>11, <4>1 DEF PulseWanted, PulseIn
      <4> QED BY <1>0, <2>2, <4>2 DEF PulseDoor
    <3>2. CASE out[c] \/ PulseWanted(c)
      BY <1>0, <2>2, <3>2 DEF PulseDoor
    <3> QED BY <1>18, <3>1, <3>2
  <2> QED BY <2>1, <2>2
<1>20. PulseAlones'
  BY <1>0, <1>8, <1>13 DEF PulseAlones
<1>21. ASSUME NEW u \in P!Threads, PulseAlone(u) PROVE u = t
  BY <1>0, <1>1, <1>21 DEF PulseAlones
<1>22. ASSUME kind = "valve" PROVE PulseValve'
  <2> SUFFICES ASSUME PulseAlone(t)'
               PROVE  /\ run'[t].op = "expire" => ~qtimer
                      /\ run'[t].op = "set" /\ stranded' = {} =>
                           /\ run'[t].dir = stat
                           /\ run'[t].at # "mark" => ~qtimer
                           /\ run'[t].at = "coils" => /\ run'[t].todo = <<stat>>
                                                      /\ \A c \in P!Coils : ~out'[c]
                           /\ run'[t].at = "start" => PulseStands'
    BY <1>1, <1>13, <1>21 DEF PulseValve
  <2>1. PulseAlone(t)
    BY <1>13
  <2>2. run[t].op = "expire" => ~qtimer
    BY <1>0, <1>22, <2>1 DEF PulseValve
  <2>3. ASSUME on, stranded' = {}
        PROVE  run[t].dir = stat /\ ~qtimer /\ Tail(s) = <<>> /\ PulseStands'
    <3>1. stranded = {}
      BY <1>1, <2>3
    <3>2. /\ run[t].dir = stat /\ ~qtimer /\ s = <<stat>>
          /\ \A c \in P!Coils : ~out[c]
      BY <1>0, <1>1, <1>22, <2>1, <2>3, <3>1 DEF PulseValve
    <3>3. c0 = stat
      BY <3>2
    <3>4. ASSUME NEW c \in P!Coils PROVE out'[c] <=> c = stat
      BY <1>9, <2>3, <3>2, <3>3
    <3> QED BY <1>1, <3>2, <3>4 DEF PulseStands
  <2> QED BY <1>5, <1>6, <1>7, <2>2, <2>3
<1>23. ASSUME kind = "valve" PROVE PulseClean'
  <2> SUFFICES ASSUME clean PROVE PulseClean'
    BY <1>1 DEF PulseClean
  <2>1. PulseAlone(t) /\ stranded = {} /\ stranded' = {}
    BY <1>0, <1>1, <1>23 DEF PulseClean, PulseAlone
  <2>2. ~qtimer
    BY <1>0, <1>1, <1>2, <1>23, <2>1 DEF PulseValve
  <2>3. \A u \in P!Threads : P!Busy(u)' => run'[u].alone
    BY <1>0, <1>6, <1>7, <1>8, <1>23 DEF PulseClean
  <2>4. pos' = stat \/ \E u \in P!Threads : PulseStarts(u)'
    <3>1. CASE on
      BY <1>13, <1>14, <3>1
    <3>2. CASE ~on
      BY <1>0, <1>1, <1>13, <1>23, <2>2, <3>2 DEF PulseClean
    <3> QED BY <3>1, <3>2
  <2>5. ASSUME NEW u \in P!Threads, PulseIn(u, "set")', run'[u].at = "mark" PROVE FALSE
    <3>1. CASE u = t
      BY <1>5, <1>6, <1>7, <1>23, <2>5, <3>1 DEF PulseIn
    <3>2. CASE u # t
      BY <1>0, <1>7, <1>13, <1>23, <2>2, <2>5, <3>2 DEF PulseClean
    <3> QED BY <3>1, <3>2
  <2> QED BY <1>1, <2>1, <2>2, <2>3, <2>4, <2>5 DEF PulseClean
<1> QED BY <1>1, <1>10, <1>12, <1>16, <1>19, <1>20, <1>22, <1>23 DEF PulseInv

LEMMA PulseMark ==
    ASSUME PulseInv, NEW t \in P!Threads, P!Mark(t) PROVE PulseInv'
<1> DEFINE goes == run[t].op = "set" /\ kind # "valve"
           new == IF goes THEN [run[t] EXCEPT !.at = "start"] ELSE P!NoCall
<1>0. /\ P!TypeOK /\ PulseShape /\ PulseDriven /\ PulseDoor /\ PulseAlones
      /\ kind = "valve" => PulseValve /\ PulseClean
      /\ EspTimer \in P!Threads
  BY DEF PulseInv, P!Threads
<1>1. /\ P!Busy(t) /\ run[t].at = "mark"
      /\ stat' = IF run[t].op = "expire" /\ kind = "door" THEN run[t].dir ELSE stat
      /\ moving' = IF run[t].op = "expire" THEN 0
                   ELSE IF kind = "valve" THEN moving ELSE 1
      /\ disk' = IF run[t].op = "expire" /\ kind = "valve" THEN disk
                 ELSE [stat |-> stat', moving |-> moving']
      /\ UNCHANGED <<kind, order, out, qtimer, pos, stranded, clean>>
  BY DEF P!Mark
<1>2. run[t] \in P!Call /\ run[t].op \in {"set", "expire"} /\ run[t].dir \in P!Coils
      /\ run[t].todo = <<>>
  BY <1>0, <1>1, PulseBusyIsCall DEF P!Call, PulseShape
<1>3. run' = [run EXCEPT ![t] = new]
  <2>1. run' = IF goes THEN [run EXCEPT ![t].at = "start"] ELSE P!Done(t)
    BY DEF P!Mark
  <2> QED BY <1>0, <1>2, <2>1 DEF P!TypeOK, P!Done
<1>4. /\ new \in P!Call \union {P!NoCall}
      /\ goes => /\ new \in P!Call /\ new.op = "set" /\ new.dir = run[t].dir
                 /\ new.alone = run[t].alone /\ new.todo = <<>> /\ new.at = "start"
      /\ ~goes => new = P!NoCall
  BY <1>2 DEF P!Call
<1> HIDE DEF new
<1>5. /\ run' \in [P!Threads -> P!Call \union {P!NoCall}] /\ run'[t] = new
      /\ \A u \in P!Threads : u # t => run'[u] = run[u] /\ (P!Busy(u)' <=> P!Busy(u))
  BY <1>0, <1>3, <1>4, PulseGoesOn
<1>6. P!Busy(t)' <=> goes
  BY <1>4, <1>5 DEF P!Busy, P!Call, P!NoCall
<1>7. P!TypeOK'
  <2>1. stat' \in P!Coils /\ moving' \in {0, 1}
    BY <1>0, <1>1, <1>2 DEF P!TypeOK
  <2>2. disk' \in [stat : P!Coils, moving : {0, 1}]
    BY <1>0, <1>1, <2>1 DEF P!TypeOK
  <2> QED BY <1>0, <1>1, <1>5, <2>1, <2>2 DEF P!TypeOK
<1>8. PulseShape'
  <2>1. ASSUME NEW u \in P!Threads, P!Busy(u)'
        PROVE  /\ run'[u].op = "expire" => u = EspTimer
               /\ run'[u].at = "coils" <=> run'[u].todo # <<>>
               /\ run'[u].at = "start" => run'[u].op = "set"
               /\ kind = "door" => run'[u].todo \in {<<run'[u].dir>>, <<>>}
    <3>1. CASE u = t
      BY <1>4, <1>5, <1>6, <2>1, <3>1
    <3>2. CASE u # t
      BY <1>0, <1>5, <2>1, <3>2 DEF PulseShape
    <3> QED BY <3>1, <3>2
  <2> QED BY <1>1, <2>1 DEF PulseShape
<1>9. \A u \in P!Threads : PulseStarts(u) <=> PulseStarts(u)'
  BY <1>1, <1>4, <1>5, <1>6 DEF PulseStarts, PulseIn
<1>10. \A u \in P!Threads : PulseAlone(u)' => PulseAlone(u)
  BY <1>1, <1>4, <1>5, <1>6 DEF PulseAlone
<1>11. \A u \in P!Threads : PulseIn(u, "set")' =>
           /\ PulseIn(u, "set") /\ run'[u].dir = run[u].dir
           /\ run'[u].at = "coils" => run[u].at = "coils"
  BY <1>1, <1>4, <1>5, <1>6 DEF PulseIn
<1>12. PulseDriven'
  <2> SUFFICES ASSUME NEW c \in P!Coils, c \notin stranded', out'[c] PROVE PulseAnswered(c)'
    BY DEF PulseDriven
  <2>1. PulseAnswered(c)
    BY <1>0, <1>1 DEF PulseDriven
  <2>2. ASSUME PulseIn(EspTimer, "expire"), PulseHas(run[EspTimer].todo, c)
        PROVE  EspTimer # t
    BY <1>2, <2>2, PulseNone
  <2>3. ASSUME PulseIn(EspTimer, "expire"), PulseHas(run[EspTimer].todo, c)
        PROVE  PulseIn(EspTimer, "expire")' /\ PulseHas(run'[EspTimer].todo, c)
    BY <1>0, <1>5, <2>2, <2>3 DEF PulseIn
  <2> QED BY <1>1, <1>9, <2>1, <2>3 DEF PulseAnswered
<1>13. PulseDoor'
  <2> SUFFICES ASSUME kind = "door", NEW c \in P!Coils, c \notin stranded,
                      out[c] \/ PulseWanted(c)'
               PROVE  PulseFinal' = c
    BY <1>1 DEF PulseDoor
  <2>1. PulseWanted(c)' => PulseWanted(c)
    BY <1>11 DEF PulseWanted
  <2>2. PulseFinal = c
    BY <1>0, <2>1 DEF PulseDoor
  <2>3. PulseFinal' = PulseFinal
    <3>1. CASE run[t].op = "expire"
      <4>1. t = EspTimer
        BY <1>0, <1>1, <3>1 DEF PulseShape
      <4> QED BY <1>1, <1>6, <3>1, <4>1 DEF PulseFinal, PulseIn
    <3>2. CASE run[t].op = "set"
      <4>1. PulseIn(EspTimer, "expire")' <=> PulseIn(EspTimer, "expire")
        BY <1>0, <1>1, <1>4, <1>5, <1>6, <3>2 DEF PulseIn
      <4>2. PulseIn(EspTimer, "expire") => EspTimer # t
        BY <3>2 DEF PulseIn
      <4> QED BY <1>0, <1>1, <1>5, <3>2, <4>1, <4>2 DEF PulseFinal
    <3> QED BY <1>2, <3>1, <3>2
  <2> QED BY <2>2, <2>3
<1>14. PulseAlones'
  BY <1>0, <1>1, <1>5, <1>6, <1>10 DEF PulseAlones
<1>15. ASSUME NEW u \in P!Threads, PulseAlone(u) PROVE u = t
  BY <1>0, <1>1, <1>15 DEF PulseAlones
<1>16. kind = "valve" => PulseValve'
  BY <1>6, <1>10, <1>15 DEF PulseValve, PulseAlone
<1>17. ASSUME kind = "valve" PROVE PulseClean'
  <2> SUFFICES ASSUME clean PROVE PulseClean'
    BY <1>1 DEF PulseClean
  <2>1. stat' = stat
    BY <1>1, <1>17
  <2>2. \A u \in P!Threads : P!Busy(u)' => run'[u].alone
    BY <1>0, <1>5, <1>6, <1>17 DEF PulseClean
  <2>3. \A u \in P!Threads : PulseIn(u, "set")' /\ run'[u].at = "mark" => qtimer
    BY <1>0, <1>5, <1>6, <1>11, <1>17 DEF PulseClean, PulseIn
  <2>4. qtimer => PulseStands'
    BY <1>0, <1>1, <1>17, <2>1 DEF PulseClean, PulseStands
  <2>5. ~qtimer => pos = stat \/ \E u \in P!Threads : PulseStarts(u)'
    BY <1>0, <1>9, <1>17 DEF PulseClean
  <2> QED BY <1>0, <1>1, <1>17, <2>1, <2>2, <2>3, <2>4, <2>5 DEF PulseClean
<1> QED BY <1>1, <1>7, <1>8, <1>12, <1>13, <1>14, <1>16, <1>17 DEF PulseInv

LEMMA PulseStart ==
    ASSUME PulseInv, NEW t \in P!Threads, P!Start(t) PROVE PulseInv'
<1>0. P!TypeOK /\ PulseShape /\ PulseDoor /\ PulseAlones /\ EspTimer \in P!Threads
  BY DEF PulseInv, P!Threads
<1>1. /\ P!Busy(t) /\ run[t].at = "start" /\ kind # "valve" /\ qtimer' = TRUE
      /\ run' = [run EXCEPT ![t] = P!NoCall]
      /\ clean' = (clean \/ (run[t].alone /\ stranded = {}))
      /\ UNCHANGED <<kind, order, stat, moving, disk, out, pos, stranded>>
  BY DEF P!Start, P!Done
<1>2. /\ run' \in [P!Threads -> P!Call \union {P!NoCall}] /\ run'[t] = P!NoCall
      /\ \A u \in P!Threads : u # t => run'[u] = run[u] /\ (P!Busy(u)' <=> P!Busy(u))
  BY <1>0, <1>1, PulseGoesOn
<1>3. ~P!Busy(t)'
  BY <1>2 DEF P!Busy, P!NoCall
<1>4. P!TypeOK'
  <2>1. clean' \in BOOLEAN /\ qtimer' \in BOOLEAN
    <3>1. run[t].alone \in BOOLEAN
      BY <1>0, <1>1, PulseBusyIsCall DEF P!Call
    <3> QED BY <1>0, <1>1, <3>1 DEF P!TypeOK
  <2> QED BY <1>0, <1>1, <1>2, <2>1 DEF P!TypeOK
<1>5. PulseShape'
  BY <1>0, <1>1, <1>2, <1>3 DEF PulseShape
<1>6. PulseDriven'
  BY <1>1 DEF PulseDriven, PulseAnswered
<1>7. PulseDoor'
  <2>1. \A c \in P!Coils : PulseWanted(c)' => PulseWanted(c)
    BY <1>2, <1>3 DEF PulseWanted, PulseIn
  <2>2. ASSUME kind = "door" PROVE PulseFinal' = PulseFinal
    <3>1. PulseIn(EspTimer, "expire")' => PulseIn(EspTimer, "expire") /\ EspTimer # t
      BY <1>0, <1>2, <1>3 DEF PulseIn
    <3>2. CASE PulseIn(EspTimer, "expire") /\ EspTimer = t
      \* the callback of a door does not start the timer
      BY <1>0, <1>1, <3>2 DEF PulseShape, PulseIn
    <3>3. CASE PulseIn(EspTimer, "expire") /\ EspTimer # t
      BY <1>0, <1>1, <1>2, <3>3 DEF PulseFinal, PulseIn
    <3>4. CASE ~PulseIn(EspTimer, "expire")
      BY <1>1, <3>1, <3>4 DEF PulseFinal
    <3> QED BY <3>2, <3>3, <3>4
  <2> QED BY <1>0, <1>1, <2>1, <2>2 DEF PulseDoor
<1>8. PulseAlones'
  BY <1>0, <1>2, <1>3 DEF PulseAlones, PulseAlone
<1> QED BY <1>1, <1>4, <1>5, <1>6, <1>7, <1>8 DEF PulseInv

LEMMA PulseCrash ==
    ASSUME PulseInv, NEW power \in BOOLEAN, P!Crash(power) PROVE PulseInv'
<1>0. P!TypeOK
  BY DEF PulseInv
<1>1. \A t \in P!Threads : ~P!Busy(t)'
  BY DEF P!Crash, P!Busy, P!NoCall
<1>2. \A c \in P!Coils \ stranded' : ~out'[c]
  BY DEF P!Crash
<1>3. P!TypeOK'
  BY <1>0 DEF P!Crash, P!TypeOK
<1>4. PulseShape' /\ PulseDriven' /\ PulseAlones' /\ PulseValve'
  BY <1>1, <1>2 DEF PulseShape, PulseDriven, PulseAlones, PulseAlone, PulseValve
<1>5. PulseDoor'
  BY <1>1, <1>2 DEF PulseDoor, PulseWanted, PulseIn
<1>6. PulseClean'
  BY DEF P!Crash, PulseClean
<1> QED BY <1>3, <1>4, <1>5, <1>6 DEF PulseInv

LEMMA PulseStartValve ==
    ASSUME PulseInv, NEW t \in P!Threads, P!StartValve(t) PROVE PulseInv'
<1>1. CASE qtimer
  <2>1. P!Crash(FALSE)
    BY <1>1 DEF P!StartValve
  <2> QED BY <2>1, PulseCrash
<1>2. CASE ~qtimer
  <2> DEFINE new == [run[t] EXCEPT !.at = "mark"]
  <2>0. /\ P!TypeOK /\ PulseShape /\ PulseAlones /\ kind = "valve" /\ PulseValve /\ PulseClean
        /\ EspTimer \in P!Threads
    BY DEF PulseInv, P!Threads, P!StartValve
  <2>1. /\ P!Busy(t) /\ run[t].at = "start" /\ qtimer' = TRUE /\ moving' = 1
        /\ run' = [run EXCEPT ![t].at = "mark"]
        /\ clean' = (clean \/ (run[t].alone /\ stranded = {}))
        /\ UNCHANGED <<kind, order, stat, disk, out, pos, stranded>>
    BY <1>2 DEF P!StartValve
  <2>2. run[t] \in P!Call
    BY <2>0, <2>1, PulseBusyIsCall
  <2>3. run' = [run EXCEPT ![t] = new]
    BY <2>0, <2>1, <2>2 DEF P!TypeOK
  <2>4. /\ new \in P!Call /\ new.op = run[t].op /\ new.dir = run[t].dir
        /\ new.alone = run[t].alone /\ new.todo = run[t].todo /\ new.at = "mark"
    BY <2>2 DEF P!Call
  <2> HIDE DEF new
  <2>5. /\ run' \in [P!Threads -> P!Call \union {P!NoCall}] /\ run'[t] = new
        /\ \A u \in P!Threads : u # t => run'[u] = run[u] /\ (P!Busy(u)' <=> P!Busy(u))
    BY <2>0, <2>3, <2>4, PulseGoesOn
  <2>6. \A u \in P!Threads : P!Busy(u)' <=> P!Busy(u)
    BY <2>1, <2>2, <2>4, <2>5 DEF P!Busy, P!Call
  <2>7. P!TypeOK'
    <3>1. clean' \in BOOLEAN /\ qtimer' \in BOOLEAN /\ moving' \in {0, 1}
      <4>1. run[t].alone \in BOOLEAN
        BY <2>2 DEF P!Call
      <4> QED BY <2>0, <2>1, <4>1 DEF P!TypeOK
    <3> QED BY <2>0, <2>1, <2>5, <3>1 DEF P!TypeOK
  <2>8. PulseShape'
    BY <2>0, <2>1, <2>4, <2>5, <2>6 DEF PulseShape
  <2>9. PulseDriven'
    BY <2>1 DEF PulseDriven, PulseAnswered
  <2>10. PulseDoor'
    BY <2>0, <2>1 DEF PulseDoor
  <2>11. \A u \in P!Threads : PulseAlone(u)' <=> PulseAlone(u)
    BY <2>4, <2>5, <2>6 DEF PulseAlone
  <2>12. PulseAlones'
    BY <2>0, <2>6, <2>11 DEF PulseAlones
  <2>13. PulseAlone(t) => \A u \in P!Threads : P!Busy(u) => u = t
    BY <2>0 DEF PulseAlones
  <2>14. run[t].op = "set"
    BY <2>0, <2>1 DEF PulseShape
  <2>15. ASSUME run[t].alone, stranded = {} PROVE run[t].dir = stat /\ PulseStands
    BY <2>0, <2>1, <2>14, <2>15 DEF PulseValve, PulseAlone
  <2>16. PulseValve'
    <3> SUFFICES ASSUME PulseAlone(t)', stranded' = {} PROVE run'[t].dir = stat
      <4>1. \A u \in P!Threads : PulseAlone(u)' => u = t
        BY <2>0, <2>1, <2>11 DEF PulseAlones
      <4>2. run'[t].op = "set" /\ run'[t].at = "mark"
        BY <2>4, <2>5, <2>14
      <4> QED BY <2>1, <4>1, <4>2 DEF PulseValve
    <3> QED BY <2>1, <2>4, <2>5, <2>15 DEF PulseAlone
  <2>17. PulseClean'
    <3> SUFFICES ASSUME clean' PROVE PulseClean'
      BY DEF PulseClean
    <3>1. run[t].alone /\ stranded = {}
      BY <2>0, <2>1 DEF PulseClean
    <3>2. \A u \in P!Threads : P!Busy(u)' => u = t
      BY <2>1, <2>6, <2>13, <3>1 DEF PulseAlone
    <3>3. PulseStands'
      BY <2>1, <2>15, <3>1 DEF PulseStands
    <3> QED BY <2>1, <2>4, <2>5, <3>1, <3>2, <3>3 DEF PulseClean
  <2> QED BY <2>1, <2>7, <2>8, <2>9, <2>10, <2>12, <2>16, <2>17 DEF PulseInv
<1> QED BY <1>1, <1>2

LEMMA PulseNext == PulseInv /\ [P!Next]_(P!vars) => PulseInv'
<1> SUFFICES ASSUME PulseInv, [P!Next]_(P!vars) PROVE PulseInv'
  OBVIOUS
<1>1. CASE UNCHANGED P!vars
  <2>1. P!TypeOK'
    BY <1>1 DEF PulseInv, P!TypeOK, P!vars
  <2>2. PulseShape' /\ PulseAlones'
    BY <1>1 DEF PulseInv, PulseShape, PulseAlones, PulseAlone, P!Busy, P!vars
  <2>3. PulseDriven'
    BY <1>1 DEF PulseInv, PulseDriven, PulseAnswered, PulseStarts, PulseIn, PulseHas, P!Busy, P!vars
  <2>4. PulseDoor'
    BY <1>1 DEF PulseInv, PulseDoor, PulseFinal, PulseWanted, PulseIn, P!Busy, P!vars
  <2>5. kind' = "valve" => PulseValve' /\ PulseClean'
    BY <1>1 DEF PulseInv, PulseValve, PulseClean, PulseAlone, PulseStands, PulseStarts, PulseIn,
       P!Busy, P!vars
  <2> QED BY <2>1, <2>2, <2>3, <2>4, <2>5 DEF PulseInv
<1> QED
  BY <1>1, PulseSet, PulseExpire, PulseDrive, PulseMark, PulseStart, PulseStartValve, PulseCrash
  DEF P!Next, P!Restart

LEMMA PulseHolds == Spec => [](part = "pulse" => PulseInv)
<1>1. Init => (part = "pulse" => PulseInv)
  BY PulseInit DEF Init
<1>2. (part = "pulse" => PulseInv) /\ [Next]_vars => (part = "pulse" => PulseInv)'
  <2> SUFFICES ASSUME part = "pulse", PulseInv, [Next]_vars PROVE PulseInv'
    BY PartIsRigid
  <2>1. [P!Next]_(P!vars)
    BY DEF Next, vars, pulseVars, P!vars
  <2> QED BY <2>1, PulseNext
<1> QED BY <1>1, <1>2, PTL DEF Spec

LEMMA PulseSafe == PulseInv => P!CoilReleased /\ P!ValveAgrees
<1> SUFFICES ASSUME PulseInv, P!Quiet PROVE P!CoilReleased /\ P!ValveAgrees
  BY DEF P!CoilReleased, P!ValveAgrees
<1>1. EspTimer \in P!Threads /\ stat \in P!Coils
  BY DEF PulseInv, P!Threads, P!TypeOK
<1>2. ASSUME ~qtimer, NEW c \in P!Coils, c \notin stranded PROVE ~out[c]
  BY <1>1, <1>2 DEF PulseInv, PulseDriven, PulseAnswered, PulseStarts, PulseIn, P!Quiet
<1>3. ASSUME kind = "valve", clean
      PROVE  ~(out["ON"] /\ out["OFF"]) /\ (~qtimer => pos = stat)
  <2>1. PulseClean
    BY <1>3 DEF PulseInv
  <2>2. ~(out["ON"] /\ out["OFF"])
    BY <1>2, <1>3, <2>1 DEF PulseClean, PulseStands, P!Coils
  <2>3. ~qtimer => pos = stat
    BY <1>3, <2>1 DEF PulseClean, PulseStarts, PulseIn, P!Quiet
  <2> QED BY <2>2, <2>3
<1> QED BY <1>2, <1>3 DEF P!CoilReleased, P!ValveAgrees

-----------------------------------------------------------------------------
(* A piston.  While it is clean one call runs at a time, and Motor, the    *)
(* timer and temp_status are what that call has made of them: the ports it *)
(* has passed are released, or the one valve asked for is open behind the  *)
(* pump.                                                                   *)

PistonOnly(t) == \A u \in Pi!Threads : u # t => ~Pi!Busy(u)
PistonOff     == \A o \in Pi!Outs : ~out[o]

\* The call has done with port j what it does for Motor = m.
PistonPassed(t, j, m) ==
    \/ j < run[t].i
    \/ j = run[t].i /\ CASE m = "STOP" -> run[t].at # "stop"
                         [] m = "UP"   -> run[t].at = "DOWN"
                         [] OTHER      -> FALSE

PistonStops(t) ==
    /\ run[t].pump = "off"
    /\ \A j \in 1..Len(ports) :
         PistonPassed(t, j, "STOP") /\ ports[j] \in Pi!Outs => ~out[ports[j]]

PistonTurns(t, d) ==
    /\ \A p \in Pi!Dirs : p # d => ~out[p]
    /\ out["MOTOR"] <=> run[t].pump # "off"
    /\ run[t].pump = "wait" => run[t].at = d
    /\ PistonPassed(t, 1, d) => run[t].pump = "done"
    /\ \A j \in 1..Len(ports) : PistonPassed(t, j, d) /\ ports[j] = d => out[d]

PistonRests ==
    /\ \A d \in Pi!Dirs : out[d] <=> Motor = d
    /\ out["MOTOR"] <=> Motor # "STOP"

PistonInv ==
    /\ Pi!TypeOK
    /\ clean =>
         /\ ~(out["UP"] /\ out["DOWN"])
         /\ Motor # "STOP" => qtimer /\ temp # "unknown"
         /\ Pi!Quiet => PistonRests
         /\ \A t \in Pi!Threads : Pi!Busy(t) =>
              /\ PistonOnly(t)
              /\ IF Motor = "STOP" THEN PistonStops(t) ELSE PistonTurns(t, Motor)

LEMMA PistonBusyIsCall ==
    ASSUME Pi!TypeOK, NEW t \in Pi!Threads
    PROVE  Pi!Busy(t) <=> run[t] \in Pi!Call
  BY DEF Pi!TypeOK, Pi!Busy, Pi!Call, Pi!NoCall

LEMMA PistonInit == Pi!Init => PistonInv
<1> SUFFICES ASSUME Pi!Init PROVE PistonInv
  OBVIOUS
<1>1. Pi!TypeOK
  BY DEF Pi!Init, Pi!TypeOK, Pi!Known
<1>2. PistonRests /\ ~(out["UP"] /\ out["DOWN"])
  BY DEF Pi!Init, PistonRests, Pi!Outs, Pi!Dirs
<1>3. \A t \in Pi!Threads : ~Pi!Busy(t)
  BY DEF Pi!Init, Pi!Busy, Pi!NoCall
<1> QED BY <1>1, <1>2, <1>3 DEF PistonInv, Pi!Init

\* A call begins: with the outputs off if it starts the motor.
LEMMA PistonEnter ==
    ASSUME PistonInv, NEW t \in Pi!Threads, NEW op \in {"press", "set", "expire"},
           NEW s \in Pi!Known, Pi!Enter(t, op, s), UNCHANGED <<ports, eskitip, out>>,
           stat' \in Pi!Known, held' \in BOOLEAN, qtimer' \in BOOLEAN,
           temp' \in Pi!Known \union {"unknown"}, Motor' \in Pi!Dirs \union {"STOP"},
           Motor' # "STOP" => qtimer' /\ temp' # "unknown",
           Motor' # "STOP" => Motor = "STOP" \/ temp = "unknown"
    PROVE  PistonInv'
<1> DEFINE new == [op |-> op, at |-> "stop", i |-> 1, pump |-> "off", stat |-> s]
<1>0. Pi!TypeOK
  BY DEF PistonInv
<1>1. /\ ~Pi!Busy(t) /\ run' = [run EXCEPT ![t] = new]
      /\ clean' = (Pi!Quiet /\ (clean \/ PistonOff))
  BY DEF Pi!Enter, PistonOff
<1>2. new \in Pi!Call
  BY DEF Pi!Call
<1>3. run'[t] = new /\ \A u \in Pi!Threads : u # t => run'[u] = run[u]
  BY <1>0, <1>1 DEF Pi!TypeOK
<1>4. Pi!TypeOK'
  <2>1. run' \in [Pi!Threads -> Pi!Call \union {Pi!NoCall}]
    BY <1>0, <1>1, <1>2 DEF Pi!TypeOK
  <2>2. clean' \in BOOLEAN
    BY <1>1
  <2> QED BY <1>0, <2>1, <2>2 DEF Pi!TypeOK
<1>5. ASSUME clean', Motor' # "STOP" PROVE PistonOff
  <2>1. CASE PistonOff
    BY <2>1
  <2>2. CASE clean
    <3>1. Motor = "STOP" /\ PistonRests
      BY <1>1, <1>5, <2>2 DEF PistonInv
    <3> QED BY <3>1 DEF PistonRests, PistonOff, Pi!Outs, Pi!Dirs
  <2> QED BY <1>1, <1>5, <2>1, <2>2
<1>6. ASSUME clean' PROVE PistonOnly(t)'
  BY <1>1, <1>3, <1>6 DEF PistonOnly, Pi!Quiet, Pi!Busy
<1>7. ASSUME clean' PROVE ~(out["UP"] /\ out["DOWN"])
  BY <1>1, <1>7 DEF PistonInv, PistonOff, Pi!Outs
<1>8. /\ \A j \in 1..Len(ports) : ~PistonPassed(t, j, "STOP")'
      /\ \A d \in Pi!Dirs, j \in 1..Len(ports) : ~PistonPassed(t, j, d)'
      /\ \A d \in Pi!Dirs : ~PistonPassed(t, 1, d)'
  BY <1>3 DEF PistonPassed, Pi!Dirs
<1>9. PistonStops(t)'
  BY <1>3, <1>8 DEF PistonStops
<1>10. ASSUME clean', Motor' # "STOP" PROVE PistonTurns(t, Motor)'
  <2>1. Motor' \in Pi!Dirs
    BY <1>10
  <2>2. PistonOff
    BY <1>5, <1>10
  <2> QED BY <1>3, <1>8, <2>1, <2>2 DEF PistonTurns, PistonOff, Pi!Outs, Pi!Dirs
<1>11. Pi!Busy(t)'
  BY <1>3 DEF Pi!Busy
<1>12. ASSUME clean', NEW u \in Pi!Threads, Pi!Busy(u)' PROVE u = t
  BY <1>6, <1>12 DEF PistonOnly
<1> QED BY <1>4, <1>6, <1>7, <1>9, <1>10, <1>11, <1>12 DEF PistonInv, Pi!Quiet

\* A call goes on with motor_action, and only the outputs change.
LEMMA PistonGoesOn ==
    ASSUME PistonInv, NEW t \in Pi!Threads, Pi!Busy(t), NEW c \in Pi!Call,
           run' = [run EXCEPT ![t] = c],
           UNCHANGED <<ports, eskitip, Motor, temp, stat, held, qtimer, clean>>,
           out' \in [Pi!Outs -> BOOLEAN],
           clean /\ Motor = "STOP" /\ PistonStops(t)
             => PistonStops(t)' /\ ~(out'["UP"] /\ out'["DOWN"]),
           clean /\ Motor # "STOP" /\ PistonTurns(t, Motor) => PistonTurns(t, Motor)'
    PROVE  PistonInv'
<1>0. Pi!TypeOK
  BY DEF PistonInv
<1>1. run'[t] = c /\ \A u \in Pi!Threads : u # t => run'[u] = run[u]
  BY <1>0 DEF Pi!TypeOK
<1>2. run' \in [Pi!Threads -> Pi!Call \union {Pi!NoCall}]
  BY <1>0 DEF Pi!TypeOK
<1>3. Pi!TypeOK'
  BY <1>0, <1>2 DEF Pi!TypeOK
<1>4. \A u \in Pi!Threads : Pi!Busy(u)' <=> Pi!Busy(u)
  BY <1>1 DEF Pi!Busy, Pi!Call
<1>5. ASSUME clean, NEW u \in Pi!Threads, Pi!Busy(u)
      PROVE  u = t /\ PistonOnly(t)'
  BY <1>4, <1>5 DEF PistonInv, PistonOnly
<1>6. ASSUME clean
      PROVE  IF Motor = "STOP" THEN PistonStops(t)' ELSE PistonTurns(t, Motor)'
  BY <1>6 DEF PistonInv
<1>7. ASSUME clean PROVE ~(out'["UP"] /\ out'["DOWN"])
  <2>1. CASE Motor = "STOP"
    BY <1>7, <2>1 DEF PistonInv
  <2>2. CASE Motor # "STOP"
    <3>1. PistonTurns(t, Motor)' /\ Motor' \in Pi!Dirs
      BY <1>0, <1>6, <1>7, <2>2 DEF Pi!TypeOK
    <3> QED BY <3>1 DEF PistonTurns, Pi!Dirs
  <2> QED BY <2>1, <2>2
<1>8. ~Pi!Quiet'
  BY <1>4 DEF Pi!Quiet
<1> QED BY <1>3, <1>4, <1>5, <1>6, <1>7, <1>8 DEF PistonInv

LEMMA PistonNext == PistonInv /\ [Pi!Next]_(Pi!vars) => PistonInv'
<1> SUFFICES ASSUME PistonInv, [Pi!Next]_(Pi!vars) PROVE PistonInv'
  OBVIOUS
<1>0. Pi!TypeOK /\ EspTimer \in Pi!Threads
  BY DEF PistonInv, Pi!Threads
<1>1. CASE UNCHANGED Pi!vars
  <2>1. Pi!TypeOK'
    BY <1>0, <1>1 DEF Pi!TypeOK, Pi!vars
  <2>2. \A t \in Pi!Threads : /\ Pi!Busy(t)' <=> Pi!Busy(t)
                              /\ PistonOnly(t)' <=> PistonOnly(t)
                              /\ PistonStops(t)' <=> PistonStops(t)
                              /\ PistonTurns(t, Motor)' <=> PistonTurns(t, Motor)
    BY <1>1 DEF Pi!vars, Pi!Busy, PistonOnly, PistonStops, PistonTurns, PistonPassed
  <2>3. PistonRests' <=> PistonRests
    BY <1>1 DEF Pi!vars, PistonRests
  <2> QED BY <1>1, <2>1, <2>2, <2>3 DEF PistonInv, Pi!vars, Pi!Quiet
<1>2. ASSUME NEW d \in Pi!Dirs, Pi!PressDown(d) PROVE PistonInv'
  <2> DEFINE s == IF Motor # "STOP" THEN "half" ELSE "process"
  <2>1. /\ Pi!Enter(EspTimer, "press", s) /\ s \in Pi!Known
        /\ UNCHANGED <<ports, eskitip, stat, held, out>>
        /\ Motor' = (IF Motor # "STOP" THEN "STOP" ELSE d)
        /\ temp' = (IF Motor # "STOP" THEN "unknown" ELSE stat)
        /\ qtimer' = (Motor = "STOP")
    BY <1>2 DEF Pi!PressDown, Pi!Known
  <2>2. /\ stat' \in Pi!Known /\ held' \in BOOLEAN /\ qtimer' \in BOOLEAN
        /\ temp' \in Pi!Known \union {"unknown"} /\ Motor' \in Pi!Dirs \union {"STOP"}
        /\ Motor' # "STOP" => qtimer' /\ temp' # "unknown" /\ Motor = "STOP"
    BY <1>0, <2>1 DEF Pi!TypeOK, Pi!Known, Pi!Dirs
  <2> HIDE DEF s
  <2> QED BY <1>0, <2>1, <2>2, PistonEnter
<1>3. CASE Pi!PressLong
  <2>1. Pi!TypeOK'
    BY <1>0, <1>3 DEF Pi!TypeOK, Pi!PressLong
  <2>2. UNCHANGED <<ports, eskitip, Motor, temp, stat, out, qtimer, run, clean>>
    BY <1>3 DEF Pi!PressLong
  <2>3. \A t \in Pi!Threads : /\ Pi!Busy(t)' <=> Pi!Busy(t)
                              /\ PistonOnly(t)' <=> PistonOnly(t)
                              /\ PistonStops(t)' <=> PistonStops(t)
                              /\ PistonTurns(t, Motor)' <=> PistonTurns(t, Motor)
    BY <2>2 DEF Pi!Busy, PistonOnly, PistonStops, PistonTurns, PistonPassed
  <2>4. PistonRests' <=> PistonRests
    BY <2>2 DEF PistonRests
  <2> QED BY <2>1, <2>2, <2>3, <2>4 DEF PistonInv, Pi!Quiet
<1>4. CASE Pi!PressUp
  <2>1. /\ Pi!Enter(EspTimer, "press", "half") /\ "half" \in Pi!Known
        /\ UNCHANGED <<ports, eskitip, stat, out>>
        /\ temp' = "unknown" /\ held' = FALSE /\ Motor' = "STOP" /\ qtimer' = FALSE
    BY <1>4 DEF Pi!PressUp, Pi!Known
  <2>2. stat' \in Pi!Known
    BY <1>0, <2>1 DEF Pi!TypeOK
  <2> QED BY <1>0, <2>1, <2>2, PistonEnter
<1>5. CASE Pi!Expire
  <2>1. CASE temp # "unknown"
    <3>1. /\ Pi!Enter(EspTimer, "expire", temp) /\ UNCHANGED <<ports, eskitip, held, out>>
          /\ qtimer' = FALSE /\ stat' = temp /\ temp' = "unknown" /\ Motor' = "STOP"
      BY <1>5, <2>1 DEF Pi!Expire
    <3>2. temp \in Pi!Known /\ stat' \in Pi!Known /\ held' \in BOOLEAN
      BY <1>0, <2>1, <3>1 DEF Pi!TypeOK
    <3> QED BY <1>0, <3>1, <3>2, PistonEnter
  <2>2. CASE temp = "unknown"
    <3>1. UNCHANGED <<ports, eskitip, Motor, temp, stat, held, out, run, clean>> /\ qtimer' = FALSE
      BY <1>5, <2>2 DEF Pi!Expire
    <3>2. Pi!TypeOK'
      BY <1>0, <3>1 DEF Pi!TypeOK
    <3>3. \A t \in Pi!Threads : /\ Pi!Busy(t)' <=> Pi!Busy(t)
                                /\ PistonOnly(t)' <=> PistonOnly(t)
                                /\ PistonStops(t)' <=> PistonStops(t)
                                /\ PistonTurns(t, Motor)' <=> PistonTurns(t, Motor)
      BY <3>1 DEF Pi!Busy, PistonOnly, PistonStops, PistonTurns, PistonPassed
    <3>4. PistonRests' <=> PistonRests
      BY <3>1 DEF PistonRests
    <3> QED BY <2>2, <3>1, <3>2, <3>3, <3>4 DEF PistonInv, Pi!Quiet
  <2> QED BY <2>1, <2>2
<1>6. ASSUME NEW t \in Tasks, NEW s \in Pi!Known, Pi!Set(t, s) PROVE PistonInv'
  <2>0. t \in Pi!Threads
    BY DEF Pi!Threads
  <2>1. CASE temp = "unknown" /\ s \notin {"closed", "opened"}
    <3>1. UNCHANGED <<ports, eskitip, Motor, temp, held, out, qtimer, run, clean>> /\ stat' = s
      BY <1>6, <2>1 DEF Pi!Set
    <3>2. Pi!TypeOK'
      BY <1>0, <3>1 DEF Pi!TypeOK
    <3>3. \A u \in Pi!Threads : /\ Pi!Busy(u)' <=> Pi!Busy(u)
                                /\ PistonOnly(u)' <=> PistonOnly(u)
                                /\ PistonStops(u)' <=> PistonStops(u)
                                /\ PistonTurns(u, Motor)' <=> PistonTurns(u, Motor)
      BY <3>1 DEF Pi!Busy, PistonOnly, PistonStops, PistonTurns, PistonPassed
    <3>4. PistonRests' <=> PistonRests
      BY <3>1 DEF PistonRests
    <3> QED BY <3>1, <3>2, <3>3, <3>4 DEF PistonInv, Pi!Quiet
  <2>2. CASE ~(temp = "unknown" /\ s \notin {"closed", "opened"})
    <3>1. /\ Pi!Enter(t, "set", s) /\ UNCHANGED <<ports, eskitip, held, out>>
          /\ stat' = IF temp = "unknown" THEN "process" ELSE "half"
          /\ qtimer' = (temp = "unknown")
          /\ temp' = IF temp = "unknown" THEN s ELSE "unknown"
          /\ Motor' = IF temp = "unknown" THEN Pi!Started(s) ELSE "STOP"
      BY <1>6, <2>2 DEF Pi!Set
    <3>2. Pi!Started(s) \in Pi!Dirs
      BY DEF Pi!Started, Pi!Dirs
    <3>3. /\ stat' \in Pi!Known /\ held' \in BOOLEAN /\ qtimer' \in BOOLEAN
          /\ temp' \in Pi!Known \union {"unknown"} /\ Motor' \in Pi!Dirs \union {"STOP"}
          /\ Motor' # "STOP" => qtimer' /\ temp' # "unknown" /\ temp = "unknown"
      BY <1>0, <3>1, <3>2 DEF Pi!TypeOK, Pi!Known
    <3> QED BY <2>0, <3>1, <3>3, PistonEnter
  <2> QED BY <2>1, <2>2
<1>7. ASSUME NEW t \in Pi!Threads, Pi!Release(t) PROVE PistonInv'
  <2> DEFINE c == [run[t] EXCEPT !.at = "UP"]
  <2>1. /\ Pi!Busy(t) /\ run[t] \in Pi!Call /\ run[t].at = "stop" /\ run[t].i \in 1..Len(ports)
        /\ UNCHANGED <<ports, eskitip, Motor, temp, stat, held, qtimer, clean>>
        /\ out' = IF Motor = "STOP" /\ ports[run[t].i] \in Pi!Outs
                    THEN [out EXCEPT ![ports[run[t].i]] = FALSE] ELSE out
    BY <1>0, <1>7, PistonBusyIsCall DEF Pi!Release, Pi!At, Pi!Port, Pi!Call
  <2>2. run' = [run EXCEPT ![t] = c]
    <3>1. run' = [run EXCEPT ![t].at = "UP", ![t].pump = run[t].pump, ![t].i = run[t].i]
      BY <1>0, <1>7 DEF Pi!Release, Pi!Next1, Pi!TypeOK
    <3> QED BY <1>0, <2>1, <3>1 DEF Pi!TypeOK, Pi!Call
  <2>3. /\ c \in Pi!Call /\ c.at = "UP" /\ c.i = run[t].i /\ c.pump = run[t].pump
    BY <2>1 DEF Pi!Call
  <2>4. run'[t] = c
    BY <1>0, <2>2 DEF Pi!TypeOK
  <2>5. out' \in [Pi!Outs -> BOOLEAN]
    BY <1>0, <2>1 DEF Pi!TypeOK
  <2> HIDE DEF c
  <2>6. ASSUME Motor = "STOP", PistonStops(t)
        PROVE  PistonStops(t)'
    <3>1. \A j \in 1..Len(ports) : PistonPassed(t, j, "STOP")' =>
             PistonPassed(t, j, "STOP") \/ j = run[t].i
      BY <2>3, <2>4 DEF PistonPassed
    <3>2. ASSUME NEW j \in 1..Len(ports), PistonPassed(t, j, "STOP")', ports[j] \in Pi!Outs
          PROVE  ~out'[ports[j]]
      BY <1>0, <2>1, <2>6, <3>1, <3>2 DEF PistonStops, Pi!TypeOK
    <3> QED BY <2>1, <2>3, <2>4, <2>6, <3>2 DEF PistonStops
  <2>7. ASSUME Motor # "STOP", PistonTurns(t, Motor) PROVE PistonTurns(t, Motor)'
    <3>1. Motor \in Pi!Dirs
      BY <1>0, <2>7 DEF Pi!TypeOK
    <3>2. \A j \in 1..Len(ports) : PistonPassed(t, j, Motor)' <=> PistonPassed(t, j, Motor)
      BY <2>1, <2>3, <2>4, <3>1 DEF PistonPassed, Pi!Dirs
    <3>3. PistonPassed(t, 1, Motor)' <=> PistonPassed(t, 1, Motor)
      BY <2>1, <2>3, <2>4, <3>1 DEF PistonPassed, Pi!Dirs
    <3> QED BY <2>1, <2>3, <2>4, <2>7, <3>1, <3>2, <3>3 DEF PistonTurns, Pi!Dirs
  <2>8. ASSUME clean, Motor = "STOP" PROVE ~(out'["UP"] /\ out'["DOWN"])
    BY <1>0, <2>1, <2>8 DEF PistonInv, Pi!TypeOK, Pi!Outs
  <2> QED BY <2>1, <2>2, <2>3, <2>5, <2>6, <2>7, <2>8, PistonGoesOn
<1>8. ASSUME NEW t \in Pi!Threads, Pi!Leave(t) PROVE PistonInv'
  <2>1. /\ Pi!Busy(t) /\ run[t] \in Pi!Call /\ run[t].i > Len(ports)
        /\ UNCHANGED <<ports, eskitip, Motor, temp, held, out, qtimer, clean>>
        /\ run' = [run EXCEPT ![t] = Pi!NoCall] /\ stat' \in Pi!Known
    BY <1>0, <1>8, PistonBusyIsCall DEF Pi!Leave, Pi!TypeOK, Pi!Call
  <2>2. /\ ~Pi!Busy(t)'
        /\ \A u \in Pi!Threads : u # t => /\ run'[u] = run[u]
                                          /\ Pi!Busy(u)' <=> Pi!Busy(u)
    BY <1>0, <2>1 DEF Pi!TypeOK, Pi!Busy, Pi!NoCall
  <2>3. Pi!TypeOK'
    <3>1. run' \in [Pi!Threads -> Pi!Call \union {Pi!NoCall}]
      BY <1>0, <2>1 DEF Pi!TypeOK
    <3> QED BY <1>0, <2>1, <3>1 DEF Pi!TypeOK
  <2>4. ASSUME clean PROVE \A u \in Pi!Threads : ~Pi!Busy(u)'
    BY <2>1, <2>2, <2>4 DEF PistonInv, PistonOnly
  <2>5. ASSUME NEW o \in Pi!Outs
        PROVE  \E j \in 1..Len(ports) : ports[j] = o
    BY <1>0, PistonAssumption DEF Pi!TypeOK, Pi!Outs
  <2>6. Len(ports) \in Nat /\ Len(ports) > 0 /\ run[t].i \in Nat
    <3>1. Len(ports) \in Nat
      BY <1>0, PistonAssumption, LenProperties DEF Pi!TypeOK
    <3>2. \E j \in 1..Len(ports) : ports[j] = "MOTOR"
      BY <2>5 DEF Pi!Outs
    <3> QED BY <2>1, <3>1, <3>2 DEF Pi!Call
  <2>7. \A j \in 1..Len(ports), m \in Pi!Dirs \union {"STOP"} : PistonPassed(t, j, m)
    BY <2>1, <2>6 DEF PistonPassed
  <2>8. ASSUME clean PROVE PistonRests'
    <3>1. IF Motor = "STOP" THEN PistonStops(t) ELSE PistonTurns(t, Motor)
      BY <2>1, <2>8 DEF PistonInv
    <3>2. CASE Motor = "STOP"
      <4>1. \A o \in Pi!Outs : ~out[o]
        BY <2>5, <2>7, <3>1, <3>2 DEF PistonStops
      <4> QED BY <1>0, <2>1, <3>2, <4>1 DEF PistonRests, Pi!Outs, Pi!Dirs, Pi!TypeOK
    <3>3. CASE Motor # "STOP"
      <4>1. Motor \in Pi!Dirs /\ Motor \in Pi!Outs
        BY <1>0, <3>3 DEF Pi!TypeOK, Pi!Dirs, Pi!Outs
      <4>2. out[Motor]
        BY <2>5, <2>7, <3>1, <3>3, <4>1 DEF PistonTurns
      <4>3. run[t].pump = "done"
        BY <2>6, <2>7, <3>1, <3>3, <4>1 DEF PistonTurns
      <4> QED BY <2>1, <3>1, <3>3, <4>1, <4>2, <4>3 DEF PistonRests, PistonTurns
    <3> QED BY <3>2, <3>3
  <2> QED BY <2>1, <2>3, <2>4, <2>8 DEF PistonInv, Pi!Quiet
<1>9. ASSUME NEW t \in Pi!Threads, NEW p \in Pi!Dirs, Pi!Pump(t, p) PROVE PistonInv'
  <2> DEFINE c == [run[t] EXCEPT !.pump = "wait"]
  <2>1. /\ Pi!Busy(t) /\ run[t] \in Pi!Call /\ run[t].at = p /\ run[t].pump = "off" /\ Motor = p
        /\ UNCHANGED <<ports, eskitip, Motor, temp, stat, held, qtimer, clean>>
        /\ out' = [out EXCEPT !["MOTOR"] = TRUE]
    BY <1>0, <1>9, PistonBusyIsCall DEF Pi!Pump, Pi!At, Pi!Call
  <2>2. run' = [run EXCEPT ![t] = c]
    BY <1>0, <1>9 DEF Pi!Pump, Pi!TypeOK
  <2>3. /\ c \in Pi!Call /\ c.at = p /\ c.i = run[t].i /\ c.pump = "wait"
    BY <2>1 DEF Pi!Call
  <2>4. run'[t] = c
    BY <1>0, <2>2 DEF Pi!TypeOK
  <2>5. out' \in [Pi!Outs -> BOOLEAN] /\ out'["MOTOR"] /\ out'["UP"] = out["UP"]
        /\ out'["DOWN"] = out["DOWN"] /\ p # "STOP"
    BY <1>0, <2>1 DEF Pi!TypeOK, Pi!Outs, Pi!Dirs
  <2> HIDE DEF c
  <2>6. ASSUME PistonTurns(t, Motor) PROVE PistonTurns(t, Motor)'
    <3>1. \A j \in Nat : PistonPassed(t, j, Motor)' <=> PistonPassed(t, j, Motor)
      BY <2>1, <2>3, <2>4 DEF PistonPassed
    <3>2. ~PistonPassed(t, 1, Motor)
      BY <2>1, <2>6 DEF PistonTurns
    <3>3. ~PistonPassed(t, 1, Motor)'
      BY <3>1, <3>2
    <3>4. \A j \in 1..Len(ports) : PistonPassed(t, j, Motor)' <=> PistonPassed(t, j, Motor)
      BY <2>1, <2>3, <2>4 DEF PistonPassed
    <3> QED BY <2>1, <2>3, <2>4, <2>5, <2>6, <3>3, <3>4 DEF PistonTurns, Pi!Dirs
  <2> QED BY <2>1, <2>2, <2>3, <2>5, <2>6, PistonGoesOn
<1>10. ASSUME NEW t \in Pi!Threads, NEW p \in Pi!Dirs, Pi!Valve(t, p) PROVE PistonInv'
  <2> DEFINE at == IF p = "UP" THEN "DOWN" ELSE "stop"
             pump == IF run[t].pump = "wait" \/ Motor = p THEN "done" ELSE run[t].pump
             i == IF p = "DOWN" THEN run[t].i + 1 ELSE run[t].i
             c == [run[t] EXCEPT !.at = at, !.pump = pump, !.i = i]
  <2>0. p \in {"UP", "DOWN"} /\ p \in Pi!Outs
    BY DEF Pi!Dirs, Pi!Outs
  <2>1. /\ Pi!Busy(t) /\ run[t] \in Pi!Call /\ run[t].at = p /\ run[t].i \in 1..Len(ports)
        /\ ~(Motor = p /\ run[t].pump = "off")
        /\ UNCHANGED <<ports, eskitip, Motor, temp, stat, held, qtimer, clean>>
        /\ out' = IF (Motor = p \/ run[t].pump = "wait") /\ ports[run[t].i] = p
                    THEN [out EXCEPT ![p] = TRUE] ELSE out
    BY <1>0, <1>10, PistonBusyIsCall DEF Pi!Valve, Pi!At, Pi!Call, Pi!Opens, Pi!Port
  <2>2. run' = [run EXCEPT ![t] = c]
    <3>1. run' = [run EXCEPT ![t].at = at, ![t].pump = pump, ![t].i = i]
      BY <1>0, <1>10, <2>0 DEF Pi!Valve, Pi!Next1, Pi!TypeOK
    <3> QED BY <1>0, <2>1, <3>1 DEF Pi!TypeOK, Pi!Call
  <2>3. /\ c \in Pi!Call /\ c.at = at /\ c.i = i /\ c.pump = pump
    <3>1. at \in {"stop", "UP", "DOWN"} /\ pump \in {"off", "wait", "done"} /\ i \in Nat \ {0}
      BY <2>0, <2>1 DEF Pi!Call
    <3> HIDE DEF at, pump, i
    <3> QED BY <2>1, <3>1 DEF Pi!Call
  <2>4. run'[t] = c
    BY <1>0, <2>2 DEF Pi!TypeOK
  <2>5. out' \in [Pi!Outs -> BOOLEAN]
    BY <1>0, <2>0, <2>1 DEF Pi!TypeOK
  <2> HIDE DEF c
  <2>6. ASSUME Motor = "STOP", PistonStops(t), clean
        PROVE  PistonStops(t)' /\ ~(out'["UP"] /\ out'["DOWN"])
    <3>1. \A j \in 1..Len(ports) : PistonPassed(t, j, "STOP")' <=> PistonPassed(t, j, "STOP")
      BY <2>0, <2>1, <2>3, <2>4 DEF PistonPassed
    <3>2. run[t].pump = "off" /\ out' = out
      BY <2>0, <2>1, <2>6 DEF PistonStops
    <3>3. pump = "off"
      BY <2>0, <2>6, <3>2
    <3>4. ~(out["UP"] /\ out["DOWN"])
      BY <2>6 DEF PistonInv
    <3> QED BY <2>1, <2>3, <2>4, <2>6, <3>1, <3>2, <3>3, <3>4 DEF PistonStops
  <2>7. ASSUME Motor # "STOP", PistonTurns(t, Motor) PROVE PistonTurns(t, Motor)'
    <3>1. Motor \in {"UP", "DOWN"}
      BY <1>0, <2>7 DEF Pi!TypeOK, Pi!Dirs
    <3>2. CASE Motor = p
      <4>1. run[t].pump # "off" /\ pump = "done"
        BY <2>1, <3>2
      <4>2. \A j \in 1..Len(ports) : PistonPassed(t, j, Motor)' =>
               PistonPassed(t, j, Motor) \/ j = run[t].i
        BY <2>0, <2>1, <2>3, <2>4, <3>2 DEF PistonPassed
      <4>3. /\ out'["MOTOR"] <=> out["MOTOR"]
            /\ \A q \in Pi!Dirs : q # Motor => out'[q] = out[q]
            /\ out[Motor] => out'[Motor]
            /\ ports[run[t].i] = Motor => out'[Motor]
        BY <1>0, <2>0, <2>1, <3>2 DEF Pi!TypeOK, Pi!Outs, Pi!Dirs
      <4> QED BY <2>1, <2>3, <2>4, <2>7, <3>2, <4>1, <4>2, <4>3 DEF PistonTurns
    <3>3. CASE Motor # p
      <4>1. run[t].pump # "wait" /\ pump = run[t].pump /\ out' = out
        BY <2>1, <2>7, <3>3 DEF PistonTurns
      <4>2. \A j \in 1..Len(ports) : PistonPassed(t, j, Motor)' <=> PistonPassed(t, j, Motor)
        BY <2>0, <2>1, <2>3, <2>4, <3>1, <3>3 DEF PistonPassed
      <4>3. PistonPassed(t, 1, Motor)' <=> PistonPassed(t, 1, Motor)
        BY <2>0, <2>1, <2>3, <2>4, <3>1, <3>3 DEF PistonPassed
      <4> QED BY <2>1, <2>3, <2>4, <2>7, <4>1, <4>2, <4>3 DEF PistonTurns
    <3> QED BY <3>2, <3>3
  <2> QED BY <2>1, <2>2, <2>3, <2>5, <2>6, <2>7, PistonGoesOn
<1>11. CASE Pi!Restart
  <2>1. Pi!TypeOK'
    BY <1>0, <1>11 DEF Pi!Restart, Pi!TypeOK, Pi!Known
  <2>2. \A t \in Pi!Threads : ~Pi!Busy(t)'
    BY <1>11 DEF Pi!Restart, Pi!Busy, Pi!NoCall
  <2>3. PistonRests' /\ ~(out["UP"] /\ out["DOWN"])'
    BY <1>11 DEF Pi!Restart, PistonRests, Pi!Outs, Pi!Dirs
  <2> QED BY <1>11, <2>1, <2>2, <2>3 DEF PistonInv, Pi!Restart
<1> QED
  BY <1>1, <1>2, <1>3, <1>4, <1>5, <1>6, <1>7, <1>8, <1>9, <1>10, <1>11 DEF Pi!Next

LEMMA PistonHolds == Spec => [](part = "piston" => PistonInv)
<1>1. Init => (part = "piston" => PistonInv)
  BY PistonInit DEF Init
<1>2. (part = "piston" => PistonInv) /\ [Next]_vars => (part = "piston" => PistonInv)'
  <2> SUFFICES ASSUME part = "piston", PistonInv, [Next]_vars PROVE PistonInv'
    BY PartIsRigid
  <2>1. [Pi!Next]_(Pi!vars)
    BY DEF Next, vars, pistonVars, Pi!vars
  <2> QED BY <2>1, PistonNext
<1> QED BY <1>1, <1>2, PTL DEF Spec

LEMMA PistonSafe == PistonInv => Pi!DirectionsExclusive /\ Pi!CoilReleased
<1> SUFFICES ASSUME PistonInv, clean
             PROVE  Pi!DirectionsExclusive /\ Pi!CoilReleased
  BY DEF Pi!DirectionsExclusive, Pi!CoilReleased
<1>1. Pi!Quiet => PistonRests
  BY DEF PistonInv
<1>2. Pi!Quiet /\ (\E o \in Pi!Outs : out[o]) => Motor # "STOP"
  BY <1>1 DEF PistonRests, Pi!Outs, Pi!Dirs
<1> QED BY <1>1, <1>2 DEF PistonInv, PistonRests, Pi!DirectionsExclusive, Pi!CoilReleased

-----------------------------------------------------------------------------
\* The outputs of a lamp and the relays of one expander are as the status of their
\* function says, for any number of outputs, relays and callers, as long as no calls
\* overlapped: what is written for one function leaves the others alone.
THEOREM OutputsAreTrue == Spec => []OutputsFollowStatus
<1>1. LampInv => L!OutputsFollowStatus
  BY DEF LampInv, L!OutputsFollowStatus
<1>2. RelayInv => R!OutputsFollowStatus
  BY DEF RelayInv, RelayMatch, R!OutputsFollowStatus, R!Quiet
<1> QED BY <1>1, <1>2, LampHolds, RelayHolds, PTL DEF OutputsFollowStatus

\* Under the same condition a lamp or a socket that is on for some minutes has the
\* timer that will switch it off.
THEOREM LimitedHasTimer == Spec => []LimitedIsTimed
<1>1. LampInv => L!LimitedIsTimed
  BY DEF LampInv, LampLimited, L!LimitedIsTimed
<1>2. RelayInv => R!LimitedIsTimed
  BY DEF RelayInv, RelayMatch, R!LimitedIsTimed, R!Quiet
<1> QED BY <1>1, <1>2, LampHolds, RelayHolds, PTL DEF LimitedIsTimed

\* No coil stays energised when nothing is left to release it, but those that a
\* restart or a command crossing a door's pulse left on; and a piston whose calls do
\* not overlap has its pump and valves off unless its timer runs.
THEOREM CoilsAreReleased == Spec => []CoilReleased
<1> QED BY PulseHolds, PulseSafe, PistonHolds, PistonSafe, PTL DEF CoilReleased

\* The coils of opposite directions are never on together, and at rest the valve and
\* the piston are where they were sent, for any number of callers and any order of
\* the ports, as long as no calls overlapped.
THEOREM DirectionsExclude == Spec => []DirectionsExclusive
<1> QED BY PulseHolds, PulseSafe, PistonHolds, PistonSafe, PTL DEF DirectionsExclusive

\* Every variable of every device keeps its type, overlapping calls and restarts
\* included.
THEOREM TypeCorrect == Spec => []TypeOK
<1>1. /\ LampInv => L!TypeOK
      /\ RelayInv => R!TypeOK
      /\ PulseInv => P!TypeOK
      /\ PistonInv => Pi!TypeOK
      /\ ButtonInv => B!TypeOK
      /\ RemoteInv => V!TypeOK
  BY DEF LampInv, RelayInv, PulseInv, PistonInv, ButtonInv, RemoteInv
<1> QED BY <1>1, LampHolds, RelayHolds, PulseHolds, PistonHolds, ButtonHolds, RemoteHolds, PTL
        DEF TypeOK
=============================================================================
