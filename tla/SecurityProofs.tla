--------------------------- MODULE SecurityProofs ---------------------------
(***************************************************************************)
(* What the alarm panel guarantees for any list of ports and any           *)
(* commanders, with restarts at any step: of what is claimed, all but the  *)
(* countdown's end, which is a matter of fairness.                         *)
(***************************************************************************)
EXTENDS Security, TLAPS

PcValues == {"idle", "deafen", "mark", "sound", "expired", "open", "reopen",
             "stop", "again", "closed?", "closes", "close", "activate", "unmark",
             "post", "process?", "cancel", "opened?", "show", "stop?", "stops",
             "save", "closeSave", "stopSave", "againSave"}

\* The three parts of the type invariant: values, ports, and control.
Values  == /\ status \in Statuses /\ saved \in Statuses
           /\ timer \in BOOLEAN /\ aborted \in BOOLEAN /\ chg \in [Commanders -> BOOLEAN]
           /\ asked \in BOOLEAN /\ restored \in BOOLEAN /\ crossed \in BOOLEAN /\ overlap \in Overlaps
PortsOK == /\ active \in [Ports -> BOOLEAN]
           /\ cancelled \in SUBSET Ports /\ touched \in SUBSET Ports
           /\ alarm \in SUBSET Sensors /\ on \in SUBSET Sirens
Control == /\ pc \in [Tasks -> PcValues]
           /\ at \in [Tasks -> 1..(Len(List) + 1)]
           /\ wire \in [Tasks -> {"no", "write", "back"}]

LEMMA TypeParts == TypeOK <=> Values /\ PortsOK /\ Control
  BY DEF TypeOK, Values, PortsOK, Control, PcValues

\* Where a task may be in the list, and when it waits for a siren.
Places == /\ \A t \in Tasks : wire[t] # "no" =>
                 ~Ended(t) /\ pc[t] \in {"sound", "close", "stop", "again"}
          /\ \A t \in Tasks : wire[t] = "write" => Here(t) \in Sirens
          /\ \A t \in Tasks : pc[t] \in {"deafen", "mark", "reopen", "activate", "unmark"} => ~Ended(t)
          /\ pc["esp_timer"] \in {"deafen", "mark"} => Here("esp_timer") \in Sensors
          /\ pc["esp_timer"] \notin {"close", "stop", "again"}
          /\ \A c \in Commanders :
                 pc[c] \notin {"deafen", "mark", "sound", "expired", "open", "reopen"}

-----------------------------------------------------------------------------
LEMMA InList == Len(List) \in Nat /\ \A i \in 1..Len(List) : List[i] \in Ports
  BY ListAssumption DEF Ports

\* A port a task is at is one of the list, and there is a place after it.
LEMMA AtPort ==
  ASSUME Control, NEW t \in Tasks, ~Ended(t)
  PROVE  /\ at[t] \in 1..Len(List) /\ at[t] + 1 \in 1..(Len(List) + 1)
         /\ Here(t) \in Ports
  BY InList DEF Control, Ended, Here

LEMMA TasksAre == "esp_timer" \in Tasks /\ \A c \in Commanders : c \in Tasks /\ c # "esp_timer"
  BY CommandersAssumption DEF Tasks

\* Every step is one of these.
LEMMA Steps ==
  ASSUME [Next]_vars
  PROVE  \/ \E t \in Tasks : CallSiren(t) \/ Switch(t) \/ ReadBack(t) \/ EndWalk(t) \/ Save(t)
         \/ (\E i \in DOMAIN List : SensorTests(i)) \/ SensorDeafens \/ SensorMarks \/ SensorAlarms
         \/ Expire \/ AlarmOpen \/ OpenUnmarks \/ OpenActivates
         \/ \E c \in Commanders :
              \/ StopStores(c) \/ \E s \in {"closed", "process", "opened"} : SetStores(c, s)
              \/ TestsClosed(c) \/ CloseStores(c) \/ CloseActivates(c) \/ CloseUnmarks(c) \/ Posts(c)
              \/ TestsProcess(c) \/ CancelCountdown(c) \/ TestsOpened(c) \/ ShowCountdown(c)
              \/ TestsStop(c) \/ StopsAgain(c)
         \/ \E p \in Cancellable : UserSets(p)
         \/ Restart
         \/ UNCHANGED vars
<1>1. ASSUME NEW c \in Commanders, Command(c)
      PROVE  StopStores(c) \/ \E s \in {"closed", "process", "opened"} : SetStores(c, s)
  BY <1>1, CommandersAssumption DEF Command
<1> QED BY <1>1, TasksAre DEF Next, TimerStep, Serve, Walk

LEMMA InitType == Init => Values /\ PortsOK /\ Control /\ Places
<1> SUFFICES ASSUME Init PROVE Values /\ PortsOK /\ Control /\ Places
  OBVIOUS
<1>1. Values
  BY DEF Init, Values, Statuses
<1>2. PortsOK
  BY DEF Init, PortsOK
<1>3. Control
  BY InList DEF Init, Control, PcValues
<1>4. Places
  BY TasksAre DEF Init, Places
<1> QED BY <1>1, <1>2, <1>3, <1>4

LEMMA NextType ==
  ASSUME Values, PortsOK, Control, Places, [Next]_vars
  PROVE  Values' /\ PortsOK' /\ Control' /\ Places'
<1> USE TasksAre
<1>1. ASSUME NEW t \in Tasks, CallSiren(t)
      PROVE  Values' /\ PortsOK' /\ Control' /\ Places'
  <2>1. at[t] \in 1..Len(List) /\ at[t] + 1 \in 1..(Len(List) + 1)
    BY <1>1, AtPort DEF CallSiren
  <2>2. Values' /\ PortsOK'
    BY <1>1 DEF CallSiren, Values, PortsOK, flags, seen
  <2>3. Control'
    BY <1>1, <2>1 DEF CallSiren, AfterSiren, Go, Advance, Control, PcValues
  <2>4. Places'
    BY <1>1 DEF CallSiren, AfterSiren, Go, Advance, Control, Places, Ended, Here, Sounds, Silences
  <2> QED BY <2>2, <2>3, <2>4
<1>2. ASSUME NEW t \in Tasks, Switch(t)
      PROVE  Values' /\ PortsOK' /\ Control' /\ Places'
  <2>1. Here(t) \in Sirens
    BY <1>2 DEF Switch, Places
  <2>2. Values' /\ PortsOK'
    BY <1>2, <2>1 DEF Switch, Values, PortsOK, flags, seen
  <2>3. Control'
    BY <1>2 DEF Switch, Control
  <2>4. Places'
    BY <1>2 DEF Switch, Control, Places, Ended, Here
  <2> QED BY <2>2, <2>3, <2>4
<1>3. ASSUME NEW t \in Tasks, ReadBack(t)
      PROVE  Values' /\ PortsOK' /\ Control' /\ Places'
  <2>1. ~Ended(t)
    BY <1>3 DEF ReadBack, Places
  <2>2. Values' /\ PortsOK'
    BY <1>3 DEF ReadBack, Values, PortsOK, flags, seen
  <2>3. Control'
    BY <1>3, <2>1, AtPort DEF ReadBack, AfterSiren, Go, Advance, Control, PcValues
  <2>4. Places'
    BY <1>3, <2>1 DEF ReadBack, AfterSiren, Go, Advance, Control, Places, Ended, Here
  <2> QED BY <2>2, <2>3, <2>4
<1>4. ASSUME NEW t \in Tasks, EndWalk(t) \/ Save(t)
      PROVE  Values' /\ PortsOK' /\ Control' /\ Places'
  <2>1. Values' /\ PortsOK'
    BY <1>4 DEF EndWalk, Save, Values, PortsOK, flags, seen
  <2>2. Control'
    BY <1>4, InList DEF EndWalk, Save, Go, Rewind, Control, PcValues, walk
  <2>3. Places'
    BY <1>4 DEF EndWalk, Save, Go, Rewind, Control, Places, Ended, Here, walk
  <2> QED BY <2>1, <2>2, <2>3
<1>5. ASSUME NEW i \in DOMAIN List, SensorTests(i)
      PROVE  Values' /\ PortsOK' /\ Control' /\ Places'
  <2>1. Values' /\ PortsOK'
    BY <1>5 DEF SensorTests, Values, PortsOK, flags, seen
  <2>2. i \in 1..Len(List) /\ i \in 1..(Len(List) + 1)
    BY ListAssumption, InList
  <2>3. Control'
    BY <1>5, <2>2 DEF SensorTests, Go, Control, PcValues
  <2>4. Places'
    BY <1>5, <2>2, InList DEF SensorTests, At, Go, Control, Places, Ended, Here
  <2> QED BY <2>1, <2>3, <2>4
<1>6. CASE SensorDeafens \/ SensorMarks \/ SensorAlarms
  <2>1. Values'
    <3>1. CASE SensorDeafens
      BY <3>1 DEF SensorDeafens, Values, seen
    <3>2. CASE SensorMarks
      <4>1. crossed' \in BOOLEAN
        BY <3>2 DEF SensorMarks
      <4> QED BY <3>2, <4>1 DEF SensorMarks, Values
    <3>3. CASE SensorAlarms
      BY <3>3 DEF SensorAlarms, Stores, Values, Statuses
    <3> QED BY <1>6, <3>1, <3>2, <3>3
  <2>2. SensorMarks => Here("esp_timer") \in Sensors
    BY DEF SensorMarks, At, Places
  <2>3. PortsOK'
    BY <1>6, <2>2 DEF SensorDeafens, SensorMarks, SensorAlarms, PortsOK, flags
  <2>4. Control'
    <3>1. CASE SensorDeafens
      BY <3>1 DEF SensorDeafens, Go, Control, PcValues, walk
    <3>2. CASE SensorMarks
      BY <3>2, InList DEF SensorMarks, Go, Rewind, Control, PcValues
    <3>3. CASE SensorAlarms
      BY <3>3, InList DEF SensorAlarms, Go, Rewind, Control, PcValues
    <3> QED BY <1>6, <3>1, <3>2, <3>3
  <2>5. Places'
    BY <1>6 DEF SensorDeafens, SensorMarks, SensorAlarms, At, Go, Rewind, Control, Places, Ended, Here, walk
  <2> QED BY <2>1, <2>3, <2>4, <2>5
<1>7. CASE Expire \/ AlarmOpen
  <2>1. Values' /\ PortsOK'
    BY <1>7 DEF Expire, AlarmOpen, Stores, Values, Statuses, PortsOK, flags, seen
  <2>2. Control' /\ Places'
    BY <1>7 DEF Expire, AlarmOpen, At, Go, Control, PcValues, Places, Ended, Here, walk
  <2> QED BY <2>1, <2>2
<1>8. CASE OpenUnmarks \/ OpenActivates
  <2>1. ~Ended("esp_timer")
    BY <1>8 DEF OpenUnmarks, OpenActivates, At, Places
  <2>2. Values'
    BY <1>8 DEF OpenUnmarks, OpenActivates, Values, seen
  <2>3. PortsOK'
    <3>1. CASE OpenUnmarks
      BY <3>1 DEF OpenUnmarks, PortsOK
    <3>2. CASE OpenActivates
      <4>1. (active[Here("esp_timer")] \/ Reopens(Here("esp_timer"))) \in BOOLEAN
        OBVIOUS
      <4>2. active' \in [Ports -> BOOLEAN]
        BY <3>2, <4>1 DEF OpenActivates, PortsOK, Reopens
      <4> QED BY <3>2, <4>2 DEF OpenActivates, PortsOK
    <3> QED BY <1>8, <3>1, <3>2
  <2>4. Control'
    BY <1>8, <2>1, AtPort DEF OpenUnmarks, OpenActivates, Go, Advance, Control, PcValues, walk
  <2>5. Places'
    BY <1>8, <2>1 DEF OpenUnmarks, OpenActivates, At, Go, Advance, Control, Places, Ended, Here, walk
  <2> QED BY <2>2, <2>3, <2>4, <2>5
<1>9. ASSUME NEW c \in Commanders,
             StopStores(c) \/ (\E s \in {"closed", "process", "opened"} : SetStores(c, s))
               \/ CloseStores(c) \/ StopsAgain(c) \/ CancelCountdown(c) \/ ShowCountdown(c)
      PROVE  Values' /\ PortsOK' /\ Control' /\ Places'
  <2>1. Values'
    BY <1>9 DEF StopStores, SetStores, CloseStores, StopsAgain, CancelCountdown, ShowCountdown,
                Stores, Values, Statuses, Reacting
  <2>2. PortsOK'
    BY <1>9 DEF StopStores, SetStores, CloseStores, StopsAgain, CancelCountdown, ShowCountdown,
                PortsOK, flags
  <2>3. Control' /\ Places'
    BY <1>9 DEF StopStores, SetStores, CloseStores, StopsAgain, CancelCountdown, ShowCountdown,
                At, Go, Control, PcValues, Places, Ended, Here, walk
  <2> QED BY <2>1, <2>2, <2>3
<1>10. ASSUME NEW c \in Commanders,
              TestsClosed(c) \/ Posts(c) \/ TestsProcess(c) \/ TestsOpened(c) \/ TestsStop(c)
       PROVE  Values' /\ PortsOK' /\ Control' /\ Places'
  <2>1. Values' /\ PortsOK'
    BY <1>10 DEF TestsClosed, Posts, TestsProcess, TestsOpened, TestsStop, TimStop, TimStart,
                 Values, PortsOK, flags, seen
  <2>2. Control' /\ Places'
    BY <1>10 DEF TestsClosed, Posts, TestsProcess, TestsOpened, TestsStop,
                 At, Go, Control, PcValues, Places, Ended, Here, walk
  <2> QED BY <2>1, <2>2
<1>11. ASSUME NEW c \in Commanders, CloseActivates(c) \/ CloseUnmarks(c)
       PROVE  Values' /\ PortsOK' /\ Control' /\ Places'
  <2>1. ~Ended(c)
    BY <1>11 DEF CloseActivates, CloseUnmarks, At, Places
  <2>2. Values' /\ PortsOK'
    BY <1>11 DEF CloseActivates, CloseUnmarks, Values, PortsOK, seen
  <2>3. Control'
    BY <1>11, <2>1, AtPort DEF CloseActivates, CloseUnmarks, Go, Advance, Control, PcValues, walk
  <2>4. Places'
    BY <1>11, <2>1 DEF CloseActivates, CloseUnmarks, At, Go, Advance, Control, Places, Ended, Here, walk
  <2> QED BY <2>2, <2>3, <2>4
<1>12. ASSUME NEW p \in Cancellable, UserSets(p)
       PROVE  Values' /\ PortsOK' /\ Control' /\ Places'
  <2>1. Values' /\ PortsOK'
    BY <1>12, CancellableAssumption DEF UserSets, Values, PortsOK, seen
  <2>2. Control' /\ Places'
    BY <1>12 DEF UserSets, Control, Places, Ended, Here, walk
  <2> QED BY <2>1, <2>2
<1>13. CASE Restart
  <2>1. Values' /\ PortsOK'
    BY <1>13 DEF Restart, Values, PortsOK
  <2>2. Control' /\ Places'
    BY <1>13, InList DEF Restart, Control, PcValues, Places
  <2> QED BY <2>1, <2>2
<1>14. CASE UNCHANGED vars
  BY <1>14 DEF vars, flags, walk, seen, Values, PortsOK, Control, Places, Ended, Here
<1> QED BY <1>1, <1>2, <1>3, <1>4, <1>5, <1>6, <1>7, <1>8, <1>9, <1>10, <1>11, <1>12, <1>13, <1>14, Steps

\* Every value of the panel keeps its range.
THEOREM TypeCorrect == Spec => []TypeOK
<1>1. Values /\ PortsOK /\ Control /\ Places /\ [Next]_vars
        => Values' /\ PortsOK' /\ Control' /\ Places'
  BY NextType
<1> QED BY <1>1, InitType, TypeParts, PTL DEF Spec

-----------------------------------------------------------------------------
(* Overlapping in blocking calls only                                      *)

\* Where no preemption hits, one task at most is between two blocking calls.
OneRuns == overlap = "blocked" =>
             \A t, u \in Tasks : t # u => Waiting(t) \/ Waiting(u)

\* A step of task t leaves every other task where it is.
Alone(t) == /\ MayRun(t) /\ overlap' = overlap
            /\ \A u \in Tasks \ {t} : pc'[u] = pc[u] /\ at'[u] = at[u] /\ wire'[u] = wire[u]

LEMMA TaskSteps ==
  ASSUME Control, [Next]_vars
  PROVE  \/ \E t \in Tasks : Alone(t)
         \/ UNCHANGED <<pc, at, wire, overlap>>
         \/ Restart
<1> USE TasksAre DEF Alone, Control, walk, seen
<1>1. ASSUME NEW t \in Tasks, CallSiren(t) \/ Switch(t) \/ ReadBack(t) \/ EndWalk(t) \/ Save(t)
      PROVE  Alone(t)
  BY <1>1 DEF CallSiren, Switch, ReadBack, EndWalk, Save, AfterSiren, Go, Advance, Rewind
<1>2. ASSUME NEW i \in DOMAIN List, SensorTests(i)  PROVE Alone("esp_timer")
  BY <1>2 DEF SensorTests, At, Go
<1>3. CASE \/ SensorDeafens \/ SensorMarks \/ SensorAlarms
           \/ Expire \/ AlarmOpen \/ OpenUnmarks \/ OpenActivates
  <2>1. Alone("esp_timer")
    BY <1>3 DEF SensorDeafens, SensorMarks, SensorAlarms, Expire, AlarmOpen, OpenUnmarks,
                OpenActivates, At, Go, Advance, Rewind
  <2> QED BY <2>1
<1>4. ASSUME NEW c \in Commanders,
             \/ StopStores(c) \/ \E s \in {"closed", "process", "opened"} : SetStores(c, s)
             \/ TestsClosed(c) \/ CloseStores(c) \/ CloseActivates(c) \/ CloseUnmarks(c) \/ Posts(c)
      PROVE  Alone(c)
  BY <1>4 DEF StopStores, SetStores, TestsClosed, CloseStores, CloseActivates, CloseUnmarks, Posts,
              At, Go, Advance
<1>5. ASSUME NEW c \in Commanders,
             \/ TestsProcess(c) \/ CancelCountdown(c) \/ TestsOpened(c) \/ ShowCountdown(c)
             \/ TestsStop(c) \/ StopsAgain(c)
      PROVE  Alone(c)
  BY <1>5 DEF TestsProcess, CancelCountdown, TestsOpened, ShowCountdown, TestsStop, StopsAgain, At, Go
<1>6. ASSUME NEW p \in Cancellable, UserSets(p)  PROVE UNCHANGED <<pc, at, wire, overlap>>
  BY <1>6 DEF UserSets
<1>7. UNCHANGED vars => UNCHANGED <<pc, at, wire, overlap>>
  BY DEF vars
<1> QED BY <1>1, <1>2, <1>3, <1>4, <1>5, <1>6, <1>7, Steps

LEMMA InitOneRuns == Init => OneRuns
  BY DEF Init, OneRuns, Waiting

LEMMA NextOneRuns == ASSUME Control, OneRuns, [Next]_vars PROVE OneRuns'
<1>1. ASSUME NEW t \in Tasks, Alone(t)  PROVE OneRuns'
  BY <1>1 DEF Alone, MayRun, OneRuns, Waiting
<1>2. CASE UNCHANGED <<pc, at, wire, overlap>>
  BY <1>2 DEF OneRuns, Waiting
<1>3. CASE Restart
  BY <1>3 DEF Restart, OneRuns, Waiting
<1> QED BY <1>1, <1>2, <1>3, TaskSteps

\* What holds at every step, under any timing.
Base == Values /\ PortsOK /\ Control /\ Places /\ OneRuns

LEMMA AlwaysBase == Spec => []Base
<1>1. Init => Base
  BY InitType, InitOneRuns DEF Base
<1>2. Base /\ [Next]_vars => Base'
  BY NextType, NextOneRuns DEF Base
<1> QED BY <1>1, <1>2, PTL DEF Spec

\* A request to disarm has been stored, and its timer is about to be stopped.
Disarming(c) == \/ pc[c] = "closed?" /\ status \in {"closed", "process"}
                \/ pc[c] = "process?" /\ status = "process"
\* A request to arm has been stored, and its timer is about to be started.
Arming(c)    == pc[c] \in {"closed?", "process?", "opened?"} /\ ~chg[c]

\* What a command knows at each of its tests.
Tests == \A c \in Commanders :
           /\ pc[c] \in {"idle", "closed?", "closes", "stop", "stops", "again",
                         "save", "stopSave", "againSave"} => ~chg[c]
           /\ pc[c] = "closed?" => status \in {"closed", "process", "opened"}
           /\ pc[c] = "process?" /\ ~chg[c] => status \in {"process", "opened"}
           /\ pc[c] = "opened?" /\ ~chg[c] => status = "opened"
           /\ pc[c] \in {"close", "activate", "unmark", "closeSave", "post", "stop?"} => chg[c]
           /\ pc[c] = "show" => timer

\* Who may have armed the panel.
Requested == /\ status = "opened" => asked
             /\ timer \/ pc["esp_timer"] = "expired" => asked \/ \E c \in Commanders : Disarming(c)
             /\ saved = "opened" => asked \/ \E c \in Commanders : pc[c] # "idle"

\* When the countdown is shown, and when its timer runs.
Counting == /\ pc["esp_timer"] = "expired" => ~timer
            /\ status = "process" => \/ timer \/ restored \/ pc["esp_timer"] = "expired"
                                     \/ \E c \in Commanders : pc[c] \in {"closed?", "process?", "cancel"}
            /\ status = "opened" /\ timer =>
                 \E c \in Commanders : pc[c] = "show" \/ Arming(c)

Armed == overlap = "blocked" => Tests /\ Requested /\ Counting


\* Where every task but the one that takes a step may be.
Rest == {"idle", "sound", "close", "stop", "again", "save", "closeSave", "stopSave", "againSave", "post"}

LEMMA OthersRest ==
  ASSUME Base, overlap = "blocked", NEW t \in Tasks, MayRun(t), NEW u \in Tasks, u # t
  PROVE  pc[u] \in Rest
  BY DEF MayRun, Waiting, Rest, Base, Places

LEMMA OverlapStays == ASSUME Control, [Next]_vars PROVE overlap' = overlap
  BY TaskSteps DEF Alone, Restart

LEMMA InitArmed == Init => Armed
  BY TasksAre DEF Init, Armed, Tests, Requested, Counting

LEMMA NextArmed == ASSUME Base, Armed, [Next]_vars PROVE Armed'
<1> SUFFICES ASSUME overlap = "blocked" PROVE Tests' /\ Requested' /\ Counting'
  BY OverlapStays DEF Armed, Base
<1>0. Control /\ Values /\ Tests /\ Requested /\ Counting
  BY DEF Armed, Base
<1> USE TasksAre, <1>0 DEF Control, Values
<1>1. ASSUME NEW t \in Tasks, CallSiren(t) \/ Switch(t) \/ ReadBack(t) \/ EndWalk(t)
      PROVE  Tests' /\ Requested' /\ Counting'
  <2>0. MayRun(t)
    BY <1>1 DEF CallSiren, Switch, ReadBack, EndWalk
  <2>1. UNCHANGED <<status, saved, timer, asked, restored, chg>>
    BY <1>1 DEF CallSiren, Switch, ReadBack, EndWalk, seen
  <2>2. /\ \A u \in Tasks \ {t} : pc'[u] = pc[u] /\ pc[u] \in Rest
        /\ t \in Commanders => pc[t] \notin {"sound", "open"}
        /\ \/ pc[t] \in {"sound", "close", "stop", "again"} /\ pc'[t] = pc[t]
           \/ pc[t] = "close" /\ pc'[t] \in {"activate", "closeSave"}
           \/ pc[t] = "open" /\ pc'[t] = "save"
           \/ pc[t] = "stop" /\ pc'[t] = "stopSave"
           \/ pc[t] = "again" /\ pc'[t] = "againSave"
    <3>1. wire[t] # "no" => pc[t] \in {"sound", "close", "stop", "again"}
      BY DEF Base, Places
    <3>2. \A u \in Tasks \ {t} : pc'[u] = pc[u]
      BY <1>1 DEF CallSiren, Switch, ReadBack, EndWalk, AfterSiren, Go
    <3>3. \A u \in Tasks \ {t} : pc[u] \in Rest
      BY <2>0, OthersRest
    <3>4. t \in Commanders => pc[t] \notin {"sound", "open"}
      BY DEF Base, Places
    <3>5. \/ pc[t] \in {"sound", "close", "stop", "again"} /\ pc'[t] = pc[t]
          \/ pc[t] = "close" /\ pc'[t] \in {"activate", "closeSave"}
          \/ pc[t] = "open" /\ pc'[t] = "save"
          \/ pc[t] = "stop" /\ pc'[t] = "stopSave"
          \/ pc[t] = "again" /\ pc'[t] = "againSave"
      BY <1>1, <3>1 DEF CallSiren, Switch, ReadBack, EndWalk, AfterSiren, Go
    <3> QED BY <3>2, <3>3, <3>4, <3>5
  <2>3. Tests'
    BY <2>1, <2>2 DEF Tests, Rest
  <2>4. Requested'
    BY <2>1, <2>2 DEF Requested, Disarming, Rest
  <2>5. Counting'
    BY <2>1, <2>2 DEF Counting, Arming, Rest
  <2> QED BY <2>3, <2>4, <2>5
<1>2. ASSUME NEW t \in Tasks, Save(t)  PROVE Tests' /\ Requested' /\ Counting'
  <2>1. \A u \in Tasks \ {t} : pc'[u] = pc[u] /\ pc[u] \in Rest
    BY <1>2, OthersRest DEF Save, Go
  <2>2. /\ UNCHANGED <<status, timer, asked, restored, chg>> /\ saved' = status
        /\ \/ pc[t] \in {"save", "stopSave"} /\ pc'[t] = "idle"
           \/ pc[t] = "againSave" /\ pc'[t] = "save"
           \/ pc[t] = "closeSave" /\ pc'[t] = "post"
    BY <1>2 DEF Save, Go, seen
  <2>3. Tests'
    BY <2>1, <2>2 DEF Tests, Rest
  <2>4. Requested'
    BY <2>1, <2>2 DEF Requested, Disarming, Rest
  <2>5. Counting'
    BY <2>1, <2>2 DEF Counting, Arming, Rest
  <2> QED BY <2>3, <2>4, <2>5
<1>3. ASSUME NEW i \in DOMAIN List, SensorTests(i)  PROVE Tests' /\ Requested' /\ Counting'
  <2>1. \A c \in Commanders : pc'[c] = pc[c]
    BY <1>3 DEF SensorTests, Go
  <2>2. UNCHANGED <<status, saved, timer, asked, restored, chg>> /\ pc["esp_timer"] = "idle" /\ pc'["esp_timer"] = "deafen"
    BY <1>3 DEF SensorTests, At, Go, seen
  <2> QED BY <2>1, <2>2 DEF Tests, Requested, Counting, Disarming, Arming
<1>4. CASE SensorDeafens \/ SensorMarks \/ OpenUnmarks \/ OpenActivates
  <2>1. \A c \in Commanders : pc'[c] = pc[c]
    BY <1>4 DEF SensorDeafens, SensorMarks, OpenUnmarks, OpenActivates, Go
  <2>2. /\ UNCHANGED <<status, saved, timer, asked, restored, chg>>
        /\ pc["esp_timer"] # "expired" /\ pc'["esp_timer"] # "expired"
    BY <1>4 DEF SensorDeafens, SensorMarks, OpenUnmarks, OpenActivates, At, Go, seen
  <2> QED BY <2>1, <2>2 DEF Tests, Requested, Counting, Disarming, Arming
<1>5. CASE SensorAlarms \/ Expire \/ AlarmOpen
  <2>1. \A c \in Commanders : pc'[c] = pc[c] /\ pc[c] \in Rest
    BY <1>5, OthersRest DEF SensorAlarms, Expire, AlarmOpen, At, Go
  <2>2. UNCHANGED <<saved, asked, chg>>
    BY <1>5 DEF SensorAlarms, Expire, AlarmOpen, seen
  <2>3. Tests'
    BY <2>1, <2>2 DEF Tests, Rest
  <2>4. \/ /\ pc["esp_timer"] = "sound" /\ pc'["esp_timer"] = "save"
           /\ status' = "alarm" /\ timer' = timer
        \/ /\ pc["esp_timer"] = "idle" /\ pc'["esp_timer"] = "expired"
           /\ timer /\ ~timer' /\ UNCHANGED <<status, restored>>
        \/ /\ pc["esp_timer"] = "expired" /\ pc'["esp_timer"] = "open"
           /\ status' = "opened" /\ timer' = timer
    BY <1>5 DEF SensorAlarms, Expire, AlarmOpen, At, Go, Stores, seen
  <2>5. Requested'
    BY <2>1, <2>2, <2>4 DEF Requested, Disarming, Rest
  <2>6. Counting'
    BY <2>1, <2>2, <2>4 DEF Counting, Arming, Rest
  <2> QED BY <2>3, <2>5, <2>6
<1>6. ASSUME NEW c \in Commanders,
             StopStores(c) \/ CloseStores(c) \/ StopsAgain(c) \/ CloseActivates(c) \/ CloseUnmarks(c) \/ Posts(c)
      PROVE  Tests' /\ Requested' /\ Counting'
  <2>1. \A u \in Tasks \ {c} : pc'[u] = pc[u] /\ pc[u] \in Rest
    BY <1>6, OthersRest DEF StopStores, CloseStores, StopsAgain, CloseActivates, CloseUnmarks, Posts, At, Go
  <2>2. UNCHANGED <<saved, timer, asked>>
    BY <1>6 DEF StopStores, CloseStores, StopsAgain, CloseActivates, CloseUnmarks, Posts, seen
  <2>3. \A d \in Commanders \ {c} : chg'[d] = chg[d]
    BY <1>6 DEF StopStores, CloseStores, StopsAgain, CloseActivates, CloseUnmarks, Posts
  <2>4. \/ pc[c] = "idle" /\ pc'[c] = "stop" /\ status' = "stop" /\ chg'[c] = chg[c]
        \/ pc[c] = "closes" /\ pc'[c] = "close" /\ status' = "closed" /\ chg'[c] = TRUE
        \/ pc[c] = "stops" /\ pc'[c] = "again" /\ status' = "stop" /\ chg'[c] = chg[c]
        \/ pc[c] = "activate" /\ pc'[c] = "unmark" /\ UNCHANGED <<status, restored, chg>>
        \/ pc[c] = "unmark" /\ pc'[c] = "close" /\ UNCHANGED <<status, restored, chg>>
        \/ pc[c] = "post" /\ pc'[c] = "process?" /\ UNCHANGED <<status, restored, chg>>
    BY <1>6 DEF StopStores, CloseStores, StopsAgain, CloseActivates, CloseUnmarks, Posts, At, Go, Stores, seen
  <2>5. Tests'
    BY <2>1, <2>2, <2>3, <2>4 DEF Tests, Rest
  <2>6. Requested'
    BY <2>1, <2>2, <2>4 DEF Requested, Disarming, Rest
  <2>7. Counting'
    BY <2>1, <2>2, <2>3, <2>4 DEF Counting, Arming, Rest
  <2> QED BY <2>5, <2>6, <2>7
<1>7. ASSUME NEW c \in Commanders, NEW s \in {"closed", "process", "opened"}, SetStores(c, s)
      PROVE  Tests' /\ Requested' /\ Counting'
  <2>1. \A u \in Tasks \ {c} : pc'[u] = pc[u] /\ pc[u] \in Rest
    BY <1>7, OthersRest DEF SetStores, At, Go
  <2>2. /\ UNCHANGED <<saved, timer, chg>> /\ asked' = (s = "opened")
        /\ status' = s /\ pc[c] = "idle" /\ pc'[c] = "closed?"
    BY <1>7 DEF SetStores, At, Go, Stores
  <2>3. Tests'
    BY <2>1, <2>2 DEF Tests, Rest
  <2>4. Requested'
    BY <2>1, <2>2 DEF Requested, Disarming, Rest
  <2>5. Counting'
    BY <2>1, <2>2 DEF Counting, Arming, Tests, Rest
  <2> QED BY <2>3, <2>4, <2>5
<1>8. ASSUME NEW c \in Commanders,
             TestsClosed(c) \/ TestsProcess(c) \/ CancelCountdown(c) \/ TestsOpened(c) \/ ShowCountdown(c) \/ TestsStop(c)
      PROVE  Tests' /\ Requested' /\ Counting'
  <2>1. \A u \in Tasks \ {c} : pc'[u] = pc[u] /\ pc[u] \in Rest
    BY <1>8, OthersRest DEF TestsClosed, TestsProcess, CancelCountdown, TestsOpened, ShowCountdown, TestsStop, At, Go
  <2>2. UNCHANGED <<saved, asked>> /\ \A d \in Commanders \ {c} : chg'[d] = chg[d]
    BY <1>8 DEF TestsClosed, TestsProcess, CancelCountdown, TestsOpened, ShowCountdown, TestsStop, seen
  <2>3. \/ pc[c] = "closed?" /\ pc'[c] = "closes" /\ status = "closed" /\ ~timer'
           /\ UNCHANGED <<status, restored, chg>>
        \/ pc[c] = "closed?" /\ pc'[c] = "process?" /\ status # "closed"
           /\ UNCHANGED <<status, timer, restored, chg>>
        \/ pc[c] = "process?" /\ pc'[c] = "cancel" /\ status = "process" /\ ~timer'
           /\ UNCHANGED <<status, restored, chg>>
        \/ pc[c] = "process?" /\ pc'[c] = "opened?" /\ status # "process"
           /\ UNCHANGED <<status, timer, restored, chg>>
        \/ pc[c] = "cancel" /\ pc'[c] = "opened?" /\ status' = "closed" /\ chg'[c] = TRUE /\ timer' = timer
        \/ pc[c] = "opened?" /\ pc'[c] = "show" /\ status = "opened" /\ timer' = TRUE
           /\ UNCHANGED <<status, restored, chg>>
        \/ pc[c] = "opened?" /\ pc'[c] = "stop?" /\ status # "opened"
           /\ UNCHANGED <<status, timer, restored, chg>>
        \/ pc[c] = "show" /\ pc'[c] = "stop?" /\ status' = "process" /\ chg'[c] = TRUE /\ timer' = timer
        \/ pc[c] = "stop?" /\ pc'[c] = "stops" /\ chg'[c] = FALSE
           /\ UNCHANGED <<status, timer, restored>>
        \/ pc[c] = "stop?" /\ pc'[c] \in {"save", "idle"} /\ (chg[c] => pc'[c] = "save") /\ chg'[c] = FALSE
           /\ UNCHANGED <<status, timer, restored>>
    BY <1>8 DEF TestsClosed, TestsProcess, CancelCountdown, TestsOpened, ShowCountdown, TestsStop,
                At, Go, Stores, TimStop, TimStart, seen
  <2>4. Tests'
    BY <2>1, <2>2, <2>3 DEF Tests, Rest
  <2>7. /\ pc["esp_timer"] # "expired" /\ pc'["esp_timer"] # "expired"
        /\ \A d \in Commanders \ {c} : ~Disarming(d) /\ ~Arming(d) /\ pc[d] \notin {"show", "cancel"}
    BY <2>1 DEF Disarming, Arming, Rest
  <2>8. timer => asked \/ Disarming(c)
    BY <2>7 DEF Requested
  <2>9. status = "process" => timer \/ restored \/ pc[c] \in {"closed?", "process?", "cancel"}
    BY <2>1, <2>7 DEF Counting, Rest
  <2>10. status = "opened" /\ timer => pc[c] = "show" \/ Arming(c)
    BY <2>7 DEF Counting
  <2>11. saved = "opened" => asked \/ \E d \in Commanders : pc'[d] # "idle"
    <3>1. CASE pc'[c] = "idle"
      BY <2>3, <3>1 DEF Tests
    <3>2. CASE pc'[c] # "idle"
      BY <3>2
    <3> QED BY <3>1, <3>2
  <2>5. Requested'
    <3>1. status' = "opened" => asked
      BY <2>3 DEF Requested
    <3>2. timer' => asked \/ Disarming(c)'
      BY <2>3, <2>8 DEF Requested, Disarming, Tests
    <3> QED BY <2>2, <2>7, <2>11, <3>1, <3>2 DEF Requested
  <2>6. Counting'
    <3>1. status' = "process" => \/ timer' \/ restored'
                                 \/ pc'[c] \in {"closed?", "process?", "cancel"}
      BY <2>3, <2>9 DEF Tests
    <3>2. status' = "opened" /\ timer' => pc'[c] = "show" \/ Arming(c)'
      BY <2>3, <2>10 DEF Arming, Tests
    <3> QED BY <2>7, <3>1, <3>2 DEF Counting
  <2> QED BY <2>4, <2>5, <2>6
<1>9. ASSUME NEW p \in Cancellable, UserSets(p)  PROVE Tests' /\ Requested' /\ Counting'
  <2>1. UNCHANGED <<status, saved, timer, pc, chg, asked, restored>>
    BY <1>9 DEF UserSets, seen
  <2> QED BY <2>1 DEF Tests, Requested, Disarming, Counting, Arming
<1>10. CASE Restart
  <2>1. Tests' /\ Counting'
    BY <1>10 DEF Restart, Tests, Counting
  <2>2. /\ status' = saved /\ saved' = saved /\ ~timer' /\ pc'["esp_timer"] = "idle"
        /\ saved = "opened" => asked'
    BY <1>10 DEF Restart, Requested
  <2> QED BY <2>1, <2>2 DEF Requested
<1>11. CASE UNCHANGED vars
  BY <1>11 DEF vars, seen, Tests, Requested, Disarming, Counting, Arming
<1> QED BY <1>1, <1>2, <1>3, <1>4, <1>5, <1>6, <1>7, <1>8, <1>9, <1>10, <1>11, Steps

LEMMA AlwaysArmed == Spec => []Armed
<1>1. Base /\ Armed /\ [Next]_vars => Armed'
  BY NextArmed
<1> QED BY <1>1, InitArmed, AlwaysBase, PTL DEF Spec

\* Between two handlers, and where one blocks, no command is at its tests.
LEMMA RestAtRest ==
  ASSUME Base, AtRest, NEW t \in Tasks  PROVE pc[t] \in Rest
  BY DEF AtRest, Waiting, Rest, Base, Places

\* The panel arms itself only on request.
THEOREM NeverArmsItself == Spec => []ArmedOnRequest
<1>1. ASSUME Base, Armed  PROVE ArmedOnRequest
  <2> SUFFICES ASSUME overlap = "blocked", AtRest, status = "opened" \/ timer
               PROVE  asked
    BY DEF ArmedOnRequest
  <2>1. \A c \in Commanders : ~Disarming(c)
    BY <1>1, RestAtRest, TasksAre DEF Disarming, Rest
  <2> QED BY <1>1, <2>1 DEF Armed, Requested
<1> QED BY <1>1, AlwaysBase, AlwaysArmed, PTL

\* The countdown that is shown is running, unless a restart found it in flash.
THEOREM ShownCountdownRuns == Spec => []CountdownIsTimed
<1>1. ASSUME Base, Armed  PROVE CountdownIsTimed
  <2> SUFFICES ASSUME overlap = "blocked", AtRest, status = "process"
               PROVE  timer \/ restored
    BY DEF CountdownIsTimed
  <2>1. \A t \in Tasks : pc[t] \notin {"expired", "closed?", "process?", "cancel"}
    BY <1>1, RestAtRest DEF Rest
  <2> QED BY <1>1, <2>1, TasksAre DEF Armed, Counting
<1> QED BY <1>1, AlwaysBase, AlwaysArmed, PTL

\* The assertion of security.cpp:310 fails in one way only where handlers
\* overlap in blocking calls, restarts included: a command to arm comes while
\* the countdown is running.  The countdown that set_status starts after
\* alarm_close, on a status another command has changed, never fails.
THEOREM OnlyArmingTwiceAborts ==
  Spec => [][overlap = "blocked" /\ ~aborted /\ aborted'
               => timer /\ \E c \in Commanders : Arming(c) /\ TestsOpened(c)]_vars
<1>1. ASSUME Base, Armed, [Next]_vars, overlap = "blocked", ~aborted, aborted'
      PROVE  timer /\ \E c \in Commanders : Arming(c) /\ TestsOpened(c)
  <2>1. PICK c \in Commanders : TestsOpened(c) /\ timer /\ status = "opened"
    <3>1. ASSUME NEW t \in Tasks, CallSiren(t) \/ Switch(t) \/ ReadBack(t) \/ EndWalk(t) \/ Save(t)
          PROVE  FALSE
      BY <1>1, <3>1 DEF CallSiren, Switch, ReadBack, EndWalk, Save
    <3>2. ASSUME NEW i \in DOMAIN List, SensorTests(i)  PROVE FALSE
      BY <1>1, <3>2 DEF SensorTests
    <3>3. ~(\/ SensorDeafens \/ SensorMarks \/ SensorAlarms
            \/ Expire \/ AlarmOpen \/ OpenUnmarks \/ OpenActivates)
      BY <1>1 DEF SensorDeafens, SensorMarks, SensorAlarms, Expire, AlarmOpen, OpenUnmarks, OpenActivates
    <3>4. ASSUME NEW d \in Commanders,
                 \/ StopStores(d) \/ \E s \in {"closed", "process", "opened"} : SetStores(d, s)
                 \/ TestsClosed(d) \/ CloseStores(d) \/ CloseActivates(d) \/ CloseUnmarks(d) \/ Posts(d)
                 \/ TestsProcess(d) \/ CancelCountdown(d) \/ ShowCountdown(d)
                 \/ TestsStop(d) \/ StopsAgain(d)
          PROVE  FALSE
      BY <1>1, <3>4 DEF StopStores, SetStores, TestsClosed, CloseStores, CloseActivates, CloseUnmarks,
                        Posts, TestsProcess, CancelCountdown, ShowCountdown, TestsStop, StopsAgain
    <3>5. ASSUME NEW p \in Cancellable, UserSets(p)  PROVE FALSE
      BY <1>1, <3>5 DEF UserSets
    <3>6. ~Restart /\ ~UNCHANGED vars
      BY <1>1 DEF Restart, vars
    <3>7. PICK c \in Commanders : TestsOpened(c)
      BY <1>1, <3>1, <3>2, <3>3, <3>4, <3>5, <3>6, Steps
    <3>8. timer /\ status = "opened"
      BY <1>1, <3>7 DEF TestsOpened, TimStart
    <3> QED BY <3>7, <3>8
  <2>2. \A u \in Tasks \ {c} : pc[u] \in Rest
    BY <1>1, <2>1, OthersRest, TasksAre DEF TestsOpened, At
  <2>3. PICK d \in Commanders : pc[d] = "show" \/ Arming(d)
    BY <1>1, <2>1 DEF Armed, Counting
  <2>4. d = c
    BY <2>2, <2>3, TasksAre DEF Rest, Arming
  <2>5. Arming(c)
    BY <2>1, <2>3, <2>4 DEF TestsOpened, At
  <2> QED BY <2>1, <2>5
<1>2. Base /\ Armed /\ [Next]_vars
        => [overlap = "blocked" /\ ~aborted /\ aborted'
              => timer /\ \E c \in Commanders : Arming(c) /\ TestsOpened(c)]_vars
  BY <1>1
<1> QED BY <1>2, AlwaysBase, AlwaysArmed, PTL DEF Spec

-----------------------------------------------------------------------------
\* The flags of a sensor differ only while a task is between changing the two.
Midway(p) == \/ pc["esp_timer"] \in {"mark", "reopen"} /\ Here("esp_timer") = p
             \/ \E c \in Commanders : pc[c] = "unmark" /\ Here(c) = p
Hearing == /\ cancelled \subseteq touched
           /\ overlap = "blocked" =>
                /\ pc["esp_timer"] = "mark" => ~active[Here("esp_timer")]
                /\ pc["esp_timer"] = "reopen" => Here("esp_timer") \notin alarm
                /\ \A c \in Commanders : pc[c] = "unmark" =>
                     active[Here(c)] \/ Here(c) \in touched
                /\ \A p \in Sensors \ touched : Midway(p) \/ (active[p] <=> p \notin alarm)


LEMMA InitHearing == Init => Hearing
  BY TasksAre DEF Init, Hearing, Ports

\* A step that touches neither the flags nor the places between them.
LEMMA HearingStays ==
  ASSUME Hearing, UNCHANGED <<active, cancelled, alarm, touched, overlap>>,
         \A t \in Tasks : \/ pc'[t] = pc[t] /\ at'[t] = at[t]
                          \/ pc[t] \notin {"mark", "reopen", "unmark"} /\ pc'[t] \notin {"mark", "reopen", "unmark"}
  PROVE  Hearing'
<1>1. \A p \in Ports : Midway(p) => Midway(p)'
  BY TasksAre DEF Midway, Here
<1>2. ASSUME overlap = "blocked"
      PROVE  /\ pc'["esp_timer"] = "mark" => ~active'[Here("esp_timer")']
             /\ pc'["esp_timer"] = "reopen" => Here("esp_timer")' \notin alarm'
             /\ \A c \in Commanders : pc'[c] = "unmark" => active'[Here(c)'] \/ Here(c)' \in touched'
  <2>1. \A t \in Tasks : pc'[t] \in {"mark", "reopen", "unmark"} => pc'[t] = pc[t] /\ Here(t)' = Here(t)
    BY DEF Here
  <2> QED BY <1>2, <2>1, TasksAre DEF Hearing
<1>3. ASSUME overlap = "blocked", NEW p \in Sensors \ touched
      PROVE  Midway(p)' \/ (active'[p] <=> p \notin alarm')
  BY <1>1, <1>3 DEF Hearing, Ports
<1> QED BY <1>2, <1>3 DEF Hearing

LEMMA NextHearing == ASSUME Base, Hearing, [Next]_vars PROVE Hearing'
<1>0. Control /\ PortsOK /\ Places
  BY DEF Base
<1> USE TasksAre, <1>0 DEF Control
<1>1. ASSUME NEW t \in Tasks, CallSiren(t) \/ Switch(t) \/ ReadBack(t) \/ EndWalk(t) \/ Save(t)
      PROVE  Hearing'
  <2>1. \A u \in Tasks \ {t} : pc'[u] = pc[u] /\ at'[u] = at[u]
    BY <1>1 DEF CallSiren, Switch, ReadBack, EndWalk, Save, AfterSiren, Go, Advance, Rewind, walk
  <2>2. pc[t] \notin {"mark", "reopen", "unmark"} /\ pc'[t] \notin {"mark", "reopen", "unmark"}
    <3>1. wire[t] # "no" => pc[t] \in {"sound", "close", "stop", "again"}
      BY DEF Places
    <3> QED BY <1>1, <3>1 DEF CallSiren, Switch, ReadBack, EndWalk, Save, AfterSiren, Go
  <2>3. UNCHANGED <<active, cancelled, alarm, touched, overlap>>
    BY <1>1 DEF CallSiren, Switch, ReadBack, EndWalk, Save, flags, seen
  <2> QED BY <2>1, <2>2, <2>3, HearingStays
<1>2. CASE \/ \E i \in DOMAIN List : SensorTests(i)
           \/ SensorAlarms \/ Expire \/ AlarmOpen
  <2>1. \A u \in Tasks \ {"esp_timer"} : pc'[u] = pc[u] /\ at'[u] = at[u]
    BY <1>2 DEF SensorTests, SensorAlarms, Expire, AlarmOpen, Go, Rewind, walk
  <2>2. /\ pc["esp_timer"] \notin {"mark", "reopen", "unmark"}
        /\ pc'["esp_timer"] \notin {"mark", "reopen", "unmark"}
    BY <1>2 DEF SensorTests, SensorAlarms, Expire, AlarmOpen, At, Go
  <2>3. UNCHANGED <<active, cancelled, alarm, touched, overlap>>
    BY <1>2 DEF SensorTests, SensorAlarms, Expire, AlarmOpen, flags, seen
  <2> QED BY <2>1, <2>2, <2>3, HearingStays
<1>3. ASSUME NEW c \in Commanders,
             \/ StopStores(c) \/ (\E s \in {"closed", "process", "opened"} : SetStores(c, s))
             \/ TestsClosed(c) \/ CloseStores(c) \/ Posts(c)
             \/ TestsProcess(c) \/ CancelCountdown(c) \/ TestsOpened(c) \/ ShowCountdown(c)
             \/ TestsStop(c) \/ StopsAgain(c)
      PROVE  Hearing'
  <2>1. \A u \in Tasks \ {c} : pc'[u] = pc[u] /\ at'[u] = at[u]
    BY <1>3 DEF StopStores, SetStores, TestsClosed, CloseStores, Posts, TestsProcess,
                CancelCountdown, TestsOpened, ShowCountdown, TestsStop, StopsAgain, Go, walk
  <2>2. pc[c] \notin {"mark", "reopen", "unmark"} /\ pc'[c] \notin {"mark", "reopen", "unmark"}
    BY <1>3 DEF StopStores, SetStores, TestsClosed, CloseStores, Posts, TestsProcess,
                CancelCountdown, TestsOpened, ShowCountdown, TestsStop, StopsAgain, At, Go
  <2>3. UNCHANGED <<active, cancelled, alarm, touched, overlap>>
    BY <1>3 DEF StopStores, SetStores, TestsClosed, CloseStores, Posts, TestsProcess,
                CancelCountdown, TestsOpened, ShowCountdown, TestsStop, StopsAgain, flags, seen
  <2> QED BY <2>1, <2>2, <2>3, HearingStays
<1>4. ASSUME SensorDeafens \/ SensorMarks \/ OpenUnmarks \/ OpenActivates,
             overlap = "blocked" => \A c \in Commanders : pc[c] \in Rest
      PROVE  Hearing'
  <2> DEFINE h == Here("esp_timer")
  <2>1. \A c \in Commanders : pc'[c] = pc[c]
    BY <1>4 DEF SensorDeafens, SensorMarks, OpenUnmarks, OpenActivates, Go
  <2>2. UNCHANGED <<cancelled, touched, overlap>>
    BY <1>4 DEF SensorDeafens, SensorMarks, OpenUnmarks, OpenActivates, seen
  <2>3. h \in Ports
    BY <1>4, AtPort DEF SensorDeafens, SensorMarks, OpenUnmarks, OpenActivates, At, Places
  <2>4. cancelled' \subseteq touched'
    BY <2>2 DEF Hearing
  <2> SUFFICES ASSUME overlap = "blocked"
               PROVE  /\ pc'["esp_timer"] = "mark" => ~active'[Here("esp_timer")']
                      /\ pc'["esp_timer"] = "reopen" => Here("esp_timer")' \notin alarm'
                      /\ \A p \in Sensors \ touched : Midway(p)' \/ (active'[p] <=> p \notin alarm')
    BY <1>4, <2>1, <2>2, <2>4 DEF Hearing, Rest
  <2>5. \A p : Midway(p) <=> pc["esp_timer"] \in {"mark", "reopen"} /\ h = p
    BY <1>4 DEF Midway, Rest
  <2>6. CASE SensorDeafens
    <3>1. /\ active' = [active EXCEPT ![h] = FALSE] /\ alarm' = alarm
          /\ pc["esp_timer"] = "deafen" /\ pc'["esp_timer"] = "mark" /\ Here("esp_timer")' = h
      BY <2>6 DEF SensorDeafens, At, Go, walk, Here
    <3>2. Midway(h)'
      BY <3>1 DEF Midway
    <3> QED BY <2>3, <2>5, <3>1, <3>2 DEF Hearing, PortsOK, Ports
  <2>7. CASE SensorMarks
    <3>1. /\ active' = active /\ alarm' = alarm \cup {h}
          /\ pc["esp_timer"] = "mark" /\ pc'["esp_timer"] = "sound"
      BY <2>7 DEF SensorMarks, At, Go
    <3> QED BY <2>3, <2>5, <3>1 DEF Hearing
  <2>8. CASE OpenUnmarks
    <3>1. /\ active' = active /\ alarm' = alarm \ {h}
          /\ pc["esp_timer"] = "open" /\ pc'["esp_timer"] = "reopen" /\ Here("esp_timer")' = h
      BY <2>8 DEF OpenUnmarks, At, Go, walk, Here
    <3>2. Midway(h)'
      BY <3>1 DEF Midway
    <3> QED BY <2>3, <2>5, <3>1, <3>2 DEF Hearing
  <2>9. CASE OpenActivates
    <3>1. /\ active' = [active EXCEPT ![h] = @ \/ Reopens(h)] /\ alarm' = alarm
          /\ pc["esp_timer"] = "reopen" /\ pc'["esp_timer"] = "open"
      BY <2>9 DEF OpenActivates, At, Go
    <3>2. h \notin alarm /\ (h \in Sensors \ touched => Reopens(h))
      BY <3>1 DEF Hearing, Reopens
    <3>3. ASSUME NEW p \in Sensors \ touched  PROVE active'[p] <=> p \notin alarm'
      <4>1. CASE p = h
        BY <2>3, <3>1, <3>2, <4>1 DEF PortsOK
      <4>2. CASE p # h
        BY <2>5, <3>1, <4>2 DEF Hearing, PortsOK
      <4> QED BY <4>1, <4>2
    <3> QED BY <3>1, <3>3
  <2> QED BY <1>4, <2>6, <2>7, <2>8, <2>9
<1>5. ASSUME NEW c \in Commanders, CloseActivates(c) \/ CloseUnmarks(c),
             overlap = "blocked" => \A u \in Tasks \ {c} : pc[u] \in Rest
      PROVE  Hearing'
  <2> DEFINE h == Here(c)
  <2>1. \A u \in Tasks \ {c} : pc'[u] = pc[u]
    BY <1>5 DEF CloseActivates, CloseUnmarks, Go
  <2>2. UNCHANGED <<cancelled, touched, overlap>>
    BY <1>5 DEF CloseActivates, CloseUnmarks, seen
  <2>3. h \in Ports
    BY <1>5, AtPort DEF CloseActivates, CloseUnmarks, At, Places
  <2>4. cancelled' \subseteq touched'
    BY <2>2 DEF Hearing
  <2> SUFFICES ASSUME overlap = "blocked"
               PROVE  /\ pc'[c] = "unmark" => active'[Here(c)'] \/ Here(c)' \in touched'
                      /\ \A p \in Sensors \ touched : Midway(p)' \/ (active'[p] <=> p \notin alarm')
    BY <1>5, <2>1, <2>2, <2>4 DEF Hearing, Rest
  <2>5. \A p : Midway(p) <=> pc[c] = "unmark" /\ h = p
    BY <1>5 DEF Midway, Rest
  <2>6. CASE CloseActivates(c)
    <3>1. /\ active' = [active EXCEPT ![h] = h \notin cancelled \/ h \in Emergency] /\ alarm' = alarm
          /\ pc[c] = "activate" /\ pc'[c] = "unmark" /\ Here(c)' = h
      BY <2>6 DEF CloseActivates, At, Go, walk, Here
    <3>2. Midway(h)'
      BY <3>1 DEF Midway
    <3>3. active'[h] \/ h \in touched
      BY <2>3, <3>1 DEF PortsOK, Hearing
    <3> QED BY <2>2, <2>5, <3>1, <3>2, <3>3 DEF Hearing, PortsOK
  <2>7. CASE CloseUnmarks(c)
    <3>1. /\ active' = active /\ alarm' = alarm \ {h}
          /\ pc[c] = "unmark" /\ pc'[c] = "close"
      BY <2>7 DEF CloseUnmarks, At, Go
    <3> QED BY <2>3, <2>5, <3>1 DEF Hearing
  <2> QED BY <1>5, <2>6, <2>7
<1>6. ASSUME NEW p \in Cancellable, UserSets(p)  PROVE Hearing'
  <2>1. UNCHANGED <<active, alarm, pc, at, overlap>> /\ touched' = touched \cup {p}
    BY <1>6 DEF UserSets, walk, seen
  <2>2. cancelled' \subseteq touched'
    BY <1>6 DEF UserSets, Hearing
  <2>3. \A q : Midway(q) <=> Midway(q)'
    BY <2>1 DEF Midway, Here
  <2>4. \A t : Here(t)' = Here(t)
    BY <2>1 DEF Here
  <2> QED BY <2>1, <2>2, <2>3, <2>4 DEF Hearing
<1>7. CASE Restart
  BY <1>7 DEF Restart, Hearing, Ports
<1>8. CASE UNCHANGED vars
  BY <1>8, HearingStays DEF vars, flags, walk, seen
<1>9. ASSUME overlap = "blocked", NEW t \in Tasks, MayRun(t)
      PROVE  \A u \in Tasks \ {t} : pc[u] \in Rest
  BY <1>9, OthersRest
<1>10. CASE SensorDeafens \/ SensorMarks \/ OpenUnmarks \/ OpenActivates
  <2>1. MayRun("esp_timer")
    BY <1>10 DEF SensorDeafens, SensorMarks, OpenUnmarks, OpenActivates, At
  <2> QED BY <1>4, <1>9, <1>10, <2>1
<1>11. ASSUME NEW c \in Commanders, CloseActivates(c) \/ CloseUnmarks(c)  PROVE Hearing'
  <2>1. MayRun(c)
    BY <1>11 DEF CloseActivates, CloseUnmarks, At
  <2> QED BY <1>5, <1>9, <1>11, <2>1
<1> QED BY <1>1, <1>2, <1>3, <1>6, <1>7, <1>8, <1>10, <1>11, Steps

\* A sensor its user has let alone is deaf exactly while its own alarm is marked.
THEOREM SensorsHeard == Spec => []NoDeafSensor
<1>1. ASSUME Base, Hearing  PROVE NoDeafSensor
  <2> SUFFICES ASSUME overlap = "blocked", AtRest, NEW p \in Sensors \ touched
               PROVE  active[p] <=> p \notin alarm
    BY DEF NoDeafSensor
  <2>1. ~Midway(p)
    BY <1>1, RestAtRest, TasksAre DEF Midway, Rest
  <2> QED BY <1>1, <2>1 DEF Hearing
<1>2. Base /\ Hearing /\ [Next]_vars => Hearing'
  BY NextHearing
<1> QED BY <1>1, <1>2, InitHearing, AlwaysBase, PTL DEF Spec

-----------------------------------------------------------------------------

-----------------------------------------------------------------------------
(* What makes every siren sound.                                           *)

\* A siren the user has let alone stays active.
Awake  == cancelled \subseteq touched /\ \A q \in Sirens \ touched : active[q]
\* A command that interferes with an alarm has marked it.
Marked == \A c \in Commanders : Silencing(c) /\ (Reacting \/ status = "alarm") => crossed
\* A sensor's reaction has switched on the sirens it has passed.
Passed == Reacting => \/ crossed
                      \/ \A i \in DOMAIN List : i < at["esp_timer"] /\ List[i] \notin touched
                                                /\ List[i] \in Sirens => List[i] \in on
Written == Reacting /\ wire["esp_timer"] = "back" /\ Here("esp_timer") \notin touched
             => crossed \/ Here("esp_timer") \in on
Sounding == Awake /\ Marked /\ Passed /\ Written /\ AlarmSounds

LEMMA InitSounding == Init => Sounding
  BY TasksAre DEF Init, Sounding, Awake, Marked, Passed, Written, AlarmSounds, Silencing, Reacting, Ports

\* A step that leaves the sirens and the esp_timer task alone.
LEMMA SoundingStays ==
  ASSUME Sounding, Awake', Marked',
         touched \subseteq touched', on \subseteq on', crossed => crossed',
         Reacting' => Reacting /\ at'["esp_timer"] = at["esp_timer"]
                      /\ (wire'["esp_timer"] = "back" => wire["esp_timer"] = "back"),
         status' = "alarm" => status = "alarm" /\ (restored => restored')
  PROVE  Sounding'
<1>1. Passed'
  BY DEF Sounding, Passed
<1>2. Written'
  <2>1. ASSUME Reacting', wire'["esp_timer"] = "back", Here("esp_timer")' \notin touched'
        PROVE  crossed' \/ Here("esp_timer")' \in on'
    BY <2>1 DEF Sounding, Written, Here
  <2> QED BY <2>1 DEF Written
<1>3. AlarmSounds'
  BY DEF Sounding, AlarmSounds
<1> QED BY <1>1, <1>2, <1>3 DEF Sounding

LEMMA NextSounding == ASSUME Base, Sounding, [Next]_vars PROVE Sounding'
<1>0. Control /\ PortsOK /\ Places /\ Awake /\ Marked /\ Passed /\ Written /\ AlarmSounds
  BY DEF Base, Sounding
<1> USE TasksAre, <1>0 DEF Control
<1>1. ASSUME NEW t \in Tasks, CallSiren(t)  PROVE Sounding'
  <2>1. UNCHANGED <<status, flags, on, seen>>
    BY <1>1 DEF CallSiren
  <2>2. Awake'
    BY <2>1 DEF Awake, flags
  <2>3. Reacting' <=> Reacting
    BY <1>1 DEF CallSiren, AfterSiren, Go, Reacting
  <2>4. \A c \in Commanders : Silencing(c)' => Silencing(c)
    BY <1>1 DEF CallSiren, AfterSiren, Go, Silencing
  <2>5. Marked'
    BY <2>1, <2>3, <2>4 DEF Marked, seen
  <2>6. AlarmSounds'
    BY <2>1 DEF AlarmSounds, flags, seen
  <2>7. wire'["esp_timer"] = "back" => wire["esp_timer"] = "back" /\ at'["esp_timer"] = at["esp_timer"]
    BY <1>1 DEF CallSiren, AfterSiren, Advance
  <2>8. Written'
    BY <2>1, <2>3, <2>7 DEF Written, Here, flags, seen
  <2>9. ASSUME Reacting, ~crossed, NEW i \in DOMAIN List, i < at'["esp_timer"],
               List[i] \notin touched, List[i] \in Sirens
        PROVE  List[i] \in on
    <3>1. CASE i < at["esp_timer"]
      BY <2>9, <3>1 DEF Passed
    <3>2. CASE ~(i < at["esp_timer"])
      <4>1. /\ t = "esp_timer" /\ at'[t] = at[t] + 1 /\ ~Sounds(Here(t))
        BY <1>1, <2>9, <3>2 DEF CallSiren, AfterSiren, Advance, Reacting
      <4>2. i = at[t]
        BY <2>9, <3>2, <4>1, InList, ListAssumption
      <4>3. Sounds(List[i])
        BY <2>9 DEF Sounds, Awake
      <4> QED BY <4>1, <4>2, <4>3 DEF Here
    <3> QED BY <3>1, <3>2
  <2>10. Passed'
    BY <2>1, <2>3, <2>9 DEF Passed, flags, seen
  <2> QED BY <2>2, <2>5, <2>6, <2>8, <2>10 DEF Sounding
<1>2. ASSUME NEW t \in Tasks, Switch(t)  PROVE Sounding'
  <2>1. UNCHANGED <<status, flags, pc, at, seen>> /\ wire[t] = "write" /\ wire' = [wire EXCEPT ![t] = "back"]
    BY <1>2 DEF Switch
  <2>2. Awake' /\ Marked'
    BY <2>1 DEF Awake, Marked, Silencing, Reacting, flags, seen
  <2>3. CASE t = "esp_timer"
    <3>1. on' = on \cup {Here(t)} \/ ~Reacting
      BY <1>2, <2>3 DEF Switch, Reacting
    <3>2. CASE Reacting
      <4>1. on' = on \cup {Here(t)}
        BY <3>1, <3>2
      <4>2. Passed'
        BY <2>1, <4>1 DEF Passed, Reacting, flags, seen
      <4>3. Written'
        BY <2>1, <2>3, <4>1 DEF Written, Reacting, Here, flags, seen
      <4>4. AlarmSounds'
        BY <2>1, <4>1 DEF AlarmSounds, flags, seen
      <4> QED BY <2>2, <4>2, <4>3, <4>4 DEF Sounding
    <3>3. CASE ~Reacting
      <4> QED BY <2>1, <2>3, <3>3 DEF Reacting, Places
    <3> QED BY <3>2, <3>3
  <2>4. CASE t # "esp_timer"
    <3>1. t \in Commanders /\ Silencing(t)
      BY <2>1, <2>4 DEF Places, Silencing, Tasks
    <3>2. (Reacting \/ status = "alarm") => crossed
      BY <3>1 DEF Marked
    <3>3. Passed' /\ Written' /\ AlarmSounds'
      BY <2>1, <3>2 DEF Passed, Written, AlarmSounds, Reacting, seen
    <3> QED BY <2>2, <3>3 DEF Sounding
  <2> QED BY <2>3, <2>4
<1>3. ASSUME NEW t \in Tasks, ReadBack(t)  PROVE Sounding'
  <2>1. UNCHANGED <<status, flags, on, seen>> /\ wire[t] = "back" /\ wire' = [wire EXCEPT ![t] = "no"]
    BY <1>3 DEF ReadBack
  <2>2. Awake' /\ AlarmSounds'
    BY <2>1 DEF Awake, AlarmSounds, flags, seen
  <2>3. (Reacting' <=> Reacting) /\ \A c \in Commanders : Silencing(c)' => Silencing(c)
    BY <1>3 DEF ReadBack, AfterSiren, Go, Reacting, Silencing
  <2>4. Marked'
    BY <2>1, <2>3 DEF Marked, seen
  <2>5. Written'
    <3>1. t # "esp_timer" => at'["esp_timer"] = at["esp_timer"] /\ wire'["esp_timer"] = wire["esp_timer"]
      BY <1>3 DEF ReadBack, AfterSiren, Advance
    <3>2. t = "esp_timer" => wire'["esp_timer"] # "back"
      BY <2>1
    <3> QED BY <2>1, <2>3, <3>1, <3>2 DEF Written, Here, flags, seen
  <2>6. ASSUME Reacting, ~crossed, NEW i \in DOMAIN List, i < at'["esp_timer"],
               List[i] \notin touched, List[i] \in Sirens
        PROVE  List[i] \in on
    <3>1. CASE i < at["esp_timer"]
      BY <2>6, <3>1 DEF Passed
    <3>2. CASE ~(i < at["esp_timer"])
      <4>1. t = "esp_timer" /\ at'[t] = at[t] + 1
        BY <1>3, <2>6, <3>2 DEF ReadBack, AfterSiren, Advance
      <4>2. i = at[t]
        BY <2>6, <3>2, <4>1, InList, ListAssumption
      <4> QED BY <2>1, <2>6, <4>1, <4>2 DEF Written, Here
    <3> QED BY <3>1, <3>2
  <2>7. Passed'
    BY <2>1, <2>3, <2>6 DEF Passed, flags, seen
  <2> QED BY <2>2, <2>4, <2>5, <2>7 DEF Sounding
<1>4. ASSUME NEW t \in Tasks, EndWalk(t) \/ Save(t)  PROVE Sounding'
  <2>1. UNCHANGED <<status, flags, on, seen, wire>>
    BY <1>4 DEF EndWalk, Save, walk
  <2>2. \A c \in Commanders : Silencing(c)' => Silencing(c)
    BY <1>4 DEF EndWalk, Save, Go, Silencing
  <2>3. Reacting' => Reacting /\ at'["esp_timer"] = at["esp_timer"]
    BY <1>4 DEF EndWalk, Save, Go, Rewind, Reacting, walk
  <2>4. Awake' /\ Marked'
    BY <2>1, <2>2, <2>3 DEF Awake, Marked, flags, seen
  <2> QED BY <2>1, <2>3, <2>4, SoundingStays DEF flags, seen
<1>5. CASE \/ \E i \in DOMAIN List : SensorTests(i)
           \/ SensorDeafens \/ Expire \/ AlarmOpen \/ OpenUnmarks \/ OpenActivates
  <2>1. UNCHANGED <<cancelled, touched, on, crossed>> /\ \A c \in Commanders : pc'[c] = pc[c]
    BY <1>5 DEF SensorTests, SensorDeafens, Expire, AlarmOpen, OpenUnmarks, OpenActivates, Go, flags, seen
  <2>2. ~Reacting'
    BY <1>5 DEF SensorTests, SensorDeafens, Expire, AlarmOpen, OpenUnmarks, OpenActivates, Go, Reacting
  <2>3. status' = "alarm" => status = "alarm" /\ restored' = restored
    BY <1>5 DEF SensorTests, SensorDeafens, Expire, AlarmOpen, OpenUnmarks, OpenActivates, Stores, seen
  <2>4. \A q \in Sirens : active[q] => active'[q]
    <3>1. SensorDeafens => Here("esp_timer") \in Sensors
      BY DEF SensorDeafens, At, Places
    <3> QED BY <1>5, <3>1, PortsAssumption
            DEF SensorTests, SensorDeafens, Expire, AlarmOpen, OpenUnmarks, OpenActivates, PortsOK, Ports, flags
  <2>5. Awake'
    BY <2>1, <2>4 DEF Awake
  <2>6. Marked'
    BY <2>1, <2>2, <2>3 DEF Marked, Silencing
  <2> QED BY <2>1, <2>2, <2>3, <2>5, <2>6, SoundingStays
<1>6. CASE SensorMarks
  <2>1. /\ UNCHANGED <<status, active, cancelled, touched, on, wire, restored>>
        /\ at' = [at EXCEPT !["esp_timer"] = 1] /\ pc' = [pc EXCEPT !["esp_timer"] = "sound"]
        /\ pc["esp_timer"] = "mark" /\ wire["esp_timer"] = "no"
        /\ crossed' <=> (crossed /\ status = "alarm") \/ \E c \in Commanders : Silencing(c)
    BY <1>6 DEF SensorMarks, At, Go, Rewind
  <2>2. Awake'
    BY <2>1 DEF Awake
  <2>3. Marked'
    BY <2>1 DEF Marked, Silencing
  <2>4. Passed' /\ Written'
    BY <2>1, InList, ListAssumption DEF Passed, Written
  <2>5. AlarmSounds'
    BY <2>1 DEF AlarmSounds
  <2> QED BY <2>2, <2>3, <2>4, <2>5 DEF Sounding
<1>7. CASE SensorAlarms
  <2>1. /\ UNCHANGED <<active, cancelled, touched, on, crossed, wire>> /\ status' = "alarm"
        /\ Reacting /\ at["esp_timer"] > Len(List) /\ pc' = [pc EXCEPT !["esp_timer"] = "save"]
    BY <1>7 DEF SensorAlarms, At, Go, Stores, Reacting, Ended, flags
  <2>2. Awake'
    BY <2>1 DEF Awake
  <2>3. Marked'
    BY <2>1 DEF Marked, Silencing
  <2>4. Passed' /\ Written'
    BY <2>1 DEF Passed, Written, Reacting
  <2>5. ASSUME ~crossed, NEW q \in Sirens \ touched  PROVE q \in on
    <3>1. PICK i \in DOMAIN List : List[i] = q
      BY ListAssumption DEF Ports
    <3>2. i < at["esp_timer"]
      BY <2>1, InList, ListAssumption
    <3> QED BY <2>1, <2>5, <3>1, <3>2 DEF Passed
  <2>6. AlarmSounds'
    BY <2>1, <2>5 DEF AlarmSounds
  <2> QED BY <2>2, <2>3, <2>4, <2>6 DEF Sounding
<1>8. ASSUME NEW c \in Commanders, StopStores(c) \/ CloseStores(c) \/ StopsAgain(c)  PROVE Sounding'
  <2>1. /\ UNCHANGED <<active, cancelled, touched, on, at, wire>> /\ status' \in {"stop", "closed"}
        /\ crossed' = (crossed \/ Reacting)
    BY <1>8 DEF StopStores, CloseStores, StopsAgain, Stores, flags, walk
  <2>2. Reacting' <=> Reacting
    BY <1>8 DEF StopStores, CloseStores, StopsAgain, Go, Reacting
  <2>3. Awake' /\ Marked'
    BY <2>1, <2>2 DEF Awake, Marked
  <2> QED BY <2>1, <2>2, <2>3, SoundingStays
<1>9. ASSUME NEW c \in Commanders,
             \/ (\E s \in {"closed", "process", "opened"} : SetStores(c, s))
             \/ TestsClosed(c) \/ CloseActivates(c) \/ CloseUnmarks(c) \/ Posts(c)
             \/ TestsProcess(c) \/ CancelCountdown(c) \/ TestsOpened(c) \/ ShowCountdown(c) \/ TestsStop(c)
      PROVE  Sounding'
  <2>1. UNCHANGED <<cancelled, touched, on, wire, crossed>> /\ at'["esp_timer"] = at["esp_timer"]
    BY <1>9 DEF SetStores, TestsClosed, CloseActivates, CloseUnmarks, Posts, TestsProcess,
                CancelCountdown, TestsOpened, ShowCountdown, TestsStop, Advance, flags, walk, seen
  <2>2. (Reacting' <=> Reacting) /\ \A d \in Commanders : Silencing(d)' => Silencing(d)
    BY <1>9 DEF SetStores, TestsClosed, CloseActivates, CloseUnmarks, Posts, TestsProcess,
                CancelCountdown, TestsOpened, ShowCountdown, TestsStop, At, Go, Reacting, Silencing
  <2>3. status' = "alarm" => status = "alarm" /\ restored' = restored
    BY <1>9 DEF SetStores, TestsClosed, CloseActivates, CloseUnmarks, Posts, TestsProcess,
                CancelCountdown, TestsOpened, ShowCountdown, TestsStop, Stores, seen
  <2>4. \A q \in Sirens \ touched : active'[q]
    <3>1. active' = active \/ active' = [active EXCEPT ![Here(c)] = Here(c) \notin cancelled \/ Here(c) \in Emergency]
      BY <1>9 DEF SetStores, TestsClosed, CloseActivates, CloseUnmarks, Posts, TestsProcess,
                  CancelCountdown, TestsOpened, ShowCountdown, TestsStop, flags
    <3> QED BY <3>1 DEF Awake, PortsOK, Ports
  <2>5. Awake' /\ Marked'
    BY <2>1, <2>2, <2>3, <2>4 DEF Awake, Marked
  <2> QED BY <2>1, <2>2, <2>3, <2>5, SoundingStays
<1>10. ASSUME NEW p \in Cancellable, UserSets(p)  PROVE Sounding'
  <2>1. /\ UNCHANGED <<status, active, on, pc, at, wire, seen>> /\ touched' = touched \cup {p}
        /\ cancelled' \subseteq cancelled \cup {p}
    BY <1>10 DEF UserSets, walk
  <2>2. Awake' /\ Marked'
    BY <2>1 DEF Awake, Marked, Silencing, Reacting, seen
  <2>3. Reacting' => Reacting
    BY <2>1 DEF Reacting
  <2> QED BY <2>1, <2>2, <2>3, SoundingStays DEF seen
<1>11. CASE Restart
  BY <1>11 DEF Restart, Sounding, Awake, Marked, Passed, Written, AlarmSounds, Silencing, Reacting, Ports
<1>12. CASE UNCHANGED vars
  BY <1>12 DEF vars, flags, walk, seen, Sounding, Awake, Marked, Passed, Written, AlarmSounds, Silencing, Reacting, Here
<1> QED BY <1>1, <1>2, <1>3, <1>4, <1>5, <1>6, <1>7, <1>8, <1>9, <1>10, <1>11, <1>12, Steps

\* Every siren the user has let alone sounds while the status is ALARM, under
\* any timing, unless a command silenced the sirens during the reaction to the
\* sensor, or the status is the one a restart found.
THEOREM SirensSound == Spec => []AlarmSounds
<1>1. Base /\ Sounding /\ [Next]_vars => Sounding'
  BY NextSounding
<1>2. Sounding => AlarmSounds
  BY DEF Sounding
<1> QED BY <1>1, <1>2, InitSounding, AlwaysBase, PTL DEF Spec
=============================================================================
