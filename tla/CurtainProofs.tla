---------------------------- MODULE CurtainProofs ----------------------------
(***************************************************************************)
(* Safety of the curtain's motor for any number of buttons and commanders, *)
(* when no preemption hits a handler between two blocking calls.           *)
(***************************************************************************)
EXTENDS Curtain, TLAPS

TPlaces == {"idle", "start", "arm", "report", "send", "expired", "stopped", "expirySend"}
CPlaces == {"idle", "test", "start", "save", "send"}

\* The parts of TypeOK that a step seldom touches together.
RunType   == /\ status \in Statuses /\ temp \in Statuses \cup {"unknown"}
             /\ motor \in Dirs \cup {"STOP"}
             /\ timer \in BOOLEAN /\ aborted \in BOOLEAN
DriveType == /\ relay \in SUBSET Dirs
             /\ look \in [Tasks -> 1..NoTest] /\ byte \in [Tasks -> SUBSET Dirs]
             /\ i2c \in [Tasks -> {"no", "read", "write", "verify"}]
             /\ \A t \in Tasks : i2c[t] \in {"read", "write"} => look[t] # NoTest
PressType == /\ held \in BOOLEAN /\ pressed \in [Buttons -> {"up", "down", "long"}]
             /\ tpc \in TPlaces
             /\ stat \in Statuses \cup {"none"} /\ dir \in Dirs \cup {"none"}
             /\ tpc = "start" <=> dir # "none"
             /\ stat # "none" <=> tpc \in {"arm", "report", "send"}
SendType  == /\ cpc \in [Commanders -> CPlaces]
             /\ msg \in [Tasks -> Statuses \cup {"none"}]
             /\ msg["esp_timer"] # "none" <=> tpc \in {"send", "expirySend"}
             /\ \A c \in Commanders : msg[c] # "none" <=> cpc[c] = "send"
             /\ sent \in Statuses /\ overlap \in Overlaps

LEMMA TypeParts == TypeOK <=> RunType /\ DriveType /\ PressType /\ SendType
  BY DEF TypeOK, RunType, DriveType, PressType, SendType, TPlaces, CPlaces

LEMMA Names ==
  /\ First \in Dirs /\ Second \in Dirs /\ First # Second /\ Dirs = {First, Second}
  /\ "STOP" \notin Dirs /\ "none" \notin Dirs /\ "none" \notin Statuses
  /\ "esp_timer" \in Tasks /\ Commanders \subseteq Tasks /\ "esp_timer" \notin Commanders
  BY FirstAssumption, CommandersAssumption DEF Dirs, Second, Statuses, Tasks

LEMMA InitType == Init => TypeOK
<1> SUFFICES ASSUME Init PROVE RunType /\ DriveType /\ PressType /\ SendType
  BY TypeParts
<1>1. RunType
  BY DEF Init, RunType, Statuses, Dirs
<1>2. DriveType
  BY DEF Init, DriveType, NoTest
<1>3. PressType
  BY DEF Init, PressType, TPlaces
<1>4. SendType
  BY Names DEF Init, SendType, CPlaces, Statuses
<1> QED BY <1>1, <1>2, <1>3, <1>4

LEMMA TimStartType ==
  ASSUME RunType, TimStart
  PROVE  timer' \in BOOLEAN /\ aborted' \in BOOLEAN
  BY DEF RunType, TimStart

LEMMA MotorActionType ==
  ASSUME DriveType, NEW t \in Tasks, MotorAction(t)
  PROVE  DriveType'
<1>1. look' \in [Tasks -> 1..NoTest] /\ \A u \in Tasks : look'[u] # look[u] => look'[u] # NoTest
  BY DEF DriveType, MotorAction, NoTest
<1>2. UNCHANGED <<relay, i2c, byte>>
  BY DEF MotorAction, expander
<1> QED BY <1>1, <1>2 DEF DriveType

\* A step of motor_action.
LEMMA MotorStepType ==
  ASSUME DriveType, NEW t \in Tasks, MotorStep(t)
  PROVE  /\ DriveType'
         /\ UNCHANGED <<status, runVars, pressVars, tpc, cpc, msg, sent, aborted, overlap>>
<1>1. CASE Look(t)
  <2>1. look' \in [Tasks -> 1..NoTest]
    BY <1>1 DEF Look, DriveType, NoTest
  <2>2. i2c' \in [Tasks -> {"no", "read", "write", "verify"}]
        /\ \A u \in Tasks : i2c'[u] \in {"read", "write"} => look'[u] # NoTest
    BY <1>1 DEF Look, DriveType
  <2> QED BY <1>1, <2>1, <2>2 DEF Look, DriveType
<1>2. CASE ReadByte(t)
  <2>1. byte' \in [Tasks -> SUBSET Dirs]
    BY <1>2 DEF ReadByte, DriveType
  <2>2. i2c' \in [Tasks -> {"no", "read", "write", "verify"}]
        /\ \A u \in Tasks : i2c'[u] \in {"read", "write"} => look[u] # NoTest
    BY <1>2 DEF ReadByte, DriveType
  <2> QED BY <1>2, <2>1, <2>2 DEF ReadByte, DriveType
<1>3. CASE WriteByte(t)
  <2>1. look[t] # NoTest
    BY <1>3 DEF WriteByte, DriveType
  <2>2. look' \in [Tasks -> 1..NoTest]
    BY <1>3, <2>1 DEF WriteByte, DriveType, NoTest
  <2>3. relay' \in SUBSET Dirs
    BY <1>3, Names DEF WriteByte, DriveType, Port
  <2>4. byte' \in [Tasks -> SUBSET Dirs]
    BY <1>3 DEF WriteByte, DriveType
  <2>5. i2c' \in [Tasks -> {"no", "read", "write", "verify"}]
        /\ \A u \in Tasks : i2c'[u] \in {"read", "write"} => look'[u] # NoTest
    BY <1>3 DEF WriteByte, DriveType
  <2> QED BY <1>3, <2>2, <2>3, <2>4, <2>5 DEF WriteByte, DriveType
<1>4. CASE ReadBack(t)
  <2>1. i2c' \in [Tasks -> {"no", "read", "write", "verify"}]
        /\ \A u \in Tasks : i2c'[u] \in {"read", "write"} => look[u] # NoTest
    BY <1>4 DEF ReadBack, DriveType
  <2> QED BY <1>4, <2>1 DEF ReadBack, DriveType
<1> QED BY <1>1, <1>2, <1>3, <1>4 DEF MotorStep

\* A report that is built, and one that arrives.
LEMMA MsgType ==
  ASSUME RunType, SendType, NEW t \in Tasks
  PROVE  /\ msg' = [msg EXCEPT ![t] = status]
              => /\ msg' \in [Tasks -> Statuses \cup {"none"}] /\ msg'[t] # "none"
                 /\ \A u \in Tasks \ {t} : msg'[u] = msg[u]
         /\ Sent(t) /\ msg[t] # "none"
              => /\ msg' \in [Tasks -> Statuses \cup {"none"}] /\ msg'[t] = "none"
                 /\ sent' \in Statuses
                 /\ \A u \in Tasks \ {t} : msg'[u] = msg[u]
  BY Names DEF RunType, SendType, Sent

LEMMA NextType == TypeOK /\ [Next]_vars => TypeOK'
<1> SUFFICES ASSUME TypeOK, [Next]_vars PROVE RunType' /\ DriveType' /\ PressType' /\ SendType'
  BY DEF TypeOK, RunType, DriveType, PressType, SendType, TPlaces, CPlaces
<1>a. RunType /\ DriveType /\ PressType /\ SendType
  BY TypeParts
<1>b. UNCHANGED driveVars => DriveType'
  BY <1>a DEF driveVars, expander, DriveType
<1> USE DEF Statuses, Ends, Dirs, TPlaces, CPlaces
<1>1. ASSUME NEW b \in Buttons, PressStops(b)  PROVE RunType' /\ DriveType' /\ PressType' /\ SendType'
  <2>1. RunType'
    BY <1>a, <1>1 DEF PressStops, Halt, TimStop, RunType
  <2>2. DriveType'
    BY <1>a, <1>1, Names, MotorActionType DEF PressStops
  <2>3. PressType'
    BY <1>a, <1>1 DEF PressStops, PressType
  <2>4. SendType'
    BY <1>a, <1>1 DEF PressStops, SendType
  <2> QED BY <2>1, <2>2, <2>3, <2>4
<1>2. ASSUME NEW b \in Buttons, PressStarts(b)  PROVE RunType' /\ DriveType' /\ PressType' /\ SendType'
  <2>1. RunType'
    BY <1>a, <1>2 DEF PressStarts, runVars, RunType
  <2>2. dir' \in Dirs
    BY <1>2, SideAssumption DEF PressStarts
  <2>3. PressType'
    BY <1>a, <1>2, <2>2 DEF PressStarts, PressType
  <2>4. SendType'
    BY <1>a, <1>2 DEF PressStarts, SendType
  <2> QED BY <1>b, <1>2, <2>1, <2>3, <2>4 DEF PressStarts
<1>3. ASSUME NEW b \in Buttons, Hold(b)  PROVE RunType' /\ DriveType' /\ PressType' /\ SendType'
  BY <1>a, <1>b, <1>3 DEF Hold, runVars, RunType, PressType, SendType
<1>4. ASSUME NEW b \in Buttons, Release(b)  PROVE RunType' /\ DriveType' /\ PressType' /\ SendType'
  <2>1. CASE held
    <3>1. RunType'
      BY <1>a, <1>4, <2>1 DEF Release, Halt, TimStop, RunType
    <3>2. DriveType'
      BY <1>a, <1>4, <2>1, Names, MotorActionType DEF Release
    <3>3. PressType'
      BY <1>a, <1>4, <2>1 DEF Release, PressType
    <3>4. SendType'
      BY <1>a, <1>4, <2>1 DEF Release, SendType
    <3> QED BY <3>1, <3>2, <3>3, <3>4
  <2>2. CASE ~held
    <3>1. RunType' /\ DriveType'
      BY <1>a, <1>b, <1>4, <2>2 DEF Release, runVars, RunType
    <3>2. PressType' /\ SendType'
      BY <1>a, <1>4, <2>2 DEF Release, PressType, SendType
    <3> QED BY <3>1, <3>2
  <2> QED BY <2>1, <2>2
<1>5. CASE PressSets
  <2>0. dir \in Dirs
    BY <1>a, <1>5 DEF PressSets, PressType
  <2>1. RunType'
    BY <1>a, <1>5, <2>0 DEF PressSets, TimStop, RunType
  <2>2. PressType'
    BY <1>a, <1>5 DEF PressSets, PressType
  <2>3. SendType'
    BY <1>a, <1>5 DEF PressSets, SendType
  <2> QED BY <1>b, <1>5, <2>1, <2>2, <2>3 DEF PressSets
<1>6. CASE PressArms
  <2>1. RunType'
    BY <1>a, <1>6, TimStartType DEF PressArms, RunType
  <2>2. DriveType'
    BY <1>a, <1>6, Names, MotorActionType DEF PressArms
  <2>3. PressType'
    BY <1>a, <1>6 DEF PressArms, pressVars, PressType
  <2>4. SendType'
    BY <1>a, <1>6 DEF PressArms, SendType
  <2> QED BY <2>1, <2>2, <2>3, <2>4
<1>7. CASE PressReports
  <2>1. RunType' /\ PressType'
    BY <1>a, <1>7 DEF PressReports, runVars, pressVars, RunType, PressType
  <2>2. SendType'
    BY <1>a, <1>7, Names, MsgType DEF PressReports, SendType
  <2> QED BY <1>b, <1>7, <2>1, <2>2 DEF PressReports
<1>8. CASE PressStores
  <2>1. RunType'
    BY <1>a, <1>8 DEF PressStores, runVars, RunType, PressType
  <2>2. PressType'
    BY <1>a, <1>8 DEF PressStores, PressType
  <2>3. SendType'
    BY <1>a, <1>8, Names, MsgType DEF PressStores, SendType
  <2> QED BY <1>b, <1>8, <2>1, <2>2, <2>3 DEF PressStores
<1>9. CASE Expire
  <2>1. RunType'
    BY <1>a, <1>9 DEF Expire, RunType
  <2>2. PressType'
    BY <1>a, <1>9 DEF Expire, pressVars, PressType
  <2>3. SendType'
    BY <1>a, <1>9 DEF Expire, SendType
  <2> QED BY <1>b, <1>9, <2>1, <2>2, <2>3 DEF Expire
<1>10. CASE ExpireStops
  <2>1. RunType'
    BY <1>a, <1>10 DEF ExpireStops, RunType
  <2>2. DriveType'
    BY <1>a, <1>10, Names, MotorActionType DEF ExpireStops
  <2>3. PressType' /\ SendType'
    BY <1>a, <1>10 DEF ExpireStops, pressVars, PressType, SendType
  <2> QED BY <2>1, <2>2, <2>3
<1>11. CASE ExpireReports
  <2>1. RunType' /\ PressType'
    BY <1>a, <1>11 DEF ExpireReports, runVars, pressVars, RunType, PressType
  <2>2. SendType'
    BY <1>a, <1>11, Names, MsgType DEF ExpireReports, SendType
  <2> QED BY <1>b, <1>11, <2>1, <2>2 DEF ExpireReports
<1>12. CASE ExpireSends
  <2>1. RunType' /\ PressType'
    BY <1>a, <1>12 DEF ExpireSends, runVars, pressVars, RunType, PressType
  <2>2. SendType'
    BY <1>a, <1>12, Names, MsgType DEF ExpireSends, SendType
  <2> QED BY <1>b, <1>12, <2>1, <2>2 DEF ExpireSends
<1>13. ASSUME NEW c \in Commanders, NEW s \in Statuses, SetStores(c, s)
       PROVE  RunType' /\ DriveType' /\ PressType' /\ SendType'
  <2>1. RunType' /\ PressType'
    BY <1>a, <1>13 DEF SetStores, runVars, pressVars, RunType, PressType
  <2>2. SendType'
    BY <1>a, <1>13 DEF SetStores, SendType
  <2> QED BY <1>b, <1>13, <2>1, <2>2 DEF SetStores
<1>14. ASSUME NEW c \in Commanders, SetHalts(c)  PROVE RunType' /\ DriveType' /\ PressType' /\ SendType'
  <2>1. RunType' /\ PressType'
    BY <1>a, <1>14 DEF SetHalts, Halt, TimStop, pressVars, RunType, PressType
  <2>2. DriveType'
    BY <1>a, <1>14, Names, MotorActionType DEF SetHalts
  <2>3. SendType'
    BY <1>a, <1>14 DEF SetHalts, SendType
  <2> QED BY <2>1, <2>2, <2>3
<1>15. ASSUME NEW c \in Commanders, SetTests(c)  PROVE RunType' /\ DriveType' /\ PressType' /\ SendType'
  <2>1. RunType' /\ PressType'
    BY <1>a, <1>15 DEF SetTests, TimStop, pressVars, RunType, PressType
  <2>2. SendType'
    BY <1>a, <1>15 DEF SetTests, SendType
  <2> QED BY <1>b, <1>15, <2>1, <2>2 DEF SetTests
<1>16. ASSUME NEW c \in Commanders, SetStarts(c)  PROVE RunType' /\ DriveType' /\ PressType' /\ SendType'
  <2>1. status' \in Statuses /\ temp' \in Statuses \cup {"unknown"} /\ motor' \in Dirs \cup {"STOP"}
    BY <1>a, <1>16 DEF SetStarts, RunType, TowardsEnd
  <2>2. RunType'
    BY <1>a, <1>16, <2>1, TimStartType DEF SetStarts, RunType
  <2>3. DriveType'
    BY <1>a, <1>b, <1>16, Names, MotorActionType DEF SetStarts
  <2>4. PressType' /\ SendType'
    BY <1>a, <1>16 DEF SetStarts, pressVars, PressType, SendType
  <2> QED BY <2>2, <2>3, <2>4
<1>17. ASSUME NEW c \in Commanders, SetReports(c)  PROVE RunType' /\ DriveType' /\ PressType' /\ SendType'
  <2>1. RunType' /\ PressType'
    BY <1>a, <1>17 DEF SetReports, runVars, pressVars, RunType, PressType
  <2>2. SendType'
    BY <1>a, <1>17, Names, MsgType DEF SetReports, SendType
  <2> QED BY <1>b, <1>17, <2>1, <2>2 DEF SetReports
<1>18. ASSUME NEW c \in Commanders, SetSends(c)  PROVE RunType' /\ DriveType' /\ PressType' /\ SendType'
  <2>1. RunType' /\ PressType'
    BY <1>a, <1>18 DEF SetSends, runVars, pressVars, RunType, PressType
  <2>2. SendType'
    BY <1>a, <1>18, Names, MsgType DEF SetSends, SendType
  <2> QED BY <1>b, <1>18, <2>1, <2>2 DEF SetSends
<1>19. ASSUME NEW t \in Tasks, MotorStep(t)  PROVE RunType' /\ DriveType' /\ PressType' /\ SendType'
  BY <1>a, <1>19, MotorStepType DEF runVars, pressVars, RunType, PressType, SendType
<1>20. CASE UNCHANGED vars
  BY <1>a, <1>b, <1>20 DEF vars, runVars, pressVars, RunType, PressType, SendType
<1> QED
  BY <1>1, <1>2, <1>3, <1>4, <1>5, <1>6, <1>7, <1>8, <1>9, <1>10, <1>11, <1>12, <1>13, <1>14,
     <1>15, <1>16, <1>17, <1>18, <1>19, <1>20
     DEF Next, ButtonStep, PressStep, ExpiryStep, CommandStep

\* Every value in the curtain keeps its range, under any interleaving: no handler stores
\* what the status, the motor or the relays cannot have, as the expiry looks at
\* temp_status first.
THEOREM TypeCorrect == Spec => []TypeOK
  BY InitType, NextType, PTL DEF Spec

-----------------------------------------------------------------------------
(***************************************************************************)
(* The inductive invariant.  To see that a handler that starts the motor   *)
(* finds it at rest one has to know that Motor at rest is what both tests  *)
(* (of Motor, of temp_status) establish, and that nobody else is between   *)
(* such a test and the start that follows it.                              *)
(***************************************************************************)
Sections == \A t, u \in Tasks : t # u => Place(t) \in Waits \/ Place(u) \in Waits
Returns == /\ Driving("esp_timer") => tpc \in {"report", "stopped"}
           /\ \A c \in Commanders : Driving(c) => cpc[c] = "save"
Supervised == motor # "STOP" => temp # "unknown" /\ (timer \/ tpc \in {"arm", "expired"})
PressTested == /\ tpc = "start" => motor = "STOP"
               /\ tpc = "arm" => ~timer
SetTested == \A c \in Commanders : cpc[c] = "start" => temp = "unknown" /\ ~timer /\ status \in Ends
Safe == ~aborted /\ Sections /\ Returns /\ Supervised /\ PressTested /\ SetTested

LEMMA OverlapIsRigid == [Next]_vars => overlap' = overlap
  BY DEF Next, vars, ButtonStep, PressStep, ExpiryStep, CommandStep, MotorStep, PressStops, PressStarts,
         Hold, Release, PressSets, PressArms, PressReports, PressStores, Expire, ExpireStops, ExpireReports,
         ExpireSends, SetStores, SetHalts, SetTests, SetStarts, SetReports, SetSends, Look, ReadByte,
         WriteByte, ReadBack

\* A task that may run finds every other one waiting; none of those is between a test
\* and what depends on it, and it stays where it is.
LEMMA Alone ==
  ASSUME overlap # "anywhere", Returns, NEW t \in Tasks, MayRun(t), UNCHANGED overlap,
         \A u \in Tasks \ {t} : look'[u] = look[u] /\ i2c'[u] = i2c[u],
         t # "esp_timer" => UNCHANGED tpc,
         \A c \in Commanders \ {t} : cpc'[c] = cpc[c]
  PROVE  /\ Sections'
         /\ \A u \in Tasks \ {t} : Place(u) \in Waits
         /\ t # "esp_timer" => tpc \notin {"start", "arm"}
         /\ \A c \in Commanders \ {t} : cpc[c] # "start" /\ cpc'[c] # "start"
<1>1. \A u \in Tasks \ {t} : Place(u) \in Waits
  BY DEF MayRun
<1>2. \A u \in Tasks \ {t} : Place(u)' = Place(u)
  BY Names DEF Place, Driving, Tasks
<1>3. Waits' = Waits /\ Waits \subseteq {"idle", "send", "expirySend", "test", "expired", "save", "i2c"}
  BY DEF Waits, Reporting
<1>4. Sections'
  BY <1>1, <1>2, <1>3 DEF Sections
<1>5. t # "esp_timer" => tpc \notin {"start", "arm"}
  BY <1>1, <1>3, Names DEF Place, Returns
<1>6. \A c \in Commanders \ {t} : cpc[c] # "start" /\ cpc'[c] # "start"
  BY <1>1, <1>3, Names DEF Place, Returns
<1> QED BY <1>1, <1>4, <1>5, <1>6

\* A step of the esp_timer task.
LEMMA TimerAlone ==
  ASSUME overlap # "anywhere", Returns, MayRun("esp_timer"), UNCHANGED <<cpc, overlap>>,
         \A u \in Commanders : look'[u] = look[u] /\ i2c'[u] = i2c[u]
  PROVE  /\ Sections' /\ \A c \in Commanders : cpc[c] # "start"
         /\ \A c \in Commanders : Driving(c)' => Driving(c)
<1>1. \A u \in Tasks \ {"esp_timer"} : look'[u] = look[u] /\ i2c'[u] = i2c[u]
  BY DEF Tasks
<1>2. Sections' /\ \A c \in Commanders \ {"esp_timer"} : cpc[c] # "start"
  BY <1>1, Names, Alone
<1> QED BY <1>2, Names DEF Driving

\* A step of a commander.
LEMMA CommanderAlone ==
  ASSUME overlap # "anywhere", Returns, NEW c \in Commanders, MayRun(c), UNCHANGED <<tpc, overlap>>,
         \A u \in Tasks \ {c} : look'[u] = look[u] /\ i2c'[u] = i2c[u],
         \A d \in Commanders \ {c} : cpc'[d] = cpc[d]
  PROVE  /\ Sections' /\ tpc \notin {"start", "arm"}
         /\ \A d \in Commanders \ {c} : cpc[d] # "start" /\ cpc'[d] # "start" /\ cpc'[d] = cpc[d]
         /\ \A u \in Tasks \ {c} : Driving(u)' => Driving(u)
<1>1. c \in Tasks /\ c # "esp_timer"
  BY Names
<1>2. /\ Sections' /\ tpc \notin {"start", "arm"}
      /\ \A d \in Commanders \ {c} : cpc[d] # "start" /\ cpc'[d] # "start"
  BY <1>1, Alone
<1> QED BY <1>2 DEF Driving

\* motor_action begins, or is not touched.
LEMMA BeginsAlone ==
  ASSUME DriveType, NEW t \in Tasks, MotorAction(t) \/ UNCHANGED driveVars
  PROVE  \A u \in Tasks \ {t} : look'[u] = look[u] /\ i2c'[u] = i2c[u]
  BY DEF DriveType, MotorAction, driveVars, expander

LEMMA InitSafe == Init => Safe
<1> SUFFICES ASSUME Init PROVE Safe
  OBVIOUS
<1>1. \A t \in Tasks : ~Driving(t) /\ Place(t) = "idle"
  BY Names DEF Init, Place, Driving, Tasks
<1>2. "idle" \in Waits
  BY DEF Waits, Reporting
<1> QED BY <1>1, <1>2, Names DEF Init, Safe, Sections, Returns, Supervised, PressTested, SetTested

\* A step of func_callback or of the timer's callback keeps the parts about places.
LEMMA TimerPlaces ==
  ASSUME overlap # "anywhere", TypeOK, Safe, MayGo("esp_timer"), UNCHANGED <<cpc, overlap>>,
         (MotorAction("esp_timer") /\ tpc' \in {"report", "stopped"}) \/ UNCHANGED driveVars
  PROVE  Sections' /\ Returns' /\ SetTested'
<1>1. \A u \in Tasks \ {"esp_timer"} : look'[u] = look[u] /\ i2c'[u] = i2c[u]
  BY Names, BeginsAlone, TypeParts
<1>2. Returns /\ MayRun("esp_timer") /\ ~Driving("esp_timer")
  BY DEF Safe, MayGo
<1>3. /\ Sections' /\ \A c \in Commanders : cpc[c] # "start"
      /\ \A c \in Commanders : Driving(c)' => Driving(c)
  BY <1>1, <1>2, Names, TimerAlone
<1>4. Driving("esp_timer")' => tpc' \in {"report", "stopped"}
  BY <1>2 DEF Driving, driveVars, expander
<1> QED BY <1>2, <1>3, <1>4 DEF Returns, SetTested

\* So does one of set_status.
LEMMA CommandPlaces ==
  ASSUME overlap # "anywhere", TypeOK, Safe, NEW c \in Commanders, MayGo(c), UNCHANGED <<tpc, overlap>>,
         NEW p, cpc' = [cpc EXCEPT ![c] = p],
         (MotorAction(c) /\ p = "save") \/ UNCHANGED driveVars
  PROVE  /\ Sections' /\ Returns' /\ tpc \notin {"start", "arm"} /\ cpc'[c] = p
         /\ \A d \in Commanders \ {c} : cpc'[d] # "start" /\ cpc[d] # "start"
<1>1. c \in Tasks /\ Returns /\ MayRun(c) /\ ~Driving(c)
  BY Names DEF Safe, MayGo
<1>2. \A u \in Tasks \ {c} : look'[u] = look[u] /\ i2c'[u] = i2c[u]
  BY <1>1, BeginsAlone, TypeParts
<1>3. cpc'[c] = p /\ \A d \in Commanders \ {c} : cpc'[d] = cpc[d]
  BY DEF TypeOK
<1>4. /\ Sections' /\ tpc \notin {"start", "arm"}
      /\ \A d \in Commanders \ {c} : cpc[d] # "start" /\ cpc'[d] # "start" /\ cpc'[d] = cpc[d]
      /\ \A u \in Tasks \ {c} : Driving(u)' => Driving(u)
  BY <1>1, <1>2, <1>3, CommanderAlone
<1>5. Driving(c)' => p = "save"
  BY <1>1 DEF Driving, driveVars, expander
<1> QED BY <1>1, <1>3, <1>4, <1>5, Names DEF Returns

\* A step of motor_action changes the places of its own task only.
LEMMA DrivePlaces ==
  ASSUME overlap # "anywhere", TypeOK, Safe, NEW t \in Tasks, MotorStep(t)
  PROVE  Safe'
<1>1. UNCHANGED <<status, runVars, pressVars, tpc, cpc, msg, sent, aborted, overlap>>
  BY TypeParts, MotorStepType
<1>2. \A u \in Tasks \ {t} : look'[u] = look[u] /\ i2c'[u] = i2c[u]
  BY DEF TypeOK, MotorStep, Look, ReadByte, WriteByte, ReadBack
<1>3. MayRun(t) /\ Driving(t)
  BY TypeParts DEF MotorStep, Look, ReadByte, WriteByte, ReadBack, Driving
<1>4. Sections'
  BY <1>1, <1>2, <1>3, Alone DEF Safe
<1>5. \A u \in Tasks : Driving(u)' => Driving(u)
  BY <1>2, <1>3 DEF Driving
<1>6. Returns'
  BY <1>1, <1>5, Names DEF Safe, Returns
<1> QED BY <1>1, <1>4, <1>6 DEF Safe, Supervised, PressTested, SetTested, runVars

LEMMA NextSafe ==
  ASSUME overlap # "anywhere", TypeOK, Safe, [Next]_vars
  PROVE  Safe'
<1> USE DEF Supervised, PressTested
<1>1. ASSUME NEW b \in Buttons, PressStops(b)  PROVE Safe'
  BY <1>1, TimerPlaces DEF PressStops, Halt, TimStop, Safe
<1>2. ASSUME NEW b \in Buttons, PressStarts(b)  PROVE Safe'
  BY <1>2, TimerPlaces DEF PressStarts, Running, runVars, Safe
<1>3. ASSUME NEW b \in Buttons, Hold(b)  PROVE Safe'
  BY <1>3, TimerPlaces DEF Hold, runVars, Safe
<1>4. ASSUME NEW b \in Buttons, Release(b)  PROVE Safe'
  BY <1>4, TimerPlaces DEF Release, Halt, TimStop, runVars, Safe
<1>5. CASE PressSets
  <2>1. temp' # "unknown" /\ tpc' = "arm" /\ ~timer' /\ ~aborted'
    BY <1>5 DEF PressSets, TimStop, TypeOK, Statuses, Safe
  <2> QED BY <1>5, <2>1, TimerPlaces DEF PressSets, Safe
<1>6. CASE PressArms
  <2>1. timer' /\ ~aborted'
    BY <1>6 DEF PressArms, TimStart, Safe
  <2> QED BY <1>6, <2>1, TimerPlaces DEF PressArms, Safe
<1>7. CASE PressReports \/ PressStores
  BY <1>7, TimerPlaces DEF PressReports, PressStores, runVars, Safe
<1>8. CASE Expire
  BY <1>8, TimerPlaces DEF Expire, Safe
<1>9. CASE ExpireStops
  BY <1>9, TimerPlaces DEF ExpireStops, Safe
<1>10. CASE ExpireReports \/ ExpireSends
  BY <1>10, TimerPlaces DEF ExpireReports, ExpireSends, runVars, Safe
<1>11. ASSUME NEW c \in Commanders, NEW s \in Statuses, SetStores(c, s)  PROVE Safe'
  BY <1>11, CommandPlaces DEF SetStores, runVars, Safe, SetTested
<1>12. ASSUME NEW c \in Commanders, SetHalts(c)  PROVE Safe'
  BY <1>12, CommandPlaces DEF SetHalts, Halt, TimStop, Safe, SetTested
<1>13. ASSUME NEW c \in Commanders, SetTests(c)  PROVE Safe'
  BY <1>13, CommandPlaces DEF SetTests, TimStop, Safe, SetTested
<1>14. ASSUME NEW c \in Commanders, SetStarts(c)  PROVE Safe'
  <2>1. timer' /\ ~aborted' /\ temp' = status /\ MotorAction(c)
    BY <1>14 DEF SetStarts, TimStart, Safe, SetTested
  <2>2. temp' # "unknown"
    BY <2>1 DEF TypeOK, Statuses
  <2>3. Sections' /\ Returns' /\ tpc \notin {"start", "arm"} /\ cpc'[c] = "save"
        /\ \A d \in Commanders \ {c} : cpc'[d] # "start"
    BY <1>14, <2>1, CommandPlaces DEF SetStarts
  <2>4. UNCHANGED tpc
    BY <1>14 DEF SetStarts
  <2> QED BY <2>1, <2>2, <2>3, <2>4 DEF Safe, SetTested
<1>15. ASSUME NEW c \in Commanders, SetReports(c) \/ SetSends(c)  PROVE Safe'
  <2>1. UNCHANGED <<status, runVars, driveVars, tpc, aborted, overlap>> /\ MayGo(c)
        /\ \E p \in {"send", "idle"} : cpc' = [cpc EXCEPT ![c] = p]
    BY <1>15 DEF SetReports, SetSends
  <2>2. Sections' /\ Returns' /\ \A d \in Commanders : cpc'[d] # "start"
    BY <2>1, CommandPlaces
  <2> QED BY <2>1, <2>2 DEF runVars, Safe, SetTested
<1>16. ASSUME NEW t \in Tasks, MotorStep(t)  PROVE Safe'
  BY <1>16, DrivePlaces
<1>17. CASE UNCHANGED vars
  BY <1>17 DEF vars, runVars, driveVars, expander, Safe, Sections, Returns, SetTested, Place, Driving, Waits
<1> QED
  BY <1>1, <1>2, <1>3, <1>4, <1>5, <1>6, <1>7, <1>8, <1>9, <1>10, <1>11, <1>12, <1>13, <1>14, <1>15,
     <1>16, <1>17
     DEF Next, ButtonStep, PressStep, ExpiryStep, CommandStep

\* The invariant holds for every number of buttons and commanders.
LEMMA AlwaysSafe == Spec => [](TypeOK /\ (overlap # "anywhere" => Safe))
<1>1. Init => TypeOK /\ Safe
  BY InitType, InitSafe
<1>2. TypeOK /\ (overlap # "anywhere" => Safe) /\ [Next]_vars => (TypeOK /\ (overlap # "anywhere" => Safe))'
  BY OverlapIsRigid, NextType, NextSafe
<1> QED BY <1>1, <1>2, PTL DEF Spec

-----------------------------------------------------------------------------
(***************************************************************************)
(* The relays, where no handler runs during the transfers of another.      *)
(* While motor_action is at work the ports it has passed are as Motor      *)
(* says, and no relay is on that Motor does not name.                      *)
(***************************************************************************)
Calm == overlap \in {"never", "reports"}

\* The ports that were compared with STOP, and with their own direction, before test k.
Halted(k)   == IF k = 1 THEN {} ELSE IF k <= 3 THEN {First} ELSE Dirs
Compared(k) == IF k <= 2 THEN {} ELSE IF k <= 4 THEN {First} ELSE Dirs

Drives(t) == /\ relay # Dirs
             /\ motor = "STOP" => relay \cap Halted(look[t]) = {}
             /\ motor # "STOP" => relay \subseteq {motor}
             /\ motor \in Compared(look[t]) => relay = {motor}
             /\ i2c[t] \in {"read", "write"} => motor = Wants(look[t])
             /\ i2c[t] = "write" => byte[t] = relay
RelayFollows == /\ \A t \in Tasks : Driving(t) => Drives(t)
                /\ (\A t \in Tasks : ~Driving(t)) =>
                       relay = IF tpc = "arm" THEN {} ELSE {motor} \ {"STOP"}

\* Where one may run no other is in motor_action.
LEMMA NoneDrives ==
  ASSUME Calm, NEW t \in Tasks, MayRun(t)
  PROVE  \A u \in Tasks \ {t} : ~Driving(u)
<1>1. \A u \in Tasks \ {t} : Place(u) \in Reporting
  BY DEF Calm, MayRun, Waits, Reporting
<1> QED BY <1>1 DEF Place, Reporting

LEMMA TestsInOrder ==
  /\ Halted(1) = {} /\ Compared(1) = {} /\ Halted(NoTest) = Dirs /\ Compared(NoTest) = Dirs
  /\ \A k \in 1..4 : /\ k + 1 \in 1..NoTest
                     /\ \/ /\ Wants(k) = "STOP" /\ Halted(k + 1) = Halted(k) \cup {Port(k)}
                           /\ Compared(k + 1) = Compared(k)
                        \/ /\ Wants(k) = Port(k) /\ Halted(k + 1) = Halted(k)
                           /\ Compared(k + 1) = Compared(k) \cup {Port(k)}
                     /\ Port(k) \in Dirs
<1>1. Halted(1) = {} /\ Compared(1) = {} /\ Halted(NoTest) = Dirs /\ Compared(NoTest) = Dirs
  BY DEF Halted, Compared, NoTest
<1>2. ASSUME NEW k \in 1..4
      PROVE  /\ k + 1 \in 1..NoTest
             /\ \/ /\ Wants(k) = "STOP" /\ Halted(k + 1) = Halted(k) \cup {Port(k)}
                   /\ Compared(k + 1) = Compared(k)
                \/ /\ Wants(k) = Port(k) /\ Halted(k + 1) = Halted(k)
                   /\ Compared(k + 1) = Compared(k) \cup {Port(k)}
             /\ Port(k) \in Dirs
  <2>1. k = 1 \/ k = 2 \/ k = 3 \/ k = 4
    OBVIOUS
  <2>2. CASE k = 1
    BY <2>2, Names DEF Halted, Compared, Wants, Port, NoTest
  <2>3. CASE k = 2
    BY <2>3, Names DEF Halted, Compared, Wants, Port, NoTest
  <2>4. CASE k = 3
    BY <2>4, Names DEF Halted, Compared, Wants, Port, NoTest
  <2>5. CASE k = 4
    BY <2>5, Names DEF Halted, Compared, Wants, Port, NoTest
  <2> QED BY <2>1, <2>2, <2>3, <2>4, <2>5
<1> QED BY <1>1, <1>2

LEMMA InitFollows == Init => RelayFollows
  BY DEF Init, RelayFollows, Driving

\* motor_action begins: Motor has just been set to STOP, or to a direction with every
\* relay off, and the relays were those of Motor before.
LEMMA BeginsFollows ==
  ASSUME Calm, TypeOK, RelayFollows, NEW t \in Tasks, MayGo(t), MotorAction(t),
         motor' = "STOP" \/ relay = {}
  PROVE  RelayFollows'
<1>1. \A u \in Tasks : ~Driving(u)
  BY NoneDrives DEF MayGo
<1>2. look'[t] = 1 /\ i2c'[t] = "no" /\ \A u \in Tasks \ {t} : look'[u] = look[u] /\ i2c'[u] = i2c[u]
  BY <1>1 DEF TypeOK, MotorAction, expander, Driving
<1>3. \A u \in Tasks \ {t} : ~Driving(u)'
  BY <1>1, <1>2 DEF Driving
<1>4. Driving(t)' /\ UNCHANGED relay
  BY <1>2 DEF Driving, NoTest, MotorAction, expander
<1>5. relay # Dirs
  BY <1>1, Names DEF RelayFollows
<1>6. Drives(t)'
  BY <1>2, <1>4, <1>5, TestsInOrder DEF Drives
<1> QED BY <1>3, <1>4, <1>6 DEF RelayFollows

\* motor_action does not begin, and Motor stays or is about to be armed.
LEMMA StaysFollows ==
  ASSUME Calm, TypeOK, RelayFollows, NEW t \in Tasks, MayGo(t), UNCHANGED driveVars,
         \/ UNCHANGED motor /\ tpc # "arm" /\ tpc' # "arm"
         \/ motor = "STOP" /\ tpc # "arm" /\ tpc' = "arm"
  PROVE  RelayFollows'
<1>1. \A u \in Tasks : ~Driving(u) /\ ~Driving(u)'
  BY NoneDrives DEF MayGo, driveVars, expander, Driving
<1>2. relay = {motor} \ {"STOP"} /\ UNCHANGED relay
  BY <1>1 DEF RelayFollows, driveVars, expander
<1> QED BY <1>1, <1>2 DEF RelayFollows

\* A step of motor_action.
LEMMA DriveFollows ==
  ASSUME Calm, TypeOK, Safe, RelayFollows, NEW t \in Tasks, MotorStep(t)
  PROVE  RelayFollows'
<1>1. UNCHANGED motor /\ UNCHANGED tpc /\ MayRun(t)
  BY DEF MotorStep, Look, ReadByte, WriteByte, ReadBack, runVars
<1>2. \A u \in Tasks \ {t} : ~Driving(u) /\ look'[u] = look[u] /\ i2c'[u] = i2c[u]
  BY <1>1, NoneDrives DEF TypeOK, MotorStep, Look, ReadByte, WriteByte, ReadBack
<1>3. \A u \in Tasks \ {t} : ~Driving(u)'
  BY <1>2 DEF Driving
<1>4. Driving(t) /\ Drives(t)
  BY DEF TypeOK, MotorStep, Look, ReadByte, WriteByte, ReadBack, Driving, RelayFollows
<1>5. tpc # "arm"
  <2>1. CASE t = "esp_timer"
    BY <1>4, <2>1 DEF Safe, Returns
  <2>2. CASE t # "esp_timer"
    <3>1. Place("esp_timer") = tpc /\ Place("esp_timer") \in Reporting
      BY <1>1, <1>2, <2>2, Names DEF Place, Calm, MayRun, Waits, Reporting
    <3> QED BY <3>1 DEF Reporting
  <2> QED BY <2>1, <2>2
<1>6. motor \in Dirs \/ motor = "STOP"
  BY DEF TypeOK
<1>7. Drives(t)'
  <2>1. CASE Look(t)
    <3>1. look[t] \in 1..4 /\ i2c[t] = "no" /\ UNCHANGED <<relay, byte>>
      BY <2>1 DEF Look, TypeOK, NoTest
    <3>2. CASE motor = Wants(look[t])
      BY <1>1, <1>4, <2>1, <3>1, <3>2 DEF Look, Drives, TypeOK
    <3>3. CASE motor # Wants(look[t])
      <4>1. look'[t] = look[t] + 1 /\ i2c'[t] = "no"
        BY <2>1, <3>1, <3>3 DEF Look, TypeOK
      <4> QED BY <1>1, <1>4, <1>6, <3>1, <3>3, <4>1, TestsInOrder, Names DEF Drives
    <3> QED BY <3>2, <3>3
  <2>2. CASE ReadByte(t)
    BY <1>1, <1>4, <2>2 DEF ReadByte, Drives, TypeOK
  <2>3. CASE WriteByte(t)
    <3>1. look[t] \in 1..4 /\ look'[t] = look[t] + 1 /\ i2c'[t] = "verify"
      BY <2>3 DEF WriteByte, TypeOK, NoTest
    <3>2. motor = Wants(look[t]) /\ byte[t] = relay
      BY <1>4, <2>3 DEF WriteByte, Drives
    <3>3. CASE motor = "STOP"
      <4>1. relay' = relay \ {Port(look[t])}
        BY <2>3, <3>2, <3>3 DEF WriteByte
      <4> QED BY <1>1, <1>4, <3>1, <3>2, <3>3, <4>1, TestsInOrder, Names DEF Drives
    <3>4. CASE motor \in Dirs
      <4>1. relay' = relay \cup {Port(look[t])} /\ Port(look[t]) = motor
        BY <2>3, <3>1, <3>2, <3>4, TestsInOrder, Names DEF WriteByte
      <4>2. relay' = {motor}
        BY <1>4, <3>4, <4>1, Names DEF Drives
      <4> QED BY <1>1, <3>1, <3>4, <4>2, Names DEF Drives
    <3> QED BY <1>6, <3>3, <3>4
  <2>4. CASE ReadBack(t)
    BY <1>1, <1>4, <2>4 DEF ReadBack, Drives, TypeOK
  <2> QED BY <2>1, <2>2, <2>3, <2>4 DEF MotorStep
<1>8. ~Driving(t)' => relay' = {motor'} \ {"STOP"}
  <2> SUFFICES ASSUME ~Driving(t)' PROVE relay' = {motor'} \ {"STOP"}
    OBVIOUS
  <2>1. look'[t] = NoTest
    BY DEF Driving
  <2>2. relay' \subseteq Dirs
    BY TypeParts, MotorStepType DEF DriveType
  <2> QED BY <1>1, <1>6, <1>7, <2>1, <2>2, TestsInOrder, Names DEF Drives
<1> QED BY <1>1, <1>3, <1>5, <1>7, <1>8 DEF RelayFollows

LEMMA NextFollows ==
  ASSUME Calm, TypeOK, Safe, RelayFollows, [Next]_vars
  PROVE  RelayFollows'
<1>a. "esp_timer" \in Tasks /\ Commanders \subseteq Tasks
  BY Names
<1>1. ASSUME NEW b \in Buttons, PressStops(b)  PROVE RelayFollows'
  BY <1>a, <1>1, BeginsFollows DEF PressStops, Halt
<1>2. ASSUME NEW b \in Buttons, PressStarts(b) \/ Hold(b)  PROVE RelayFollows'
  BY <1>a, <1>2, StaysFollows DEF PressStarts, Hold, runVars
<1>3. ASSUME NEW b \in Buttons, Release(b)  PROVE RelayFollows'
  BY <1>a, <1>3, BeginsFollows, StaysFollows DEF Release, Halt, runVars
<1>4. CASE PressSets
  BY <1>a, <1>4, StaysFollows DEF PressSets, Safe, PressTested
<1>5. CASE PressArms
  <2>1. relay = {}
    BY <1>a, <1>5, NoneDrives DEF PressArms, MayGo, RelayFollows
  <2> QED BY <1>a, <1>5, <2>1, BeginsFollows DEF PressArms
<1>6. CASE PressReports \/ PressStores \/ Expire \/ ExpireReports \/ ExpireSends
  BY <1>a, <1>6, StaysFollows DEF PressReports, PressStores, Expire, ExpireReports, ExpireSends, runVars
<1>7. CASE ExpireStops
  BY <1>a, <1>7, BeginsFollows DEF ExpireStops
<1>8. ASSUME NEW c \in Commanders, MayGo(c)
      PROVE  tpc # "arm" /\ c \in Tasks
  <2>1. Place("esp_timer") \in Reporting /\ Place("esp_timer") = tpc
    BY <1>a, <1>8, NoneDrives, Names DEF MayGo, MayRun, Calm, Waits, Reporting, Place
  <2> QED BY <1>a, <2>1 DEF Reporting
<1>9. ASSUME NEW c \in Commanders, NEW s \in Statuses, SetStores(c, s)  PROVE RelayFollows'
  BY <1>8, <1>9, StaysFollows DEF SetStores, runVars
<1>10. ASSUME NEW c \in Commanders, SetHalts(c)  PROVE RelayFollows'
  BY <1>8, <1>10, BeginsFollows DEF SetHalts, Halt
<1>11. ASSUME NEW c \in Commanders, SetTests(c) \/ SetReports(c) \/ SetSends(c)  PROVE RelayFollows'
  BY <1>8, <1>11, StaysFollows DEF SetTests, SetReports, SetSends, runVars
<1>12. ASSUME NEW c \in Commanders, SetStarts(c)  PROVE RelayFollows'
  <2>1. motor = "STOP" /\ MayGo(c) /\ MotorAction(c)
    BY <1>8, <1>12 DEF SetStarts, TimStart, Safe, Supervised, SetTested
  <2>2. relay = {}
    BY <1>8, <2>1, NoneDrives DEF MayGo, RelayFollows
  <2> QED BY <1>8, <2>1, <2>2, BeginsFollows
<1>13. ASSUME NEW t \in Tasks, MotorStep(t)  PROVE RelayFollows'
  BY <1>13, DriveFollows
<1>14. CASE UNCHANGED vars
  BY <1>14 DEF vars, runVars, driveVars, expander, RelayFollows, Drives, Driving
<1> QED
  BY <1>1, <1>2, <1>3, <1>4, <1>5, <1>6, <1>7, <1>9, <1>10, <1>11, <1>12, <1>13, <1>14
     DEF Next, ButtonStep, PressStep, ExpiryStep, CommandStep

LEMMA AlwaysFollows == Spec => [](Calm => RelayFollows)
<1>1. (Calm => RelayFollows) /\ TypeOK /\ (overlap # "anywhere" => Safe) /\ [Next]_vars
        => (Calm => RelayFollows)'
  <2>1. [Next]_vars => Calm' = Calm
    BY OverlapIsRigid DEF Calm
  <2> QED BY <2>1, NextFollows DEF Calm
<1> QED BY <1>1, InitFollows, AlwaysSafe, PTL DEF Spec

\* The two windings are never powered together when handlers overlap only where they
\* block in the UART or the flash.
THEOREM NeverBothRelays == Spec => []Interlock
<1>1. TypeOK /\ (Calm => RelayFollows) => Interlock
  <2> SUFFICES ASSUME TypeOK, Calm, RelayFollows PROVE relay # Dirs
    BY DEF Interlock, Calm
  <2> QED BY Names DEF RelayFollows, Drives
<1> QED BY <1>1, AlwaysSafe, AlwaysFollows, PTL

\* A running motor has an active timer that will stop it, and tim_start never finds the
\* timer active, when handlers overlap only where they block; and the relay that is on
\* is the one of its direction, when they do not overlap in the transfers.
THEOREM AlwaysSupervised == Spec => []RunIsSupervised
<1>1. TypeOK /\ (overlap # "anywhere" => Safe) /\ (Calm => RelayFollows) => RunIsSupervised
  <2> SUFFICES ASSUME TypeOK, overlap # "anywhere" => Safe, Calm => RelayFollows
               PROVE  RunIsSupervised
    OBVIOUS
  <2>1. AllIdle => tpc = "idle" /\ \A t \in Tasks : ~Driving(t)
    BY Names DEF AllIdle, Place
  <2>2. overlap # "anywhere" => ~aborted /\ (AllIdle /\ motor # "STOP" => timer /\ temp # "unknown")
    BY <2>1 DEF Safe, Supervised
  <2>3. Calm /\ AllIdle => relay = {motor} \ {"STOP"}
    BY <2>1 DEF RelayFollows
  <2> QED BY <2>2, <2>3 DEF RunIsSupervised, Calm
<1> QED BY <1>1, AlwaysSafe, AlwaysFollows, PTL

-----------------------------------------------------------------------------
(***************************************************************************)
(* The status shown.  Where only one handler is at work the status lags    *)
(* behind the motor inside of it, by a local copy in a press, and is ahead *)
(* of it after an expiry.                                                  *)
(***************************************************************************)
Agree == status = "process" <=> motor # "STOP"
TempOK == temp # "process" /\ (motor = "STOP" => temp = "unknown")
PressTold == /\ tpc = "start" => status # "process"
             /\ tpc \in {"arm", "report", "send"} => (stat = "process" <=> motor # "STOP")
             /\ tpc = "expired" => status # "process"
SetTold == /\ \A c \in Commanders : cpc[c] = "test" => (status = "process" => motor # "STOP")
           /\ tpc \in {"idle", "stopped", "expirySend"} /\ (\A c \in Commanders : cpc[c] \notin {"test", "start"})
                => Agree
Told == TempOK /\ PressTold /\ SetTold

\* A step of the esp_timer task finds every commander idle.
LEMMA TimerOnly ==
  ASSUME overlap = "never", MayRun("esp_timer")
  PROVE  \A c \in Commanders : cpc[c] = "idle"
<1>1. \A u \in Tasks \ {"esp_timer"} : Place(u) = "idle"
  BY DEF MayRun, Waits
<1> QED BY <1>1, Names DEF Place

\* A step of a commander finds every other task idle.
LEMMA CommanderOnly ==
  ASSUME overlap = "never", NEW c \in Commanders, MayRun(c)
  PROVE  tpc = "idle" /\ \A d \in Commanders \ {c} : cpc[d] = "idle"
<1>1. \A u \in Tasks \ {c} : Place(u) = "idle"
  BY DEF MayRun, Waits
<1> QED BY <1>1, Names DEF Place

LEMMA InitTold == Init => Told
  BY DEF Init, Told, TempOK, PressTold, SetTold, Agree

LEMMA NextTold ==
  ASSUME overlap = "never", TypeOK, Safe, Told, [Next]_vars
  PROVE  Told'
<1> USE DEF Told, TempOK, PressTold, SetTold, Agree, MayGo
<1>1. ASSUME NEW b \in Buttons, PressStops(b)  PROVE Told'
  BY <1>1, TimerOnly DEF PressStops, Halt
<1>2. ASSUME NEW b \in Buttons, PressStarts(b)  PROVE Told'
  BY <1>2, TimerOnly DEF PressStarts, Running, runVars
<1>3. ASSUME NEW b \in Buttons, Hold(b)  PROVE Told'
  BY <1>3, TimerOnly DEF Hold, runVars
<1>4. ASSUME NEW b \in Buttons, Release(b)  PROVE Told'
  BY <1>4, TimerOnly DEF Release, Halt, runVars
<1>5. CASE PressSets
  BY <1>5, TimerOnly, Names DEF PressSets, TypeOK
<1>6. CASE PressArms \/ PressReports \/ PressStores
  BY <1>6, TimerOnly DEF PressArms, PressReports, PressStores, runVars, pressVars
<1>7. CASE Expire
  <2>1. temp = "unknown" => motor = "STOP"
    BY DEF Safe, Supervised
  <2> QED BY <1>7, <2>1, TimerOnly DEF Expire, pressVars
<1>8. CASE ExpireStops
  BY <1>8, TimerOnly DEF ExpireStops, pressVars
<1>9. CASE ExpireReports \/ ExpireSends
  BY <1>9, TimerOnly DEF ExpireReports, ExpireSends, runVars, pressVars
<1>10. ASSUME NEW c \in Commanders, NEW s \in Statuses, SetStores(c, s),
              s = "process" => status = "process"
       PROVE  Told'
  <2>1. tpc = "idle" /\ \A d \in Commanders \ {c} : cpc[d] = "idle" /\ cpc'[d] = "idle"
    BY <1>10, CommanderOnly DEF SetStores, TypeOK
  <2>2. cpc[c] = "idle" /\ cpc'[c] = "test"
    BY <1>10 DEF SetStores, TypeOK
  <2> QED BY <1>10, <2>1, <2>2 DEF SetStores, runVars, pressVars
<1>11. ASSUME NEW c \in Commanders, SetHalts(c)  PROVE Told'
  <2>1. tpc = "idle" /\ \A d \in Commanders \ {c} : cpc[d] = "idle" /\ cpc'[d] = "idle"
    BY <1>11, CommanderOnly DEF SetHalts, TypeOK
  <2>2. cpc'[c] = "save"
    BY <1>11 DEF SetHalts, TypeOK
  <2> QED BY <1>11, <2>1, <2>2 DEF SetHalts, Halt, pressVars
<1>12. ASSUME NEW c \in Commanders, SetTests(c)  PROVE Told'
  <2>1. tpc = "idle" /\ \A d \in Commanders \ {c} : cpc[d] = "idle" /\ cpc'[d] = "idle"
    BY <1>12, CommanderOnly DEF SetTests, TypeOK
  <2>2. cpc[c] = "test" /\ cpc'[c] = IF status \in Ends THEN "start" ELSE "save"
    BY <1>12 DEF SetTests, TypeOK
  <2>3. motor = "STOP"
    BY <1>12 DEF SetTests, Safe, Supervised
  <2> QED BY <1>12, <2>1, <2>2, <2>3 DEF SetTests, pressVars
<1>13. ASSUME NEW c \in Commanders, SetStarts(c)  PROVE Told'
  <2>1. tpc = "idle" /\ \A d \in Commanders \ {c} : cpc[d] = "idle" /\ cpc'[d] = "idle"
    BY <1>13, CommanderOnly DEF SetStarts, TypeOK
  <2>2. cpc'[c] = "save"
    BY <1>13 DEF SetStarts, TypeOK
  <2>3. /\ status \in Ends /\ temp' = status /\ status' = "process"
        /\ motor' = TowardsEnd(status)
    BY <1>13 DEF SetStarts, TimStart, Safe, SetTested
  <2> QED BY <1>13, <2>1, <2>2, <2>3 DEF SetStarts, Ends, TowardsEnd, pressVars
<1>14. ASSUME NEW c \in Commanders, SetReports(c) \/ SetSends(c)  PROVE Told'
  <2>1. tpc = "idle" /\ \A d \in Commanders \ {c} : cpc[d] = "idle" /\ cpc'[d] = "idle"
    BY <1>14, CommanderOnly DEF SetReports, SetSends, TypeOK
  <2>2. cpc[c] \notin {"test", "start"} /\ cpc'[c] \in {"send", "idle"}
    BY <1>14 DEF SetReports, SetSends, TypeOK
  <2> QED BY <1>14, <2>1, <2>2 DEF SetReports, SetSends, runVars, pressVars
<1>15. ASSUME NEW t \in Tasks, MotorStep(t)  PROVE Told'
  <2>1. UNCHANGED <<status, runVars, pressVars, tpc, cpc, msg, sent, aborted, overlap>>
    BY <1>15, TypeParts, MotorStepType
  <2> QED BY <2>1 DEF runVars, pressVars
<1>16. CASE UNCHANGED vars
  BY <1>16 DEF vars, runVars, pressVars
<1> QED
  BY <1>1, <1>2, <1>3, <1>4, <1>5, <1>6, <1>7, <1>8, <1>9, <1>10, <1>11, <1>12, <1>13, <1>14, <1>15, <1>16
     DEF Next, ButtonStep, PressStep, ExpiryStep, CommandStep

\* Between handlers the status says PROCESS exactly while the motor runs, where no event
\* comes while another is handled.
THEOREM StatusTrue == Spec => []StatusTellsMotor
<1>1. (overlap = "never" => Told) /\ (overlap # "anywhere" => Safe) /\ TypeOK /\ [Next]_vars
        => (overlap = "never" => Told)'
  BY OverlapIsRigid, NextTold
<1>2. (overlap = "never" => Told) => StatusTellsMotor
  BY Names DEF StatusTellsMotor, Told, SetTold, Agree, AllIdle, Place
<1>3. Init => (overlap = "never" => Told)
  BY InitTold
<1> QED BY <1>1, <1>2, <1>3, AlwaysSafe, PTL DEF Spec

-----------------------------------------------------------------------------
(***************************************************************************)
(* The reports.                                                            *)
(***************************************************************************)

\* A report that is being sent by a command is of the present status.
Reported == \A c \in Commanders : cpc[c] = "send" => msg[c] = status

LEMMA NextReported ==
  ASSUME overlap = "never", TypeOK, Reported, [Next]_vars
  PROVE  Reported' /\ \A c \in Commanders : cpc[c] = "send" /\ cpc'[c] = "idle" => sent' = status'
<1> USE DEF Reported
<1>1. CASE ButtonStep \/ PressStep \/ Expire \/ ExpiryStep
  <2>1. MayRun("esp_timer") /\ UNCHANGED cpc
    BY <1>1 DEF ButtonStep, PressStep, ExpiryStep, PressStops, PressStarts, Hold, Release, PressSets,
                PressArms, PressReports, PressStores, Expire, ExpireStops, ExpireReports, ExpireSends, MayGo
  <2> QED BY <2>1, TimerOnly
<1>2. ASSUME NEW c \in Commanders, NEW s \in Statuses, SetStores(c, s)
      PROVE  /\ Reported' /\ cpc[c] # "send"
             /\ \A d \in Commanders \ {c} : cpc[d] # "send"
  <2>1. \A d \in Commanders \ {c} : cpc[d] = "idle" /\ cpc'[d] = "idle"
    BY <1>2, CommanderOnly DEF SetStores, TypeOK, MayGo
  <2>2. cpc[c] = "idle" /\ cpc'[c] = "test"
    BY <1>2 DEF SetStores, TypeOK
  <2> QED BY <2>1, <2>2
<1>3. ASSUME NEW c \in Commanders, CommandStep(c)
      PROVE  /\ Reported'
             /\ cpc[c] = "send" => sent' = status'
             /\ \A d \in Commanders \ {c} : cpc[d] # "send"
  <2>1. MayRun(c) /\ \E p : cpc' = [cpc EXCEPT ![c] = p]
    BY <1>3 DEF CommandStep, SetHalts, SetTests, SetStarts, SetReports, SetSends, MayGo
  <2>2. \A d \in Commanders \ {c} : cpc[d] = "idle" /\ cpc'[d] = "idle"
    BY <2>1, CommanderOnly DEF TypeOK
  <2>3. CASE SetReports(c)
    BY <2>2, <2>3 DEF SetReports, TypeOK, Tasks
  <2>4. CASE SetSends(c)
    BY <2>2, <2>4 DEF SetSends, Sent, TypeOK
  <2>5. CASE SetHalts(c) \/ SetTests(c) \/ SetStarts(c)
    <3>1. cpc[c] # "send" /\ cpc'[c] # "send"
      BY <2>5 DEF SetHalts, SetTests, SetStarts, TypeOK
    <3> QED BY <2>2, <3>1
  <2> QED BY <1>3, <2>3, <2>4, <2>5 DEF CommandStep
<1>4. ASSUME NEW t \in Tasks, MotorStep(t)
      PROVE  UNCHANGED <<status, cpc, msg>>
  BY <1>4 DEF MotorStep, Look, ReadByte, WriteByte, ReadBack
<1>5. CASE UNCHANGED vars
  BY <1>5 DEF vars
<1>6. CASE \E c \in Commanders : (\E s \in Statuses : SetStores(c, s)) \/ CommandStep(c)
  <2>1. PICK c \in Commanders : (\E s \in Statuses : SetStores(c, s)) \/ CommandStep(c)
    BY <1>6
  <2>2. /\ Reported'
        /\ cpc[c] = "send" => sent' = status'
        /\ \A d \in Commanders \ {c} : cpc[d] # "send"
    BY <2>1, <1>2, <1>3
  <2> QED BY <2>2
<1> QED BY <1>1, <1>4, <1>5, <1>6 DEF Next

\* When a command has been handled CPU1 knows the status, where no event comes while
\* another is handled.
THEOREM CommandTold == Spec => CommandReported
<1>1. Init => Reported
  BY DEF Init, Reported
<1>2. (overlap = "never" => Reported) /\ TypeOK /\ [Next]_vars
        => (overlap = "never" => Reported)'
  BY OverlapIsRigid, NextReported
<1>3. (overlap = "never" => Reported) /\ TypeOK /\ [Next]_vars
        => [\A c \in Commanders : overlap = "never" /\ cpc[c] = "send" /\ cpc'[c] = "idle"
                                => sent' = status']_vars
  BY NextReported
<1> QED BY <1>1, <1>2, <1>3, TypeCorrect, PTL DEF Spec, CommandReported

\* What an expired run sends is the present status as well.
ExpiryTold == tpc = "expirySend" => msg["esp_timer"] = status

LEMMA NextExpiryTold ==
  ASSUME overlap = "never", TypeOK, ExpiryTold, [Next]_vars
  PROVE  ExpiryTold'
<1> USE DEF ExpiryTold
<1>1. CASE ButtonStep
  BY <1>1 DEF ButtonStep, PressStops, PressStarts, Hold, Release
<1>2. CASE PressStep
  BY <1>2 DEF PressStep, PressSets, PressArms, PressReports, PressStores
<1>3. CASE Expire
  BY <1>3 DEF Expire
<1>4. CASE ExpiryStep
  BY <1>4, Names DEF ExpiryStep, ExpireStops, ExpireReports, ExpireSends, TypeOK
<1>5. ASSUME NEW c \in Commanders, (\E s \in Statuses : SetStores(c, s)) \/ CommandStep(c)
      PROVE  ExpiryTold'
  <2>1. MayRun(c) /\ UNCHANGED tpc
    BY <1>5 DEF SetStores, CommandStep, SetHalts, SetTests, SetStarts, SetReports, SetSends, MayGo
  <2> QED BY <2>1, CommanderOnly
<1>6. ASSUME NEW t \in Tasks, MotorStep(t)  PROVE ExpiryTold'
  BY <1>6 DEF MotorStep, Look, ReadByte, WriteByte, ReadBack
<1>7. CASE UNCHANGED vars
  BY <1>7 DEF vars
<1> QED BY <1>1, <1>2, <1>3, <1>4, <1>5, <1>6, <1>7 DEF Next

\* A handler that ends, other than a press, ends in ExpireSends or SetSends.
LEMMA EndsReported ==
  ASSUME overlap = "never", TypeOK, Safe, Reported, ExpiryTold, [Next]_vars,
         ~AllIdle, AllIdle', tpc # "send"
  PROVE  sent' = status'
<1>1. tpc' = "idle" /\ \A c \in Commanders : cpc'[c] = "idle"
  BY Names DEF AllIdle, Place
<1>2. ASSUME MayGo("esp_timer"), tpc = "idle"  PROVE FALSE
  BY <1>2, Names DEF MayGo, MayRun, Waits, AllIdle, Place
<1>3. ASSUME NEW c \in Commanders, MayGo(c), cpc[c] = "idle"  PROVE FALSE
  BY <1>3, Names DEF MayGo, MayRun, Waits, AllIdle, Place
<1>4. CASE ButtonStep \/ Expire
  BY <1>2, <1>4 DEF ButtonStep, PressStops, PressStarts, Hold, Release, Expire
<1>5. CASE PressStep
  BY <1>1, <1>5 DEF PressStep, PressSets, PressArms, PressReports, PressStores
<1>6. CASE ExpiryStep
  BY <1>1, <1>6 DEF ExpiryStep, ExpireStops, ExpireReports, ExpireSends, Sent, ExpiryTold
<1>7. ASSUME NEW c \in Commanders, NEW s \in Statuses, SetStores(c, s)  PROVE FALSE
  BY <1>3, <1>7 DEF SetStores
<1>8. ASSUME NEW c \in Commanders, CommandStep(c)  PROVE sent' = status'
  <2>1. cpc'[c] = "idle"
    BY <1>1
  <2>2. SetSends(c)
    BY <1>8, <2>1 DEF CommandStep, SetHalts, SetTests, SetStarts, SetReports, TypeOK
  <2> QED BY <2>2 DEF SetSends, Sent, Reported
<1>9. ASSUME NEW t \in Tasks, MotorStep(t)  PROVE FALSE
  <2>1. Driving(t)
    BY <1>9 DEF MotorStep, Look, ReadByte, WriteByte, ReadBack, Driving
  <2>2. t = "esp_timer" => tpc \in {"report", "stopped"}
    BY <2>1 DEF Safe, Returns
  <2>3. t \in Commanders => cpc[t] = "save"
    BY <2>1 DEF Safe, Returns
  <2>4. UNCHANGED <<tpc, cpc>>
    BY <1>9 DEF MotorStep, Look, ReadByte, WriteByte, ReadBack
  <2> QED BY <1>1, <2>2, <2>3, <2>4 DEF Tasks
<1>10. CASE UNCHANGED vars
  BY <1>10 DEF vars, driveVars, expander, AllIdle, Place, Driving
<1> QED BY <1>4, <1>5, <1>6, <1>7, <1>8, <1>9, <1>10 DEF Next

\* Where no event comes while another is handled, a press is the only handler that can
\* leave CPU1 with an old status: whatever else ends, the last report CPU1 got is of the
\* status the curtain has.
THEOREM OnlyPressesMislead ==
  Spec => [][overlap = "never" /\ ~AllIdle /\ AllIdle' /\ tpc # "send" => sent' = status']_vars
<1>1. Init => Reported /\ ExpiryTold
  BY DEF Init, Reported, ExpiryTold
<1>2. (overlap = "never" => Reported /\ ExpiryTold) /\ TypeOK /\ [Next]_vars
        => (overlap = "never" => Reported /\ ExpiryTold)'
  BY OverlapIsRigid, NextReported, NextExpiryTold
<1>3. (overlap = "never" => Reported /\ ExpiryTold) /\ TypeOK /\ (overlap # "anywhere" => Safe) /\ [Next]_vars
        => [overlap = "never" /\ ~AllIdle /\ AllIdle' /\ tpc # "send" => sent' = status']_vars
  BY EndsReported
<1> QED BY <1>1, <1>2, <1>3, AlwaysSafe, TypeCorrect, PTL DEF Spec
=============================================================================
