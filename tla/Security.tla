------------------------------ MODULE Security ------------------------------
(***************************************************************************)
(* The alarm panel (class Security): sensors, emergency sensors, sirens,   *)
(* the countdown of ten seconds between the command that arms it and the   *)
(* armed state, the user's right to cancel a port, and restarts.           *)
(*                                                                         *)
(* Sensor events and the countdown run in the esp_timer task, commands in  *)
(* tasks of their own, with no lock.  A handler blocks in the I2C          *)
(* transfers to a siren, in the write of the status to flash and in        *)
(* posting an event.  The report to CPU1 that ends it changes nothing here *)
(* and is left out, as is a command that carries no status: it repeats     *)
(* the present one (json_to_status), in ALARM without effect.  The byte    *)
(* that a siren shares with other outputs is Relay's subject.  Of all the  *)
(* state only the status in flash survives a restart.                      *)
(***************************************************************************)
EXTENDS Integers, Sequences

CONSTANTS Sensors,      \* input ports
          Emergency,    \* those of type FIRE, GAS, WATER or EMERGENCY
          Sirens,       \* output ports
          List,         \* port_head_handle: the ports in the order of the list
          Commanders,   \* tasks that call set_status
          Requests,     \* bound: the statuses each of them is called with
          Overlaps,     \* the ways in which handlers may overlap
          Cancellable   \* bound: ports the user cancels

Ports == Sensors \cup Sirens
ASSUME PortsAssumption == Emergency \subseteq Sensors /\ Sensors \cap Sirens = {}
ASSUME ListAssumption  == List \in Seq(Ports) /\ \A p \in Ports : \E i \in DOMAIN List : List[i] = p
ASSUME CancellableAssumption == Cancellable \subseteq Ports
ASSUME CommandersAssumption ==
    "esp_timer" \notin Commanders
    /\ Requests \in [Commanders -> SUBSET {"closed", "process", "opened", "stop"}]
ASSUME OverlapsAssumption == Overlaps \subseteq {"blocked", "anywhere"}

VARIABLES status,     \* status.status
          saved,      \* the status in flash
          timer,      \* qtimer is active
          active,     \* Base_Port::active
          cancelled,  \* ports whose user_active is false
          alarm,      \* ports marked by set_alarm(true)
          on,         \* output ports that are switched on
          pc,         \* where each task is in its handler
          at,         \* the place in the list of the port each task is at
          wire,       \* the I2C transfer it waits for there
          chg,        \* the local of set_status, FALSE once it has been tested
          aborted,    \* ESP_ERROR_CHECK is restarting the chip
          touched,    \* history: ports ever cancelled since the last restart
          asked,      \* history: the last command of its kind was to arm
          restored,   \* history: the status is the one the last restart found
          crossed,    \* history: a command silenced the sirens during the
                      \* reaction to a sensor that led to this alarm
          overlap     \* the assumption on timing this behaviour is under
flags  == <<active, cancelled, alarm, touched>>
walk   == <<at, wire>>
seen   == <<asked, restored, crossed, overlap>>
vars == <<status, saved, timer, flags, on, pc, walk, chg, aborted, seen>>

Statuses == {"closed", "process", "opened", "alarm", "stop"}
Tasks    == Commanders \cup {"esp_timer"}

Init == /\ status = "closed" /\ saved = "closed" /\ timer = FALSE
        /\ active = [p \in Ports |-> TRUE] /\ cancelled = {} /\ alarm = {} /\ on = {}
        /\ pc = [t \in Tasks |-> "idle"] /\ at = [t \in Tasks |-> 1]
        /\ wire = [t \in Tasks |-> "no"]
        /\ chg = [c \in Commanders |-> FALSE]
        /\ aborted = FALSE /\ touched = {} /\ asked = FALSE
        /\ restored = FALSE /\ crossed = FALSE /\ overlap \in Overlaps

\* Task t is between two handlers, or blocked in one.
Waiting(t) == wire[t] # "no" \/ pc[t] \in {"idle", "save", "closeSave", "stopSave", "againSave", "post"}
AtRest     == \A t \in Tasks : Waiting(t)

\* Task t may take a step.  "anywhere" is what the scheduler can do: two
\* cores, and an esp_timer task that preempts every other one.  "blocked" is
\* what happens when no preemption hits the few microseconds between two
\* blocking calls.
MayRun(t) == ~aborted /\ (overlap = "blocked" => \A u \in Tasks \ {t} : Waiting(u))

At(t, place) == MayRun(t) /\ pc[t] = place /\ wire[t] = "no"
Go(t, place) == pc' = [pc EXCEPT ![t] = place]
Stores(s)    == status' = s /\ restored' = FALSE

\* mutant: the countdown goes on
TimStopNot == timer
\* tim_stop
TimStop == FALSE

\* mutant: the countdown is announced and not started
TimStartNot == UNCHANGED <<timer, aborted>>
\* tim_start
TimStart == IF timer THEN aborted' = TRUE /\ UNCHANGED timer
                     ELSE timer' = TRUE /\ UNCHANGED aborted

-----------------------------------------------------------------------------
(* The loops over the ports: cikis_port_active ("sound"), alarm_open       *)
(* ("open"), alarm_close ("close") and alarm_stop ("stop", "again").       *)
Here(t)   == List[at[t]]
Ended(t)  == at[t] > Len(List)
Rewind(t) == at' = [at EXCEPT ![t] = 1]
Advance(t) == at' = [at EXCEPT ![t] = @ + 1]

\* mutant: the type of the port is not looked at
SoundsAny(p) == p \notin cancelled /\ active[p]
\* mutant: nothing is switched on
SoundsNone(p) == FALSE
\* cikis_port_active switches the port on; Base_Port::set_status asks active
Sounds(p) == p \in Sirens \ cancelled /\ active[p]
\* alarm_stop and alarm_close switch it off
Silences(p) == p \in Sirens /\ active[p]

\* A siren is switched, or passed over.
AfterSiren(t) == IF pc[t] = "close" THEN Go(t, "activate") /\ UNCHANGED at
                                    ELSE Advance(t) /\ UNCHANGED pc
CallSiren(t) ==
    /\ MayRun(t) /\ pc[t] \in {"sound", "close", "stop", "again"} /\ wire[t] = "no" /\ ~Ended(t)
    /\ IF (IF pc[t] = "sound" THEN Sounds(Here(t)) ELSE Silences(Here(t)))
       THEN wire' = [wire EXCEPT ![t] = "write"] /\ UNCHANGED <<pc, at>>
       ELSE AfterSiren(t) /\ UNCHANGED wire
    /\ UNCHANGED <<status, saved, timer, flags, on, chg, aborted, seen>>
Switch(t) == /\ MayRun(t) /\ wire[t] = "write"
             /\ on' = IF pc[t] = "sound" THEN on \cup {Here(t)} ELSE on \ {Here(t)}
             /\ wire' = [wire EXCEPT ![t] = "back"]
             /\ UNCHANGED <<status, saved, timer, flags, pc, at, chg, aborted, seen>>
\* The level that is read back is not used.
ReadBack(t) == /\ MayRun(t) /\ wire[t] = "back"
               /\ wire' = [wire EXCEPT ![t] = "no"]
               /\ AfterSiren(t)
               /\ UNCHANGED <<status, saved, timer, flags, on, chg, aborted, seen>>

\* The loop ends; what follows is a write to flash.
EndWalk(t) == /\ MayRun(t) /\ Ended(t) /\ Rewind(t)
              /\ \/ pc[t] = "open"  /\ Go(t, "save")
                 \/ pc[t] = "close" /\ Go(t, "closeSave")
                 \/ pc[t] = "stop"  /\ Go(t, "stopSave")
                 \/ pc[t] = "again" /\ Go(t, "againSave")
              /\ UNCHANGED <<status, saved, timer, flags, on, wire, chg, aborted, seen>>

\* write_status.  alarm_close then posts HOME_DOOR_OPEN, and returns, like
\* alarm_stop, to set_status, which returns at once if it was called to stop.
Save(t) == /\ MayRun(t) /\ saved' = status
           /\ \/ pc[t] = "save"      /\ Go(t, "idle")
              \/ pc[t] = "closeSave" /\ Go(t, "post")
              \/ pc[t] = "stopSave"  /\ Go(t, "idle")
              \/ pc[t] = "againSave" /\ Go(t, "save")
           /\ UNCHANGED <<status, timer, flags, on, walk, chg, aborted, seen>>

-----------------------------------------------------------------------------
(* func_callback, BUTTON_PRESS_DOWN or BUTTON_PRESS_UP of an enabled port *)
Accepted(p) == (status = "opened" \/ p \in Emergency) /\ p \notin cancelled

SensorTests(i) == /\ At("esp_timer", "idle")
                  /\ List[i] \in Sensors /\ active[List[i]] /\ Accepted(List[i])
                  /\ at' = [at EXCEPT !["esp_timer"] = i] /\ Go("esp_timer", "deafen")
                  /\ UNCHANGED <<status, saved, timer, flags, on, wire, chg, aborted, seen>>
\* set_active_admin
SensorDeafens == /\ At("esp_timer", "deafen")
                 /\ active' = [active EXCEPT ![Here("esp_timer")] = FALSE]
                 /\ Go("esp_timer", "mark")
                 /\ UNCHANGED <<status, saved, timer, cancelled, alarm, on, walk, chg, aborted, touched, seen>>

Silencing(c) == pc[c] \in {"close", "activate", "unmark", "stop", "again"}
Reacting     == pc["esp_timer"] = "sound"

\* set_alarm
SensorMarks == /\ At("esp_timer", "mark")
               /\ alarm' = alarm \cup {Here("esp_timer")}
               /\ Go("esp_timer", "sound") /\ Rewind("esp_timer")
               /\ crossed' = \/ crossed /\ status = "alarm"
                             \/ \E c \in Commanders : Silencing(c)
               /\ UNCHANGED <<status, saved, timer, active, cancelled, on, wire, chg, aborted, touched, asked, restored, overlap>>
SensorAlarms == /\ At("esp_timer", "sound") /\ Ended("esp_timer")
                /\ Stores("alarm")
                /\ Go("esp_timer", "save") /\ Rewind("esp_timer")
                /\ UNCHANGED <<saved, timer, flags, on, wire, chg, aborted, asked, crossed, overlap>>

\* The countdown is over: tim_callback calls alarm_open.
Expire == /\ At("esp_timer", "idle") /\ timer
          /\ timer' = FALSE /\ Go("esp_timer", "expired")
          /\ UNCHANGED <<status, saved, flags, on, walk, chg, aborted, seen>>
AlarmOpen == /\ At("esp_timer", "expired")
             /\ Stores("opened")
             /\ Go("esp_timer", "open")
             /\ UNCHANGED <<saved, timer, flags, on, walk, chg, aborted, asked, crossed, overlap>>
OpenUnmarks == /\ At("esp_timer", "open") /\ ~Ended("esp_timer")
               /\ alarm' = alarm \ {Here("esp_timer")}
               /\ Go("esp_timer", "reopen")
               /\ UNCHANGED <<status, saved, timer, active, cancelled, on, walk, chg, aborted, touched, seen>>

\* mutant: ports are not activated again
ReopensNone(p) == FALSE
\* the ports alarm_open activates
Reopens(p) == p \in Sensors \ cancelled

OpenActivates == /\ At("esp_timer", "reopen")
                 /\ active' = [active EXCEPT ![Here("esp_timer")] = @ \/ Reopens(Here("esp_timer"))]
                 /\ Go("esp_timer", "open") /\ Advance("esp_timer")
                 /\ UNCHANGED <<status, saved, timer, cancelled, alarm, on, wire, chg, aborted, touched, seen>>

-----------------------------------------------------------------------------
(* set_status *)

\* SEC_STOP: alarm_stop, and no more
StopStores(c) == /\ At(c, "idle")
                 /\ Stores("stop")
                 /\ Go(c, "stop")
                 /\ crossed' = (crossed \/ Reacting)
                 /\ UNCHANGED <<saved, timer, flags, on, walk, chg, aborted, asked, overlap>>

\* Any other command is stored first.  A command to arm has the status OPENED,
\* one to cancel the countdown PROCESS.
SetStores(c, s) == /\ At(c, "idle")
                   /\ Stores(s)
                   /\ asked' = (s = "opened")
                   /\ Go(c, "closed?")
                   /\ UNCHANGED <<saved, timer, flags, on, walk, chg, aborted, crossed, overlap>>

TestsClosed(c) == /\ At(c, "closed?")
                  /\ IF status = "closed" THEN timer' = TimStop /\ Go(c, "closes")
                                          ELSE UNCHANGED timer /\ Go(c, "process?")
                  /\ UNCHANGED <<status, saved, flags, on, walk, chg, aborted, seen>>
\* alarm_close
CloseStores(c) == /\ At(c, "closes")
                  /\ Stores("closed")
                  /\ chg' = [chg EXCEPT ![c] = TRUE]
                  /\ Go(c, "close")
                  /\ crossed' = (crossed \/ Reacting)
                  /\ UNCHANGED <<saved, timer, flags, on, walk, aborted, asked, overlap>>
CloseActivates(c) == /\ At(c, "activate")
                     /\ active' = [active EXCEPT ![Here(c)] = Here(c) \notin cancelled \/ Here(c) \in Emergency]
                     /\ Go(c, "unmark")
                     /\ UNCHANGED <<status, saved, timer, cancelled, alarm, on, walk, chg, aborted, touched, seen>>
CloseUnmarks(c) == /\ At(c, "unmark")
                   /\ alarm' = alarm \ {Here(c)}
                   /\ Go(c, "close") /\ Advance(c)
                   /\ UNCHANGED <<status, saved, timer, active, cancelled, on, wire, chg, aborted, touched, seen>>
Posts(c) == /\ At(c, "post")
            /\ Go(c, "process?")
            /\ UNCHANGED <<status, saved, timer, flags, on, walk, chg, aborted, seen>>

TestsProcess(c) == /\ At(c, "process?")
                   /\ IF status = "process" THEN timer' = TimStop /\ Go(c, "cancel")
                                            ELSE UNCHANGED timer /\ Go(c, "opened?")
                   /\ UNCHANGED <<status, saved, flags, on, walk, chg, aborted, seen>>
CancelCountdown(c) == /\ At(c, "cancel")
                      /\ Stores("closed")
                      /\ chg' = [chg EXCEPT ![c] = TRUE]
                      /\ Go(c, "opened?")
                      /\ UNCHANGED <<saved, timer, flags, on, walk, aborted, asked, crossed, overlap>>

TestsOpened(c) == /\ At(c, "opened?")
                  /\ IF status = "opened" THEN TimStart /\ Go(c, "show")
                                          ELSE UNCHANGED <<timer, aborted>> /\ Go(c, "stop?")
                  /\ UNCHANGED <<status, saved, flags, on, walk, chg, seen>>
ShowCountdown(c) == /\ At(c, "show")
                    /\ Stores("process")
                    /\ chg' = [chg EXCEPT ![c] = TRUE]
                    /\ Go(c, "stop?")
                    /\ UNCHANGED <<saved, timer, flags, on, walk, aborted, asked, crossed, overlap>>

TestsStop(c) == /\ At(c, "stop?")
                /\ Go(c, IF status = "stop" THEN "stops" ELSE IF chg[c] THEN "save" ELSE "idle")
                /\ chg' = [chg EXCEPT ![c] = FALSE]
                /\ UNCHANGED <<status, saved, timer, flags, on, walk, aborted, seen>>
StopsAgain(c) == /\ At(c, "stops")
                 /\ Stores("stop")
                 /\ Go(c, "again")
                 /\ crossed' = (crossed \/ Reacting)
                 /\ UNCHANGED <<saved, timer, flags, on, walk, chg, aborted, asked, overlap>>

-----------------------------------------------------------------------------
\* spevent_action: the user cancels a port or takes the cancellation back.
\* The port's active flag does not follow.
UserSets(p) == /\ ~aborted /\ (overlap = "blocked" => AtRest)
               /\ cancelled' = IF p \in cancelled THEN cancelled \ {p} ELSE cancelled \cup {p}
               /\ touched' = touched \cup {p}
               /\ UNCHANGED <<status, saved, timer, active, alarm, on, pc, walk, chg, aborted, seen>>

\* The chip restarts: power failure or ESP_ERROR_CHECK.  A relay behind a port
\* expander keeps its state when only the chip is reset.  A command that is
\* interrupted before its write to flash is forgotten, with its request.
Restart == /\ timer' = FALSE /\ aborted' = FALSE
           /\ status' = saved /\ restored' = TRUE
           /\ active' = [p \in Ports |-> TRUE] /\ cancelled' = {} /\ alarm' = {}
           /\ on' \in {{}, on}
           /\ pc' = [t \in Tasks |-> "idle"] /\ at' = [t \in Tasks |-> 1]
           /\ wire' = [t \in Tasks |-> "no"] /\ chg' = [c \in Commanders |-> FALSE]
           /\ touched' = {} /\ crossed' = FALSE
           /\ asked' = (asked \/ \E c \in Commanders : pc[c] # "idle")
           /\ UNCHANGED <<saved, overlap>>

Walk(t)    == CallSiren(t) \/ Switch(t) \/ ReadBack(t) \/ EndWalk(t) \/ Save(t)
TimerStep  == Walk("esp_timer") \/ SensorDeafens \/ SensorMarks \/ SensorAlarms
              \/ AlarmOpen \/ OpenUnmarks \/ OpenActivates
Serve(c)   == Walk(c) \/ TestsClosed(c) \/ CloseStores(c) \/ CloseActivates(c) \/ CloseUnmarks(c)
              \/ Posts(c) \/ TestsProcess(c) \/ CancelCountdown(c) \/ TestsOpened(c)
              \/ ShowCountdown(c) \/ TestsStop(c) \/ StopsAgain(c)
Command(c) == \E s \in Requests[c] : IF s = "stop" THEN StopStores(c) ELSE SetStores(c, s)
Next == \/ \E i \in DOMAIN List : SensorTests(i)
        \/ Expire
        \/ TimerStep
        \/ \E c \in Commanders : Command(c) \/ Serve(c)
        \/ \E p \in Cancellable : UserSets(p)
        \/ Restart

Spec == Init /\ [][Next]_vars

\* As long as a handler is on its way or a timer has expired, one of them goes
\* on.  Sensors, commands, the user and power failures owe nothing.
FairSpec == Spec /\ WF_vars(TimerStep \/ Expire \/ \E c \in Commanders : Serve(c))

-----------------------------------------------------------------------------
TypeOK == /\ status \in Statuses /\ saved \in Statuses
          /\ timer \in BOOLEAN /\ aborted \in BOOLEAN
          /\ active \in [Ports -> BOOLEAN]
          /\ cancelled \subseteq Ports /\ touched \subseteq Ports
          /\ alarm \subseteq Sensors /\ on \subseteq Sirens
          /\ pc \in [Tasks -> {"idle", "deafen", "mark", "sound", "expired", "open", "reopen",
                               "stop", "again", "closed?", "closes", "close", "activate", "unmark",
                               "post", "process?", "cancel", "opened?", "show", "stop?", "stops",
                               "save", "closeSave", "stopSave", "againSave"}]
          /\ at \in [Tasks -> 1..(Len(List) + 1)]
          /\ wire \in [Tasks -> {"no", "write", "back"}]
          /\ chg \in [Commanders -> BOOLEAN]
          /\ asked \in BOOLEAN /\ restored \in BOOLEAN /\ crossed \in BOOLEAN /\ overlap \in Overlaps

\* A sensor the user has let alone is deaf exactly while its own alarm is
\* pending: alarm_open and alarm_close (security.cpp:82-94, 132-155) hear it
\* again, whatever else is handled while one of them, or a sensor's reaction,
\* is blocked, and across restarts.
NoDeafSensor == overlap = "blocked" /\ AtRest
                  => \A p \in Sensors \ touched : active[p] <=> p \notin alarm

\* The panel is armed, or about to be, only if the last request was to arm it:
\* a disarmed panel never arms itself, across restarts and whatever is handled
\* while a command is blocked between alarm_close and the tests that follow it
\* (security.cpp:173-199).
ArmedOnRequest == overlap = "blocked" /\ AtRest /\ (status = "opened" \/ timer) => asked

\* The countdown that is shown is running (security.cpp:186-193), unless it was
\* found in flash after a restart.
CountdownIsTimed == overlap = "blocked" /\ AtRest /\ status = "process" => timer \/ restored

\* Every siren the user has let alone sounds as long as the status is ALARM,
\* unless a command silenced the sirens while a sensor's reaction was on its
\* way, or the status was found in flash after a restart.
AlarmSounds == status = "alarm" => crossed \/ restored \/ Sirens \ touched \subseteq on

\* The countdown ends, unless a restart interrupts it.
CountdownEnds == status = "process" /\ ~restored /\ overlap = "blocked"
                   ~> status # "process" \/ restored

\* security.cpp:310 asserts that the countdown can be started.  A second command
\* to arm breaks it.
CountdownStarts == ~aborted
=============================================================================
