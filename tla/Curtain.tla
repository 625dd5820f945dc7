------------------------------ MODULE Curtain ------------------------------
(***************************************************************************)
(* A motor curtain (class Curtain): two buttons, two relays, a one-shot    *)
(* timer that ends a run, and commands that arrive from CPU1 or the RS485  *)
(* bus.  Button events and the expiry of the timer are callbacks of the    *)
(* one esp_timer task; commands run in tasks of their own.  No lock        *)
(* protects the object, and a handler blocks in the middle of its work: in *)
(* the flash, in UART::Sender, and in the I2C transfers by which           *)
(* motor_action reads, writes and reads back the byte of the port expander *)
(* that holds both relays.                                                 *)
(*                                                                         *)
(* The device is a local one (genel.virtual_device is false): a virtual    *)
(* curtain keeps no motor.  Curtain::fire has no caller in this firmware.  *)
(* status.counter, the length of a run, is data the properties do not use; *)
(* nor is there another output on the expander (Relay is about those).     *)
(***************************************************************************)
EXTENDS Integers

CONSTANTS Buttons,      \* input ports of the device
          Side,         \* [Buttons -> Dirs], the names given to the ports
          First,        \* the name of the first output port of the list
          Commanders,   \* tasks that call set_status
          Overlaps      \* the ways in which handlers may overlap

Dirs == {"UP", "DOWN"}
ASSUME SideAssumption == Side \in [Buttons -> Dirs]
ASSUME FirstAssumption == First \in Dirs
ASSUME CommandersAssumption == "esp_timer" \notin Commanders
ASSUME OverlapsAssumption == Overlaps \subseteq {"never", "reports", "blocked", "anywhere"}

VARIABLES status,   \* status.status
          temp,     \* temp_status: what status becomes when the timer expires
          motor,    \* Motor
          relay,    \* output ports that are switched on
          timer,    \* qtimer is active
          held,     \* buton_durumu = CURBTN_LONG
          pressed,  \* what the debouncer last reported of every button
          tpc,      \* where the esp_timer task is
          stat,     \* its local copy of the status, "none" outside func_callback
          dir,      \* name of the port whose event it handles, until it sets Motor
          cpc,      \* where every commander is
          look,     \* which test of Motor each task comes to in motor_action
          i2c,      \* the transfer it waits for there
          byte,     \* the expander's byte as it has read it
          msg,      \* the report a task has built and not sent yet, or "none"
          sent,     \* the last report CPU1 got
          aborted,  \* ESP_ERROR_CHECK has restarted the chip
          overlap   \* the assumption on timing this behaviour is under: it never changes
runVars   == <<temp, motor, timer>>
expander  == <<relay, i2c, byte>>
driveVars == <<look, expander>>
pressVars == <<held, pressed, stat, dir>>
vars == <<status, runVars, driveVars, pressVars, tpc, cpc, msg, sent, aborted, overlap>>

Statuses == {"closed", "half", "opened", "process"}
Ends     == {"closed", "opened"}
Tasks    == Commanders \cup {"esp_timer"}
NoTest   == 5       \* motor_action is not at work, or has passed its last test

TowardsEnd(s) == IF s = "closed" THEN "DOWN" ELSE "UP"

Init == /\ status = "closed" /\ temp = "unknown"
        /\ motor = "STOP" /\ relay = {} /\ timer = FALSE
        /\ held = FALSE /\ pressed = [b \in Buttons |-> "up"]
        /\ tpc = "idle" /\ stat = "none" /\ dir = "none"
        /\ cpc = [c \in Commanders |-> "idle"]
        /\ look = [t \in Tasks |-> NoTest] /\ i2c = [t \in Tasks |-> "no"]
        /\ byte = [t \in Tasks |-> {}]
        /\ msg = [t \in Tasks |-> "none"] /\ sent = "closed"
        /\ aborted = FALSE /\ overlap \in Overlaps

Driving(t) == look[t] # NoTest \/ i2c[t] # "no"
Place(t) == IF Driving(t) THEN IF i2c[t] = "no" THEN "drive" ELSE "i2c"
            ELSE IF t = "esp_timer" THEN tpc ELSE cpc[t]
AllIdle  == \A t \in Tasks : Place(t) = "idle"

\* Where a handler blocks in UART::Sender or in the write to flash.
Reporting == {"idle", "send", "expirySend", "test", "expired", "save"}

\* Task t may take a step.  "anywhere" is what the scheduler can do: two
\* cores, and an esp_timer task that preempts every other one.  "blocked" is
\* what happens when no preemption hits the few microseconds between two
\* blocking calls, "reports" when moreover no event comes in the millisecond
\* of motor_action's transfers, "never" when none comes while another is
\* handled.
Waits == CASE overlap = "never"   -> {"idle"}
           [] overlap = "reports" -> Reporting
           [] OTHER               -> Reporting \cup {"i2c"}
MayRun(t) == /\ ~aborted
             /\ overlap # "anywhere" => \A u \in Tasks \ {t} : Place(u) \in Waits

\* tim_stop
TimStop == FALSE

\* mutant: the motor is started without its timer
TimStartNot == UNCHANGED <<timer, aborted>>
\* tim_start, followed by what is done only if it did not abort
TimStart == IF timer THEN aborted' = TRUE /\ UNCHANGED timer
                     ELSE timer' = TRUE /\ UNCHANGED aborted

-----------------------------------------------------------------------------
(* motor_action.  For each output port Motor is compared with STOP, which  *)
(* switches the port off, and then with the port's own direction, which    *)
(* switches it on; nothing ever switches off the other port.               *)
Second   == IF First = "UP" THEN "DOWN" ELSE "UP"
Port(k)  == IF k <= 2 THEN First ELSE Second
Wants(k) == IF k \in {1, 3} THEN "STOP" ELSE Port(k)

MotorAction(t) == look' = [look EXCEPT ![t] = 1] /\ UNCHANGED expander

\* A test of Motor; pcf8574_pin_write begins with a read.
Look(t) == /\ MayRun(t) /\ look[t] # NoTest /\ i2c[t] = "no"
           /\ IF motor = Wants(look[t])
              THEN i2c' = [i2c EXCEPT ![t] = "read"] /\ UNCHANGED look
              ELSE look' = [look EXCEPT ![t] = @ + 1] /\ UNCHANGED i2c
           /\ UNCHANGED <<status, runVars, relay, byte, pressVars, tpc, cpc, msg, sent, aborted, overlap>>

ReadByte(t) == /\ MayRun(t) /\ i2c[t] = "read"
               /\ byte' = [byte EXCEPT ![t] = relay]
               /\ i2c' = [i2c EXCEPT ![t] = "write"]
               /\ UNCHANGED <<status, runVars, look, relay, pressVars, tpc, cpc, msg, sent, aborted, overlap>>

WriteByte(t) == /\ MayRun(t) /\ i2c[t] = "write"
                /\ relay' = IF Wants(look[t]) = "STOP" THEN byte[t] \ {Port(look[t])}
                                                       ELSE byte[t] \cup {Port(look[t])}
                /\ byte' = [byte EXCEPT ![t] = {}]
                /\ i2c' = [i2c EXCEPT ![t] = "verify"]
                /\ look' = [look EXCEPT ![t] = @ + 1]
                /\ UNCHANGED <<status, runVars, pressVars, tpc, cpc, msg, sent, aborted, overlap>>

\* The level that is read back is not used.
ReadBack(t) == /\ MayRun(t) /\ i2c[t] = "verify"
               /\ i2c' = [i2c EXCEPT ![t] = "no"]
               /\ UNCHANGED <<status, runVars, look, relay, byte, pressVars, tpc, cpc, msg, sent, aborted, overlap>>

MotorStep(t) == Look(t) \/ ReadByte(t) \/ WriteByte(t) \/ ReadBack(t)

\* what every handler does that ends a run before its time
Halt == motor' = "STOP" /\ timer' = TimStop /\ temp' = "unknown"

\* The report arrives.
Sent(t) == sent' = msg[t] /\ msg' = [msg EXCEPT ![t] = "none"]

\* Task t may go on with its handler.
MayGo(t) == MayRun(t) /\ ~Driving(t)

-----------------------------------------------------------------------------
(* func_callback, BUTTON_PRESS_DOWN *)
\* mutant: a press always starts the motor
RunningNever == FALSE
Running == motor # "STOP"

PressStops(b) == /\ MayGo("esp_timer") /\ tpc = "idle" /\ pressed[b] = "up" /\ Running
                 /\ pressed' = [pressed EXCEPT ![b] = "down"]
                 /\ Halt /\ MotorAction("esp_timer")
                 /\ stat' = "half" /\ tpc' = "report"
                 /\ UNCHANGED <<status, held, dir, cpc, msg, sent, aborted, overlap>>

PressStarts(b) == /\ MayGo("esp_timer") /\ tpc = "idle" /\ pressed[b] = "up" /\ ~Running
                  /\ pressed' = [pressed EXCEPT ![b] = "down"]
                  /\ dir' = Side[b]
                  /\ tpc' = "start"
                  /\ UNCHANGED <<status, runVars, driveVars, held, stat, cpc, msg, sent, aborted, overlap>>

PressSets == /\ MayGo("esp_timer") /\ tpc = "start"
             /\ temp' = status /\ motor' = dir /\ stat' = "process"
             /\ timer' = TimStop
             /\ tpc' = "arm" /\ dir' = "none"
             /\ UNCHANGED <<status, driveVars, held, pressed, cpc, msg, sent, aborted, overlap>>

PressArms == /\ MayGo("esp_timer") /\ tpc = "arm"
             /\ TimStart
             /\ MotorAction("esp_timer")
             /\ tpc' = "report"
             /\ UNCHANGED <<status, temp, motor, pressVars, cpc, msg, sent, overlap>>

\* BUTTON_LONG_PRESS_START
Hold(b) == /\ MayGo("esp_timer") /\ tpc = "idle" /\ pressed[b] = "down"
           /\ pressed' = [pressed EXCEPT ![b] = "long"]
           /\ held' = TRUE
           /\ UNCHANGED <<status, runVars, driveVars, tpc, stat, dir, cpc, msg, sent, aborted, overlap>>

\* BUTTON_PRESS_UP; eskitip is never set
Release(b) == /\ MayGo("esp_timer") /\ tpc = "idle" /\ pressed[b] # "up"
              /\ pressed' = [pressed EXCEPT ![b] = "up"]
              /\ IF held
                 THEN /\ Halt /\ MotorAction("esp_timer")
                      /\ stat' = "half" /\ held' = FALSE /\ tpc' = "report"
                 ELSE UNCHANGED <<runVars, driveVars, stat, held, tpc>>
              /\ UNCHANGED <<status, dir, cpc, msg, sent, aborted, overlap>>

\* motor_action then calls function_callback, which prints the status, waits
\* for the UART and sends; only then does func_callback store the new status.
PressReports == /\ MayGo("esp_timer") /\ tpc = "report"
                /\ msg' = [msg EXCEPT !["esp_timer"] = status]
                /\ tpc' = "send"
                /\ UNCHANGED <<status, runVars, driveVars, pressVars, cpc, sent, aborted, overlap>>

PressStores == /\ MayGo("esp_timer") /\ tpc = "send"
               /\ Sent("esp_timer")
               /\ status' = stat /\ stat' = "none"
               /\ tpc' = "idle"
               /\ UNCHANGED <<runVars, driveVars, held, pressed, dir, cpc, aborted, overlap>>

-----------------------------------------------------------------------------
(* cur_tim_callback *)
\* mutant: temp_status is not looked at
ExpireUnchecked == /\ MayGo("esp_timer") /\ tpc = "idle" /\ timer
                   /\ timer' = FALSE /\ status' = temp /\ tpc' = "expired"
                   /\ UNCHANGED <<temp, motor, driveVars, pressVars, cpc, msg, sent, aborted, overlap>>
Expire == /\ MayGo("esp_timer") /\ tpc = "idle" /\ timer
          /\ timer' = FALSE
          /\ IF temp # "unknown" THEN status' = temp /\ tpc' = "expired"
                                 ELSE UNCHANGED <<status, tpc>>
          /\ UNCHANGED <<temp, motor, driveVars, pressVars, cpc, msg, sent, aborted, overlap>>

\* mutant: the expiry leaves the motor running
ExpireStopsNot == /\ MayGo("esp_timer") /\ tpc = "expired"
                  /\ temp' = "unknown"
                  /\ MotorAction("esp_timer")
                  /\ tpc' = "stopped"
                  /\ UNCHANGED <<status, motor, timer, pressVars, cpc, msg, sent, aborted, overlap>>
\* what follows the write of the status to flash
ExpireStops == /\ MayGo("esp_timer") /\ tpc = "expired"
               /\ temp' = "unknown" /\ motor' = "STOP"
               /\ MotorAction("esp_timer")
               /\ tpc' = "stopped"
               /\ UNCHANGED <<status, timer, pressVars, cpc, msg, sent, aborted, overlap>>

ExpireReports == /\ MayGo("esp_timer") /\ tpc = "stopped"
                 /\ msg' = [msg EXCEPT !["esp_timer"] = status]
                 /\ tpc' = "expirySend"
                 /\ UNCHANGED <<status, runVars, driveVars, pressVars, cpc, sent, aborted, overlap>>

ExpireSends == /\ MayGo("esp_timer") /\ tpc = "expirySend"
               /\ Sent("esp_timer")
               /\ tpc' = "idle"
               /\ UNCHANGED <<status, runVars, driveVars, pressVars, cpc, aborted, overlap>>

-----------------------------------------------------------------------------
(* set_status, called with the status a command carries or, when it carries *)
(* none, the present one; senaryo and set_sensor end here too.              *)
SetStores(c, s) == /\ MayGo(c) /\ cpc[c] = "idle"
                   /\ status' = s
                   /\ cpc' = [cpc EXCEPT ![c] = "test"]
                   /\ UNCHANGED <<runVars, driveVars, pressVars, tpc, msg, sent, aborted, overlap>>

SetHalts(c) == /\ MayGo(c) /\ cpc[c] = "test" /\ temp # "unknown"
               /\ Halt /\ MotorAction(c) /\ status' = "half"
               /\ cpc' = [cpc EXCEPT ![c] = "save"]
               /\ UNCHANGED <<pressVars, tpc, msg, sent, aborted, overlap>>

SetTests(c) == /\ MayGo(c) /\ cpc[c] = "test" /\ temp = "unknown"
               /\ IF status \in Ends
                  THEN /\ timer' = TimStop
                       /\ cpc' = [cpc EXCEPT ![c] = "start"]
                  ELSE /\ UNCHANGED timer
                       /\ cpc' = [cpc EXCEPT ![c] = "save"]
               /\ UNCHANGED <<status, temp, motor, driveVars, pressVars, tpc, msg, sent, aborted, overlap>>

\* mutant: the run does not change the status
SetStartsSilently(c) == /\ MayGo(c) /\ cpc[c] = "start"
                        /\ TimStart
                        /\ temp' = status /\ motor' = TowardsEnd(status) /\ MotorAction(c)
                        /\ cpc' = [cpc EXCEPT ![c] = "save"]
                        /\ UNCHANGED <<status, pressVars, tpc, msg, sent, overlap>>
SetStarts(c) == /\ MayGo(c) /\ cpc[c] = "start"
                /\ TimStart
                /\ IF aborted'
                   THEN UNCHANGED <<status, temp, motor, driveVars>>
                   ELSE /\ temp' = status /\ status' = "process"
                        /\ motor' = IF status \in Ends THEN TowardsEnd(status) ELSE motor
                        /\ MotorAction(c)
                /\ cpc' = [cpc EXCEPT ![c] = "save"]
                /\ UNCHANGED <<pressVars, tpc, msg, sent, overlap>>

\* after write_status
SetReports(c) == /\ MayGo(c) /\ cpc[c] = "save"
                 /\ msg' = [msg EXCEPT ![c] = status]
                 /\ cpc' = [cpc EXCEPT ![c] = "send"]
                 /\ UNCHANGED <<status, runVars, driveVars, pressVars, tpc, sent, aborted, overlap>>

\* mutant: the command does not report its result
SetSendsNot(c) == /\ MayGo(c) /\ cpc[c] = "send"
                  /\ cpc' = [cpc EXCEPT ![c] = "idle"]
                  /\ msg' = [msg EXCEPT ![c] = "none"]
                  /\ UNCHANGED <<status, runVars, driveVars, pressVars, tpc, sent, aborted, overlap>>
SetSends(c) == /\ MayGo(c) /\ cpc[c] = "send"
               /\ Sent(c)
               /\ cpc' = [cpc EXCEPT ![c] = "idle"]
               /\ UNCHANGED <<status, runVars, driveVars, pressVars, tpc, aborted, overlap>>

-----------------------------------------------------------------------------
ButtonStep  == \E b \in Buttons : PressStops(b) \/ PressStarts(b) \/ Hold(b) \/ Release(b)
PressStep   == PressSets \/ PressArms \/ PressReports \/ PressStores
ExpiryStep  == ExpireStops \/ ExpireReports \/ ExpireSends
CommandStep(c) == SetHalts(c) \/ SetTests(c) \/ SetStarts(c) \/ SetReports(c) \/ SetSends(c)

Next == \/ ButtonStep
        \/ PressStep
        \/ Expire
        \/ ExpiryStep
        \/ \E c \in Commanders, s \in Statuses :
             (s = "process" => status = "process") /\ SetStores(c, s)
        \/ \E c \in Commanders : CommandStep(c)
        \/ \E t \in Tasks : MotorStep(t)

Spec == Init /\ [][Next]_vars

\* Tasks are scheduled, an I2C transfer ends, UART::Sender returns
\* (UartLink!CallReturns) and an active timer expires.  Buttons and commands
\* owe nothing.  A step that MayRun delays is not delayed for ever.
FairSpec == /\ Spec
            /\ SF_vars(PressStep \/ ExpiryStep \/ MotorStep("esp_timer")) /\ SF_vars(Expire)
            /\ \A c \in Commanders : SF_vars(CommandStep(c) \/ MotorStep(c))

-----------------------------------------------------------------------------
TypeOK == /\ status \in Statuses /\ temp \in Statuses \cup {"unknown"}
          /\ motor \in Dirs \cup {"STOP"} /\ relay \subseteq Dirs
          /\ timer \in BOOLEAN /\ held \in BOOLEAN /\ aborted \in BOOLEAN
          /\ pressed \in [Buttons -> {"up", "down", "long"}]
          /\ tpc \in {"idle", "start", "arm", "report", "send", "expired", "stopped", "expirySend"}
          /\ stat \in Statuses \cup {"none"} /\ dir \in Dirs \cup {"none"}
          /\ tpc = "start" <=> dir # "none"
          /\ stat # "none" <=> tpc \in {"arm", "report", "send"}
          /\ cpc \in [Commanders -> {"idle", "test", "start", "save", "send"}]
          /\ look \in [Tasks -> 1..NoTest] /\ byte \in [Tasks -> SUBSET Dirs]
          /\ i2c \in [Tasks -> {"no", "read", "write", "verify"}]
          /\ \A t \in Tasks : i2c[t] \in {"read", "write"} => look[t] # NoTest
          /\ msg \in [Tasks -> Statuses \cup {"none"}]
          /\ msg["esp_timer"] # "none" <=> tpc \in {"send", "expirySend"}
          /\ \A c \in Commanders : msg[c] # "none" <=> cpc[c] = "send"
          /\ sent \in Statuses /\ overlap \in Overlaps

\* The two windings of the motor are never powered together, although
\* motor_action (curtain.cpp:88-103) never switches off the other relay, as
\* long as handlers overlap in the UART and the flash only.  An event in the
\* middle of motor_action's transfers may leave a relay on that nobody
\* switches off before the other one is switched on.
Interlock == overlap \in {"never", "reports"} => relay # Dirs

\* Under the same assumption the relay that is on between handlers is the one
\* of the direction in which the motor runs.  Wherever handlers overlap in
\* blocking calls, motor_action's transfers included, a run has an active
\* timer between handlers, which will act: temp_status is set, so
\* cur_tim_callback (curtain.cpp:115) stops it; and tim_start is never called
\* on an active timer, which ESP_ERROR_CHECK (curtain.cpp:71) answers with a
\* restart in mid-run.
RunIsSupervised ==
    /\ overlap # "anywhere" => /\ ~aborted
                               /\ AllIdle /\ motor # "STOP" => timer /\ temp # "unknown"
    /\ overlap \in {"never", "reports"} /\ AllIdle => relay = {motor} \ {"STOP"}

\* When events do not come while another one is handled, the status between
\* handlers says PROCESS exactly while the motor runs.
StatusTellsMotor == overlap = "never" /\ AllIdle => (status = "process" <=> motor # "STOP")

\* Likewise, when a command has been handled CPU1 knows the status
\* (functioncallback.cpp:3-6): set_status reports after it has written it.
CommandReported ==
    [][\A c \in Commanders : overlap = "never" /\ cpc[c] = "send" /\ cpc'[c] = "idle" => sent' = status']_vars

\* A motor that is powered comes to rest, as long as handlers overlap in the
\* UART and the flash only.
MotorStops == relay # {} /\ overlap \in {"never", "reports"} ~> relay = {}

\* functioncallback.cpp:5 says of the procedure that is called when an action
\* has taken place: "Bu prosedur fonksiyonun durumunu cpu1 e gonderir" (it
\* sends the function's status to CPU1).  A press breaks it.
ActionReported == overlap = "never" /\ AllIdle => sent = status
=============================================================================
