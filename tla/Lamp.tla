-------------------------------- MODULE Lamp --------------------------------
(***************************************************************************)
(* A local lamp: components/home/library/lamp/lamp.cpp.  Button events and *)
(* timer callbacks run one after the other in the esp_timer task; commands *)
(* of CPU1, of scenarios and of remote switches (set_status) run in tasks  *)
(* of their own.  Every output is one blocking I2C write, so a call is a   *)
(* beginning, one step for each output and an end.                         *)
(* `fire' has no caller; the report to CPU1 that ends a call is not here.  *)
(***************************************************************************)
EXTENDS Naturals

CONSTANTS
    Callers,      \* tasks that call set_status
    NOuts,        \* outputs of the lamp, in the order of the port list
    MaxCounter    \* bound: minutes a command may ask for

VARIABLES
    stat, counter,   \* the fields of status
    disk,            \* the record of the status file
    out,             \* the outputs
    qtimer, xtimer,  \* is the timer of the sensor, of the minutes, active
    welcome,         \* global & 2: the lamp has the sensor's timer
    sensed,          \* prt->status of the sensor port, which is never set
    timer,           \* the call in progress in the esp_timer task
    cmd,             \* the set_status in progress in each other task
    clean            \* observation: see Spoiled

vars == <<stat, counter, disk, out, qtimer, xtimer, welcome, sensed, timer, cmd,
          clean>>

Outs == 1..NOuts
Rec  == [stat : BOOLEAN, counter : 0..MaxCounter]
Idle == [op |-> "idle", next |-> 1, stat |-> FALSE, counter |-> 0]
Buttons == {"down", "up", "toggle", "sense"}
Call == [op : Buttons \union {"idle", "expire", "minute"}, next : 1..(NOuts + 1),
         stat : BOOLEAN, counter : 0..MaxCounter]
Set  == [op : {"idle", "set"}, next : 1..(NOuts + 1), alone : BOOLEAN]
NoSet == [op |-> "idle", next |-> 1, alone |-> FALSE]

TypeOK ==
    /\ stat \in BOOLEAN /\ counter \in 0..MaxCounter
    /\ disk \in Rec
    /\ out \in [Outs -> BOOLEAN]
    /\ qtimer \in BOOLEAN /\ xtimer \in BOOLEAN
    /\ welcome \in BOOLEAN /\ sensed \in BOOLEAN
    /\ timer \in Call
    /\ cmd \in [Callers -> Set]
    /\ clean \in BOOLEAN

\* Delivered: the record is written by the constructor; every output is off.
Init ==
    /\ stat = FALSE /\ counter = 0
    /\ disk = [stat |-> FALSE, counter |-> 0]
    /\ out = [o \in Outs |-> FALSE]
    /\ qtimer = FALSE /\ xtimer = FALSE
    /\ welcome \in BOOLEAN /\ sensed \in BOOLEAN
    /\ timer = Idle
    /\ cmd = [c \in Callers |-> NoSet]
    /\ clean = TRUE

Busy(c)  == cmd[c].op # "idle"
Quiet    == timer.op = "idle" /\ \A c \in Callers : ~Busy(c)

\* A call that begins while another is in progress spoils both: the lamp is
\* not clean until a set_status runs from end to end with no other call.
Spoiled ==
    [c \in Callers |-> IF Busy(c) THEN [cmd[c] EXCEPT !.alone = FALSE] ELSE cmd[c]]

-----------------------------------------------------------------------------
(* The esp_timer task.                                                     *)

Enter(op, first, c) ==
    /\ timer.op = "idle"
    /\ timer' = [op |-> op, next |-> first, stat |-> stat, counter |-> c]
    /\ cmd' = Spoiled
    /\ clean' = (clean /\ Quiet)

\* func_callback takes a copy of the status.  A sensor does nothing unless the
\* status of its port, whatever it is, reads true.
Press(op) ==
    /\ op = "sense" => sensed
    /\ Enter(op, 1, counter)
    /\ UNCHANGED <<stat, counter, disk, out, qtimer, xtimer, welcome, sensed>>

\* lamp_tim_callback: the time of the sensor is over.
Expire ==
    /\ qtimer
    /\ qtimer' = FALSE
    /\ Enter("expire", 1, counter)
    /\ UNCHANGED <<stat, counter, disk, out, xtimer, welcome, sensed>>

MinuteLeftUnchecked == counter - 1     \* mutant: no test for zero

MinuteLeft == IF counter > 0 THEN counter - 1 ELSE 0

\* xtim_callback: a minute is over; at zero the timer stops, the outputs follow.
Minute ==
    /\ xtimer
    /\ xtimer' = (MinuteLeft > 0)
    /\ Enter("minute", IF MinuteLeft = 0 THEN 1 ELSE NOuts + 1, MinuteLeft)
    /\ UNCHANGED <<stat, counter, disk, out, qtimer, welcome, sensed>>

Level(op, o) ==
    \/ op \in {"down", "sense"}
    \/ op = "toggle" /\ ~out[o]

\* set_status or set_toggle of the next output port, and for the events of
\* buttons tim_stop, for the sensor tim_start after it.
Drive ==
    /\ timer.op # "idle" /\ timer.next \in Outs
    /\ LET v == Level(timer.op, timer.next) IN
         /\ out' = [out EXCEPT ![timer.next] = v]
         /\ timer' = [timer EXCEPT !.next = @ + 1, !.stat = v]
    /\ qtimer' = CASE timer.op \notin Buttons -> qtimer
                   [] timer.op = "sense"      -> welcome
                   [] OTHER                   -> FALSE
    /\ UNCHANGED <<stat, counter, disk, xtimer, welcome, sensed, cmd, clean>>

PressStopsMinutes == xtimer /\ timer.op \notin Buttons

\* local_set_status(stat, true): the copy becomes the status and is saved.  A
\* button event has cleared the counter and stopped the timer of the minutes.
Leave ==
    /\ timer.op # "idle" /\ timer.next \notin Outs
    /\ stat' = timer.stat
    /\ counter' = IF timer.op \in Buttons THEN 0 ELSE timer.counter
    /\ disk' = [stat |-> stat', counter |-> counter']
    /\ xtimer' = PressStopsMinutes
    /\ timer' = Idle
    /\ UNCHANGED <<out, qtimer, welcome, sensed, cmd, clean>>

-----------------------------------------------------------------------------
(* set_status.                                                             *)

MinutesRunToggled(s, n) == s /\ n > 0 /\ ~xtimer    \* mutant: stopped, not left alone

\* The timer of the minutes, after a command.
MinutesRun(s, n) == s /\ (xtimer \/ n > 0)

\* The command becomes the status; off clears the counter and stops its timer,
\* on with a counter starts it unless it is active.
SetBegin(c, s, n) ==
    /\ ~Busy(c)
    /\ stat' = s
    /\ counter' = IF s THEN n ELSE 0
    /\ xtimer' = MinutesRun(s, n)
    /\ cmd' = [Spoiled EXCEPT ![c] = [op |-> "set", next |-> 1, alone |-> Quiet]]
    /\ clean' = (clean /\ Quiet)
    /\ UNCHANGED <<disk, out, qtimer, welcome, sensed, timer>>

\* Each output gets the status of the moment.
SetDrive(c) ==
    /\ Busy(c) /\ cmd[c].next \in Outs
    /\ out' = [out EXCEPT ![cmd[c].next] = stat]
    /\ cmd' = [cmd EXCEPT ![c].next = @ + 1]
    /\ UNCHANGED <<stat, counter, disk, qtimer, xtimer, welcome, sensed, timer, clean>>

SetEnd(c) ==
    /\ Busy(c) /\ cmd[c].next \notin Outs
    /\ disk' = [stat |-> stat, counter |-> counter]
    /\ clean' = (clean \/ cmd[c].alone)
    /\ cmd' = [cmd EXCEPT ![c] = NoSet]
    /\ UNCHANGED <<stat, counter, out, qtimer, xtimer, welcome, sensed, timer>>

-----------------------------------------------------------------------------
\* A restart, with the power gone (all outputs off) or not: init clears the
\* counter and then reads the whole record, counter included; it starts no
\* timer and sets the first output only.
Restart(power) ==
    /\ stat' = disk.stat /\ counter' = disk.counter
    /\ out' = [o \in Outs |-> IF o = 1 THEN disk.stat ELSE out[o] /\ ~power]
    /\ qtimer' = FALSE /\ xtimer' = FALSE
    /\ sensed' \in BOOLEAN
    /\ timer' = Idle
    /\ cmd' = [c \in Callers |-> NoSet]
    /\ clean' = FALSE
    /\ UNCHANGED <<disk, welcome>>

Next ==
    \/ \E op \in Buttons : Press(op)
    \/ Expire
    \/ Minute
    \/ Drive
    \/ Leave
    \/ \E c \in Callers, s \in BOOLEAN, n \in 0..MaxCounter : SetBegin(c, s, n)
    \/ \E c \in Callers : SetDrive(c) \/ SetEnd(c)
    \/ \E power \in BOOLEAN : Restart(power)

Spec == Init /\ [][Next]_vars
-----------------------------------------------------------------------------
(* Properties.                                                             *)

\* Since a set_status that ran alone, and with calls one at a time and no
\* restart since (lamp.cpp 9-59, 63-96, 192-255): every output of the lamp shows
\* what the status says, whichever of the button, the sensor, the two timers and
\* the commands came in which order.
OutputsFollowStatus == Quiet /\ clean => \A o \in Outs : out[o] = stat

\* Under the same condition a lamp that is on for a number of minutes has the
\* timer that counts them (lamp.cpp 68-72, 192-214, 373): it will go off.
LimitedIsTimed == Quiet /\ clean /\ stat /\ counter > 0 => xtimer
=============================================================================
