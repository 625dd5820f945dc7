------------------------------- MODULE Relay -------------------------------
(***************************************************************************)
(* The functions that switch one relay: priz, kontaktor, onoff, water, gas *)
(* and tmrole, and the port expander their relays share (iot_out.c,        *)
(* out_8574.c, ice_pcf8574.c).  A pin is changed by reading the expander's *)
(* byte and writing it back, two I2C transfers with a mutex around each    *)
(* and none around both.  A relay is on when its pin is low; the model     *)
(* keeps the relay's side of it.  `fire' has no caller.                    *)
(***************************************************************************)
EXTENDS Naturals

CONSTANTS
    Devices,       \* functions whose relays are on one expander
    Tasks,         \* tasks that call set_status
    EspTimer,      \* the esp_timer task: timers and buttons
    MaxCounter     \* bound: minutes a command may ask for

VARIABLES
    kind,          \* the class of each function
    stat, counter, \* fields of status
    disk,          \* the record of each function in the status file
    pin,           \* the expander's byte: which relays are on
    ptimer,        \* is the minute timer of a socket active
    run,           \* the call each task is in
    clean          \* observation: functions no overlap of calls has touched

vars == <<kind, stat, counter, disk, pin, ptimer, run, clean>>

Kinds   == {"priz", "cont", "onoff", "water", "gas", "tmrole"}
Threads == Tasks \union {EspTimer}
Ops     == {"set", "pulse", "down", "up", "toggle", "minute"}
Places  == {"level", "read", "write", "back", "end"}
Call    == [op : Ops, dev : Devices, at : Places, v : BOOLEAN,
            n : 0..MaxCounter, byte : [Devices -> BOOLEAN], alone : BOOLEAN]
NoCall  == [op |-> "idle"]
NoByte  == [d \in Devices |-> FALSE]
Busy(t) == run[t].op # "idle"
Quiet   == \A t \in Threads : ~Busy(t)

TypeOK ==
    /\ kind \in [Devices -> Kinds]
    /\ stat \in [Devices -> BOOLEAN]
    /\ counter \in [Devices -> 0..MaxCounter]
    /\ disk \in [Devices -> BOOLEAN]
    /\ pin \in [Devices -> BOOLEAN]
    /\ ptimer \in [Devices -> BOOLEAN]
    /\ run \in [Threads -> Call \union {NoCall}]
    /\ clean \subseteq Devices

Init ==
    /\ kind \in [Devices -> Kinds]
    /\ stat = [d \in Devices |-> FALSE]
    /\ counter = [d \in Devices |-> 0]
    /\ disk = stat /\ pin = stat /\ ptimer = stat
    /\ run = [t \in Threads |-> NoCall]
    /\ clean = Devices

-----------------------------------------------------------------------------
(* How a call begins.                                                      *)

Touched == {run[t].dev : t \in {u \in Threads : Busy(u)}}

Enter(t, op, d, at, v, n) ==
    /\ ~Busy(t)
    /\ run' = [u \in Threads |->
                 IF u = t
                   THEN [op |-> op, dev |-> d, at |-> at, v |-> v, n |-> n,
                         byte |-> NoByte, alone |-> Quiet]
                   ELSE IF Busy(u) THEN [run[u] EXCEPT !.alone = FALSE] ELSE NoCall]
    /\ clean' = IF Quiet THEN clean ELSE clean \ (Touched \union {d})

\* set_status: the command is the status, then the relay follows.  Only a
\* socket does anything with the minutes.
Set(t, d, s, n) ==
    /\ t \in Tasks
    /\ n > 0 => kind[d] = "priz"
    /\ Enter(t, "set", d, "read", s, n)
    /\ stat' = [stat EXCEPT ![d] = s]
    /\ counter' = [counter EXCEPT ![d] = n]
    /\ UNCHANGED <<kind, disk, pin, ptimer>>

\* TmRelay: tim_callback, and the scenario RESET: on for 200 ms, then off.
Pulse(t, d) ==
    /\ kind[d] = "tmrole"
    /\ Enter(t, "pulse", d, "read", TRUE, 0)
    /\ stat' = [stat EXCEPT ![d] = TRUE]
    /\ UNCHANGED <<kind, counter, disk, pin, ptimer>>

\* Onoff::func_callback, with a copy of the status.
Press(d, op) ==
    /\ kind[d] = "onoff"
    /\ Enter(EspTimer, op, d, IF op = "toggle" THEN "level" ELSE "read", op = "down",
             counter[d])
    /\ UNCHANGED <<kind, stat, counter, disk, pin, ptimer>>

MinuteLeft(d) == IF counter[d] > 0 THEN counter[d] - 1 ELSE 0

\* priz_tim_callback: a minute is over; at zero the timer stops and the relay
\* is switched off.
Minute(d) ==
    /\ ptimer[d]
    /\ Enter(EspTimer, "minute", d, IF MinuteLeft(d) = 0 THEN "read" ELSE "end",
             stat[d] /\ MinuteLeft(d) > 0, MinuteLeft(d))
    /\ ptimer' = [ptimer EXCEPT ![d] = MinuteLeft(d) > 0]
    /\ UNCHANGED <<kind, stat, counter, disk, pin>>

-----------------------------------------------------------------------------
(* How it goes on.                                                         *)

At(t, p) == Busy(t) /\ run[t].at = p

\* out_8574_toggle_level reads the pin first.
ReadLevel(t) ==
    /\ At(t, "level")
    /\ run' = [run EXCEPT ![t].at = "read", ![t].v = ~pin[run[t].dev]]
    /\ UNCHANGED <<kind, stat, counter, disk, pin, ptimer, clean>>

\* pcf8574_pin_write: the byte is read ...
ReadByte(t) ==
    /\ At(t, "read")
    /\ run' = [run EXCEPT ![t].at = "write", ![t].byte = pin]
    /\ UNCHANGED <<kind, stat, counter, disk, pin, ptimer, clean>>

Written(c) == [c.byte EXCEPT ![c.dev] = c.v]

\* ... and written back with one bit changed.
WriteByte(t) ==
    /\ At(t, "write")
    /\ pin' = Written(run[t])
    /\ run' = [run EXCEPT ![t].at = "back", ![t].byte = NoByte]
    /\ UNCHANGED <<kind, stat, counter, disk, ptimer, clean>>

\* out_8574_set_level returns what it reads back, and that is the new status
\* (of the copy, in a timer or button callback); a toggle returns what it wrote.
\* A socket with minutes starts its timer unless it runs.
ReadBack(t) ==
    /\ At(t, "back")
    /\ LET c == run[t] IN
         /\ run' = [run EXCEPT ![t].at = "end",
                               ![t].v = IF c.op = "toggle" THEN c.v ELSE pin[c.dev]]
         /\ stat' = IF c.op \in {"set", "pulse"} THEN [stat EXCEPT ![c.dev] = pin[c.dev]]
                                                ELSE stat
         /\ ptimer' = IF c.op = "set" /\ c.n > 0 THEN [ptimer EXCEPT ![c.dev] = TRUE]
                                                  ELSE ptimer
    /\ UNCHANGED <<kind, counter, disk, pin, clean>>

\* write_status, or local_set_status of the copy; the second half of a pulse.
End(t) ==
    /\ At(t, "end")
    /\ LET c == run[t]
           d == c.dev IN
         /\ stat' = CASE c.op = "set"   -> stat
                      [] c.op = "pulse" -> [stat EXCEPT ![d] = FALSE]
                      [] OTHER          -> [stat EXCEPT ![d] = c.v]
         /\ counter' = IF c.op = "minute" THEN [counter EXCEPT ![d] = c.n] ELSE counter
         /\ disk' = [disk EXCEPT ![d] = IF c.op = "pulse" THEN stat[d] ELSE stat'[d]]
         /\ run' = [run EXCEPT ![t] = IF c.op = "pulse"
                                        THEN [c EXCEPT !.op = "set", !.at = "read",
                                                       !.v = FALSE]
                                        ELSE NoCall]
         /\ clean' = IF c.op = "set" /\ c.alone THEN clean \union {d} ELSE clean
    /\ UNCHANGED <<kind, pin, ptimer>>

-----------------------------------------------------------------------------
BootStatCold(d, p) == disk[d]      \* mutant: init does not look at the relay

\* init, with the relays as they were left or, after a power cut, all off: a
\* socket and the valves take the status from the relay, the contactor and the
\* switch set the relay from the file, the time relay switches it off.
BootStat(d, p) ==
    CASE kind[d] \in {"priz", "water", "gas"} -> p[d]
      [] kind[d] \in {"cont", "onoff"}        -> disk[d]
      [] kind[d] = "tmrole"                   -> FALSE

Restart(power) ==
    LET left == [d \in Devices |-> pin[d] /\ ~power] IN
    /\ stat' = [d \in Devices |-> BootStat(d, left)]
    /\ pin' = [d \in Devices |-> IF kind[d] \in {"cont", "onoff", "tmrole"}
                                   THEN BootStat(d, left) ELSE left[d]]
    /\ disk' = [d \in Devices |-> IF kind[d] \in {"cont", "tmrole"} THEN stat'[d]
                                                                    ELSE disk[d]]
    /\ counter' = [d \in Devices |-> 0]
    /\ ptimer' = [d \in Devices |-> FALSE]
    /\ run' = [t \in Threads |-> NoCall]
    /\ clean' = Devices
    /\ UNCHANGED kind

Next ==
    \/ \E t \in Tasks, d \in Devices, s \in BOOLEAN, n \in 0..MaxCounter : Set(t, d, s, n)
    \/ \E t \in Threads, d \in Devices : Pulse(t, d)
    \/ \E d \in Devices, op \in {"down", "up", "toggle"} : Press(d, op)
    \/ \E d \in Devices : Minute(d)
    \/ \E t \in Threads : ReadLevel(t) \/ ReadByte(t) \/ WriteByte(t) \/ ReadBack(t)
                          \/ End(t)
    \/ \E power \in BOOLEAN : Restart(power)

Spec == Init /\ [][Next]_vars
-----------------------------------------------------------------------------
(* Properties.                                                             *)

\* A function whose calls have not overlapped another call since its last
\* set_status alone, or since the restart, has its relay as its status says;
\* what is written for one relay leaves the others of the expander alone
\* (ice_pcf8574.c 86-101, out_8574.c 53-66, and the set_status of each class).
OutputsFollowStatus == Quiet => \A d \in clean : stat[d] = pin[d]

\* Under the same condition a socket with minutes left has its timer running
\* (priz.cpp 12-33, 98-128), after a restart too.
LimitedIsTimed ==
    Quiet => \A d \in clean : kind[d] = "priz" /\ counter[d] > 0 => ptimer[d]
=============================================================================
