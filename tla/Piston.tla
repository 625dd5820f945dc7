------------------------------- MODULE Piston -------------------------------
(***************************************************************************)
(* A hydraulic piston: components/home/library/piston/piston.cpp.  A pump  *)
(* (the output MOTOR) runs for two seconds before the valve of a direction *)
(* opens, and motor_action waits for it inside its loop over the ports.    *)
(* Buttons and the timer call it in the esp_timer task, commands in tasks  *)
(* of their own.  `fire' does nothing; the reports to CPU1 and the record  *)
(* of the status file, which init does not read, are not here.             *)
(***************************************************************************)
EXTENDS Naturals, Sequences

CONSTANTS
    Tasks,       \* tasks that call set_status
    EspTimer,    \* the esp_timer task
    PortLists    \* the orders the ports may have in the port list

VARIABLES
    ports,       \* the port list: the three outputs and "in" for a button
    eskitip,     \* buttons of the old kind: the release stops the motor
    Motor,       \* what the motor should do
    temp,        \* temp_status: the status the expiry of the timer will set
    stat,        \* status.status
    held,        \* buton_durumu = PISBTN_LONG
    out,         \* the outputs
    qtimer,      \* is the timer active
    run,         \* the call each task is in
    clean        \* observation: no two calls have overlapped since the
                 \* outputs were last off with no call in progress

vars == <<ports, eskitip, Motor, temp, stat, held, out, qtimer, run, clean>>

Outs     == {"MOTOR", "UP", "DOWN"}
Dirs     == {"UP", "DOWN"}
Known    == {"closed", "half", "opened", "process"}
Threads  == Tasks \union {EspTimer}
NoCall   == [op |-> "idle"]
Call     == [op : {"press", "set", "expire"}, at : {"stop", "UP", "DOWN"}, i : Nat \ {0},
             pump : {"off", "wait", "done"}, stat : Known]
Busy(t)  == run[t].op # "idle"
Quiet    == \A t \in Threads : ~Busy(t)

TypeOK ==
    /\ ports \in PortLists
    /\ eskitip \in BOOLEAN /\ held \in BOOLEAN /\ qtimer \in BOOLEAN
    /\ Motor \in Dirs \union {"STOP"}
    /\ temp \in Known \union {"unknown"}
    /\ stat \in Known
    /\ out \in [Outs -> BOOLEAN]
    /\ run \in [Threads -> Call \union {NoCall}]
    /\ clean \in BOOLEAN

Init ==
    /\ ports \in PortLists
    /\ eskitip \in BOOLEAN
    /\ Motor = "STOP" /\ temp = "unknown"
    /\ stat = "closed"
    /\ held = FALSE
    /\ out = [o \in Outs |-> FALSE]
    /\ qtimer = FALSE
    /\ run = [t \in Threads |-> NoCall]
    /\ clean = TRUE

-----------------------------------------------------------------------------
(* How a call begins.  `s' is the status its copy holds for the end.       *)

Enter(t, op, s) ==
    /\ ~Busy(t)
    /\ run' = [run EXCEPT ![t] =
                 [op |-> op, at |-> "stop", i |-> 1, pump |-> "off", stat |-> s]]
    /\ clean' = (Quiet /\ (clean \/ \A o \in Outs : ~out[o]))

\* A button goes down: a running motor is stopped, a resting one is started and
\* the status it starts from kept for the expiry.
PressDown(d) ==
    /\ Enter(EspTimer, "press", IF Motor # "STOP" THEN "half" ELSE "process")
    /\ Motor' = IF Motor # "STOP" THEN "STOP" ELSE d
    /\ temp' = IF Motor # "STOP" THEN "unknown" ELSE stat
    /\ qtimer' = (Motor = "STOP")
    /\ UNCHANGED <<ports, eskitip, stat, held, out>>

PressLong ==
    /\ ~Busy(EspTimer)
    /\ held' = TRUE
    /\ UNCHANGED <<ports, eskitip, Motor, temp, stat, out, qtimer, run, clean>>

\* The button is released after a long press, or is of the old kind.
PressUp ==
    /\ held \/ eskitip
    /\ Enter(EspTimer, "press", "half")
    /\ temp' = "unknown"
    /\ held' = FALSE
    /\ Motor' = "STOP"
    /\ qtimer' = FALSE
    /\ UNCHANGED <<ports, eskitip, stat, out>>

\* cur_tim_callback.
Expire ==
    /\ qtimer /\ ~Busy(EspTimer)
    /\ qtimer' = FALSE
    /\ IF temp # "unknown"
         THEN /\ Enter(EspTimer, "expire", temp)
              /\ stat' = temp
              /\ temp' = "unknown"
              /\ Motor' = "STOP"
         ELSE UNCHANGED <<Motor, temp, stat, run, clean>>
    /\ UNCHANGED <<ports, eskitip, held, out>>

Started(s) == IF s = "closed" THEN "DOWN" ELSE "UP"

\* set_status(s): the command is stored; it starts a piston that rests, and
\* stops one that moves, whatever the command was.
Set(t, s) ==
    /\ IF temp = "unknown" /\ s \notin {"closed", "opened"}
         THEN /\ ~Busy(t)
              /\ stat' = s
              /\ UNCHANGED <<Motor, temp, qtimer, run, clean>>
         ELSE /\ Enter(t, "set", s)
              /\ stat' = IF temp = "unknown" THEN "process" ELSE "half"
              /\ qtimer' = (temp = "unknown")
              /\ temp' = IF temp = "unknown" THEN s ELSE "unknown"
              /\ Motor' = IF temp = "unknown" THEN Started(s) ELSE "STOP"
    /\ UNCHANGED <<ports, eskitip, held, out>>

-----------------------------------------------------------------------------
(* motor_action, for the port i of the list.                               *)

At(t, p)  == Busy(t) /\ run[t].i <= Len(ports) /\ run[t].at = p
Port(t)   == ports[run[t].i]
Next1(t, p) ==
    run' = [run EXCEPT ![t].at = IF p = "stop" THEN "UP"
                                 ELSE IF p = "UP" THEN "DOWN" ELSE "stop",
                       ![t].pump = IF p # "stop" /\ (@ = "wait" \/ Motor = p)
                                     THEN "done" ELSE @,
                       ![t].i = IF p = "DOWN" THEN @ + 1 ELSE @]

\* Motor==PIS_MOTOR_STOP: an output is switched off.
Release(t) ==
    /\ At(t, "stop")
    /\ out' = IF Motor = "STOP" /\ Port(t) \in Outs THEN [out EXCEPT ![Port(t)] = FALSE]
                                                    ELSE out
    /\ Next1(t, "stop")
    /\ UNCHANGED <<ports, eskitip, Motor, temp, stat, held, qtimer, clean>>

\* The first port at which the motor should turn: the pump is switched on and
\* the loop waits for two seconds.
Pump(t, p) ==
    /\ At(t, p) /\ Motor = p /\ run[t].pump = "off"
    /\ out' = [out EXCEPT !["MOTOR"] = TRUE]
    /\ run' = [run EXCEPT ![t].pump = "wait"]
    /\ UNCHANGED <<ports, eskitip, Motor, temp, stat, held, qtimer, clean>>

OpensUnasked(t, p) == Port(t) = p      \* mutant: the valve is not asked for

Opens(t, p) == (Motor = p \/ run[t].pump = "wait") /\ Port(t) = p

\* The valve of direction p, if it is this port: Motor was read before the wait
\* and is not read again after it.
Valve(t, p) ==
    /\ At(t, p)
    /\ ~(Motor = p /\ run[t].pump = "off")
    /\ out' = IF Opens(t, p) THEN [out EXCEPT ![p] = TRUE] ELSE out
    /\ Next1(t, p)
    /\ UNCHANGED <<ports, eskitip, Motor, temp, stat, held, qtimer, clean>>

\* After the last port a button's copy becomes the status.
Leave(t) ==
    /\ Busy(t) /\ run[t].i > Len(ports)
    /\ stat' = IF run[t].op = "press" THEN run[t].stat ELSE stat
    /\ run' = [run EXCEPT ![t] = NoCall]
    /\ UNCHANGED <<ports, eskitip, Motor, temp, held, out, qtimer, clean>>

\* init: closed, whatever the file said, and every output off.
Restart ==
    /\ Motor' = "STOP" /\ temp' = "unknown"
    /\ stat' = "closed"
    /\ held' = FALSE
    /\ out' = [o \in Outs |-> FALSE]
    /\ qtimer' = FALSE
    /\ run' = [t \in Threads |-> NoCall]
    /\ clean' = TRUE
    /\ UNCHANGED <<ports, eskitip>>

Next ==
    \/ \E d \in Dirs : PressDown(d)
    \/ PressLong
    \/ PressUp
    \/ Expire
    \/ \E t \in Tasks, s \in Known : Set(t, s)
    \/ \E t \in Threads : Release(t) \/ Leave(t)
    \/ \E t \in Threads, p \in Dirs : Pump(t, p) \/ Valve(t, p)
    \/ Restart

Spec == Init /\ [][Next]_vars
-----------------------------------------------------------------------------
(* Properties.                                                             *)

\* The two valves are never open together (piston.cpp 87-129), and at rest an open
\* valve is one that Motor asks for and has the pump behind it, if calls came one at a
\* time: a call that begins within the two seconds another waits in breaks it.
DirectionsExclusive ==
    clean =>
        /\ ~(out["UP"] /\ out["DOWN"])
        /\ Quiet => \A d \in Dirs : out[d] <=> Motor = d
        /\ Quiet => (out["MOTOR"] <=> Motor # "STOP")

\* Nothing runs for ever (piston.cpp 64-78, 131-146, 173-200): under the same
\* condition an output that is on has the timer that will switch it off, and the
\* timer will find a status to set.
CoilReleased ==
    Quiet /\ clean /\ (\E o \in Outs : out[o]) => qtimer /\ temp # "unknown"
=============================================================================
