------------------------------- MODULE Pulse -------------------------------
(***************************************************************************)
(* The functions that energise a coil for some seconds: the lift call and  *)
(* the garage door (asansor.cpp, garage.cpp: every output at once), the    *)
(* door lock (kapi.cpp: a coil to open, one to close) and the main valve   *)
(* (mwater.cpp: a coil each way, moved for 25 or 15 seconds).  set_status  *)
(* is called by the command tasks and by the event loop (door events, the  *)
(* water alarm); the timer's callback runs in the esp_timer task.  Outputs *)
(* are I2C writes and block.                                               *)
(***************************************************************************)
EXTENDS Naturals, Sequences

CONSTANTS
    Tasks,       \* tasks that call set_status
    EspTimer     \* the esp_timer task

VARIABLES
    kind,        \* the class of the function
    order,       \* the order of its two output ports in the port list
    stat,        \* status.stat, as the coil it stands for
    moving,      \* status.status: 1 while the coil is energised
    disk,        \* the record of the status file
    out,         \* which coils are energised
    qtimer,      \* is the timer active
    run,         \* the call each task is in
    pos,         \* the valve itself: which end it is at, if it is at one
    \* Observations
    stranded,    \* coils a crossing command or a restart left to themselves
    clean        \* the last command was carried out, and alone

vars == <<kind, order, stat, moving, disk, out, qtimer, run, pos, stranded, clean>>

Coils   == {"ON", "OFF"}
Kinds   == {"lift", "door", "valve"}
Threads == Tasks \union {EspTimer}
Orders  == {<<"ON", "OFF">>, <<"OFF", "ON">>}
Todo    == Orders \union {<<"ON">>, <<"OFF">>, <<>>}
Call    == [op : {"set", "expire"}, dir : Coils, todo : Todo,
            at : {"coils", "mark", "start"}, alone : BOOLEAN]
NoCall  == [op |-> "idle"]
Busy(t) == run[t].op # "idle"
Quiet   == \A t \in Threads : ~Busy(t)

TypeOK ==
    /\ kind \in Kinds /\ order \in Orders
    /\ stat \in Coils /\ moving \in {0, 1}
    /\ disk \in [stat : Coils, moving : {0, 1}]
    /\ out \in [Coils -> BOOLEAN]
    /\ qtimer \in BOOLEAN
    /\ run \in [Threads -> Call \union {NoCall}]
    /\ pos \in Coils \union {"between"}
    /\ stranded \subseteq Coils
    /\ clean \in BOOLEAN

Init ==
    /\ kind \in Kinds /\ order \in Orders
    /\ stat = "ON" /\ moving = 0
    /\ disk = [stat |-> "ON", moving |-> 0]
    /\ out = [c \in Coils |-> FALSE]
    /\ qtimer = FALSE
    /\ run = [t \in Threads |-> NoCall]
    /\ pos = "between"
    /\ stranded = {}
    /\ clean = FALSE

-----------------------------------------------------------------------------
Enter(t, call) ==
    run' = [u \in Threads |-> IF u = t THEN call
                              ELSE IF Busy(u) THEN [run[u] EXCEPT !.alone = FALSE]
                              ELSE NoCall]

\* The coil a pulse in progress will not release once the status is d: the
\* door's callback releases the coil of the status it finds.
Crossed(d) == IF kind = "door" /\ (qtimer \/ ~Quiet) THEN Coils \ {d} ELSE {}

Interlock == kind = "valve" /\ qtimer

PulsedAll(d) == IF Interlock THEN <<>> ELSE order     \* mutant: no strcmp of the name

\* The coils a command for d energises: of the lift all, in the order of the list.
Pulsed(d) == CASE Interlock     -> <<>>
               [] kind = "lift" -> order
               [] OTHER         -> <<d>>

ReleasedOne == <<stat>>          \* mutant: every callback releases as the door's

\* The coils the timer's callback releases; a door takes a copy of the status.
Released == IF kind = "door" THEN <<stat>> ELSE order

\* set_status(stat), m its field status.  The valve stores and saves a command
\* that comes while it moves, and does nothing else with it.  For the lift
\* stat is always true.
Set(t, d, m) ==
    /\ ~Busy(t)
    /\ kind = "lift" => d = "ON"
    /\ stat' = d
    /\ moving' = m
    /\ Enter(t, [op |-> "set", dir |-> d, alone |-> Quiet,
                 at |-> IF Interlock THEN "mark" ELSE "coils",
                 todo |-> Pulsed(d)])
    /\ stranded' = stranded \union {c \in Crossed(d) : out[c]}
                            \union IF kind = "door" /\ ~Quiet THEN Coils ELSE {}
    /\ clean' = (clean /\ Quiet /\ (Interlock => out[d]))
    /\ UNCHANGED <<kind, order, disk, out, qtimer, pos>>

\* timer_callback, tim_callback.
Expire ==
    /\ qtimer
    /\ ~Busy(EspTimer)
    /\ qtimer' = FALSE
    /\ Enter(EspTimer, [op |-> "expire", dir |-> stat, alone |-> Quiet, at |-> "coils",
                        todo |-> Released])
    /\ pos' = CASE out["ON"] /\ ~out["OFF"] -> "ON"
                [] out["OFF"] /\ ~out["ON"] -> "OFF"
                [] OTHER                    -> pos
    /\ clean' = (clean /\ Quiet)
    /\ stranded' = IF kind = "door" /\ ~Quiet THEN Coils ELSE stranded
    /\ UNCHANGED <<kind, order, stat, moving, disk, out>>

\* The next output port.
Drive(t) ==
    /\ Busy(t) /\ run[t].at = "coils" /\ run[t].todo # <<>>
    /\ LET c  == Head(run[t].todo)
           on == run[t].op = "set" IN
         /\ out' = [out EXCEPT ![c] = on]
         /\ stranded' = IF on THEN stranded ELSE stranded \ {c}
         /\ pos' = IF on THEN "between" ELSE pos
    /\ run' = [run EXCEPT ![t].todo = Tail(@),
                          ![t].at = IF Len(run[t].todo) > 1 THEN "coils"
                                    ELSE IF kind = "valve" /\ run[t].op = "set"
                                    THEN "start" ELSE "mark"]
    /\ UNCHANGED <<kind, order, stat, moving, disk, qtimer, clean>>

Crash(power) ==
    /\ out' = IF power THEN [c \in Coils |-> FALSE] ELSE out
    /\ stat' = disk.stat
    /\ moving' = IF kind = "valve" THEN 0 ELSE disk.moving
    /\ qtimer' = FALSE
    /\ run' = [t \in Threads |-> NoCall]
    /\ stranded' = {c \in Coils : out'[c]}
    /\ clean' = FALSE
    /\ UNCHANGED <<kind, order, disk, pos>>

Done(t) == [run EXCEPT ![t] = NoCall]

\* status.status after the coils, and write_status.  The valve's set_status ends
\* here; its callback does not save.
Mark(t) ==
    /\ Busy(t) /\ run[t].at = "mark"
    /\ LET c == run[t] IN
         /\ stat' = IF c.op = "expire" /\ kind = "door" THEN c.dir ELSE stat
         /\ moving' = IF c.op = "expire" THEN 0
                      ELSE IF kind = "valve" THEN moving ELSE 1
         /\ disk' = IF c.op = "expire" /\ kind = "valve" THEN disk
                    ELSE [stat |-> stat', moving |-> moving']
         /\ run' = IF c.op = "set" /\ kind # "valve"
                     THEN [run EXCEPT ![t].at = "start"] ELSE Done(t)
    /\ UNCHANGED <<kind, order, out, qtimer, pos, stranded, clean>>

\* tim_start: not again if active.
Start(t) ==
    /\ Busy(t) /\ run[t].at = "start"
    /\ kind # "valve"
    /\ qtimer' = TRUE
    /\ run' = Done(t)
    /\ clean' = (clean \/ (run[t].alone /\ stranded = {}))
    /\ UNCHANGED <<kind, order, stat, moving, disk, out, pos, stranded>>

\* The valve starts its timer without asking: a second caller that also found
\* it inactive stops the chip with ESP_ERROR_CHECK.
StartValve(t) ==
    /\ Busy(t) /\ run[t].at = "start"
    /\ kind = "valve"
    /\ IF qtimer
         THEN Crash(FALSE)
         ELSE /\ qtimer' = TRUE
              /\ moving' = 1
              /\ run' = [run EXCEPT ![t].at = "mark"]
              /\ clean' = (clean \/ (run[t].alone /\ stranded = {}))
              /\ UNCHANGED <<kind, order, stat, disk, out, pos, stranded>>

\* init sets no output: a restart in the middle of a pulse leaves the coil on.
Restart == \E power \in BOOLEAN : Crash(power)

Next ==
    \/ \E t \in Tasks, d \in Coils, m \in {0, 1} : Set(t, d, m)
    \/ Expire
    \/ \E t \in Threads : Drive(t) \/ Mark(t) \/ Start(t) \/ StartValve(t)
    \/ Restart

Spec == Init /\ [][Next]_vars
-----------------------------------------------------------------------------
(* Properties.                                                             *)

\* No coil stays energised (asansor.cpp 29-40, 85-99, kapi.cpp 13-41, 102-130,
\* mwater.cpp 11-64): when no call runs and the timer does not, every coil is
\* off, except one left by a restart, or a door's coil whose pulse was crossed
\* by a command of the other direction.
CoilReleased == Quiet /\ ~qtimer => \A c \in Coils \ stranded : ~out[c]

\* The two coils of the valve are never on together, nor is one on for a status
\* of the other, unless calls overlapped or the chip restarted (mwater.cpp 33-64);
\* at rest the valve is where its status says, unless a command came while it
\* moved the other way, which is stored and reported and not carried out.
ValveAgrees ==
    kind = "valve" /\ clean /\ Quiet =>
        /\ ~(out["ON"] /\ out["OFF"])
        /\ ~qtimer => pos = stat
=============================================================================
