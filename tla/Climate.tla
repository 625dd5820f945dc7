------------------------------ MODULE Climate ------------------------------
(***************************************************************************)
(* Air conditioning: components/home/library/air/air.cpp, and the room     *)
(* thermostat it exchanges its set point with (termostat.cpp, and the      *)
(* first lines of main/functioncallback.cpp).  Commands run in tasks of    *)
(* their own; the thermostat's task reads temperature and set point over   *)
(* I2C and, when one changed, calls set_status with them.  `durum' is not  *)
(* kept: it holds what the status says, through Effective.                 *)
(***************************************************************************)
EXTENDS Naturals

CONSTANTS
    Tasks,              \* tasks that call set_status
    Reader,             \* the thermostat's task
    MinTemp, MaxTemp,   \* the limits of the configuration
    Top                 \* bound: the highest temperature

VARIABLES
    cooling, fixed,     \* run_stat.mod and .user, of the configuration
    stat,               \* status: mode, switches, temperature and set point
    disk,               \* the record of the status file
    relay,              \* the output
    gateway,            \* send_gateway: the set point is to be sent
    dial,               \* the set point in the thermostat
    run,                \* the call each task is in
    clean,              \* observation: no two calls have overlapped since a
                        \* call that ran alone
    apart               \* observation: someone turned the dial, writing it failed or
                        \* overlapped, and no set point has been exchanged since

vars == <<cooling, fixed, stat, disk, relay, gateway, dial, run, clean, apart>>

Temps   == 0..Top
Status  == [auto : BOOLEAN, start : BOOLEAN, motor : BOOLEAN, temp : Temps, set : Temps]
Threads == Tasks \union {Reader}
Call    == [at : {"save", "relay", "report", "dial"}, role : BOOLEAN,
            set : Temps, alone : BOOLEAN]
NoCall  == [at |-> "idle"]
Busy(t) == run[t].at # "idle"
Quiet   == \A t \in Threads : ~Busy(t)

TypeOK ==
    /\ cooling \in BOOLEAN /\ fixed \in BOOLEAN
    /\ stat \in Status /\ disk \in Status
    /\ relay \in BOOLEAN /\ gateway \in BOOLEAN
    /\ dial \in Temps
    /\ run \in [Threads -> Call \union {NoCall}]
    /\ clean \in BOOLEAN /\ apart \in BOOLEAN

\* status_to_durum: an air conditioner its users may not change is automatic
\* and started.
Effective(s) == IF fixed THEN [s EXCEPT !.auto = TRUE, !.start = TRUE] ELSE s

\* Delivered, and set up; the constructor's defaults of 26 and 25 degrees are
\* overwritten with zeros by its call of durum_to_status.
Init ==
    /\ cooling \in BOOLEAN /\ fixed \in BOOLEAN
    /\ stat = [auto |-> TRUE, start |-> TRUE, motor |-> FALSE, temp |-> 0, set |-> 0]
    /\ disk = stat
    /\ relay = FALSE /\ gateway = FALSE
    /\ dial \in Temps
    /\ run = [t \in Threads |-> NoCall]
    /\ clean = TRUE /\ apart = TRUE

-----------------------------------------------------------------------------
(* set_status and temp_action.                                             *)

\* The call begins: the status takes the command, and the set point is to be
\* sent to the thermostat if it is a new one.
SetBegin(t, s) ==
    /\ stat' = Effective(s)
    /\ gateway' = (gateway \/ s.set # stat.set)
    /\ run' = [u \in Threads |->
                 IF u = t THEN [at |-> "save", role |-> FALSE, set |-> 0, alone |-> Quiet]
                 ELSE IF Busy(u) THEN [run[u] EXCEPT !.alone = FALSE] ELSE run[u]]
    /\ clean' = (clean /\ Quiet)
    /\ UNCHANGED <<cooling, fixed, disk, relay>>

\* CPU1 and the users' screens give switches and a set point; what a command does not
\* name is filled in from the status.
Command(t, s) ==
    /\ ~Busy(t)
    /\ s.temp = stat.temp
    /\ SetBegin(t, s)
    /\ UNCHANGED <<dial, apart>>

At(t, p) == run[t].at = p

\* A cooling air conditioner in automatic mode leaves the relay alone until it has
\* been told a temperature.
Blind(s) == s.auto /\ s.start /\ cooling /\ s.temp = 0

RoleNoLimits(s) == s.start /\ IF s.auto THEN cooling # (s.temp < s.set) ELSE s.motor
                                 \* mutant: no limits, and cold at the set point

Role(s) ==
    /\ s.start
    /\ IF s.auto
         THEN IF cooling THEN s.temp > s.set ELSE s.temp < s.set
         ELSE s.motor /\ s.temp \in MinTemp..MaxTemp

\* write_status, and temp_action decides by the status of the moment.
Decide(t) ==
    /\ At(t, "save")
    /\ disk' = stat
    /\ run' = [run EXCEPT ![t].role = Role(stat),
                          ![t].at = IF Blind(stat) THEN "report" ELSE "relay"]
    /\ UNCHANGED <<cooling, fixed, stat, relay, gateway, dial, clean, apart>>

Drive(t) ==
    /\ At(t, "relay")
    /\ relay' = run[t].role
    /\ run' = [run EXCEPT ![t].at = "report"]
    /\ UNCHANGED <<cooling, fixed, stat, disk, gateway, dial, clean, apart>>

Ended(t) ==
    /\ run' = [run EXCEPT ![t] = NoCall]
    /\ clean' = (clean \/ run[t].alone)

\* function_Callback: the flag is taken, with the set point of the moment.
Report(t) ==
    /\ At(t, "report")
    /\ gateway' = FALSE
    /\ IF gateway
         THEN /\ run' = [run EXCEPT ![t].at = "dial", ![t].set = stat.set]
              /\ UNCHANGED clean
         ELSE Ended(t)
    /\ UNCHANGED <<cooling, fixed, stat, disk, relay, dial, apart>>

\* set_set_temp: nobody looks whether the write came through.
WriteDial(t) ==
    /\ At(t, "dial")
    /\ \E ok \in BOOLEAN :
         /\ dial' = IF ok THEN run[t].set ELSE dial
         /\ apart' = ~(ok /\ run[t].alone)
    /\ Ended(t)
    /\ UNCHANGED <<cooling, fixed, stat, disk, relay, gateway>>

-----------------------------------------------------------------------------
(* The thermostat.                                                         *)

\* Someone turns the dial in the room.
Turn(d) ==
    /\ dial' = d
    /\ apart' = TRUE
    /\ UNCHANGED <<cooling, fixed, stat, disk, relay, gateway, run, clean>>

\* at_read_task has read a temperature and, then, the set point; what differs from
\* its last reading is reported, as a command is.  A value that reads as zero, and
\* a read that fails, is not.
ReadThermostat(temp) ==
    /\ ~Busy(Reader)
    /\ temp # 0 /\ dial # 0
    /\ SetBegin(Reader, [stat EXCEPT !.temp = temp, !.set = dial])
    /\ apart' = FALSE
    /\ UNCHANGED dial

-----------------------------------------------------------------------------
\* init, with the relay as it was left or off.
Restart(power) ==
    /\ stat' = Effective(disk)
    /\ relay' = IF Blind(stat') THEN relay /\ ~power ELSE Role(stat')
    /\ gateway' = FALSE
    /\ run' = [t \in Threads |-> NoCall]
    /\ clean' = TRUE /\ apart' = TRUE
    /\ UNCHANGED <<cooling, fixed, disk, dial>>

Next ==
    \/ \E t \in Tasks, s \in Status : Command(t, s)
    \/ \E t \in Threads : Decide(t) \/ Drive(t) \/ Report(t) \/ WriteDial(t)
    \/ \E d \in Temps : Turn(d) \/ ReadThermostat(d)
    \/ \E power \in BOOLEAN : Restart(power)

Spec == Init /\ [][Next]_vars
-----------------------------------------------------------------------------
(* Properties.                                                             *)

\* Within the limits the relay is what the mode, the switches and the temperatures
\* ask for (air.cpp 12-107, 220-259), after any mix of commands, reports of the
\* thermostat and restarts in which no two calls overlapped; a cooling air
\* conditioner without a temperature is exempt.  Outside the limits it is off in
\* manual mode and whenever the air conditioner is not started.  In automatic mode
\* temp_action does not look at the limits there, although air.cpp 302 says that
\* the system is stopped: nothing is claimed of it.  The thermostat has the set
\* point of the status, unless it was turned or could not be written.
OutputsFollowStatus ==
    Quiet /\ clean =>
        /\ relay => stat.start /\ (stat.auto \/ (stat.motor /\ stat.temp \in MinTemp..MaxTemp))
        /\ stat.start /\ stat.auto /\ stat.temp \in MinTemp..MaxTemp /\ (cooling => stat.temp > 0)
             => (relay <=> IF cooling THEN stat.temp > stat.set ELSE stat.temp < stat.set)
        /\ apart \/ dial = stat.set
=============================================================================
