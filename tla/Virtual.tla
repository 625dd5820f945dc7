------------------------------ MODULE Virtual ------------------------------
(***************************************************************************)
(* A function that is on another board: this board keeps a copy of its     *)
(* status, the shadow, tells CPU1 of every change of it, and passes        *)
(* commands on (set_status of every class, when virtual_device is set;     *)
(* remote_set_status; functioncallback.cpp; coapcallback.cpp).  The other  *)
(* board is external: it does as it likes and reports what it did with     *)
(* E_REQ, S_ACK or R_REQ.  One task handles these; CPU1's commands and     *)
(* scenarios run in another.                                               *)
(***************************************************************************)
EXTENDS Naturals, Sequences

CONSTANTS
    MaxCounter,   \* bound: the field counter
    MaxWire       \* bound: reports of the board, and orders for it, on their way

VARIABLES
    kind,         \* the class of the function
    serial,       \* the board is on the RS485 bus
    stat,         \* status: the shadow
    disk,         \* the record of the status file
    dev,          \* the status of the function itself
    wire,         \* reports on their way, the oldest first
    orders,       \* S_SETs on their way
    run,          \* the report being handled
    told,         \* what CPU1 was told
    \* Observations
    lost,         \* what the board reported last, or was told last, did not arrive
    unsent,       \* a scenario wrote into the shadow and no order for it went out
    adrift        \* the shadow, its record and CPU1 need not agree

vars == <<kind, serial, stat, disk, dev, wire, orders, run, told, lost, unsent, adrift>>

\* lamp; priz; curtain and piston; water and gas; security; onoff, mwater and door lock;
\* lift and garage; contactor; tmrole.  They send and compare different fields of the
\* status, and not all of them have a senaryo or pass a command on.
Kinds  == {"lamp", "priz", "cur", "water", "security", "onoff", "lift", "cont", "tmrole"}
NoScenario == {"security", "lift", "cont"}
Status == [val : BOOLEAN, counter : 0..MaxCounter, active : BOOLEAN]
Told   == [val : BOOLEAN, counter : 0..MaxCounter]
Counting == {"lamp", "priz", "cur"}     \* the other classes do not use the field
Possible == {s \in Status : kind \notin Counting => s.counter = 0}
NoCall == [at |-> "idle"]
Call   == [at : {"save"}] \union [at : {"send"}, report : Status]

TypeOK ==
    /\ kind \in Kinds /\ serial \in BOOLEAN
    /\ stat \in Status /\ disk \in Status /\ dev \in Status
    /\ wire \in Seq(Status) /\ Len(wire) <= MaxWire
    /\ orders \in 0..MaxWire
    /\ run \in Call \union {NoCall}
    /\ told \in Told
    /\ lost \in BOOLEAN /\ unsent \in BOOLEAN /\ adrift \in BOOLEAN

\* R_REQ has registered the function: the constructor was called with number 0 and has
\* read the record of that number, whatever it holds; nobody was told anything yet.
Init ==
    /\ kind \in Kinds /\ serial \in BOOLEAN
    /\ stat \in Possible /\ dev \in Possible
    /\ disk = [val |-> FALSE, counter |-> 0, active |-> TRUE]
    /\ wire = <<>> /\ orders = 0
    /\ run = NoCall
    /\ told = [val |-> FALSE, counter |-> 0]
    /\ lost = TRUE /\ unsent = FALSE /\ adrift = TRUE

-----------------------------------------------------------------------------
(* What is sent of a status, what is made of it, and what counts as new.   *)

\* ConvertStatus: a lamp or a socket sends its counter only when it is not zero.
SendsCounter(s) == kind = "cur" \/ (kind \in {"lamp", "priz"} /\ s.counter > 0)

\* json_to_status: what is not sent is taken from the shadow.
Merged(s, old) ==
    [val     |-> s.val,
     counter |-> IF SendsCounter(s) THEN s.counter ELSE old.counter,
     active  |-> IF kind \in {"cont", "tmrole"} THEN old.active ELSE s.active]

\* The test of remote_set_status; genel.active is true in every remote function.  The
\* lamp compares it with the new status, priz, curtain and water with the old one.
ActiveChanged(old, new) ==
    \/ kind = "lamp" /\ ~new.active
    \/ kind \in {"priz", "cur", "water", "security"} /\ ~old.active
    \/ kind \in {"onoff", "lift"} /\ old.active # new.active
ChangedValue(old, new) ==          \* mutant: the counter is not compared
    old.val # new.val \/ ActiveChanged(old, new)
Changed(old, new) ==
    \/ old.val # new.val
    \/ kind \in Counting /\ old.counter # new.counter
    \/ ActiveChanged(old, new)

-----------------------------------------------------------------------------
(* The other board, and the bus between.                                   *)

\* It obeys an order, reacts to its own buttons and timers, or answers S_GET.
BoardReports(s, obeys) ==
    /\ Len(wire) < MaxWire
    /\ obeys => orders > 0
    /\ orders' = IF obeys THEN orders - 1 ELSE orders
    /\ dev' = s /\ wire' = Append(wire, s)
    /\ lost' = FALSE
    /\ UNCHANGED <<kind, serial, stat, disk, run, told, unsent, adrift>>

LoseReport ==
    /\ wire # <<>>
    /\ wire' = Tail(wire) /\ lost' = (lost \/ Len(wire) = 1)
    /\ UNCHANGED <<kind, serial, stat, disk, dev, orders, run, told, unsent, adrift>>

LoseOrder ==
    /\ orders > 0
    /\ orders' = orders - 1 /\ lost' = TRUE
    /\ UNCHANGED <<kind, serial, stat, disk, dev, wire, run, told, unsent, adrift>>

-----------------------------------------------------------------------------
(* Commands.                                                               *)

\* command_Callback: S_SET always goes out on the RS485 bus.  A tmrole's set_status
\* does not call it: the call is commented out.
Sends == serial /\ kind # "tmrole"
Ordered == IF Sends THEN orders < MaxWire /\ orders' = orders + 1
                    ELSE UNCHANGED orders

\* event_action, the command `all': set_status passes the status on.
Command ==
    /\ Ordered
    /\ UNCHANGED <<kind, serial, stat, disk, dev, wire, run, told, lost, unsent, adrift>>

\* senaryo writes the value wanted into the shadow before it calls set_status.
Scenario(v) ==
    /\ kind \notin NoScenario
    /\ Ordered
    /\ stat' = [stat EXCEPT !.val = v]
    /\ unsent' = (unsent \/ ~Sends)
    /\ adrift' = TRUE
    /\ UNCHANGED <<kind, serial, disk, dev, wire, run, told, lost>>

-----------------------------------------------------------------------------
(* E_REQ, S_ACK and the status an R_REQ carries.                           *)

Handle ==
    /\ run = NoCall /\ wire # <<>>
    /\ wire' = Tail(wire)
    /\ LET new == Merged(Head(wire), stat)
       IN IF Changed(stat, new) THEN stat' = new /\ run' = [at |-> "save"]
                                ELSE UNCHANGED <<stat, run>>
    /\ unsent' = FALSE
    /\ UNCHANGED <<kind, serial, disk, dev, orders, told, lost, adrift>>

\* write_status, and function_Callback as far as it builds the report.
Save ==
    /\ run.at = "save"
    /\ disk' = stat
    /\ run' = [at |-> "send", report |-> stat]
    /\ adrift' = FALSE
    /\ UNCHANGED <<kind, serial, stat, dev, wire, orders, told, lost, unsent>>

\* uart.Sender; an error is printed.
Send(ok) ==
    /\ run.at = "send"
    /\ run' = NoCall
    /\ told' = IF ok THEN [val     |-> run.report.val,
                          counter |-> IF SendsCounter(run.report) THEN run.report.counter
                                                                  ELSE told.counter]
                     ELSE told
    /\ adrift' = (adrift \/ ~ok)
    /\ UNCHANGED <<kind, serial, stat, disk, dev, wire, orders, lost, unsent>>

-----------------------------------------------------------------------------
\* The constructor reads the record; a socket's forgets the counter.
Booted == IF kind = "priz" THEN [disk EXCEPT !.counter = 0] ELSE disk

Restart ==
    /\ stat' = Booted
    /\ wire' = <<>> /\ lost' = TRUE
    /\ run' = NoCall
    /\ adrift' = (adrift \/ run.at = "send")
    /\ unsent' = FALSE
    /\ UNCHANGED <<kind, serial, disk, dev, orders, told>>

Next ==
    \/ \E s \in Possible, obeys \in BOOLEAN : BoardReports(s, obeys)
    \/ LoseReport \/ LoseOrder
    \/ Command \/ \E v \in BOOLEAN : Scenario(v)
    \/ Handle \/ Save \/ \E ok \in BOOLEAN : Send(ok)
    \/ Restart

Spec == Init /\ [][Next]_vars
-----------------------------------------------------------------------------
\* One status says what another does, as far as it is sent.
Agrees(a, b) == a.val = b.val /\ (SendsCounter(b) => a.counter = b.counter)

\* When the last report has come and no order is on its way, the shadow says what the
\* function does, unless a scenario has written into it what was never ordered (a
\* tmrole passes nothing on, and a function that is not on the RS485 bus gets nothing)
\* and nothing was reported since.  CPU1 has then been told so, unless a scenario has
\* written into the shadow, or the report to CPU1 was lost to an error or a restart,
\* since the shadow was stored (remote_set_status and senaryo of every class, json_to_status,
\* functioncallback.cpp).
ShadowAgrees ==
    run = NoCall /\ wire = <<>> /\ orders = 0 /\ ~lost /\ ~unsent
        => Agrees(stat, dev) /\ (~adrift => Agrees(told, dev))
=============================================================================
