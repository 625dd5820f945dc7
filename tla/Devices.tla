------------------------------ MODULE Devices ------------------------------
(***************************************************************************)
(* The devices share no state, so one behaviour is of one device: `part'   *)
(* says which, and the variables of the same name are shared.              *)
(***************************************************************************)
EXTENDS Naturals, Sequences

CONSTANTS Callers, EspTimer, MaxCounter,
          NOuts,                                    \* Lamp
          Devices, Tasks,                           \* Relay
          PortLists,                                \* Piston
          DEBOUNCE_TICKS, SHORT_TICKS, LONG_TICKS,  \* Button
          MaxWire                                   \* Virtual

ASSUME CounterAssumption == MaxCounter \in Nat
ASSUME LampAssumption == NOuts \in Nat
ASSUME WireAssumption == MaxWire \in Nat
ASSUME ButtonAssumption ==
    DEBOUNCE_TICKS \in Nat \ {0} /\ SHORT_TICKS \in Nat /\ LONG_TICKS \in Nat
ASSUME PistonAssumption ==
    \A p \in PortLists : /\ p \in Seq({"MOTOR", "UP", "DOWN", "in"})
                         /\ \A o \in {"MOTOR", "UP", "DOWN"} : \E i \in 1..Len(p) : p[i] = o

VARIABLES part, stat, counter, disk, out, qtimer, kind, run, held, clean,
          xtimer, welcome, sensed, timer, cmd,
          pin, ptimer,
          order, moving, pos, stranded,
          ports, eskitip, Motor, temp,
          level, deb, state, ticks, disable, raw, steady, seen, long,
          serial, dev, wire, orders, told, lost, unsent, adrift

lampVars    == <<xtimer, welcome, sensed, timer, cmd>>
relayVars   == <<pin, ptimer>>
pulseVars   == <<order, moving, pos, stranded>>
pistonVars  == <<ports, eskitip, Motor, temp>>
buttonVars  == <<level, deb, state, ticks, disable, raw, steady, seen, long>>
remoteVars  == <<serial, dev, wire, orders, told, lost, unsent, adrift>>
vars == <<part, stat, counter, disk, out, qtimer, kind, run, held, clean,
          lampVars, relayVars, pulseVars, pistonVars, buttonVars, remoteVars>>

L  == INSTANCE Lamp
R  == INSTANCE Relay
P  == INSTANCE Pulse WITH Tasks <- Callers
Pi == INSTANCE Piston
B  == INSTANCE Button
V  == INSTANCE Virtual

-----------------------------------------------------------------------------
None == "none"
NoLamp    == /\ xtimer = None /\ welcome = None /\ sensed = None /\ timer = None
             /\ cmd = None
NoRelay   == pin = None /\ ptimer = None
NoPulse   == order = None /\ moving = None /\ pos = None /\ stranded = None
NoPiston  == ports = None /\ eskitip = None /\ Motor = None /\ temp = None
NoButton  == /\ level = None /\ deb = None /\ state = None /\ ticks = None
             /\ disable = None /\ raw = None /\ steady = None /\ seen = None
             /\ long = None
NoRemote  == /\ serial = None /\ dev = None /\ wire = None /\ orders = None
             /\ told = None /\ lost = None /\ unsent = None /\ adrift = None

Init ==
    \/ /\ part = "lamp" /\ L!Init
       /\ NoRelay /\ NoPulse /\ NoPiston /\ NoButton /\ NoRemote
       /\ kind = None /\ run = None /\ held = None
    \/ /\ part = "relay" /\ R!Init
       /\ NoLamp /\ NoPulse /\ NoPiston /\ NoButton /\ NoRemote
       /\ out = None /\ qtimer = None /\ held = None
    \/ /\ part = "pulse" /\ P!Init
       /\ NoLamp /\ NoRelay /\ NoPiston /\ NoButton /\ NoRemote
       /\ counter = None /\ held = None
    \/ /\ part = "piston" /\ Pi!Init
       /\ NoLamp /\ NoRelay /\ NoPulse /\ NoButton /\ NoRemote
       /\ counter = None /\ disk = None /\ kind = None
    \/ /\ part = "button" /\ B!Init
       /\ NoLamp /\ NoRelay /\ NoPulse /\ NoPiston /\ NoRemote
       /\ stat = None /\ counter = None /\ disk = None /\ out = None /\ qtimer = None
       /\ kind = None /\ run = None
    \/ /\ part = "remote" /\ V!Init
       /\ NoLamp /\ NoRelay /\ NoPulse /\ NoPiston /\ NoButton
       /\ counter = None /\ out = None /\ qtimer = None /\ held = None /\ clean = None

Next ==
    \/ /\ part = "lamp" /\ L!Next
       /\ UNCHANGED <<part, relayVars, pulseVars, pistonVars, buttonVars, remoteVars,
                      kind, run, held>>
    \/ /\ part = "relay" /\ R!Next
       /\ UNCHANGED <<part, lampVars, pulseVars, pistonVars, buttonVars, remoteVars,
                      out, qtimer, held>>
    \/ /\ part = "pulse" /\ P!Next
       /\ UNCHANGED <<part, lampVars, relayVars, pistonVars, buttonVars, remoteVars,
                      counter, held>>
    \/ /\ part = "piston" /\ Pi!Next
       /\ UNCHANGED <<part, lampVars, relayVars, pulseVars, buttonVars, remoteVars,
                      counter, disk, kind>>
    \/ /\ part = "button" /\ B!Next
       /\ UNCHANGED <<part, lampVars, relayVars, pulseVars, pistonVars, remoteVars,
                      stat, counter, disk, out, qtimer, kind, run>>
    \/ /\ part = "remote" /\ V!Next
       /\ UNCHANGED <<part, lampVars, relayVars, pulseVars, pistonVars, buttonVars,
                      counter, out, qtimer, held, clean>>

Spec == Init /\ [][Next]_vars
-----------------------------------------------------------------------------
\* Every variable of the device keeps its type.
TypeOK ==
    /\ part = "lamp"    => L!TypeOK
    /\ part = "relay"   => R!TypeOK
    /\ part = "pulse"   => P!TypeOK
    /\ part = "piston"  => Pi!TypeOK
    /\ part = "button"  => B!TypeOK
    /\ part = "remote"  => V!TypeOK

\* The outputs do what the status says (lamp.cpp, iot_out.c and the classes of
\* relays), where calls did not overlap.
OutputsFollowStatus ==
    /\ part = "lamp"    => L!OutputsFollowStatus
    /\ part = "relay"   => R!OutputsFollowStatus

\* What is on for some minutes has its timer (lamp.cpp, priz.cpp).
LimitedIsTimed ==
    /\ part = "lamp"  => L!LimitedIsTimed
    /\ part = "relay" => R!LimitedIsTimed

\* What is energised for some seconds is released (asansor, garage, kapi, mwater,
\* piston).
CoilReleased ==
    /\ part = "pulse"  => P!CoilReleased
    /\ part = "piston" => Pi!CoilReleased

\* Coils of opposite directions exclude each other and agree with what was asked for
\* (mwater.cpp, piston.cpp).
DirectionsExclusive ==
    /\ part = "pulse"  => P!ValveAgrees
    /\ part = "piston" => Pi!DirectionsExclusive

\* The debouncing state machine tells its function what the button does
\* (iot_button.c).
EventsTellButton == part = "button" => B!EventsTellButton

\* The shadow of a function of another board, and CPU1, follow that function
\* (remote_set_status of every class, functioncallback.cpp).
ShadowAgrees == part = "remote" => V!ShadowAgrees
=============================================================================
