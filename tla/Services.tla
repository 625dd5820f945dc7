------------------------------ MODULE Services ------------------------------
(***************************************************************************)
(* The services of the board share no state that matters here, so one      *)
(* behaviour is of one of them: `part' says which, and the variables of    *)
(* the same name are shared.                                               *)
(***************************************************************************)
EXTENDS Naturals, Sequences, FiniteSets

CONSTANTS Tasks, Reader, MinTemp, MaxTemp, Top,          \* Climate
          Nodes, Callers, MaxMsgs, MaxPk, QueueLen,      \* Rs485Link
          Boards, Fds,                                   \* Boards
          MaxCounter,                                    \* Supervisor
          Walked, Patience,                              \* StatusSync
          DEV_NUM, MaxFunctions,                         \* Intro
          Limit, LogQueueLen, MaxLines                   \* LogFiles

ASSUME TemperatureAssumption == Top \in Nat
ASSUME LogAssumption == Limit \in Nat \ {0} /\ LogQueueLen \in Nat /\ MaxLines \in Nat
ASSUME BoardAssumption == Boards \cap {"none", "made"} = {} /\ 0 \notin Fds
ASSUME CounterAssumption == MaxCounter \in Nat \ {0}
ASSUME WalkAssumption == Walked \in Nat /\ Patience \in Nat
ASSUME BusAssumption == /\ IsFiniteSet(Nodes) /\ Callers \in Nat /\ MaxMsgs \in Nat
                        /\ MaxPk \in Nat /\ QueueLen \in Nat
ASSUME PageAssumption == DEV_NUM \in Nat \ {0} /\ MaxFunctions \in Nat

VARIABLES part, cooling, fixed, stat, disk, relay, gateway, dial, run, clean, apart,
          accepted, claiming, waiting, busy, sem, queue, job, bus, rx, buf, ready,
          callback_sem, wait_sem,
          cb, delivered, spoiled, late, hasty,
          joined, list, conn, sound,
          sending, reset_servisi, ping_stat, ping_sem, ping_error_counter, ping, open,
          here, behind, heard, missed, tardy, skipped,
          remote, known, task, target, cnt, next, STATUS_ready, answers, read,
          count, ps, cp, sent,
          logged, msgQ, logwrite, log_file, saved, LOG, writer, mm, kept, stale

climateVars == <<cooling, fixed, stat, disk, relay, gateway, dial, run, clean, apart>>
busVars     == <<accepted, claiming, waiting, busy, sem, queue, job, bus, rx, buf, ready,
                 callback_sem, wait_sem, cb, delivered, spoiled, hasty>>
boardVars   == <<joined, conn, sound>>
pingVars    == <<sending, reset_servisi, ping_stat, ping_sem, ping_error_counter, ping,
                 open, here, behind, heard, missed, tardy, skipped>>
syncVars    == <<remote, known, cnt, next, STATUS_ready, answers, read>>
introVars   == <<count, ps, cp, sent>>
logVars     == <<logged, msgQ, logwrite, log_file, saved, LOG, writer, mm, kept, stale>>
vars == <<part, climateVars, busVars, boardVars, pingVars, syncVars, introVars, logVars,
          late, list, task, target>>

C  == INSTANCE Climate
Rs == INSTANCE Rs485Link
Bo == INSTANCE Boards
Su == INSTANCE Supervisor
St == INSTANCE StatusSync WITH MaxFunctions <- Walked
In == INSTANCE Intro
Lo == INSTANCE LogFiles WITH QueueLen <- LogQueueLen

-----------------------------------------------------------------------------
None == "none"
NoClimate == /\ cooling = None /\ fixed = None /\ stat = None /\ disk = None
             /\ relay = None /\ gateway = None /\ dial = None /\ run = None
             /\ clean = None /\ apart = None
NoBus     == /\ accepted = None /\ claiming = None /\ waiting = None /\ busy = None
             /\ sem = None /\ queue = None
             /\ job = None /\ bus = None /\ rx = None /\ buf = None /\ ready = None
             /\ callback_sem = None /\ wait_sem = None /\ cb = None
             /\ delivered = None /\ spoiled = None /\ hasty = None
NoBoards  == joined = None /\ conn = None /\ sound = None
NoPing    == /\ sending = None /\ reset_servisi = None /\ ping_stat = None
             /\ ping_sem = None /\ ping_error_counter = None /\ ping = None
             /\ open = None /\ here = None /\ behind = None /\ heard = None
             /\ missed = None /\ tardy = None /\ skipped = None
NoSync    == /\ remote = None /\ known = None /\ cnt = None /\ next = None
             /\ STATUS_ready = None /\ answers = None /\ read = None
NoIntro   == count = None /\ ps = None /\ cp = None /\ sent = None
NoLog     == /\ logged = None /\ msgQ = None /\ logwrite = None /\ log_file = None
             /\ saved = None /\ LOG = None /\ writer = None /\ mm = None
             /\ kept = None /\ stale = None

Init ==
    \/ /\ part = "climate" /\ C!Init
       /\ NoBus /\ NoBoards /\ NoPing /\ NoSync /\ NoIntro /\ NoLog
       /\ late = None /\ list = None /\ task = None /\ target = None
    \/ /\ part = "bus" /\ Rs!Init
       /\ NoClimate /\ NoBoards /\ NoPing /\ NoSync /\ NoIntro /\ NoLog
       /\ list = None /\ task = None /\ target = None
    \/ /\ part = "boards" /\ Bo!Init
       /\ NoClimate /\ NoBus /\ NoPing /\ NoSync /\ NoIntro /\ NoLog
       /\ late = None /\ task = None /\ target = None
    \/ /\ part = "ping" /\ Su!Init
       /\ NoClimate /\ NoBus /\ NoBoards /\ NoSync /\ NoIntro /\ NoLog
       /\ late = None /\ list = None /\ task = None /\ target = None
    \/ /\ part = "sync" /\ St!Init
       /\ NoClimate /\ NoBus /\ NoBoards /\ NoPing /\ NoIntro /\ NoLog
       /\ list = None
    \/ /\ part = "intro" /\ In!Init
       /\ NoClimate /\ NoBus /\ NoBoards /\ NoPing /\ NoSync /\ NoLog
       /\ late = None
    \/ /\ part = "log" /\ Lo!Init
       /\ NoClimate /\ NoBus /\ NoBoards /\ NoPing /\ NoSync /\ NoIntro
       /\ late = None /\ list = None /\ task = None /\ target = None

Next ==
    /\ UNCHANGED part
    /\ \/ /\ part = "climate" /\ C!Next
          /\ UNCHANGED <<busVars, boardVars, pingVars, syncVars, introVars, logVars,
                         late, list, task, target>>
       \/ /\ part = "bus" /\ Rs!Next
          /\ UNCHANGED <<climateVars, boardVars, pingVars, syncVars, introVars, logVars,
                         list, task, target>>
       \/ /\ part = "boards" /\ Bo!Next
          /\ UNCHANGED <<climateVars, busVars, pingVars, syncVars, introVars, logVars,
                         late, task, target>>
       \/ /\ part = "ping" /\ Su!Next
          /\ UNCHANGED <<climateVars, busVars, boardVars, syncVars, introVars, logVars,
                         late, list, task, target>>
       \/ /\ part = "sync" /\ St!Next
          /\ UNCHANGED <<climateVars, busVars, boardVars, pingVars, introVars, logVars,
                         list>>
       \/ /\ part = "intro" /\ In!Next
          /\ UNCHANGED <<climateVars, busVars, boardVars, pingVars, syncVars, logVars,
                         late>>
       \/ /\ part = "log" /\ Lo!Next
          /\ UNCHANGED <<climateVars, busVars, boardVars, pingVars, syncVars, introVars,
                         late, list, task, target>>

Spec == Init /\ [][Next]_vars
-----------------------------------------------------------------------------
\* Every variable of the service keeps its type.
TypeOK ==
    /\ part = "climate" => C!TypeOK
    /\ part = "bus"     => Rs!TypeOK
    /\ part = "boards"  => Bo!TypeOK
    /\ part = "ping"    => Su!TypeOK
    /\ part = "sync"    => St!TypeOK
    /\ part = "intro"   => In!TypeOK
    /\ part = "log"     => Lo!TypeOK

\* The relay of the air conditioning does what the status says (air.cpp), where calls
\* did not overlap.
OutputsFollowStatus == part = "climate" => C!OutputsFollowStatus

\* On the RS485 bus the callback reads the message it was started for
\* (rs485.cpp 10-27, 163-184, 283-291).
CallbackReadsWhole == part = "bus" => Rs!CallbackReadsWhole

\* A Sender call that is told its message went out is told the truth
\* (rs485.cpp 118-119, 126-138).
GivenMeansSent == part = "bus" => Rs!GivenMeansSent

\* The messages of one board on the bus are handed over in the order it sent them.
InOrder ==
    /\ part = "bus" => Rs!OrderedInit
    /\ [][part = "bus" => Rs!OrderedStep]_<<accepted, delivered>>

\* A message from a socket is taken for that of the board that sent it (tcpserver.cpp
\* 136-192), and the search for an id finds the entry the sockets are kept in
\* (cihazlar.cpp 79-121).
SocketTellsBoard == part = "boards" => Bo!SocketTellsBoard /\ Bo!RealEntryFirst

\* CPU1 is reset for its silence only (uart.cpp 426-468, globaltools.cpp 42-50).
ErrorsAreSilence == part = "ping" => Su!ErrorsAreSilence

\* The two tasks that walk the functions of the board miss none: the one that asks for
\* their states (main.cpp 291-328) and the one that tells CPU1 of them
\* (globaltools.cpp 117-168).
WalksMissNothing ==
    /\ part = "sync"  => St!PassedIsRead
    /\ part = "intro" => In!PagesCoverList

\* The log keeps the newest lines (main.cpp 187-223).
RecentIsKept == part = "log" => Lo!RecentIsKept
=============================================================================
