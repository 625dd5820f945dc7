----------------------------- MODULE StatusSync -----------------------------
(***************************************************************************)
(* After a start the states of the functions of other boards are unknown:  *)
(* full_status_read (main/main.cpp) asks for them one by one with S_GET    *)
(* and waits half a second for STATUS_ready, a semaphore that any S_ACK    *)
(* gives (main/coapcallback.cpp).  Boards come and go in the list, and an  *)
(* answer may be lost or come when the task no longer waits for it.        *)
(***************************************************************************)
EXTENDS Naturals, FiniteSets

CONSTANTS
    MaxFunctions,   \* bound: functions in the list
    Patience        \* the failed waits the task survives, 4 in the code

VARIABLES
    remote,         \* rigid: which functions of the list are of other boards
    known,          \* those whose board is in the list of boards
    task,           \* where the task is
    target, cnt, next,
    STATUS_ready,
    answers,        \* S_ACKs on their way, for each function
    read,           \* the functions whose state has come
    \* Observations
    late            \* an answer came when its wait was over

syncVars == <<task, target, cnt, next>>
vars == <<remote, known, syncVars, STATUS_ready, answers, read, late>>

TypeOK ==
    /\ remote \in [1..MaxFunctions -> BOOLEAN]
    /\ known \subseteq 1..MaxFunctions
    /\ task \in {"walk", "wait", "done", "failed"}
    /\ target \in 1..(MaxFunctions + 1)
    /\ cnt \in 0..(Patience + 1)
    /\ next \in BOOLEAN
    /\ STATUS_ready \in BOOLEAN
    /\ answers \in [1..MaxFunctions -> 0..(Patience + 1)]
    /\ read \subseteq 1..MaxFunctions
    /\ late \in BOOLEAN

\* late_process has created the task.
Init ==
    /\ remote \in [1..MaxFunctions -> BOOLEAN]
    /\ known = {f \in 1..MaxFunctions : remote[f]}
    /\ task = "walk" /\ target = 1 /\ cnt = 0 /\ next = TRUE
    /\ STATUS_ready = FALSE
    /\ answers = [f \in 1..MaxFunctions |-> 0]
    /\ read = {}
    /\ late = FALSE

-----------------------------------------------------------------------------
\* if (next) target = target->next
Step(n) == target' = IF n THEN target + 1 ELSE target

\* The end of the list.
End ==
    /\ task = "walk" /\ target > MaxFunctions
    /\ task' = "done"
    /\ UNCHANGED <<remote, known, target, cnt, next, STATUS_ready, answers, read, late>>

\* A function of this board is passed over.
Pass ==
    /\ task = "walk" /\ target <= MaxFunctions /\ ~remote[target]
    /\ Step(next)
    /\ UNCHANGED <<remote, known, task, cnt, next, STATUS_ready, answers, read, late>>

\* S_GET: the board answers it or not.  A board that is not in the list ends the task.
Ask ==
    /\ task = "walk" /\ target <= MaxFunctions /\ remote[target]
    /\ IF target \in known
         THEN /\ task' = "wait"
              /\ \E n \in {0, 1} : answers' = [answers EXCEPT ![target] = @ + n]
         ELSE task' = "failed" /\ UNCHANGED answers
    /\ UNCHANGED <<remote, known, target, cnt, next, STATUS_ready, read, late>>

\* S_ACK: the state goes to its function, and STATUS_ready is given.
Answer(f) ==
    /\ answers[f] > 0
    /\ answers' = [answers EXCEPT ![f] = @ - 1]
    /\ read' = read \union {f}
    /\ STATUS_ready' = TRUE
    /\ late' = (late \/ task # "wait" \/ f # target \/ STATUS_ready)
    /\ UNCHANGED <<remote, known, syncVars>>

Answered ==
    /\ task = "wait" /\ STATUS_ready
    /\ STATUS_ready' = FALSE
    /\ next' = TRUE
    /\ Step(TRUE)
    /\ task' = "walk"
    /\ UNCHANGED <<remote, known, cnt, answers, read, late>>

NextAfterTimeoutKept == next      \* mutant: next = false is left out

NextAfterTimeout == FALSE

\* 500 ms without: the same function again, and after the fifth time no more.
Timeout ==
    /\ task = "wait" /\ ~STATUS_ready
    /\ next' = NextAfterTimeout
    /\ cnt' = cnt + 1
    /\ IF cnt' > Patience
         THEN task' = "failed" /\ UNCHANGED target
         ELSE task' = "walk" /\ Step(next')
    /\ UNCHANGED <<remote, known, STATUS_ready, answers, read, late>>

\* The list of boards changes.
Known(f) ==
    /\ remote[f]
    /\ known' = IF f \in known THEN known \ {f} ELSE known \union {f}
    /\ UNCHANGED <<remote, syncVars, STATUS_ready, answers, read, late>>

Next ==
    \/ End \/ Pass \/ Ask \/ Answered \/ Timeout
    \/ \E f \in 1..MaxFunctions : Answer(f) \/ Known(f)

Spec == Init /\ [][Next]_vars
-----------------------------------------------------------------------------
(* Properties.                                                             *)

\* What the task has passed has been read, each function of another board by the
\* answer to its own question; with an answer that came late one of them may have
\* been passed on the answer of another, but never on none (main.cpp 291-328,
\* coapcallback.cpp 291-306).  To give up means that a board has gone or that five
\* waits were in vain.
PassedIsRead ==
    LET passed == {f \in 1..(target - 1) : remote[f]} IN
    /\ ~late => passed \subseteq read
    /\ passed # {} => read # {}
    /\ task = "done" => target = MaxFunctions + 1
    /\ cnt > Patience => task = "failed"
=============================================================================
