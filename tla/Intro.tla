-------------------------------- MODULE Intro --------------------------------
(***************************************************************************)
(* send_intro (main/globaltools.cpp): CPU1 asks for the functions of the   *)
(* board, and they are sent in pages.  The pages are counted first, by     *)
(* DEV_NUM functions each; a page is then filled by a test that lets two   *)
(* more through.  Each page waits for the link, and meanwhile R_REQ may    *)
(* put new functions in front of the list.  A function is named by its age *)
(* in the list, from 1, so the list behind function f is 1 to f - 1.       *)
(***************************************************************************)
EXTENDS Naturals, Sequences

CONSTANTS
    DEV_NUM,          \* 10 in the code
    MaxFunctions      \* bound: functions in the list

VARIABLES
    list,             \* the newest function
    task,             \* where the task is
    count,            \* the newest when the task began
    target,           \* the function to be sent next, 0 behind the oldest
    ps, cp,           \* pages announced, and the one to send
    sent              \* the functions of each page sent

vars == <<list, task, count, target, ps, cp, sent>>

Functions == 1..MaxFunctions

TypeOK ==
    /\ list \in 0..MaxFunctions
    /\ task \in {"idle", "page"}
    /\ count \in 0..list /\ target \in 0..count
    /\ ps \in 0..MaxFunctions /\ cp \in 1..(ps + 1)
    /\ sent \in Seq(SUBSET Functions)

Init ==
    /\ list \in 0..MaxFunctions
    /\ task = "idle"
    /\ count = 0 /\ target = 0
    /\ ps = 0 /\ cp = 1
    /\ sent = <<>>

-----------------------------------------------------------------------------
\* function_count and the pages they will need; the task does not block between that
\* and its look at the head of the list.
Begin ==
    /\ task = "idle"
    /\ task' = "page"
    /\ count' = list /\ target' = list
    /\ ps' = list \div DEV_NUM + (IF list % DEV_NUM > 0 THEN 1 ELSE 0)
    /\ cp' = 1
    /\ sent' = <<>>
    /\ UNCHANGED list

LastOfUnchecked(f) == f - DEV_NUM - 1   \* mutant: the end of the list is not looked for

\* The oldest function of a page that begins at f: rr++ > DEV_NUM is tested after the
\* function was taken and passed.
LastOf(f) == IF f > DEV_NUM + 2 THEN f - DEV_NUM - 1 ELSE 1

AfterTaken(f) == LastOf(f)            \* mutant: the test comes before target->next

After(f) == LastOf(f) - 1

Page ==
    /\ task = "page" /\ cp <= ps
    /\ sent' = Append(sent, IF target = 0 THEN {} ELSE LastOf(target)..target)
    /\ target' = IF target = 0 THEN 0 ELSE After(target)
    /\ cp' = cp + 1
    /\ UNCHANGED <<list, task, count, ps>>

End ==
    /\ task = "page" /\ cp > ps
    /\ task' = "idle"
    /\ UNCHANGED <<list, count, target, ps, cp, sent>>

\* R_REQ.
Register ==
    /\ list < MaxFunctions
    /\ list' = list + 1
    /\ UNCHANGED <<task, count, target, ps, cp, sent>>

Next == Begin \/ Page \/ End \/ Register

Spec == Init /\ [][Next]_vars
-----------------------------------------------------------------------------
(* Properties.                                                             *)

\* CPU1 is told every function there was when the task began, once, on the pages it
\* was told to expect, the last of which may be empty (globaltools.cpp 117-168).
PagesCoverList ==
    /\ \A p, q \in 1..Len(sent) : p # q => sent[p] \cap sent[q] = {}
    /\ task = "page" /\ cp > ps => /\ Len(sent) = ps
                                   /\ UNION {sent[p] : p \in 1..ps} = 1..count
=============================================================================
