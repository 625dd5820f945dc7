------------------------------ MODULE LogFiles ------------------------------
(***************************************************************************)
(* The log of the board: vprintf_into_spiffs and writelog_task in          *)
(* main/main.cpp.  A line goes through a queue, which drops it when full,  *)
(* and to one of two files; a file that has grown over the limit is left   *)
(* for the other, which is then emptied.  Which of them is current is a    *)
(* field of the configuration, and nothing writes it to flash when it      *)
(* changes.  Every access of a file is a step of its own: other tasks save *)
(* the configuration, and the board restarts, at any of them.  Lines are   *)
(* numbered; one is as long as another.                                    *)
(***************************************************************************)
EXTENDS Integers, Sequences, SequencesExt

CONSTANTS
    Limit,         \* lines that are not over 100000 bytes
    QueueLen,      \* length of msgQ, 50 in the code
    MaxLines       \* bound: lines logged

VARIABLES
    logged,        \* lines logged so far
    msgQ,
    logwrite,      \* lines are kept in the files
    log_file, saved,   \* the current file, in memory and on flash
    LOG,           \* the two files
    writer,        \* what writelog_task does next: "idle", "write", "turn", "empty", "again"
    mm,            \* the line it has in hand
    \* Observations
    kept,          \* lines written to the files
    stale          \* a restart left the board on a file that was not emptied

vars == <<logged, msgQ, logwrite, log_file, saved, LOG, writer, mm, kept, stale>>

TypeOK ==
    /\ logged \in 0..MaxLines
    /\ msgQ \in Seq(1..MaxLines) /\ Len(msgQ) <= QueueLen
    /\ logwrite \in BOOLEAN
    /\ log_file \in 1..2 /\ saved \in 1..2
    /\ LOG \in [1..2 -> Seq(1..MaxLines)]
    /\ writer \in {"idle", "write", "turn", "empty", "again"} /\ mm \in 0..MaxLines
    /\ kept \in 0..logged /\ stale \in BOOLEAN

Init ==
    /\ logged = 0
    /\ msgQ = <<>>
    /\ logwrite \in BOOLEAN
    /\ log_file = 1 /\ saved = 1
    /\ LOG = [f \in 1..2 |-> <<>>]
    /\ writer = "idle" /\ mm = 0
    /\ kept = 0 /\ stale = FALSE

-----------------------------------------------------------------------------
\* Any task.
Log ==
    /\ logged < MaxLines
    /\ logged' = logged + 1
    /\ msgQ' = IF Len(msgQ) < QueueLen THEN Append(msgQ, logged') ELSE msgQ
    /\ UNCHANGED <<logwrite, log_file, saved, LOG, writer, mm, kept, stale>>

Other(f) == 3 - f

Take ==
    /\ writer = "idle" /\ msgQ # <<>>
    /\ msgQ' = Tail(msgQ) /\ mm' = Head(msgQ)
    /\ writer' = IF logwrite THEN "write" ELSE "idle"
    /\ UNCHANGED <<logged, logwrite, log_file, saved, LOG, kept, stale>>

\* write_log, and the test of the size.
Write ==
    /\ writer \in {"write", "again"}
    /\ LOG' = [LOG EXCEPT ![log_file] = Append(@, mm)]
    /\ writer' = IF Len(LOG'[log_file]) > Limit THEN "turn" ELSE "idle"
    /\ kept' = IF writer = "write" THEN kept + 1 ELSE kept
    /\ UNCHANGED <<logged, msgQ, logwrite, log_file, saved, mm, stale>>

Turn ==
    /\ writer = "turn"
    /\ log_file' = Other(log_file)
    /\ writer' = "empty"
    /\ UNCHANGED <<logged, msgQ, logwrite, saved, LOG, mm, kept, stale>>

EmptiedFull == Other(log_file)         \* mutant: the file that is full is emptied

Emptied == log_file

\* Two ifs in a row, one for each file: after LOG1 is left for LOG2 the second is true
\* as well, and the line is written to both.
Empty ==
    /\ writer = "empty"
    /\ LOG' = [LOG EXCEPT ![Emptied] = <<>>]
    /\ writer' = IF log_file = 2 THEN "again" ELSE "idle"
    /\ UNCHANGED <<logged, msgQ, logwrite, log_file, saved, mm, kept, stale>>

\* The web page switches the log on and off and saves the configuration; so do some
\* commands of CPU1.
Save ==
    /\ logwrite' \in BOOLEAN
    /\ saved' = log_file
    /\ UNCHANGED <<logged, msgQ, log_file, LOG, writer, mm, kept, stale>>

Restart ==
    /\ log_file' = saved
    /\ msgQ' = <<>>
    /\ writer' = "idle" /\ mm' = 0
    /\ stale' = (stale \/ saved # log_file \/ writer = "empty")
    /\ UNCHANGED <<logged, logwrite, saved, LOG, kept>>

Next == Log \/ Take \/ Write \/ Turn \/ Empty \/ Save \/ Restart

Spec == Init /\ [][Next]_vars
-----------------------------------------------------------------------------
(* Properties.                                                             *)

\* The file with the newest line, while it is left too.
Current == IF writer = "empty" THEN Other(log_file) ELSE log_file

\* A full file's worth of the newest lines is there, in order, between any two accesses
\* (main.cpp 187-223), until a restart leaves the board on a file that was not emptied:
\* it goes back to the full one, because the change was not saved, or it falls between
\* the change, saved by another task, and file_empty.  The next line written there
\* empties the file with the lines before the restart.
RecentIsKept ==
    LET older == LOG[Other(Current)]
        newer == LOG[Current]
    IN  ~stale =>
          /\ newer # <<>> /\ older # <<>> => Last(older) <= newer[1]
          /\ kept <= Limit => Len(newer) = kept
          /\ kept > Limit => Len(older) + Len(newer) > Limit
=============================================================================
