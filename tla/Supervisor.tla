----------------------------- MODULE Supervisor -----------------------------
(***************************************************************************)
(* The supervision of CPU1: ping in library/uart/uart.cpp and              *)
(* CPU1_Ping_Reset in main/globaltools.cpp.  A timer of five seconds sends *)
(* a ping from the esp_timer task and waits 200 ms for its semaphore; the  *)
(* event task notes the pong and gives it.  The semaphore is never taken   *)
(* but by a ping that waits.  A packet from CPU1 starts the five seconds   *)
(* anew, which changes when and not what; the other end of ping, pong_start *)
(* and its timer, has no caller.                                           *)
(***************************************************************************)
EXTENDS Naturals

CONSTANTS MaxCounter    \* 2 ^ width of ping_error_counter, 256 in the code

VARIABLES
    sending,             \* busy: a message is on its way to CPU1
    reset_servisi,       \* CPU1 has asked to be reset when it is silent
    ping_stat, ping_sem,
    ping_error_counter,
    ping,                \* where the timer's callback is
    open,                \* the 200 ms of the last ping have not passed
    here, behind,        \* pongs on their way: of the last ping, of an earlier one
    \* Observations
    heard,               \* a pong came within the 200 ms of the last ping
    missed,              \* pings in a row without one, counted up to MaxCounter
    tardy,               \* a pong came after its 200 ms, and a token may be left
    skipped              \* pings were not sent since the last answer

vars == <<sending, reset_servisi, ping_stat, ping_sem, ping_error_counter, ping,
          open, here, behind, heard, missed, tardy, skipped>>

TypeOK ==
    /\ sending \in BOOLEAN /\ reset_servisi \in BOOLEAN
    /\ ping_stat \in BOOLEAN /\ ping_sem \in BOOLEAN
    /\ ping_error_counter \in 0..(MaxCounter - 1)
    /\ ping \in {"idle", "take", "judge", "reset"}
    /\ open \in BOOLEAN /\ here \in BOOLEAN /\ behind \in BOOLEAN
    /\ heard \in BOOLEAN /\ missed \in 0..MaxCounter
    /\ tardy \in BOOLEAN /\ skipped \in BOOLEAN

Init ==
    /\ sending = FALSE /\ reset_servisi \in BOOLEAN
    /\ ping_stat = FALSE /\ ping_sem = FALSE
    /\ ping_error_counter = 0
    /\ ping = "idle"
    /\ open = FALSE /\ here = FALSE /\ behind = FALSE
    /\ heard = FALSE /\ missed = 0 /\ tardy = FALSE /\ skipped = FALSE

-----------------------------------------------------------------------------
\* A call of Sender takes the link and leaves it.
Send ==
    /\ sending' = ~sending
    /\ UNCHANGED <<reset_servisi, ping_stat, ping_sem, ping_error_counter, ping, open,
                   here, behind, heard, missed, tardy, skipped>>

\* T_ACK.
Order ==
    /\ reset_servisi' = ~reset_servisi
    /\ UNCHANGED <<sending, ping_stat, ping_sem, ping_error_counter, ping, open, here,
                   behind, heard, missed, tardy, skipped>>

\* The timer, on a busy link: ping sends nothing and returns true.
Skip ==
    /\ ping = "idle" /\ ~open /\ sending
    /\ ping_error_counter' = 0
    /\ skipped' = TRUE
    /\ UNCHANGED <<sending, reset_servisi, ping_stat, ping_sem, ping, open, here, behind,
                   heard, missed, tardy>>

\* The timer: CPU1 will answer this ping or not.
Ping ==
    /\ ping = "idle" /\ ~open /\ ~sending
    /\ ping_stat' = FALSE
    /\ ping' = "take"
    /\ open' = TRUE
    /\ here' \in BOOLEAN
    /\ behind' = (behind \/ here)
    /\ heard' = FALSE
    /\ UNCHANGED <<sending, reset_servisi, ping_sem, ping_error_counter, missed, tardy,
                   skipped>>

\* The event task: a pong.
Pong ==
    /\ here \/ behind
    /\ here' = (here /\ behind)
    /\ behind' = FALSE
    /\ ping_stat' = TRUE
    /\ ping_sem' = TRUE
    /\ heard' = (heard \/ open)
    /\ tardy' = (tardy \/ behind \/ ~open)
    /\ UNCHANGED <<sending, reset_servisi, ping_error_counter, ping, open, missed, skipped>>

\* The 200 ms pass.
Close ==
    /\ open
    /\ open' = FALSE
    /\ missed' = IF heard THEN 0 ELSE IF missed < MaxCounter THEN missed + 1 ELSE missed
    /\ UNCHANGED <<sending, reset_servisi, ping_stat, ping_sem, ping_error_counter, ping,
                   here, behind, heard, tardy, skipped>>

\* xSemaphoreTake returns, with a token or for the time.
Taken ==
    /\ ping = "take"
    /\ ping_sem \/ ~open
    /\ ping_sem' = FALSE
    /\ ping' = "judge"
    /\ UNCHANGED <<sending, reset_servisi, ping_stat, ping_error_counter, open, here,
                   behind, heard, missed, tardy, skipped>>

JudgedKept ==       \* mutant: an answer does not clear the counter
    IF ping_stat THEN ping_error_counter ELSE (ping_error_counter + 1) % MaxCounter

Judged == IF ping_stat THEN 0 ELSE (ping_error_counter + 1) % MaxCounter

\* CPU1_Ping_Reset resets CPU1 after more than seven; the callback is called after
\* more than five and only logs the others.
Judge ==
    /\ ping = "judge"
    /\ ping_error_counter' = Judged
    /\ ping' = IF Judged > 7 /\ reset_servisi THEN "reset" ELSE "idle"
    /\ tardy' = (tardy /\ ~(heard /\ ping_stat /\ ~ping_sem /\ ~here /\ ~behind /\ ~open))
    /\ skipped' = (skipped /\ ~ping_stat)
    /\ UNCHANGED <<sending, reset_servisi, ping_stat, ping_sem, open, here, behind, heard,
                   missed>>

\* CPU1_Reset blocks the esp_timer task for 5.5 s; the counter stays.
Reset ==
    /\ ping = "reset" /\ ~open
    /\ ping' = "idle"
    /\ UNCHANGED <<sending, reset_servisi, ping_stat, ping_sem, ping_error_counter, open,
                   here, behind, heard, missed, tardy, skipped>>

Next == Send \/ Order \/ Skip \/ Ping \/ Pong \/ Close \/ Taken \/ Judge \/ Reset

Spec == Init /\ [][Next]_vars
-----------------------------------------------------------------------------
(* Properties.                                                             *)

\* CPU1 is reset for silence (uart.cpp 426-468, globaltools.cpp 42-50): only after
\* eight pings in a row without an answer in time, and, where no ping was skipped,
\* the counter is the number of such pings.  Not so after a pong that was late: its
\* token ends the wait of the next ping before CPU1 can answer, whose pong leaves a
\* token again, and a CPU1 that answers every ping is reset.
ErrorsAreSilence ==
    ~tardy =>
        /\ ping = "reset" => missed > 7
        /\ ping = "idle" /\ ~open /\ ~skipped /\ missed < MaxCounter
             => ping_error_counter = missed
=============================================================================
