------------------------------- MODULE Button -------------------------------
(***************************************************************************)
(* The button driver: components/home/library/button/iot_button.c, and the *)
(* three events a port registers for (classes.cpp 106-132).  One periodic  *)
(* timer of the esp_timer task samples every button; other tasks disable   *)
(* and enable the button of a port.  `repeat' and the events of clicks go  *)
(* to nobody and are left out.                                             *)
(***************************************************************************)
EXTENDS Naturals

CONSTANTS
    DEBOUNCE_TICKS,   \* samples a new level must last
    SHORT_TICKS,      \* samples after which a release ends a click
    LONG_TICKS        \* samples after which a press is a long one

VARIABLES
    level,            \* button_level, as pressed or not
    deb,              \* debounce_cnt
    state,            \* state of the machine: 0, 1, 2, 3 or 5
    ticks,            \* ticks, counted up to one more than is asked for
    disable,
    \* Observations
    raw, steady,      \* the last sample, and how many in a row were like it
    seen,             \* the last of the events down and up its function was called with
    held,             \* samples since the last "down" while enabled
    long,             \* "long" was delivered in this press
    clean             \* an event came since the button was enabled

vars == <<level, deb, state, ticks, disable, raw, steady, seen, held, long, clean>>

TickCap == (IF LONG_TICKS > SHORT_TICKS THEN LONG_TICKS ELSE SHORT_TICKS) + 1
Capped(n) == IF n > TickCap THEN TickCap ELSE n

TypeOK ==
    /\ level \in BOOLEAN /\ disable \in BOOLEAN /\ raw \in BOOLEAN
    /\ deb \in 0..DEBOUNCE_TICKS
    /\ state \in {0, 1, 2, 3, 5}
    /\ ticks \in 0..TickCap /\ held \in 0..TickCap
    /\ steady \in 0..DEBOUNCE_TICKS
    /\ seen \in {"down", "up"}
    /\ long \in BOOLEAN /\ clean \in BOOLEAN

Init ==
    /\ level = FALSE /\ deb = 0
    /\ state = 0 /\ ticks = 0
    /\ disable = FALSE
    /\ raw = FALSE /\ steady = 0
    /\ seen = "up" /\ held = 0
    /\ long = FALSE /\ clean = TRUE

-----------------------------------------------------------------------------
Debounced(l) == l # level /\ deb + 1 >= DEBOUNCE_TICKS

StepNoHold(s, b, t) ==            \* mutant: a release after a long press says nothing
    CASE s = 0 /\ b                     -> [state |-> 1, ev |-> "down", zero |-> TRUE]
      [] s = 1 /\ ~b                    -> [state |-> 2, ev |-> "up", zero |-> TRUE]
      [] s = 1 /\ b /\ t > LONG_TICKS   -> [state |-> 5, ev |-> "long", zero |-> FALSE]
      [] s = 2 /\ b                     -> [state |-> 3, ev |-> "down", zero |-> TRUE]
      [] s = 2 /\ ~b /\ t > SHORT_TICKS -> [state |-> 0, ev |-> "none", zero |-> FALSE]
      [] s \in {3, 5} /\ ~b             -> [state |-> 0, ev |-> "none", zero |-> FALSE]
      [] OTHER                          -> [state |-> s, ev |-> "none", zero |-> FALSE]

\* The state machine of button_handler: from state s with the debounced level b and
\* t ticks.  A second press within SHORT_TICKS of a click is never a long one.
Step(s, b, t) ==
    CASE s = 0 /\ b                     -> [state |-> 1, ev |-> "down", zero |-> TRUE]
      [] s = 1 /\ ~b                    -> [state |-> 2, ev |-> "up", zero |-> TRUE]
      [] s = 1 /\ b /\ t > LONG_TICKS   -> [state |-> 5, ev |-> "long", zero |-> FALSE]
      [] s = 2 /\ b                     -> [state |-> 3, ev |-> "down", zero |-> TRUE]
      [] s = 2 /\ ~b /\ t > SHORT_TICKS -> [state |-> 0, ev |-> "none", zero |-> FALSE]
      [] s = 3 /\ ~b /\ t < SHORT_TICKS -> [state |-> 2, ev |-> "up", zero |-> TRUE]
      [] s = 3 /\ ~b /\ t >= SHORT_TICKS -> [state |-> 0, ev |-> "up", zero |-> FALSE]
      [] s = 5 /\ ~b                    -> [state |-> 0, ev |-> "up", zero |-> FALSE]
      [] OTHER                          -> [state |-> s, ev |-> "none", zero |-> FALSE]

\* What its function gets to see of an event: nothing while the button is disabled.
Deliver(ev) ==
    IF disable \/ ev = "none"
      THEN /\ held' = Capped(held + 1)
           /\ UNCHANGED <<seen, long, clean>>
      ELSE /\ seen' = IF ev = "long" THEN seen ELSE ev
           /\ held' = IF ev = "long" THEN Capped(held + 1) ELSE 0
           /\ long' = (ev = "long")
           /\ clean' = (clean \/ ev # "long")

\* The periodic timer samples the button.
Tick(l) ==
    LET b == IF Debounced(l) THEN l ELSE level
        t == Capped(IF state > 0 THEN ticks + 1 ELSE ticks)
        n == Step(state, b, t) IN
      /\ level' = b
      /\ deb' = IF l = level \/ Debounced(l) THEN 0 ELSE deb + 1
      /\ state' = n.state
      /\ ticks' = IF n.zero THEN 0 ELSE t
      /\ Deliver(n.ev)
      /\ raw' = l
      /\ steady' = IF l # raw THEN 1
                   ELSE IF steady < DEBOUNCE_TICKS THEN steady + 1 ELSE steady
      /\ UNCHANGED disable

\* iot_button_set_disable: the machine goes on, and what it has reported and the
\* function has not seen is never made up for.
SetDisable(d) ==
    /\ disable' = d
    /\ clean' = (clean /\ ~d)
    /\ UNCHANGED <<level, deb, state, ticks, raw, steady, seen, held, long>>

Next ==
    \/ \E l \in BOOLEAN : Tick(l)
    \/ \E d \in BOOLEAN : SetDisable(d)

Spec == Init /\ [][Next]_vars
-----------------------------------------------------------------------------
(* Properties.                                                             *)

\* A function knows its button (iot_button.c 50-156): once a level has lasted for
\* DEBOUNCE_TICKS samples the function has been told, by a "down" or an "up", and
\* nothing shorter reaches it; "long" comes only in a press that has lasted for
\* LONG_TICKS.  Exempt until the next event is a button that was
\* disabled: pressed all the while, it says nothing when it is enabled.
EventsTellButton ==
    clean =>
        /\ steady = DEBOUNCE_TICKS => (seen = "down" <=> raw)
        /\ seen = "down" <=> level
        /\ long => seen = "down" /\ held > LONG_TICKS
=============================================================================
