------------------------------- MODULE Timer -------------------------------
(***************************************************************************)
(* The timers of Client/src/timer.cpp (cache/src/Timer.cpp is the same     *)
(* code with a shorter unit).  All timers of a process count down in the   *)
(* handler of SIGALRM, one unit per signal; the handler interrupts the     *)
(* thread it meets between any two of its statements.  A handler run is    *)
(* Counted for all timers, the callbacks of those that are Due, and then   *)
(* Settled for all.                                                        *)
(***************************************************************************)
EXTENDS Integers

\* A timer as createTimer leaves it.  (Of all but the first timer of a
\* process, running is not initialised; the client starts each of them before
\* a callback is set and a unit has passed, so no other value is ever seen.)
NewTimer(timeout, periodic) ==
    [timeout |-> timeout, current |-> timeout, periodic |-> periodic,
     running |-> FALSE]

TimerType == [timeout : Nat, current : Int, periodic : BOOLEAN, running : BOOLEAN]

start(t) == [t EXCEPT !.running = TRUE]

reset(t) == [t EXCEPT !.current = t.timeout]

stop(t) == [t EXCEPT !.running = FALSE, !.current = t.timeout]

\* timer_handler, first loop.
Counted(t) == IF t.running THEN [t EXCEPT !.current = @ - 1] ELSE t

Due(t) == t.running /\ t.current = 0

\* timer_handler, last loop.
Settled(t) ==
    IF ~Due(t) THEN t
    ELSE IF t.periodic THEN reset(t)
    ELSE [t EXCEPT !.running = FALSE]
=============================================================================
