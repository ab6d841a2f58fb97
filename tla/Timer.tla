-------------------------------- MODULE Timer --------------------------------
(***************************************************************************)
(* A timerfd of the library, as update_timer (network.c) sets it: Off, or  *)
(* the ticks before it expires.  At 0 it is readable, and stays so until   *)
(* it is set again (nobody reads it).                                      *)
(***************************************************************************)
EXTENDS Integers

CONSTANTS
    Second,      (* ticks in a second                                      *)
    FracDiv      (* how much itimerspec_set_delay shortens a fraction of   *)
                 (* second: 1000 in the code                               *)

ASSUME TimerAssumption ==
    /\ Second \in Nat \ {0}
    /\ FracDiv \in Nat \ {0}

Off == -1        \* the timerfd is disarmed

(* The timer e ticks later, if nobody sets it. *)
RunDown(t, e) == IF t = Off THEN Off ELSE IF t > e THEN t - e ELSE 0

(* itimerspec_set_delay: whole seconds are kept; the fraction is multiplied
   by 10^6, not 10^9, to make nanoseconds, so that it is FracDiv times too
   short.  What is left of it still holds one tick (rounded up here).
   timerfd_settime disarms the timer when both are 0. *)
ArmedFor(delay) ==
    IF delay = 0 THEN Off
    ELSE (delay \div Second) * Second
         + (((delay % Second) + FracDiv - 1) \div FracDiv)

(* update_timer on timer t: a negative delay is refused. *)
UpdateTimer(t, delay) == IF delay < 0 THEN t ELSE ArmedFor(delay)

=============================================================================
