------------------------------- MODULE Timels -------------------------------
(***************************************************************************)
(* The low speed timer (kernel/h1/src/timels.rs) as clock and alarm of the *)
(* kernel.  The hardware counts value down to zero while control is set,   *)
(* then raises its interrupt; the driver derives the time from value.      *)
(***************************************************************************)
EXTENDS Integers

CONSTANT TickRange     \* 2^32 in the hardware: ticks are modulo this

VARIABLES
    ls_now,            \* Timels.now
    ls_control, ls_reload, ls_value, ls_expired,   \* the registers
    ls_alarm,          \* history: what the alarm in effect was asked for, and
                       \* which of two numbers that take turns it has
    ls_fired           \* history: the alarm the last step told the client of

lsvars == <<ls_now, ls_control, ls_reload, ls_value, ls_expired, ls_alarm, ls_fired>>

Ticks == 0 .. TickRange - 1
NoAlarm == [set |-> FALSE, left |-> 0, clean |-> FALSE, turn |-> 1]

LSInit ==
    /\ ls_now \in Ticks
    /\ ls_control = FALSE /\ ls_reload = 0 /\ ls_value = 0 /\ ls_expired = FALSE
    /\ ls_alarm = NoAlarm /\ ls_fired = NoAlarm

(* Time::now. *)
now == (ls_now + (ls_reload - ls_value)) % TickRange

(* Fault: an expired alarm keeps the timer's share of the time twice. *)
AddTwice(base) == (base + ls_reload + 1) % TickRange

(* The time that the expired count stands for. *)
AddReload(base) == (base + ls_reload) % TickRange


(* The comparison does not wrap: a target past the end of the range is      *)
(* taken to be before now.                                                  *)
distance(target) == IF target <= now THEN 1 ELSE target - now

(* set_alarm(reference, dt) with a reference the caller has just read.  The *)
(* stored time is not brought up to date and an expiry whose interrupt is   *)
(* still pending is not cleared.                                            *)
set_alarm(dt) ==
    LET target == (now + dt) % TickRange
    IN  /\ ls_reload' = distance(target) /\ ls_value' = distance(target)
        /\ ls_control' = TRUE
        /\ ls_alarm' = [set |-> TRUE, left |-> dt, clean |-> ~ls_expired /\ now + dt < TickRange,
                         turn |-> IF ls_alarm.set THEN 3 - ls_alarm.turn ELSE 1]
        /\ ls_fired' = NoAlarm
        /\ UNCHANGED <<ls_now, ls_expired>>

disarm ==
    /\ ls_control' = FALSE
    /\ ls_alarm' = NoAlarm /\ ls_fired' = NoAlarm
    /\ UNCHANGED <<ls_now, ls_reload, ls_value, ls_expired>>

is_armed == ls_control /\ ls_value # 0

(* handle_interrupt, up to the call of the client. *)
timels_handle_interrupt ==
    /\ ls_expired
    /\ ls_expired' = FALSE
    /\ ls_control' = FALSE
    /\ ls_now' = AddReload(ls_now)
    /\ ls_reload' = 0
    /\ ls_fired' = ls_alarm /\ ls_alarm' = NoAlarm
    /\ UNCHANGED ls_value

(* One tick of the hardware. *)
Tick ==
    /\ ls_control /\ ls_value > 0
    /\ ls_value' = ls_value - 1
    /\ ls_expired' = (ls_expired \/ ls_value = 1)
    /\ ls_alarm' = [ls_alarm EXCEPT !.left = IF @ = 0 THEN 0 ELSE @ - 1]
    /\ ls_fired' = NoAlarm
    /\ UNCHANGED <<ls_now, ls_control, ls_reload>>

LSNext ==
    \/ \E dt \in 1 .. TickRange - 1 : set_alarm(dt)
    \/ disarm
    \/ timels_handle_interrupt
    \/ Tick

LSFairness == WF_lsvars(Tick) /\ WF_lsvars(timels_handle_interrupt)

-----------------------------------------------------------------------------
LSTypeOK == ls_now \in Ticks /\ ls_value \in Ticks /\ ls_reload \in Ticks

(* An alarm never goes off before its time, unless it was set for a time    *)
(* past the end of the tick range (the comparison in set_alarm does not     *)
(* wrap) or while the interrupt of an earlier one was pending (which        *)
(* set_alarm does not clear).                                               *)
AlarmNotEarly == [][ls_fired'.clean => ls_fired'.left = 0]_lsvars

(* The time the driver reports moves with the hardware: it advances with    *)
(* every tick and is not changed by the service of the interrupt, early or  *)
(* late, or by disarm.  Only set_alarm on a running timer sets it back.     *)
ClockFollowsTicks ==
    [][ /\ Tick => now' = (now + 1) % TickRange
        /\ disarm => now' = now
        /\ timels_handle_interrupt => now' = now ]_lsvars

(* An alarm that has not gone off, been disarmed or been set anew. *)
AlarmOutstanding(turn) == ls_alarm.set /\ ls_alarm.turn = turn

=============================================================================
