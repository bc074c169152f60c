------------------------------ MODULE HalAlarm ------------------------------
(***************************************************************************)
(* The system clock of the board support package: alt_tick, which the timer   *)
(* interrupt calls, the alarms on their linked list, and the tick counter      *)
(* that wraps. A callback may start and stop alarms itself, while alt_tick     *)
(* walks the list.                                                           *)
(***************************************************************************)
EXTENDS Integers

CONSTANTS
    Alarms,
    Head,      \* alt_alarm_list
    NULL,
    TickMod,   \* 2^32
    Delays,    \* bound: what alarms are started with
    Periods    \* bound: what callbacks return

ASSUME AlarmAssumption ==
    /\ Head \notin Alarms /\ NULL \notin Alarms \cup {Head}
    /\ TickMod \in Nat /\ TickMod >= 2
    /\ Delays \subseteq 0..TickMod-2 /\ Periods \subseteq 1..TickMod-1

VARIABLES
    pc,                \* "idle", or where alt_tick stands
    tick_rate,         \* _alt_tick_rate # 0
    nticks,            \* _alt_nticks
    alarm, nextAlarm,  \* locals of alt_tick: alarm and next, NULL outside
    next, previous,    \* the links of the list
    time, rollover,    \* fields of the alarms
    left               \* history: ticks until the alarm is due, -1 when it is off

links == <<next, previous>>
walk  == <<pc, alarm, nextAlarm>>
vars  == <<walk, tick_rate, nticks, links, time, rollover, left>>

Nodes   == Alarms \cup {Head}
Running == {a \in Alarms : left[a] >= 0}

TypeOK ==
    /\ pc \in {"idle", "visit", "callback"} /\ tick_rate \in BOOLEAN
    /\ nticks \in 0..TickMod-1
    /\ alarm \in Nodes \cup {NULL} /\ nextAlarm \in Nodes \cup {NULL}
    /\ next \in [Nodes -> Nodes \cup {NULL}] /\ previous \in [Nodes -> Nodes \cup {NULL}]
    /\ time \in [Alarms -> 0..TickMod-1] /\ rollover \in [Alarms -> BOOLEAN]
    /\ left \in [Alarms -> -1..TickMod-1]

Init ==
    /\ pc = "idle" /\ tick_rate = FALSE /\ nticks = 0 /\ alarm = NULL /\ nextAlarm = NULL
    /\ next = [x \in Nodes |-> IF x = Head THEN Head ELSE NULL] /\ previous = next
    /\ time = [a \in Alarms |-> 0] /\ rollover = [a \in Alarms |-> FALSE]
    /\ left = [a \in Alarms |-> -1]

-----------------------------------------------------------------------------
(* alt_llist.h. *)

Inserted(a) ==
    /\ next' = [next EXCEPT ![a] = next[Head], ![Head] = a]
    /\ previous' = [[previous EXCEPT ![a] = Head] EXCEPT ![next[Head]] = a]

(* An entry that is taken off is linked to itself, so that taking it off once
   more does nothing. *)
Unlinked_Once(a) == [next EXCEPT ![previous[a]] = next[a]]
Unlinked(a)      == [[next EXCEPT ![previous[a]] = next[a]] EXCEPT ![a] = a]

Removed(a) ==
    /\ next' = Unlinked(a)
    /\ previous' = [[previous EXCEPT ![next[a]] = previous[a]] EXCEPT ![a] = a]

-----------------------------------------------------------------------------
(* alt_alarm_start and alt_alarm_stop, from the program or from a callback;
   both with interrupts off. *)

(* alt_avalon_timer_sc_init. *)
TimerInit ==
    /\ ~tick_rate /\ tick_rate' = TRUE
    /\ UNCHANGED <<walk, nticks, links, time, rollover, left>>

Wrapped_Not(t) == t
Wrapped(t)     == t % TickMod

(* alarm->time < current_nticks. *)
Early_Never(t) == FALSE
Early(t)       == t < nticks

(* An alarm is started when it is off; a callback that has stopped its own may
   start it again. *)
Start(a, n) ==
    /\ tick_rate /\ left[a] = -1
    /\ pc \in {"idle", "callback"}
    /\ time' = [time EXCEPT ![a] = Wrapped(n + nticks + 1)]
    /\ rollover' = [rollover EXCEPT ![a] = Early(time'[a])]
    /\ Inserted(a)
    /\ left' = [left EXCEPT ![a] = n + 1]
    /\ UNCHANGED <<walk, tick_rate, nticks>>

(* Without a clock there is no alarm: -ENOTSUP, and nothing changes. An alarm
   may be stopped again, once it has been started; a callback does not stop
   the alarm that alt_tick goes to next. *)
Stop(a) ==
    /\ next[a] # NULL /\ a # nextAlarm
    /\ pc \in {"idle", "callback"}
    /\ Removed(a)
    /\ left' = [left EXCEPT ![a] = -1]
    /\ UNCHANGED <<walk, tick_rate, nticks, time, rollover>>

-----------------------------------------------------------------------------
(* alt_tick, with interrupts off. *)

Tick ==
    /\ pc = "idle" /\ tick_rate
    /\ nticks' = Wrapped(nticks + 1) /\ alarm' = next[Head] /\ pc' = "visit"
    /\ left' = [a \in Alarms |-> IF left[a] > 0 THEN left[a] - 1 ELSE left[a]]
    /\ UNCHANGED <<tick_rate, nextAlarm, links, time, rollover>>

Cleared == rollover[alarm] /\ nticks # 0

Visit ==
    /\ pc = "visit" /\ alarm # Head
    /\ rollover' = [rollover EXCEPT ![alarm] = Cleared]
    /\ IF time[alarm] <= nticks /\ ~rollover'[alarm]
       THEN pc' = "callback" /\ nextAlarm' = next[alarm] /\ UNCHANGED alarm
       ELSE alarm' = next[alarm] /\ UNCHANGED <<pc, nextAlarm>>
    /\ UNCHANGED <<tick_rate, nticks, links, time, left>>

GoOn(a) == pc' = "visit" /\ alarm' = a /\ nextAlarm' = NULL

(* What the callback returns is added to the alarm's time, also when it has
   started its alarm again; bound: it is not called later than the counter can
   tell. *)
CallAgain(p) ==
    /\ pc = "callback" /\ left[alarm] + p < TickMod
    /\ time' = [time EXCEPT ![alarm] = Wrapped(@ + p)]
    /\ rollover' = [rollover EXCEPT ![alarm] = @ \/ Early(time'[alarm])]
    /\ left' = [left EXCEPT ![alarm] = IF @ # -1 THEN @ + p ELSE @]
    /\ GoOn(nextAlarm)
    /\ UNCHANGED <<tick_rate, nticks, links>>

(* The callback returns zero. *)
CallNoMore ==
    /\ pc = "callback"
    /\ Removed(alarm)
    /\ left' = [left EXCEPT ![alarm] = -1]
    /\ GoOn(nextAlarm)
    /\ UNCHANGED <<tick_rate, nticks, time, rollover>>

TickDone ==
    /\ pc = "visit" /\ alarm = Head
    /\ pc' = "idle" /\ alarm' = NULL
    /\ UNCHANGED <<nextAlarm, tick_rate, nticks, links, time, rollover, left>>

-----------------------------------------------------------------------------
Return   == CallNoMore \/ \E p \in Periods : CallAgain(p)
TickStep == Tick \/ Visit \/ Return \/ TickDone

Next == \/ TimerInit \/ TickStep
        \/ \E a \in Alarms : Stop(a) \/ \E n \in Delays : Start(a, n)

Spec == Init /\ [][Next]_vars

-----------------------------------------------------------------------------
(* The entries from x on, as far as the head: those in every set that follows
   the links from x. *)
Ring          == Running \cup {Head}
Follows(S, x) == x \in S /\ \A y \in S \ {Head} : next[y] \in S
Ahead(x)      == {y \in Ring : \A S \in SUBSET Ring : Follows(S, x) => y \in S}

(* The list is a ring, both ways, of the head and the alarms that are on,
   though callbacks change it under the walk of alt_tick. *)
ListWhole ==
    /\ \A x \in Ring : next[x] \in Ring /\ previous[next[x]] = x
    /\ Ahead(next[Head]) = Ring

(* A callback runs in the tick that its alarm is due in, and in no other,
   however the tick counter wraps between; and no tick ends with an alarm that
   is due and was not called (alt_alarm_start, alt_tick). *)
OnTime ==
    [][/\ pc = "visit" /\ alarm # Head => (pc' = "callback" <=> left[alarm] = 0)
       /\ pc' = "idle" => \A a \in Alarms : left'[a] # 0]_vars
=============================================================================
