---------------------------- MODULE PeriodicTask ----------------------------
(***************************************************************************)
(* The clock arithmetic of one periodic task of chapters 11 and 12         *)
(* (src/Chapter 12/src/scheduler.c): when it is released, when its         *)
(* deadline is missed, how long it sleeps, and what the trace (chapter 12  *)
(* only) records.                                                          *)
(*                                                                         *)
(* now is CLOCK_MONOTONIC in nanoseconds.  The program never sees it       *)
(* whole: it computes with struct timespec, pairs of seconds and           *)
(* nanoseconds, and with C's division, which truncates towards zero.  The  *)
(* three factors between the units are 1000 in the code.                   *)
(***************************************************************************)
EXTENDS Integers, Sequences

CONSTANTS
    NsPerUs, UsPerMs, MsPerSec,
    Period,          \* t->period_ms, positive
    Deadline,        \* t->deadline_ms, which task_create made positive
    MaxExec,         \* bound: how long the function and its preemptions take
    MaxLatency,      \* bound: how late the kernel runs a ready thread
    MaxActivations   \* bound: activations of the task

ASSUME UnitsAssumption ==
    NsPerUs \in Nat \ {0} /\ UsPerMs \in Nat \ {0} /\ MsPerSec \in Nat \ {0}
ASSUME TaskAssumption == Period \in Nat \ {0} /\ Deadline \in Nat \ {0}
ASSUME BoundsAssumption == {MaxExec, MaxLatency, MaxActivations} \subseteq Nat

VARIABLES
    now,               \* the clock
    pc,                \* where task_wrapper is
    g_epoch,           \* the timespec scheduler_start took
    release_time, absolute_deadline, start, finish,  \* timespecs
    rem,               \* what sleep_until computed, a timespec
    last_jitter_us, missed, activations,
    ev,                \* the last trace event
    born               \* history: the clock at the first release

vars == <<now, pc, g_epoch, release_time, absolute_deadline, start, finish, rem,
          last_jitter_us, missed, activations, ev, born>>

-----------------------------------------------------------------------------
(* Time helpers *)

NsPerMs  == NsPerUs * UsPerMs
NsPerSec == NsPerMs * MsPerSec

Timespec(ns) == [sec |-> ns \div NsPerSec, nsec |-> ns % NsPerSec]
Ns(ts) == ts.sec * NsPerSec + ts.nsec

\* C's division of a by a positive b.
Quotient(a, b) == IF a >= 0 THEN a \div b ELSE -((-a) \div b)

\* timespec_add_ms carries whole seconds out of the nanoseconds.
AddMs(ts, ms) ==
    LET nsec == ts.nsec + (ms % MsPerSec) * NsPerMs IN
    [sec |-> ts.sec + ms \div MsPerSec + nsec \div NsPerSec, nsec |-> nsec % NsPerSec]

\* timespec_diff_us: the seconds and the nanoseconds are converted apart.
DiffUs(a, b) ==
    (a.sec - b.sec) * MsPerSec * UsPerMs + Quotient(a.nsec - b.nsec, NsPerUs)

\* A time since the epoch in milliseconds, as the trace stores it; with
\* unsigned operands a negative difference of nanoseconds would wrap.
EpochMsUnsigned(ts) ==
    (ts.sec - g_epoch.sec) * MsPerSec
        + ((ts.nsec - g_epoch.nsec) % 2^16) \div NsPerMs
EpochMs(ts) ==
    (ts.sec - g_epoch.sec) * MsPerSec + Quotient(ts.nsec - g_epoch.nsec, NsPerMs)

\* sleep_until: what is left until ts, a negative number of seconds if nothing.
RemainingSecondLong(ts, t) ==
    [sec |-> ts.sec - t.sec, nsec |-> (ts.nsec - t.nsec) % NsPerSec]
RemainingWithoutBorrow(ts, t) == [sec |-> ts.sec - t.sec, nsec |-> ts.nsec - t.nsec]
Remaining(ts, t) ==
    LET nsec == ts.nsec - t.nsec IN
    IF nsec < 0 THEN [sec |-> ts.sec - t.sec - 1, nsec |-> nsec + NsPerSec]
                ELSE [sec |-> ts.sec - t.sec, nsec |-> nsec]

\* nanosleep refuses a pair that is not normalised and does not sleep.
SleepsFor(r) == IF r.sec < 0 \/ r.nsec \notin 0 .. NsPerSec - 1 THEN 0 ELSE Ns(r)

-----------------------------------------------------------------------------
(* task_wrapper *)

NoEvent == [start_ms |-> 0, end_ms |-> 0, deadline_ms |-> 0, missed |-> FALSE]

\* scheduler_start read the clock at some moment of some second.
Init ==
    /\ now \in 0 .. NsPerSec - 1
    /\ pc = "begin"
    /\ g_epoch = Timespec(now)
    /\ release_time = g_epoch /\ absolute_deadline = g_epoch
    /\ start = g_epoch /\ finish = g_epoch /\ rem = g_epoch
    /\ last_jitter_us = 0 /\ missed = FALSE /\ activations = 0
    /\ ev = NoEvent
    /\ born = now

\* The first release is the moment the thread begins to run.
Begin ==
    /\ pc = "begin"
    /\ \E d \in 0 .. MaxLatency : now' = now + d
    /\ born' = now'
    /\ release_time' = Timespec(now')
    /\ absolute_deadline' = AddMs(release_time', Deadline)
    /\ pc' = "activate"
    /\ UNCHANGED <<g_epoch, start, finish, rem, last_jitter_us, missed,
                   activations, ev>>

Activate ==
    /\ pc = "activate" /\ activations < MaxActivations
    /\ start' = Timespec(now)
    /\ last_jitter_us' = DiffUs(start', release_time)
    /\ activations' = activations + 1
    /\ pc' = "func"
    /\ UNCHANGED <<now, g_epoch, release_time, absolute_deadline, finish, rem,
                   missed, ev, born>>

LateOrOnTime(a, b) == DiffUs(a, b) >= 0
Late(a, b) == DiffUs(a, b) > 0

\* The function returns: check the deadline and record the event.
Finish ==
    /\ pc = "func"
    /\ \E d \in 0 .. MaxExec : now' = now + d
    /\ finish' = Timespec(now')
    /\ missed' = Late(finish', absolute_deadline)
    /\ ev' = [start_ms |-> EpochMs(start), end_ms |-> EpochMs(finish'),
              deadline_ms |-> EpochMs(absolute_deadline), missed |-> missed']
    /\ pc' = "advance"
    /\ UNCHANGED <<g_epoch, release_time, absolute_deadline, start, rem,
                   last_jitter_us, activations, born>>

\* The next release is a period after this one, however late the task is.
NextReleaseFromNow == AddMs(Timespec(now), Period)
NextRelease == AddMs(release_time, Period)

Advance ==
    /\ pc = "advance"
    /\ release_time' = NextRelease
    /\ absolute_deadline' = AddMs(absolute_deadline, Period)
    /\ rem' = Remaining(release_time', Timespec(now))
    /\ pc' = "sleep"
    /\ UNCHANGED <<now, g_epoch, start, finish, last_jitter_us, missed,
                   activations, ev, born>>

\* nanosleep starts somewhat after sleep_until read the clock, and ends
\* somewhat late.
Wake ==
    /\ pc = "sleep"
    /\ \E d \in 0 .. MaxLatency : now' = now + SleepsFor(rem) + d
    /\ pc' = "activate"
    /\ UNCHANGED <<g_epoch, release_time, absolute_deadline, start, finish, rem,
                   last_jitter_us, missed, activations, ev, born>>

\* The scheduler was stopped: the thread leaves its loop.
Stopped == pc = "activate" /\ UNCHANGED vars

Next == Begin \/ Activate \/ Finish \/ Advance \/ Wake \/ Stopped

Spec == Init /\ [][Next]_vars

-----------------------------------------------------------------------------
(* Properties *)

\* The number of periods after the first release.
Released == IF pc = "sleep" \/ pc = "activate" THEN activations ELSE activations - 1

\* README.md of Chapter 12, line 196, "drift-free periodic activation": release
\* and deadline advance in exact periods, across every carry into the seconds
\* and whatever the execution times and latencies were.
DriftFree ==
    pc # "begin" =>
        /\ Ns(release_time) = born + Released * Period * NsPerMs
        /\ Ns(absolute_deadline) = Ns(release_time) + Deadline * NsPerMs

\* No activation starts before its release, and the jitter reported for it is
\* its lateness to the microsecond.
NeverEarly ==
    pc \in {"func", "advance"} =>
        LET late == Ns(start) - (born + Released * Period * NsPerMs) IN
        /\ late >= 0
        /\ last_jitter_us * NsPerUs \in late - NsPerUs + 1 .. late + NsPerUs - 1

\* A counted miss is a real overrun, and every overrun of a microsecond or more
\* is counted, although seconds and nanoseconds are converted apart.
MissExact ==
    pc = "advance" =>
        LET overrun == Ns(finish) - Ns(absolute_deadline) IN
        /\ missed => overrun > 0
        /\ overrun >= NsPerUs => missed

\* A trace event is consistent in itself: it does not end before it starts,
\* nothing happens before the epoch, and a missed deadline is not after the end.
TraceConsistent ==
    /\ 0 <= ev.start_ms /\ ev.start_ms <= ev.end_ms
    /\ ev.missed => ev.deadline_ms <= ev.end_ms

\* The release is never further ahead than one period: a task that overran
\* catches up at once instead of sleeping.
SleepAtMostPeriod ==
    [][pc = "sleep" /\ pc' = "activate" =>
        /\ now' - now <= Period * NsPerMs + MaxLatency
        /\ Ns(release_time) <= now => now' - now <= MaxLatency]_vars

=============================================================================
