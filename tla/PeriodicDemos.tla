---------------------------- MODULE PeriodicDemos ----------------------------
(***************************************************************************)
(* demo_periodic and demo_overload of chapters 11 and 12 (demos/), run as  *)
(* root on one processor (taskset -c 0, the README of chapter 12 says):    *)
(* three periodic tasks of RtScheduler, which only burn processor time, a  *)
(* kernel that schedules SCHED_FIFO before SCHED_OTHER, and a clock.       *)
(*                                                                         *)
(* Both programs create their tasks with the priorities 80, 60 and 40, so  *)
(* a task is named by its priority.  The clock counts units of 10 ms, of   *)
(* which every period and execution time is a multiple.  Whatever takes    *)
(* less happens between two ticks, in any order in which the threads can   *)
(* get the processor, so a preemption may hit a thread at any of its       *)
(* statements.  PeriodicTask has the conversions between the units, and    *)
(* RtScheduler the trace buffer: of the trace, only what the utilisation   *)
(* chart of chapter 12 computes from it is kept.                           *)
(***************************************************************************)
EXTENDS RtScheduler

CONSTANTS
    Programs,    \* a subset of {"periodic", "overload"}
    RunFor,      \* how long main sleeps; 2 s in the source
    Horizon      \* bound: when the model stops the clock

\* What the two programs fix of RtScheduler's constants; MCPeriodicDemos
\* assumes it, and the theorems about the demos have it as their hypothesis.
DemosAssumption ==
    /\ Tasks = {40, 60, 80} /\ Periodic = Tasks /\ \A t \in Tasks : Priority[t] = t
    /\ Programs \subseteq {"periodic", "overload"}
    /\ RunFor \in [Programs -> Nat] /\ Horizon \in [Programs -> Nat]

VARIABLES
    program,            \* "periodic" or "overload"
    now,                \* CLOCK_MONOTONIC
    until,              \* when main's sleep ends
    release_time, absolute_deadline, start, finish,
    end,                \* burn_cpu_ms's, 0 outside
    phase,              \* where a task at "sleep" is: "until", "nanosleep", "asleep"
    rem,                \* what sleep_until computed
    wakeup,             \* when the thread's nanosleep ends
    busy, last_end      \* total_u * total and total of make_cpuutil.py

clockVars == <<now, until, release_time, absolute_deadline, start, finish, end,
               phase, rem, wakeup>>
chartVars == <<busy, last_end>>
demoVars  == <<program, clockVars, chartVars>>
dvars     == <<vars, demoVars>>

-----------------------------------------------------------------------------
(* The task sets: period_ms, which is deadline_ms too, and wcet_ms *)

PeriodicSet ==
    [period |-> [t \in Tasks |-> CASE t = 80 -> 10 [] t = 60 -> 20 [] t = 40 -> 50],
     wcet   |-> [t \in Tasks |-> CASE t = 80 -> 2  [] t = 60 -> 3  [] t = 40 -> 5]]
OverloadSet ==
    [period |-> [t \in Tasks |-> CASE t = 80 -> 10 [] t = 60 -> 15 [] t = 40 -> 20],
     wcet   |-> [t \in Tasks |-> CASE t = 80 -> 4  [] t = 60 -> 6  [] t = 40 -> 8]]

TaskSet == IF program = "periodic" THEN PeriodicSet ELSE OverloadSet
period(t) == TaskSet.period[t]
wcet(t)   == TaskSet.wcet[t]

DemoInit ==
    /\ Init /\ root
    /\ program \in Programs
    /\ now = 0 /\ until = 0
    /\ release_time = [t \in Tasks |-> 0] /\ absolute_deadline = [t \in Tasks |-> 0]
    /\ start = [t \in Tasks |-> 0] /\ finish = [t \in Tasks |-> 0]
    /\ end = [t \in Tasks |-> 0]
    /\ phase = [t \in Tasks |-> "until"]
    /\ rem = [t \in Tasks |-> 0] /\ wakeup = [t \in Tasks |-> 0]
    /\ busy = 0 /\ last_end = 0

-----------------------------------------------------------------------------
(* The kernel: one processor, SCHED_FIFO before SCHED_OTHER *)

\* A crash ends all threads.
Alive == mpc # "crashed"

Asleep(t) == tpc[t] = "sleep" /\ phase[t] = "asleep"

Ready(t) ==
    CASE tpc[t] \in {"none", "exited"} -> FALSE
      [] tpc[t] = "lock" -> TraceLockFree
      [] OTHER -> ~Asleep(t)

\* burn_cpu_ms spins until the clock has advanced by wcet_ms, however much of
\* that time the thread had the processor.
BurningOneMore(t) == end[t] # 0 /\ now <= end[t]
Burning(t) == end[t] # 0 /\ now < end[t]

RealTime(t) == policy[t][1] = "FIFO"

Running(t) ==
    /\ Alive
    /\ Ready(t)
    /\ \A u \in Tasks : Ready(u) /\ RealTime(u) =>
        RealTime(t) /\ policy[u][2] <= policy[t][2]

\* main and the tick thread are not real-time threads.
OthersMayRun == Alive /\ \A t \in Tasks : Ready(t) => ~RealTime(t)

-----------------------------------------------------------------------------
(* task_wrapper with the clock *)

Begin(t) ==
    /\ Setup(t)
    /\ release_time' = [release_time EXCEPT ![t] = now]
    /\ absolute_deadline' = [absolute_deadline EXCEPT ![t] = now + period(t)]
    /\ UNCHANGED <<program, now, until, start, finish, end, phase, rem, wakeup, chartVars>>

StartJob(t) ==
    /\ Activate(t)
    /\ start' = [start EXCEPT ![t] = now]
    /\ UNCHANGED <<program, now, until, release_time, absolute_deadline, finish,
                   end, phase, rem, wakeup, chartVars>>

StartBurn(t) ==
    /\ tpc[t] = "func" /\ end[t] = 0
    /\ end' = [end EXCEPT ![t] = now + wcet(t)]
    /\ UNCHANGED <<vars, program, now, until, release_time, absolute_deadline,
                   start, finish, phase, rem, wakeup, chartVars>>

\* A function that returns within the unit of its deadline may be late or not.
EndJob(t) ==
    /\ end[t] # 0 /\ ~Burning(t)
    /\ Finish(t)
    /\ now < absolute_deadline[t] => ~missed'[t]
    /\ now > absolute_deadline[t] => missed'[t]
    /\ finish' = [finish EXCEPT ![t] = now]
    /\ end' = [end EXCEPT ![t] = 0]
    /\ UNCHANGED <<program, now, until, release_time, absolute_deadline, start,
                   phase, rem, wakeup, chartVars>>

TakeTraceLock(t) == TraceLock(t) /\ UNCHANGED demoVars

\* The chart adds up end_ms - start_ms over the rows of the trace, and divides
\* by the last end_ms.
ChartRow(from, to) ==
    /\ busy' = busy + to - from
    /\ last_end' = IF to > last_end THEN to ELSE last_end

\* The row that is written to the trace goes into the chart at once.
Record(t) ==
    /\ TraceRecord(t)
    /\ ChartRow(start[t], finish[t])
    /\ start' = [start EXCEPT ![t] = 0] /\ finish' = [finish EXCEPT ![t] = 0]
    /\ phase' = [phase EXCEPT ![t] = "until"]
    /\ UNCHANGED <<program, now, until, release_time, absolute_deadline, end, rem, wakeup>>

\* Release and deadline advance by a period.
NextDeadlineForgotten(t) == absolute_deadline[t]
NextDeadline(t) == absolute_deadline[t] + period(t)
NextRelease(t)  == release_time[t] + period(t)

\* sleep_until reads the clock, and returns at once if the release has passed.
SleepUntil(t) ==
    /\ tpc[t] = "sleep" /\ phase[t] = "until"
    /\ release_time' = [release_time EXCEPT ![t] = NextRelease(t)]
    /\ absolute_deadline' = [absolute_deadline EXCEPT ![t] = NextDeadline(t)]
    /\ \/ NextRelease(t) < now /\ Wake(t) /\ UNCHANGED <<rem, phase>>
       \/ /\ NextRelease(t) >= now
          /\ rem' = [rem EXCEPT ![t] = NextRelease(t) - now]
          /\ phase' = [phase EXCEPT ![t] = "nanosleep"]
          /\ UNCHANGED vars
    /\ UNCHANGED <<program, now, until, start, finish, end, wakeup, chartVars>>

\* nanosleep counts from when it is called, not from when the clock was read.
Nanosleep(t) ==
    /\ tpc[t] = "sleep" /\ phase[t] = "nanosleep"
    /\ wakeup' = [wakeup EXCEPT ![t] = now + rem[t]]
    /\ rem' = [rem EXCEPT ![t] = 0]
    /\ phase' = [phase EXCEPT ![t] = "asleep"]
    /\ UNCHANGED <<vars, program, now, until, release_time, absolute_deadline,
                   start, finish, end, chartVars>>

LeaveLoop(t) == Leave(t) /\ UNCHANGED demoVars

TaskRuns(t) ==
    /\ Running(t)
    /\ \/ Begin(t) \/ StartJob(t) \/ StartBurn(t) \/ EndJob(t) \/ TakeTraceLock(t)
       \/ Record(t) \/ SleepUntil(t) \/ Nanosleep(t) \/ LeaveLoop(t)

\* The timer of a nanosleep expires.
Due(t) == Asleep(t) /\ now >= wakeup[t]
TimerExpires(t) ==
    /\ Alive
    /\ Due(t)
    /\ Wake(t)
    /\ wakeup' = [wakeup EXCEPT ![t] = 0]
    /\ phase' = [phase EXCEPT ![t] = "until"]
    /\ UNCHANGED <<program, now, until, release_time, absolute_deadline, start,
                   finish, end, rem, chartVars>>

-----------------------------------------------------------------------------
(* main, and the passing of time *)

Created == {table[n] : n \in DOMAIN table}

CreateNext ==
    /\ \E t \in Tasks \ Created :
        /\ \A u \in Tasks \ Created : u <= t
        /\ TaskCreate(t)
    /\ UNCHANGED demoVars

StartAll ==
    /\ Created = Tasks
    /\ SchedulerStart
    /\ UNCHANGED demoVars

SpawnNext == Spawn /\ UNCHANGED demoVars

SleepAfterStart ==
    /\ Started
    /\ until' = now + RunFor[program]
    /\ UNCHANGED <<program, now, release_time, absolute_deadline, start, finish,
                   end, phase, rem, wakeup, chartVars>>

StopAll ==
    /\ now >= until
    /\ SchedulerStop
    /\ UNCHANGED demoVars

JoinNext == (JoinTask \/ JoinTick) /\ UNCHANGED demoVars

OtherStep ==
    \/ CreateNext \/ StartAll \/ SpawnNext \/ SleepAfterStart \/ StopAll \/ JoinNext
    \/ TickExit /\ UNCHANGED demoVars

OthersRun == OthersMayRun /\ OtherStep

\* Time passes while a task burns it, or while every thread sleeps or waits.
MainWaits ==
    \/ mpc = "run" /\ now < until
    \/ mpc = "join" /\ i <= Len(table) /\ tpc[table[i]] # "none" /\ ~Joinable(table[i])
    \/ mpc = "join" /\ i > Len(table) /\ tick = "while"
AllWait == MainWaits /\ (\A t \in Tasks : ~Ready(t)) /\ ~(tick = "while" /\ ~running)

TimePasses ==
    /\ now < Horizon[program] /\ \A t \in Tasks : ~Due(t)
    /\ AllWait \/ \E t \in Tasks : Running(t) /\ Burning(t)
    /\ now' = now + 1
    /\ UNCHANGED <<vars, program, until, release_time, absolute_deadline, start,
                   finish, end, phase, rem, wakeup, chartVars>>

DemoEnded == (mpc = "stopped" \/ ~Alive \/ now = Horizon[program]) /\ UNCHANGED dvars

DemoNext ==
    \/ \E t \in Tasks : TaskRuns(t) \/ TimerExpires(t)
    \/ OthersRun \/ TimePasses \/ DemoEnded

DemoSpec == DemoInit /\ [][DemoNext]_dvars

-----------------------------------------------------------------------------
(* Properties *)

\* README.md of Chapter 12, line 99, calls demo_periodic's task set schedulable:
\* no task ever misses a deadline, although tasks wait for each other at the
\* trace lock, which has no priority inheritance, and a task preempted between
\* sleep_until's reading of the clock and its nanosleep oversleeps.
NoMiss == program = "periodic" => \A t \in Tasks : deadline_misses[t] = 0

\* Even under overload the task of the highest priority meets all its deadlines.
TopNeverMisses == deadline_misses[80] = 0

\* The chart of demo_periodic stays below the line it draws at 69.3 %, although
\* a trace row counts the time in which its task was preempted.
HealthyChart ==
    mpc = "stopped" /\ program = "periodic" => 1000 * busy <= 693 * last_end

\* main, which is no real-time thread, gets the processor within the longest
\* time for which demo_periodic's tasks can keep it, and scheduler_stop needs a
\* period of the slowest task more.
LongestBusy == 2 * wcet(80) + wcet(60) + wcet(40)
StopsInTime ==
    program = "periodic" =>
        /\ mpc = "run" => now <= until + LongestBusy
        /\ mpc = "join" => now <= until + LongestBusy + period(40)

\* README.md of Chapter 11, lines 93 and 99: the overloaded task set is
\* "guaranteed to produce deadline misses", and a run of demo_overload without
\* one means "the timing logic is wrong".
OverloadMisses ==
    mpc = "stopped" /\ program = "overload" => \E t \in Tasks : deadline_misses[t] > 0

=============================================================================
