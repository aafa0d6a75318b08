-------------------------- MODULE PeriodicDemosInv --------------------------
(***************************************************************************)
(* The inductive invariant of the two demos, which RtScheduler_proofs      *)
(* proves on top of the scheduler's own.  It is a response time analysis   *)
(* written as a state predicate: Near(x, m, l) says that the processor has *)
(* been kept by real-time threads since the time x, and by which of them,  *)
(* and for each task such an x lies close enough to its release.           *)
(***************************************************************************)
EXTENDS PeriodicDemos

DemoTypeOK ==
    /\ program \in Programs
    /\ now \in Nat /\ until \in Nat
    /\ release_time \in [Tasks -> Nat] /\ absolute_deadline \in [Tasks -> Nat]
    /\ end \in [Tasks -> Nat] /\ rem \in [Tasks -> Nat] /\ wakeup \in [Tasks -> Nat]
    /\ phase \in [Tasks -> {"until", "nanosleep", "asleep"}]

\* The owner of the trace lock is about to record, hence never blocked.
Holder ==
    g_trace_lock # Nobody => g_trace_lock \in Tasks /\ tpc[g_trace_lock] = "record"

\* The thread has read the clock for its first release.
Past(t) == tpc[t] \notin {"none", "setup"}

\* The release of the activation a thread is in, or has just finished.
Woken(t) == IF phase[t] = "until" THEN release_time[t] ELSE release_time[t] - period(t)

\* The times a thread has stored, against its release and the clock.
Clock(t) ==
    /\ end[t] # 0 => tpc[t] = "func" /\ end[t] <= now + wcet(t)
    /\ phase[t] # "until" => tpc[t] = "sleep"
    /\ Past(t) => absolute_deadline[t] = release_time[t] + period(t) /\ Woken(t) <= now
    /\ phase[t] = "nanosleep" => rem[t] <= period(t) /\ now + rem[t] >= release_time[t]
    /\ phase[t] = "asleep" => /\ release_time[t] <= wakeup[t]
                              /\ now <= wakeup[t] /\ wakeup[t] <= now + period(t)
ClockInv == \A t \in Tasks : Clock(t)

-----------------------------------------------------------------------------
(* The task of the highest priority, in both programs *)

\* The latest time at which it has the trace lock: it may wait until a task that
\* was preempted in its record has been scheduled again, and only while the task
\* of priority 60 burns is that delayed.
Done80 == release_time[80] + wcet(80) + wcet(60)

TopInv ==
    /\ tpc[80] \in {"while", "func"} /\ end[80] = 0 => now = release_time[80]
    /\ end[80] # 0 => end[80] = release_time[80] + wcet(80) /\ now <= end[80]
    /\ tpc[80] \in {"lock", "record"} \/ (tpc[80] = "sleep" /\ phase[80] = "until") =>
        now <= Done80
    /\ tpc[80] = "lock" /\ g_trace_lock # Nobody =>
        /\ end[60] <= Done80
        /\ now > release_time[80] + wcet(80) => tpc[60] = "lock" \/ end[60] # 0
    /\ phase[80] = "nanosleep" => now + rem[80] = release_time[80]
    /\ phase[80] = "asleep" => wakeup[80] = release_time[80]
    /\ deadline_misses[80] = 0

-----------------------------------------------------------------------------
(* How long the processor can be kept, in demo_periodic *)

\* How often the task of priority 80 burns its 2 units in the 12 that follow x.
Bursts(x) ==
    IF ~Past(80) \/ Woken(80) < x - 2 THEN 0 ELSE IF Woken(80) < x + 8 THEN 1 ELSE 2

\* m and l say whether the tasks of priority 60 and 40 have burnt since x.
Limit(x, m, l) == x + 2 * Bursts(x) + 3 * m + 5 * l

\* The activation of u that burns after x is the only one before x + 13.
Counted(u, x, lim, k) ==
    /\ Past(u) /\ Woken(u) > x - k
    /\ IF end[u] # 0 THEN end[u] <= lim ELSE tpc[u] \in {"lock", "record", "sleep"}

Near(x, m, l) ==
    /\ x <= now /\ now <= Limit(x, m, l)
    /\ Past(80) => Woken(80) + 2 <= Limit(x, m, l)
    /\ m = 1 => Counted(60, x, Limit(x, m, l), 7)
    /\ l = 1 => Counted(40, x, Limit(x, m, l), 15)

\* For the tasks of priority 60 and 40: the processor has been kept since x by tasks
\* of higher priority, which takes them at most Slack(t).
Slack(t) == IF t = 60 THEN 2 ELSE 5
Kept(t, x) == IF t = 60 THEN Near(x, 0, 0) ELSE \E m \in {0, 1} : Near(x, m, 0)
KeptSince(t, d) == \E x \in now - Slack(t) .. now : x <= release_time[t] + d /\ Kept(t, x)

\* A thread wakes at most Slack(t) after its release, begins to burn at most
\* Slack(t) later, ends at most Latest(t) after its release if nobody keeps it from
\* the processor, and asks to sleep again at most Slack(t) later.
Latest(t) == IF t = 60 THEN 7 ELSE 15
LowerInv(t) ==
    /\ tpc[t] \in {"while", "func"} /\ end[t] = 0 => KeptSince(t, Slack(t))
    /\ end[t] # 0 =>
        end[t] <= release_time[t] + Latest(t) /\ (now <= end[t] \/ Kept(t, end[t]))
    /\ tpc[t] \in {"lock", "record"} \/ (tpc[t] = "sleep" /\ phase[t] = "until") =>
        KeptSince(t, Latest(t))
    /\ phase[t] = "nanosleep" => Kept(t, release_time[t] - rem[t])
    /\ phase[t] = "asleep" => wakeup[t] <= release_time[t] + Slack(t)
    /\ deadline_misses[t] = 0

\* main wants the processor back from the time at which its sleep ends.
KeptMain(x) == \E m, l \in {0, 1} : Near(x, m, l)
MainInv == mpc = "run" => now <= until \/ KeptMain(until)

\* Once main has it, every task is asleep or about to leave, for main got it
\* only when no real-time thread was ready.
StopInv ==
    /\ mpc # "create" => tick \in {"none", "while", "exited"}
    /\ mpc = "join" =>
        /\ i >= 1 /\ ~running
        /\ \A t \in Tasks : tpc[t] \in {"none", "setup", "while", "exited"} \/ phase[t] = "asleep"
        /\ program = "periodic" =>
            /\ now <= until + 62
            /\ \A t \in Tasks : phase[t] = "asleep" => wakeup[t] <= until + 62

DemoInv ==
    /\ DemoTypeOK /\ Holder /\ ClockInv
    /\ TopInv /\ StopInv
    /\ program = "periodic" => LowerInv(60) /\ LowerInv(40) /\ MainInv

=============================================================================
