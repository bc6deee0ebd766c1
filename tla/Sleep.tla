-------------------------------- MODULE Sleep --------------------------------
(***************************************************************************)
(* Sleeping and alarms (kernel/src/sched/sched.c, syscall/time/sleep_ns.c,  *)
(* the timed futex_wait of syscall/mem/futex.c).  The earliest deadline is  *)
(* cached in two words; the timer interrupt of CPU 0 looks at the tasks     *)
(* only when it has passed, one task after another under pid_lock, which    *)
(* the tasks that publish a deadline do not take.                           *)
(***************************************************************************)
EXTENDS Naturals, FiniteSets

CONSTANTS NTasks,           \* the tasks are the pids 1 .. NTasks
          Programs,         \* what tasks may do: functions from tasks to sets of calls
          Delays, Intervals,\* nanoseconds a call may ask for
          MaxTime,          \* bound on the clock
          Never,            \* UINT64_MAX
          WakeMax, AlarmMax \* lengths of to_wake and to_alarm

ASSUME TaskAssumption == NTasks \in Nat /\ Never \in Nat
ASSUME TimeAssumption == Delays \subseteq Nat \ {0} /\ Intervals \subseteq Nat

Tasks == 1 .. NTasks

VARIABLES now,
          calls,                \* the calls the program of each task makes
          state, step,          \* of the task; where it is in its call
          wakeup_time, alarm_at, alarm_interval,
          earliest_wakeup, earliest_alarm,
          queued,               \* woken tasks that are in a ready queue
          scan,                 \* the local variables of sched_wakeup_sleepers
          unseen                \* history: deadlines the words need not cover (see DeadlinesKept)
zvars == <<now, calls, state, step, wakeup_time, alarm_at, alarm_interval,
           earliest_wakeup, earliest_alarm, queued, scan, unseen>>

NoScan == [at |-> 0, now |-> 0, next_earliest |-> Never, next_alarm |-> Never,
           to_wake |-> {}, to_alarm |-> {}]

ZInit == /\ now = 1 /\ calls \in Programs
         /\ state = [t \in Tasks |-> "RUNNING"] /\ step = [t \in Tasks |-> "user"]
         /\ wakeup_time = [t \in Tasks |-> 0]
         /\ alarm_at = [t \in Tasks |-> 0] /\ alarm_interval = [t \in Tasks |-> 0]
         /\ earliest_wakeup = Never /\ earliest_alarm = Never
         /\ queued = {} /\ scan = NoScan /\ unseen = {}

Scanning == scan.at > 0
Lower(x, y) == IF x < y THEN x ELSE y
Publishing(t) == step[t] \notin {"user", "sleep", "wait"}
Kind(s) == IF s = "alarm" THEN "alarm" ELSE "sleep"
Goes(t, from, to) ==
    LET it == <<t, Kind(IF from = "user" THEN to ELSE from)>>
    IN  /\ step[t] = from /\ step' = [step EXCEPT ![t] = to]
        /\ unseen' = IF Scanning \/ to = "futex" THEN unseen \cup {it}
                    ELSE IF from = "user" THEN unseen \ {it} ELSE unseen
Blocks(t) == state' = [state EXCEPT ![t] = "BLOCKED"]

(* sched_note_wakeup: the compare-and-swap loop stores a lower deadline; 0  *)
(* is none.                                                                 *)
sched_note_wakeup(t) == earliest_wakeup' = IF wakeup_time[t] = 0 THEN earliest_wakeup
                                           ELSE Lower(earliest_wakeup, wakeup_time[t])

SetDeadline(t, to) ==
    /\ Goes(t, "user", to)
    /\ \E ns \in Delays : wakeup_time' = [wakeup_time EXCEPT ![t] = now + ns]
    /\ UNCHANGED <<now, calls, state, alarm_at, alarm_interval, earliest_wakeup, earliest_alarm,
                   queued, scan>>
NoteStep(t, from, to) ==
    /\ Goes(t, from, to)
    /\ sched_note_wakeup(t)
    /\ UNCHANGED <<now, calls, state, wakeup_time, alarm_at, alarm_interval, earliest_alarm,
                   queued, scan>>
BlockStep(t, from, to) ==
    /\ Goes(t, from, to)
    /\ Blocks(t)
    /\ UNCHANGED <<now, calls, wakeup_time, alarm_at, alarm_interval, earliest_wakeup,
                   earliest_alarm, queued, scan>>

(* sys_sleep_ns publishes the deadline and then stores BLOCKED.             *)
sys_sleep_ns(t) == \/ SetDeadline(t, "note")
                   \/ NoteStep(t, "note", "block")
                   \/ BlockStep(t, "block", "sleep")

(* task_sleep_ns, the sleep of loops in the kernel, does it the other way   *)
(* round.                                                                   *)
task_sleep_ns(t) == \/ SetDeadline(t, "block2")
                    \/ BlockStep(t, "block2", "note2")
                    \/ NoteStep(t, "note2", "sleep")

(* futex_wait with a timeout stores a deadline it does not publish.         *)
futex_wait(t) == \/ SetDeadline(t, "futex")
                 \/ BlockStep(t, "futex", "wait")

(* A call that stores the deadline of the alarm and publishes it, or takes  *)
(* the alarm back (value 0).                                                *)
task_set_itimer(t) ==
    \/ /\ Goes(t, "user", "alarm")
       /\ \E ns \in Delays, every \in Intervals :
            /\ alarm_at' = [alarm_at EXCEPT ![t] = now + ns]
            /\ alarm_interval' = [alarm_interval EXCEPT ![t] = every]
       /\ UNCHANGED <<now, calls, state, wakeup_time, earliest_wakeup, earliest_alarm, queued,
                      scan>>
    \/ /\ step[t] = "user" /\ alarm_at[t] # 0
       /\ alarm_at' = [alarm_at EXCEPT ![t] = 0]
       /\ alarm_interval' = [alarm_interval EXCEPT ![t] = 0]
       /\ UNCHANGED <<now, calls, state, step, wakeup_time, earliest_wakeup, earliest_alarm, queued,
                      scan, unseen>>
    \/ /\ Goes(t, "alarm", "user")
       /\ earliest_alarm' = IF alarm_at[t] = 0 THEN earliest_alarm
                            ELSE Lower(earliest_alarm, alarm_at[t])
       /\ UNCHANGED <<now, calls, state, wakeup_time, alarm_at, alarm_interval, earliest_wakeup,
                      queued, scan>>

(* task_unblock by another CPU: a signal or, with the deadline taken back,  *)
(* a kill or a futex_wake.                                                  *)
task_unblock(t, ts) == /\ wakeup_time' = [wakeup_time EXCEPT ![t] = ts]
                       /\ state[t] = "BLOCKED"
                       /\ state' = [state EXCEPT ![t] = "READY"]
                       /\ queued' = queued \cup {t}
                       /\ UNCHANGED <<now, calls, step, alarm_at, alarm_interval, earliest_wakeup,
                                      earliest_alarm, scan, unseen>>
Interrupted(t) == task_unblock(t, wakeup_time[t]) \/ task_unblock(t, 0)

(* The task runs again and returns from its call; futex_wait clears its     *)
(* deadline.                                                                *)
Runs(t) == /\ t \in queued /\ queued' = queued \ {t}
           /\ step[t] \in {"sleep", "wait"}
           /\ state' = [state EXCEPT ![t] = "RUNNING"]
           /\ step' = [step EXCEPT ![t] = "user"]
           /\ wakeup_time' = IF step[t] = "wait" THEN [wakeup_time EXCEPT ![t] = 0]
                                                 ELSE wakeup_time
           /\ unseen' = unseen \ {<<t, "sleep">>}
           /\ UNCHANGED <<now, calls, alarm_at, alarm_interval, earliest_wakeup, earliest_alarm,
                          scan>>

Clock == /\ now < MaxTime /\ now' = now + 1
         /\ UNCHANGED <<calls, state, step, wakeup_time, alarm_at, alarm_interval, earliest_wakeup,
                        earliest_alarm, queued, scan, unseen>>
-----------------------------------------------------------------------------
(* sched_wakeup_sleepers, called by the timer interrupt of CPU 0.  It       *)
(* returns at once while the earliest deadline has not passed.              *)
ScanStart == /\ ~Scanning
             /\ now >= Lower(earliest_wakeup, earliest_alarm)
             /\ scan' = [NoScan EXCEPT !.at = 1, !.now = now]
             /\ unseen' = unseen \cup {<<t, Kind(step[t])>> : t \in {u \in Tasks : Publishing(u)}}
             /\ UNCHANGED <<now, calls, state, step, wakeup_time, alarm_at, alarm_interval,
                            earliest_wakeup, earliest_alarm, queued>>

AlarmDue(t) == alarm_at[t] # 0 /\ scan.now >= alarm_at[t] /\ Cardinality(scan.to_alarm) < AlarmMax
Sleeps(t) == state[t] = "BLOCKED" /\ wakeup_time[t] # 0
WakeDue(t) == Sleeps(t) /\ scan.now >= wakeup_time[t] /\ Cardinality(scan.to_wake) < WakeMax

(* What the scan keeps of the deadlines it does not serve.                  *)
NextAlarm(at) == IF at = 0 THEN scan.next_alarm ELSE Lower(scan.next_alarm, at)
NextEarliestDue(t) == IF Sleeps(t) /\ scan.now < wakeup_time[t]
                      THEN Lower(scan.next_earliest, wakeup_time[t]) ELSE scan.next_earliest
NextEarliest(t) == IF Sleeps(t) /\ ~WakeDue(t)
                   THEN Lower(scan.next_earliest, wakeup_time[t]) ELSE scan.next_earliest

(* The deadlines of a task that a scan takes over from here on: not the one *)
(* that is on its way into the words.                                       *)
Seen(t) == {<<t, k>> : k \in {"sleep", "alarm"} \ (IF Publishing(t) THEN {Kind(step[t])} ELSE {})}

ScanTask(t) ==
    /\ scan.at = t
    /\ LET at == IF ~AlarmDue(t) THEN alarm_at[t]
                 ELSE IF alarm_interval[t] = 0 THEN 0 ELSE scan.now + alarm_interval[t]
       IN  /\ alarm_at' = [alarm_at EXCEPT ![t] = at]
           /\ scan' = [scan EXCEPT !.at = t + 1,
                         !.next_alarm = NextAlarm(at),
                         !.next_earliest = NextEarliest(t),
                         !.to_alarm = IF AlarmDue(t) THEN @ \cup {t} ELSE @,
                         !.to_wake = IF WakeDue(t) THEN @ \cup {t} ELSE @]
    /\ IF WakeDue(t)
       THEN /\ wakeup_time' = [wakeup_time EXCEPT ![t] = 0]
            /\ state' = [state EXCEPT ![t] = "READY"]
       ELSE UNCHANGED <<wakeup_time, state>>
    /\ unseen' = unseen \ Seen(t)
    /\ UNCHANGED <<now, calls, step, alarm_interval, earliest_wakeup, earliest_alarm, queued>>

(* The stores of the new earliest deadlines; then the tasks are queued and  *)
(* the alarms sent, which wakes a task that is blocked.                     *)
ScanEnd ==
    LET rung == {t \in scan.to_alarm : state[t] = "BLOCKED"}
    IN  /\ scan.at = NTasks + 1
        /\ earliest_wakeup' = scan.next_earliest
        /\ earliest_alarm' = scan.next_alarm
        /\ queued' = queued \cup scan.to_wake \cup rung
        /\ state' = [t \in Tasks |-> IF t \in rung THEN "READY" ELSE state[t]]
        /\ scan' = NoScan
        /\ UNCHANGED <<now, calls, step, wakeup_time, alarm_at, alarm_interval, unseen>>

ZNext == \/ Clock \/ ScanStart \/ ScanEnd
         \/ \E t \in Tasks : \/ "sleep" \in calls[t] /\ sys_sleep_ns(t)
                             \/ "kernel" \in calls[t] /\ task_sleep_ns(t)
                             \/ "futex" \in calls[t] /\ futex_wait(t)
                             \/ "itimer" \in calls[t] /\ task_set_itimer(t)
                             \/ Interrupted(t) \/ Runs(t) \/ ScanTask(t)
ZSpec == ZInit /\ [][ZNext]_zvars
-----------------------------------------------------------------------------
(* The cached deadlines are early enough: between two scans the word is no  *)
(* later than the deadline of any sleeper and of any alarm, also of those   *)
(* a scan left for the next because its arrays were full.  Two kinds of     *)
(* deadline are exempt, but only until a scan passes the task (unseen): one *)
(* published while a scan was going on, which stores its own minimum over   *)
(* it, and the one of a timed futex_wait, which is never published.         *)
DeadlinesKept ==
    ~Scanning => \A t \in Tasks :
        /\ step[t] \in {"sleep", "wait"} /\ Sleeps(t) /\ <<t, "sleep">> \notin unseen
               => earliest_wakeup <= wakeup_time[t]
        /\ step[t] # "alarm" /\ alarm_at[t] # 0 /\ <<t, "alarm">> \notin unseen
               => earliest_alarm <= alarm_at[t]
=============================================================================
