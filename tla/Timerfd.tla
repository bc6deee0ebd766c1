------------------------------- MODULE Timerfd -------------------------------
(***************************************************************************)
(* A timerfd (kernel/src/syscall/io/eventfd.c): tasks read how often it has *)
(* expired and set it anew while time passes.  A hold of tm->lock is one    *)
(* step.  No reader stores itself in tm->waiter, so the wake_one of         *)
(* timerfd_settime finds nobody and is left out.  clock_realtime_offset_ns  *)
(* is 0.                                                                    *)
(***************************************************************************)
EXTENDS Naturals

CONSTANTS Users, LastTime, MaxSets, Values, Periods

VARIABLES clock, expires, interval, tfd_nonblock,
          until,            \* the deadline a sleeping reader waits for, 0 if it does not
          reading,
          sets,
          first, ticks      \* history: the first deadline set, what reads have returned since
tvars == <<clock, expires, interval, tfd_nonblock, until, reading, sets, first, ticks>>

ASSUME TimerAssumption == Values \subseteq Nat /\ Periods \subseteq Nat

TInit == /\ clock = 1 /\ expires = 0 /\ interval = 0 /\ tfd_nonblock = FALSE
         /\ until = [t \in Users |-> 0] /\ reading = {}
         /\ sets = 0 /\ first = 0 /\ ticks = 0

settings == <<interval, tfd_nonblock, sets, first>>
-----------------------------------------------------------------------------
TClock == /\ clock < LastTime /\ clock' = clock + 1
          /\ UNCHANGED <<expires, until, reading, ticks, settings>>

(* A value of 0 disarms the timer.  An absolute time may have passed.       *)
timerfd_deadline(absolute, value) ==
    IF value = 0 THEN 0 ELSE IF absolute THEN value ELSE clock + value
timerfd_settime == /\ sets < MaxSets /\ sets' = sets + 1
                   /\ \E absolute \in BOOLEAN, value \in Values :
                        /\ expires' = timerfd_deadline(absolute, value)
                        /\ first' = expires'
                   /\ interval' \in Periods /\ ticks' = 0
                   /\ UNCHANGED <<clock, tfd_nonblock, until, reading>>
tfd_ioctl == /\ tfd_nonblock' = ~tfd_nonblock
             /\ UNCHANGED <<clock, expires, interval, until, reading, sets, first, ticks>>

TReadCall(t) == /\ t \notin reading /\ reading' = reading \cup {t}
                /\ UNCHANGED <<clock, expires, until, ticks, settings>>

(* One turn of the loop of tfd_read: the expirations so far, or EAGAIN, or  *)
(* a sleep until the deadline found here.                                   *)
Late == clock - expires
Fired == IF interval = 0 THEN 1 ELSE 1 + Late \div interval
NextFromNow == IF interval = 0 THEN 0 ELSE clock + interval
NextExpiry == IF interval = 0 THEN 0 ELSE clock + interval - (Late % interval)
Expired == expires # 0 /\ clock >= expires
tfd_read(t) ==
    /\ t \in reading /\ clock >= until[t]
    /\ \/ /\ Expired /\ ticks' = ticks + Fired /\ expires' = NextExpiry
          /\ reading' = reading \ {t} /\ until' = [until EXCEPT ![t] = 0]
       \/ /\ ~Expired /\ (tfd_nonblock \/ expires = 0)
          /\ reading' = reading \ {t} /\ until' = [until EXCEPT ![t] = 0]
          /\ UNCHANGED <<expires, ticks>>
       \/ /\ ~Expired /\ ~tfd_nonblock /\ expires # 0
          /\ until' = [until EXCEPT ![t] = expires]
          /\ UNCHANGED <<expires, ticks, reading>>
    /\ UNCHANGED <<clock, settings>>

(* A kill ends the sleep and the read, a signal only the sleep.             *)
TKill(t) == /\ until[t] > 0 /\ reading' = reading \ {t} /\ until' = [until EXCEPT ![t] = 0]
            /\ UNCHANGED <<clock, expires, ticks, settings>>
TSignal(t) == /\ until[t] > clock /\ until' = [until EXCEPT ![t] = 0]
              /\ UNCHANGED <<clock, expires, reading, ticks, settings>>

TNext == TClock \/ timerfd_settime \/ tfd_ioctl
         \/ \E t \in Users : TReadCall(t) \/ tfd_read(t) \/ TKill(t) \/ TSignal(t)
TSpec == TInit /\ [][TNext]_tvars
-----------------------------------------------------------------------------
(* Every expiration is returned by exactly one read: the reads since the    *)
(* timer was set have together returned as many as lie before the next      *)
(* deadline, however late they came and whoever made them.  All of them had *)
(* happened.                                                                *)
TicksExact ==
    /\ interval > 0 /\ first > 0 => expires = first + ticks * interval
    /\ ticks > 0 => first + (ticks - 1) * interval <= clock
    /\ interval = 0 => ticks <= 1
=============================================================================
