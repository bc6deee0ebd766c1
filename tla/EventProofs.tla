---------------------------- MODULE EventProofs ------------------------------
(***************************************************************************)
(* What tasks sleep for and what wakes them: eventfds, timerfds, signals    *)
(* and deadlines, for any readers, senders, signals, tasks, times and sizes.*)
(***************************************************************************)
EXTENDS Signal, Eventfd, Timerfd, Sleep, TLAPS

(* Eventfd: a reader on its way to sleep, or asleep, whose wakeup has not   *)
(* been missed is the one in the slot, and the counter has been zero since  *)
(* it went there, because a write empties the slot.                         *)
ToSleep == {"runnable", "state", "blocked"}
InTheSlot(t) == e_pc[t] \in ToSleep /\ t \notin missed \cup displaced => waiter = t /\ count = 0
EventInv == /\ e_pc \in [EventReaders -> {"idle", "enter", "woken"} \cup ToSleep]
            /\ waiter \in EventReaders \cup {NoReader}
            /\ \A t \in EventReaders : InTheSlot(t)

LEMMA EventReader ==
    ASSUME EventInv, NEW t \in EventReaders,
           \/ EReadCall(t) \/ efd_read(t) \/ ENotRunnable(t) \/ EBlock(t)
           \/ EResume(t) \/ ESignal(t) \/ EKill(t)
    PROVE  EventInv'
<1> USE DEF EventInv, InTheSlot, ToSleep, EGoto, ehistory, efixed
<1>1. CASE EReadCall(t) BY <1>1, Zenon DEF EReadCall
<1>2. CASE efd_read(t)
  <2>1. CASE count > 0 /\ EGoto(t, "idle") /\ UNCHANGED <<waiter, ehistory>>
    BY <1>2, <2>1, SMTT(30) DEF efd_read
  <2>2. CASE count = 0 /\ EGoto(t, "idle") /\ UNCHANGED <<count, waiter, ehistory>>
    BY <1>2, <2>2, Zenon DEF efd_read
  <2>3. CASE /\ count = 0 /\ EGoto(t, "runnable") /\ waiter' = t /\ missed' = missed \ {t}
             /\ displaced' = (displaced \cup ({waiter} \ {NoReader})) \ {t} /\ UNCHANGED count
    BY <1>2, <2>3, ReaderAssumption, Zenon DEF efd_read
  <2> QED BY <1>2, <2>1, <2>2, <2>3, Zenon DEF efd_read
<1>3. CASE ENotRunnable(t) BY <1>3, Zenon DEF ENotRunnable
<1>4. CASE EBlock(t) BY <1>4, Zenon DEF EBlock
<1>5. CASE EResume(t) BY <1>5, Zenon DEF EResume
<1>6. CASE ESignal(t) BY <1>6, Zenon DEF ESignal
<1>7. CASE EKill(t) BY <1>7, Zenon DEF EKill
<1> QED BY <1>1, <1>2, <1>3, <1>4, <1>5, <1>6, <1>7, Zenon

LEMMA EventStep == EventInv /\ [ENext]_evars => EventInv'
<1> SUFFICES ASSUME EventInv, [ENext]_evars PROVE EventInv'
  BY Zenon
<1>1. CASE efd_write
  <2>1. CASE waiter = NoReader
    BY <1>1, <2>1, ReaderAssumption, Zenon
    DEF efd_write, wake_one, EventInv, InTheSlot, ToSleep, ehistory
  <2>2. CASE waiter # NoReader
    BY <1>1, <2>2, ReaderAssumption, Zenon
    DEF efd_write, wake_one, EventInv, InTheSlot, ToSleep, ehistory
  <2> QED BY <2>1, <2>2, Zenon
<1>2. CASE efd_ioctl
  BY <1>2, Zenon DEF efd_ioctl, EventInv, InTheSlot, ToSleep, ehistory
<1>3. ASSUME NEW t \in EventReaders, \/ EReadCall(t) \/ efd_read(t) \/ ENotRunnable(t) \/ EBlock(t)
                                \/ EResume(t) \/ ESignal(t) \/ EKill(t)
      PROVE  EventInv'
  BY <1>3, EventReader, Zenon
<1>4. CASE UNCHANGED evars
  BY <1>4, Zenon DEF evars, EventInv, InTheSlot, ToSleep
<1> QED BY <1>1, <1>2, <1>3, <1>4, Zenon DEF ENext

(* No event is missed: for any number of readers and any width of the       *)
(* counter, a reader asleep in efd_read has nothing to read, except where   *)
(* the write came before it was BLOCKED or another reader took its slot.    *)
THEOREM EventsReach == ESpec => []EventNotMissed
<1>1. EInit => EventInv
  BY ReaderAssumption, Zenon DEF EInit, EventInv, InTheSlot, ToSleep
<1>2. EventInv => EventNotMissed
  BY SMTT(30) DEF EventInv, InTheSlot, ToSleep, EventNotMissed
<1> QED BY <1>1, <1>2, EventStep, PTL DEF ESpec
-----------------------------------------------------------------------------
(* Signal: what is pending is what was accepted as long as no update was    *)
(* lost; the lowest frame holds the mask asked for outside of handlers; and *)
(* a task on its way to sleep in a read is in the slot of whoever can end   *)
(* it, with nothing to find yet.                                            *)
Maskable == Sigs \ {SIGKILL}
TaskAts == {"user", "ret", "tty", "tty2", "sfd", "block", "blocked", "woken", "act", "clear", "dead"}
Dispositions == [handler : {"DFL", "IGN", "fn"}, mask : SUBSET Maskable,
                 flags : SUBSET {"NODEFER", "RESETHAND"}]
TaskRecs == [at : TaskAts, in : {"tty", "sfd"}, sig : Sigs \cup {0}, read : SUBSET Sigs,
             then : {"user", "dead"}]
SenderRecs == [at : {"idle", "read", "store", "wake"}, sig : Sigs \cup {0}, read : SUBSET Sigs]
TtyRecs == [ring : Nat, active : BOOLEAN, reader : BOOLEAN, input : BOOLEAN]
SfdRecs == [open : BOOLEAN, mask : SUBSET Sigs, queue : Seq(Sigs), waiter : BOOLEAN]
SeenRecs == [accepted : SUBSET Sigs, lost : BOOLEAN, missed : BOOLEAN]
TaskTypes == task \in TaskRecs /\ (task.at \in {"act", "clear"} => task.sig \in Sigs)
SenderTypes == /\ sender \in [Senders -> SenderRecs]
               /\ \A c \in Senders : sender[c].at # "idle" => sender[c].sig \in Sigs
MaskTypes == /\ sig_blocked \in SUBSET Maskable /\ frames \in Seq(SUBSET Maskable)
             /\ sigaction \in [Sigs -> Dispositions]
FileTypes == tty \in TtyRecs /\ sfd \in SfdRecs
HistTypes == sig_pending \in SUBSET Sigs /\ seen \in SeenRecs
SignalTypes == TaskTypes /\ SenderTypes /\ MaskTypes /\ FileTypes /\ HistTypes
MaskKept == IF frames = <<>> THEN sig_blocked = g_asked ELSE frames[Len(frames)] = g_asked
PendingKept == ~seen.lost => sig_pending = seen.accepted
NoSignalYet == (~g_pending_kill /\ signal_pending_deliverable = {}) \/ AboutToBeWoken
TtySleeps == task.at = "tty2" \/ (task.at \in {"block", "blocked"} /\ task.in = "tty")
SfdSleeps == task.at \in {"block", "blocked"} /\ task.in = "sfd"
TtyReader == TtySleeps /\ ~seen.missed =>
                tty.reader /\ (~seen.lost => NoSignalYet) /\ (task.at # "tty2" => NoChar \/ tty.input)
SfdReader == SfdSleeps /\ ~seen.missed => sfd.waiter /\ sfd.queue = <<>>
InTty == task.at = "tty2" => task.in = "tty"
SignalInv == SignalTypes /\ PendingKept /\ MaskKept /\ InTty /\ TtyReader /\ SfdReader

LEMMA UnblockTypes ==
    ASSUME SignalTypes, GUnblock \/ UNCHANGED <<task, seen>>
    PROVE  TaskTypes' /\ seen' \in SeenRecs
<1>1. ASSUME task' = [task EXCEPT !.at = "woken"] PROVE TaskTypes'
  <2>1. task' \in TaskRecs
    BY <1>1, Zenon DEF SignalTypes, TaskTypes, TaskRecs, TaskAts
  <2>2. task'.at = "woken"
    BY <1>1, Zenon DEF SignalTypes, TaskTypes, TaskRecs
  <2> QED BY <2>1, <2>2, Zenon DEF TaskTypes
<1>2. ASSUME task' = task PROVE TaskTypes'
  BY <1>2, Zenon DEF SignalTypes, TaskTypes
<1>3. TaskTypes'
  BY <1>1, <1>2, Zenon DEF GUnblock
<1>4. seen' \in SeenRecs
  BY Zenon DEF GUnblock, SignalTypes, HistTypes, SeenRecs
<1> QED BY <1>3, <1>4, Zenon

LEMMA DeliverTypes ==
    ASSUME SignalTypes, NEW sig \in Sigs, signalfd_deliver(sig)
    PROVE  TaskTypes' /\ seen' \in SeenRecs /\ sfd' \in SfdRecs
<1>1. TaskTypes' /\ seen' \in SeenRecs
  BY UnblockTypes, Zenon DEF signalfd_deliver
<1>2. sfd.queue \in Seq(Sigs)
  BY SMTT(30) DEF SignalTypes, FileTypes, SfdRecs
<1> DEFINE q == IF Len(sfd.queue) < SFD_QUEUE THEN Append(sfd.queue, sig) ELSE sfd.queue
<1>3. q \in Seq(Sigs)
  BY <1>2, SMTT(30)
<1>4. sfd' = [sfd EXCEPT !.queue = q, !.waiter = FALSE]
  BY Zenon DEF signalfd_deliver
<1> HIDE DEF q
<1>5. sfd' \in SfdRecs
  BY <1>3, <1>4, Zenon DEF SignalTypes, FileTypes, SfdRecs
<1> QED BY <1>1, <1>5, Zenon

LEMMA SendTypes == ASSUME SignalTypes, NEW c \in Senders, signal_send(c) PROVE SignalTypes'
<1>0. MaskTypes' /\ tty' = tty
  BY Zenon DEF signal_send, SignalTypes, MaskTypes, masks, dispositions
<1>1. CASE \E sig \in Sigs : signalfd_deliver(sig) /\ UNCHANGED <<sender, kills>>
  BY <1>0, <1>1, DeliverTypes, Zenon DEF SignalTypes, SenderTypes, FileTypes, HistTypes, kills
<1>2. CASE \E sig \in Sigs : 
             /\ sender' = IF Discarded(sig) THEN sender
                          ELSE [sender EXCEPT ![c] = [at |-> "read", sig |-> sig, read |-> {}]]
             /\ UNCHANGED <<sfd, task, seen, kills>>
  <2> PICK sig \in Sigs :
             /\ sender' = IF Discarded(sig) THEN sender
                          ELSE [sender EXCEPT ![c] = [at |-> "read", sig |-> sig, read |-> {}]]
             /\ UNCHANGED <<sfd, task, seen, kills>>
    BY <1>2, Zenon
  <2>1. SenderTypes'
    <3>1. CASE sender' = sender
      BY <3>1, Zenon DEF SignalTypes, SenderTypes
    <3>2. CASE sender' = [sender EXCEPT ![c] = [at |-> "read", sig |-> sig, read |-> {}]]
      <4>0. [at |-> "read", sig |-> sig, read |-> {}] \in SenderRecs
        BY Zenon DEF SenderRecs
      <4>1. sender' \in [Senders -> SenderRecs]
        BY <3>2, <4>0, Zenon DEF SignalTypes, SenderTypes
      <4>2. sender'[c].sig = sig
        BY <3>2, SMTT(30) DEF SignalTypes, SenderTypes, SenderRecs
      <4>3. \A d \in Senders \ {c} : sender'[d] = sender[d]
        BY <3>2, Zenon DEF SignalTypes, SenderTypes
      <4> QED BY <4>1, <4>2, <4>3, Zenon DEF SignalTypes, SenderTypes
    <3> QED BY <3>1, <3>2, Zenon
  <2> QED BY <1>0, <2>1, Zenon DEF SignalTypes, TaskTypes, FileTypes, HistTypes, kills
<1>3. CASE /\ sender[c].at = "read"
           /\ sender' = [sender EXCEPT ![c].at = "store", ![c].read = sig_pending]
           /\ UNCHANGED <<kills, sfd, task, seen>>
  <2>1. sender' \in [Senders -> SenderRecs]
    BY <1>3, Zenon DEF SignalTypes, SenderTypes, SenderRecs, HistTypes
  <2>2. sender'[c].sig = sender[c].sig /\ \A d \in Senders \ {c} : sender'[d] = sender[d]
    BY <1>3, Zenon DEF SignalTypes, SenderTypes, SenderRecs
  <2>3. SenderTypes'
    BY <1>3, <2>1, <2>2, Zenon DEF SignalTypes, SenderTypes
  <2> QED BY <1>0, <1>3, <2>3, Zenon DEF SignalTypes, TaskTypes, FileTypes, HistTypes, kills
<1>4. CASE /\ sender[c].at = "store" /\ SendAt(c, "wake")
           /\ sig_pending' = sender[c].read \cup {sender[c].sig}
           /\ seen' = [seen EXCEPT !.accepted = @ \cup {sender[c].sig},
                                   !.lost = @ \/ sig_pending # sender[c].read]
           /\ UNCHANGED <<sfd, task>>
  <2>0. sender[c].sig \in Sigs /\ sender[c].read \in SUBSET Sigs
    BY <1>4, Zenon DEF SignalTypes, SenderTypes, SenderRecs
  <2>1. sender' \in [Senders -> SenderRecs]
    BY <1>4, Zenon DEF SignalTypes, SenderTypes, SenderRecs, SendAt
  <2>2. sender'[c].sig = sender[c].sig /\ \A d \in Senders \ {c} : sender'[d] = sender[d]
    BY <1>4, Zenon DEF SignalTypes, SenderTypes, SenderRecs, SendAt
  <2>3. SenderTypes'
    BY <1>4, <2>1, <2>2, Zenon DEF SignalTypes, SenderTypes
  <2>4. HistTypes'
    <3>1. sig_pending' \in SUBSET Sigs
      BY <1>4, <2>0, Zenon
    <3>2. seen' \in SeenRecs
      BY <1>4, <2>0, Zenon DEF SignalTypes, HistTypes, SeenRecs
    <3> QED BY <3>1, <3>2, Zenon DEF HistTypes
  <2> QED BY <1>0, <1>4, <2>3, <2>4, Zenon DEF SignalTypes, TaskTypes, FileTypes
<1>5. CASE /\ sender' = [sender EXCEPT ![c] = [at |-> "idle", sig |-> 0, read |-> {}]]
           /\ GUnblock \/ UNCHANGED <<task, seen>>
           /\ UNCHANGED <<kills, sfd>>
  <2>1. TaskTypes' /\ seen' \in SeenRecs
    BY <1>5, UnblockTypes, Zenon
  <2>2. SenderTypes'
    BY <1>5, Zenon DEF SignalTypes, SenderTypes, SenderRecs
  <2> QED BY <1>0, <1>5, <2>1, <2>2, Zenon DEF SignalTypes, FileTypes, HistTypes, kills
<1> QED BY <1>1, <1>2, <1>3, <1>4, <1>5, Zenon DEF signal_send, kills

LEMMA GotoTypes ==
    ASSUME SignalTypes, NEW at \in TaskAts \ {"act", "clear"},
           \/ task' = [task EXCEPT !.at = at]
           \/ task' = [task EXCEPT !.at = at, !.in = "tty"]
           \/ task' = [task EXCEPT !.at = at, !.in = "sfd"]
           \/ task' = [task EXCEPT !.at = at, !.sig = 0, !.read = {}, !.then = "user"]
    PROVE  TaskTypes' /\ task'.at = at
<1>1. task' \in TaskRecs
  BY Zenon DEF SignalTypes, TaskTypes, TaskRecs
<1>2. task'.at = at
  BY Zenon DEF SignalTypes, TaskTypes, TaskRecs
<1> QED BY <1>1, <1>2, Zenon DEF TaskTypes

LEMMA CallTypes ==
    ASSUME SignalTypes,
           \/ sys_rt_sigaction \/ sys_rt_sigprocmask \/ sys_signalfd \/ sfd_unref \/ GReadCall
           \/ GBlock \/ sys_rt_sigreturn
    PROVE  SignalTypes'
<1> USE DEF GGoto, kills, dispositions, masks, InUser
<1>a. \A at \in {"ret", "tty", "sfd", "blocked", "user", "dead"} : at \in TaskAts \ {"act", "clear"}
  BY Zenon DEF TaskAts
<1>1. CASE sys_rt_sigaction
  <2>1. TaskTypes'
    BY <1>1, <1>a, GotoTypes, Zenon DEF sys_rt_sigaction
  <2>2. PICK sig \in Sigs \ {SIGKILL}, a \in Actions :
               sigaction' = [sigaction EXCEPT ![sig] = [a EXCEPT !.mask = @ \ {SIGKILL}]]
    BY <1>1, Zenon DEF sys_rt_sigaction
  <2>3. [a EXCEPT !.mask = @ \ {SIGKILL}] \in Dispositions
    <3>1. a.mask \ {SIGKILL} \in SUBSET Maskable
      BY SignalAssumption, Zenon DEF Maskable
    <3> QED BY <3>1, SignalAssumption, Zenon DEF Dispositions
  <2>4. MaskTypes'
    BY <1>1, <2>2, <2>3, Zenon DEF SignalTypes, MaskTypes, sys_rt_sigaction
  <2> QED BY <1>1, <2>1, <2>4, Zenon DEF SignalTypes, SenderTypes, FileTypes, HistTypes, sys_rt_sigaction
<1>2. CASE sys_rt_sigprocmask
  <2>1. TaskTypes'
    BY <1>2, <1>a, GotoTypes, Zenon DEF sys_rt_sigprocmask
  <2>2. \A m \in Masks : m \ {SIGKILL} \in SUBSET Maskable
    BY SignalAssumption, Zenon DEF Maskable
  <2>3. sig_blocked' \in SUBSET Maskable
    BY <1>2, <2>2, Zenon DEF SignalTypes, MaskTypes, sys_rt_sigprocmask
  <2>4. MaskTypes'
    BY <1>2, <2>3, Zenon DEF SignalTypes, MaskTypes, sys_rt_sigprocmask
  <2> QED BY <1>2, <2>1, <2>4, Zenon DEF SignalTypes, SenderTypes, FileTypes, HistTypes, sys_rt_sigprocmask
<1>3. CASE sys_signalfd
  <2>1. TaskTypes'
    BY <1>3, <1>a, GotoTypes, Zenon DEF sys_signalfd
  <2>2. sfd' \in SfdRecs
    <3>1. PICK m \in SUBSET Sigs : sfd' = [sfd EXCEPT !.open = TRUE, !.mask = m]
      BY <1>3, SignalAssumption, Zenon DEF sys_signalfd
    <3> QED BY <3>1, Zenon DEF SignalTypes, FileTypes, SfdRecs
  <2> QED BY <1>3, <2>1, <2>2, Zenon DEF SignalTypes, SenderTypes, MaskTypes, FileTypes, HistTypes, sys_signalfd
<1>4. CASE sfd_unref
  <2>1. TaskTypes'
    BY <1>4, <1>a, GotoTypes, Zenon DEF sfd_unref
  <2>2. <<>> \in Seq(Sigs)
    BY SMTT(30)
  <2>3. sfd' \in SfdRecs
    BY <1>4, <2>2, Zenon DEF SfdRecs, sfd_unref
  <2> QED BY <1>4, <2>1, <2>3, Zenon DEF SignalTypes, SenderTypes, MaskTypes, FileTypes, HistTypes, sfd_unref
<1>5. CASE GReadCall
  <2>1. TaskTypes'
    BY <1>5, <1>a, GotoTypes, Zenon DEF GReadCall
  <2> QED BY <1>5, <2>1, Zenon DEF SignalTypes, SenderTypes, MaskTypes, FileTypes, HistTypes, GReadCall
<1>6. CASE GBlock
  <2>1. TaskTypes'
    BY <1>6, <1>a, GotoTypes, Zenon DEF GBlock
  <2> QED BY <1>6, <2>1, Zenon DEF SignalTypes, SenderTypes, MaskTypes, FileTypes, HistTypes, GBlock
<1>7. CASE sys_rt_sigreturn
  <2>1. TaskTypes'
    BY <1>7, <1>a, GotoTypes, Zenon DEF sys_rt_sigreturn
  <2>2. sig_blocked' \in SUBSET Maskable /\ frames' \in Seq(SUBSET Maskable)
    <3>1. sig_blocked' = Head(frames) /\ frames' = Tail(frames) /\ frames # <<>>
      BY <1>7, Zenon DEF sys_rt_sigreturn
    <3>2. frames \in Seq(SUBSET Maskable)
      BY Zenon DEF SignalTypes, MaskTypes
    <3> QED BY <3>1, <3>2, SMTT(30)
  <2>3. MaskTypes'
    BY <1>7, <2>2, Zenon DEF SignalTypes, MaskTypes, sys_rt_sigreturn
  <2> QED BY <1>7, <2>1, <2>3, Zenon DEF SignalTypes, SenderTypes, FileTypes, HistTypes, sys_rt_sigreturn
<1> QED BY <1>1, <1>2, <1>3, <1>4, <1>5, <1>6, <1>7, Zenon

LEMMA ReadTypes == ASSUME SignalTypes, wait_for_char \/ sfd_read PROVE SignalTypes'
<1> USE DEF GGoto
<1>a. \A at \in {"ret", "tty", "tty2", "block", "sfd"} : at \in TaskAts \ {"act", "clear"}
  BY Zenon DEF TaskAts
<1>b. tty \in TtyRecs /\ sfd \in SfdRecs /\ seen \in SeenRecs
  BY Zenon DEF SignalTypes, FileTypes, HistTypes
<1>1. CASE wait_for_char
  <2>1. TaskTypes'
    BY <1>1, <1>a, GotoTypes, Zenon DEF wait_for_char
  <2>2. tty' \in TtyRecs
    <3>1. ASSUME tty' = [tty EXCEPT !.ring = @ - 1], ~NoChar PROVE tty' \in TtyRecs
      <4>1. tty.ring - 1 \in Nat
        BY <1>b, <3>1, SMTT(30) DEF TtyRecs, NoChar
      <4> QED BY <1>b, <3>1, <4>1, Zenon DEF TtyRecs
    <3>2. ASSUME NEW b \in BOOLEAN, tty' = [tty EXCEPT !.reader = b] PROVE tty' \in TtyRecs
      BY <1>b, <3>2, Zenon DEF TtyRecs
    <3> QED BY <1>1, <1>b, <3>1, <3>2, Zenon DEF wait_for_char
  <2>3. seen' \in SeenRecs
    <3>1. seen' = [seen EXCEPT !.missed = FALSE] \/ seen' = seen
      BY <1>1, Zenon DEF wait_for_char
    <3> QED BY <1>b, <3>1, Zenon DEF SeenRecs
  <2>4. UNCHANGED <<kills, dispositions, masks, sender, sfd>>
    BY <1>1, Zenon DEF wait_for_char
  <2> QED BY <2>1, <2>2, <2>3, <2>4, Zenon
          DEF SignalTypes, SenderTypes, MaskTypes, FileTypes, HistTypes, kills, dispositions, masks
<1>2. CASE sfd_read
  <2>1. TaskTypes'
    BY <1>2, <1>a, GotoTypes, Zenon DEF sfd_read
  <2>2. sfd' \in SfdRecs
    <3>1. ASSUME NEW n \in 1 .. Len(sfd.queue), sfd' = [sfd EXCEPT !.queue = SubSeq(@, n + 1, Len(@))]
          PROVE  sfd' \in SfdRecs
      <4>1. SubSeq(sfd.queue, n + 1, Len(sfd.queue)) \in Seq(Sigs)
        BY <1>b, SMTT(30) DEF SfdRecs
      <4> QED BY <1>b, <3>1, <4>1, Zenon DEF SfdRecs
    <3>2. ASSUME sfd' = [sfd EXCEPT !.waiter = TRUE] PROVE sfd' \in SfdRecs
      BY <1>b, <3>2, Zenon DEF SfdRecs
    <3> QED BY <1>2, <1>b, <3>1, <3>2, Zenon DEF sfd_read
  <2>3. seen' \in SeenRecs
    <3>1. seen' = [seen EXCEPT !.missed = FALSE] \/ seen' = seen
      BY <1>2, Zenon DEF sfd_read
    <3> QED BY <1>b, <3>1, Zenon DEF SeenRecs
  <2>4. UNCHANGED <<kills, dispositions, masks, sender, tty>>
    BY <1>2, Zenon DEF sfd_read
  <2> QED BY <2>1, <2>2, <2>3, <2>4, Zenon
          DEF SignalTypes, SenderTypes, MaskTypes, FileTypes, HistTypes, kills, dispositions, masks
<1> QED BY <1>1, <1>2, Zenon

LEMMA DeliveryTypes == ASSUME SignalTypes, FindSignal \/ ActOnSignal \/ ClearSignal PROVE SignalTypes'
<1>a. \A at \in {"user", "dead"} : at \in TaskAts \ {"act", "clear"}
  BY Zenon DEF TaskAts
<1>b. task \in TaskRecs /\ sig_pending \in SUBSET Sigs /\ seen \in SeenRecs
  BY Zenon DEF SignalTypes, TaskTypes, HistTypes
<1>1. CASE FindSignal
  <2>1. TaskTypes'
    <3>1. ASSUME NEW sig \in signal_pending_deliverable, task' = [task EXCEPT !.at = "act", !.sig = sig]
          PROVE  TaskTypes'
      <4>1. sig \in Sigs
        BY <1>b, Zenon DEF signal_pending_deliverable
      <4>2. task' \in TaskRecs
        BY <1>b, <3>1, <4>1, Zenon DEF TaskRecs, TaskAts
      <4>3. task'.sig = sig
        BY <1>b, <3>1, Zenon DEF TaskRecs
      <4> QED BY <4>1, <4>2, <4>3, Zenon DEF TaskTypes
    <3> QED BY <1>1, <1>a, <3>1, GotoTypes, Zenon DEF FindSignal, GGoto
  <2> QED BY <1>1, <2>1, Zenon DEF SignalTypes, SenderTypes, MaskTypes, FileTypes, HistTypes,
                                   kills, dispositions, masks, FindSignal
<1>2. CASE ActOnSignal
  <2>1. PICK then \in {"user", "dead"} : task.at = "act" /\ Reads(then)
    BY <1>2, Zenon DEF ActOnSignal
  <2>2. task.sig \in Sigs
    BY <2>1, Zenon DEF SignalTypes, TaskTypes
  <2>3. TaskTypes'
    <3>1. task' \in TaskRecs
      BY <1>b, <2>1, Zenon DEF Reads, TaskRecs, TaskAts
    <3>2. task'.sig = task.sig
      BY <1>b, <2>1, Zenon DEF Reads, TaskRecs
    <3> QED BY <2>2, <3>1, <3>2, Zenon DEF TaskTypes
  <2>4. MaskTypes'
    <3>1. CASE UNCHANGED <<masks, sigaction>>
      BY <3>1, Zenon DEF SignalTypes, MaskTypes, masks
    <3>2. CASE /\ task.sig # SIGKILL /\ EnterHandler(task.sig)
               /\ sigaction' = IF "RESETHAND" \in sigaction[task.sig].flags
                               THEN [sigaction EXCEPT ![task.sig].handler = "DFL"] ELSE sigaction
      <4>1. sigaction[task.sig] \in Dispositions
        BY <2>2, Zenon DEF SignalTypes, MaskTypes
      <4>2. sigaction[task.sig].mask \in SUBSET Maskable
        BY <4>1, Zenon DEF Dispositions
      <4>3. sig_blocked' \in SUBSET Maskable
        BY <2>2, <3>2, <4>2, Zenon DEF EnterHandler, BlockedIn, Maskable, SignalTypes, MaskTypes
      <4>4. frames' \in Seq(SUBSET Maskable)
        BY <3>2, SMTT(30) DEF EnterHandler, SignalTypes, MaskTypes
      <4>5. sigaction' \in [Sigs -> Dispositions]
        BY <2>2, <3>2, <4>1, Zenon DEF Dispositions, SignalTypes, MaskTypes
      <4> QED BY <4>3, <4>4, <4>5, Zenon DEF MaskTypes
    <3> QED BY <1>2, <3>1, <3>2, Zenon DEF ActOnSignal
  <2>5. UNCHANGED <<kills, sender, tty, sfd, seen>>
    BY <1>2, Zenon DEF ActOnSignal
  <2> QED BY <2>3, <2>4, <2>5, Zenon DEF SignalTypes, SenderTypes, FileTypes, HistTypes, kills
<1>3. CASE ClearSignal
  <2>1. TaskTypes'
    <3>1. task.then \in {"user", "dead"}
      BY <1>b, Zenon DEF TaskRecs
    <3> QED BY <1>3, <1>a, <3>1, GotoTypes, Zenon DEF ClearSignal
  <2>2. task.read \in SUBSET Sigs
    BY <1>b, Zenon DEF TaskRecs
  <2>3. sig_pending' \in SUBSET Sigs
    BY <1>3, <2>2, Zenon DEF ClearSignal, Remaining
  <2>4. seen' \in SeenRecs
    BY <1>3, <1>b, Zenon DEF ClearSignal, SeenRecs
  <2> QED BY <1>3, <2>1, <2>3, <2>4, Zenon DEF SignalTypes, SenderTypes, MaskTypes, FileTypes, HistTypes,
                                               dispositions, masks, ClearSignal
<1> QED BY <1>1, <1>2, <1>3, Zenon

LEMMA InputTypes == ASSUME SignalTypes, tty_vt_input \/ vt_switch PROVE SignalTypes'
<1>b. tty \in TtyRecs /\ seen \in SeenRecs
  BY Zenon DEF SignalTypes, FileTypes, HistTypes
<1>1. CASE tty_vt_input
  <2>1. TaskTypes' /\ seen' \in SeenRecs
    BY <1>1, UnblockTypes, Zenon DEF tty_vt_input
  <2>2. tty' \in TtyRecs
    <3>1. tty.ring \in Nat
      BY <1>b, Zenon DEF TtyRecs
    <3>2. ASSUME tty' = [tty EXCEPT !.input = TRUE, !.ring = IF @ < Ring THEN @ + 1 ELSE @]
          PROVE  tty' \in TtyRecs
      <4> DEFINE n == IF tty.ring < Ring THEN tty.ring + 1 ELSE tty.ring
      <4>1. n \in Nat
        BY <3>1, SMTT(30)
      <4>2. tty' = [tty EXCEPT !.input = TRUE, !.ring = n]
        BY <3>2, Zenon
      <4> HIDE DEF n
      <4> QED BY <1>b, <4>1, <4>2, Zenon DEF TtyRecs
    <3>3. ASSUME tty' = [tty EXCEPT !.input = FALSE, !.reader = FALSE] PROVE tty' \in TtyRecs
      BY <1>b, <3>3, Zenon DEF TtyRecs
    <3> QED BY <1>1, <3>2, <3>3, Zenon DEF tty_vt_input
  <2> QED BY <1>1, <2>1, <2>2, Zenon DEF SignalTypes, SenderTypes, MaskTypes, FileTypes, HistTypes,
                                         kills, dispositions, masks, tty_vt_input
<1>2. CASE vt_switch
  <2>1. tty' \in TtyRecs
    BY <1>2, <1>b, Zenon DEF vt_switch, TtyRecs
  <2>2. seen' \in SeenRecs
    BY <1>2, <1>b, Zenon DEF vt_switch, SeenRecs
  <2> QED BY <1>2, <2>1, <2>2, Zenon DEF SignalTypes, TaskTypes, SenderTypes, MaskTypes, FileTypes,
                                         HistTypes, kills, dispositions, masks, vt_switch
<1> QED BY <1>1, <1>2, Zenon

LEMMA SignalTypesStep == ASSUME SignalTypes, GNext PROVE SignalTypes'
  BY SendTypes, CallTypes, ReadTypes, DeliveryTypes, InputTypes, Zenon DEF GNext

(* Only the store of a sender and ClearSignal change the pending set, and   *)
(* each knows whether it overlapped another update.                         *)
LEMMA PendingStep == ASSUME SignalTypes, PendingKept, GNext PROVE PendingKept'
<1>a. seen \in SeenRecs
  BY Zenon DEF SignalTypes, HistTypes
<1>b. ASSUME UNCHANGED sig_pending,
             \/ seen' = seen \/ seen' = [seen EXCEPT !.missed = TRUE]
             \/ seen' = [seen EXCEPT !.missed = FALSE]
             \/ seen' = [seen EXCEPT !.missed = @ \/ (~tty.active /\ tty.ring > 0)]
      PROVE  PendingKept'
  <2>1. seen'.lost = seen.lost /\ seen'.accepted = seen.accepted
    BY <1>a, <1>b, Zenon DEF SeenRecs
  <2> QED BY <1>b, <2>1, Zenon DEF PendingKept
<1>1. ASSUME NEW c \in Senders, signal_send(c) PROVE PendingKept'
  <2>1. CASE /\ sig_pending' = sender[c].read \cup {sender[c].sig}
             /\ seen' = [seen EXCEPT !.accepted = @ \cup {sender[c].sig},
                                     !.lost = @ \/ sig_pending # sender[c].read]
    <3>1. seen'.accepted = seen.accepted \cup {sender[c].sig}
      BY <1>a, <2>1, Zenon DEF SeenRecs
    <3>2. ~seen'.lost => ~seen.lost /\ sig_pending = sender[c].read
      BY <1>a, <2>1, Zenon DEF SeenRecs
    <3> QED BY <2>1, <3>1, <3>2, Zenon DEF PendingKept
  <2>2. CASE UNCHANGED kills /\ (GUnblock \/ UNCHANGED <<task, seen>>)
    BY <1>b, <2>2, Zenon DEF kills, GUnblock
  <2> QED BY <1>1, <2>1, <2>2, Zenon DEF signal_send, signalfd_deliver, kills
<1>2. CASE ClearSignal
  <2>1. sig_pending' = task.read \ {task.sig}
    BY <1>2, Zenon DEF ClearSignal, Remaining
  <2>2. seen' = [seen EXCEPT !.accepted = @ \ {task.sig}, !.lost = @ \/ sig_pending # task.read]
    BY <1>2, Zenon DEF ClearSignal
  <2>3. seen'.accepted = seen.accepted \ {task.sig}
    BY <1>a, <2>2, Zenon DEF SeenRecs
  <2>4. ~seen'.lost => ~seen.lost /\ sig_pending = task.read
    BY <1>a, <2>2, Zenon DEF SeenRecs
  <2> QED BY <2>1, <2>3, <2>4, Zenon DEF PendingKept
<1>3. CASE \/ sys_rt_sigaction \/ sys_rt_sigprocmask \/ sys_signalfd \/ sfd_unref \/ GReadCall
           \/ GBlock \/ FindSignal \/ ActOnSignal \/ sys_rt_sigreturn
  BY <1>3, <1>b, Zenon DEF sys_rt_sigaction, sys_rt_sigprocmask, sys_signalfd, sfd_unref, GReadCall,
                           GBlock, FindSignal, ActOnSignal, sys_rt_sigreturn, kills
<1>4. CASE wait_for_char \/ sfd_read
  BY <1>4, <1>b, Zenon DEF wait_for_char, sfd_read, kills
<1>5. CASE tty_vt_input \/ vt_switch
  BY <1>5, <1>b, Zenon DEF tty_vt_input, vt_switch, GUnblock, kills
<1> QED BY <1>1, <1>2, <1>3, <1>4, <1>5, Zenon DEF GNext

(* Only sigprocmask, the entry into a handler and sigreturn change the mask.*)
LEMMA MaskStep == ASSUME SignalTypes, MaskKept, GNext PROVE MaskKept'
<1>a. frames \in Seq(SUBSET Maskable)
  BY Zenon DEF SignalTypes, MaskTypes
<1>b. ASSUME UNCHANGED <<masks, g_asked>> PROVE MaskKept'
  BY <1>b, Zenon DEF MaskKept, masks
<1>1. CASE sys_rt_sigprocmask
  BY <1>1, Zenon DEF sys_rt_sigprocmask, MaskKept
<1>2. CASE ActOnSignal
  <2>1. CASE EnterHandler(task.sig) /\ UNCHANGED g_asked
    <3>1. frames' = <<sig_blocked>> \o frames
      BY <2>1, Zenon DEF EnterHandler
    <3>2. frames' # <<>> /\ Len(frames') = Len(frames) + 1
          /\ frames'[Len(frames')] = IF frames = <<>> THEN sig_blocked ELSE frames[Len(frames)]
      BY <1>a, <3>1, SMTT(30)
    <3> QED BY <2>1, <3>2, Zenon DEF MaskKept
  <2>2. CASE UNCHANGED <<masks, g_asked>>
    BY <1>b, <2>2, Zenon
  <2> QED BY <1>2, <2>1, <2>2, Zenon DEF ActOnSignal
<1>3. CASE sys_rt_sigreturn
  <2>1. sig_blocked' = Head(frames) /\ frames' = Tail(frames) /\ frames # <<>> /\ g_asked' = g_asked
    BY <1>3, Zenon DEF sys_rt_sigreturn, dispositions
  <2>2. IF frames' = <<>> THEN Head(frames) = frames[Len(frames)]
                          ELSE frames'[Len(frames')] = frames[Len(frames)]
    BY <1>a, <2>1, SMTT(30)
  <2> QED BY <2>1, <2>2, Zenon DEF MaskKept
<1>4. ASSUME NEW c \in Senders, signal_send(c) PROVE MaskKept'
  BY <1>4, <1>b, Zenon DEF signal_send, dispositions
<1>5. CASE \/ sys_rt_sigaction \/ sys_signalfd \/ sfd_unref \/ GReadCall \/ GBlock \/ FindSignal
           \/ wait_for_char \/ sfd_read \/ ClearSignal \/ tty_vt_input \/ vt_switch
  BY <1>5, <1>b, Zenon DEF sys_rt_sigaction, sys_signalfd, sfd_unref, GReadCall, GBlock, FindSignal,
                           wait_for_char, sfd_read, ClearSignal, tty_vt_input, vt_switch, dispositions
<1> QED BY <1>1, <1>2, <1>3, <1>4, <1>5, Zenon DEF GNext

(* Where the task goes in a step of its own, and what a wakeup leaves.      *)
LEMMA TaskMoves ==
    ASSUME SignalTypes
    PROVE  /\ \A at \in TaskAts : task' = [task EXCEPT !.at = at] => task'.at = at /\ task'.in = task.in
           /\ \A at \in TaskAts, in \in {"tty", "sfd"} :
                 task' = [task EXCEPT !.at = at, !.in = in] => task'.at = at /\ task'.in = in
           /\ GUnblock => \/ task.at = "blocked" /\ task'.at = "woken"
                          \/ task.at \in {"tty2", "block"} /\ task' = task /\ seen'.missed
                          \/ task.at \notin {"tty2", "block", "blocked"} /\ task' = task
           /\ GUnblock => (seen'.lost = seen.lost) /\ (~seen'.missed => ~seen.missed)
<1>a. task \in TaskRecs /\ seen \in SeenRecs
  BY Zenon DEF SignalTypes, TaskTypes, HistTypes
<1>1. \A at \in TaskAts : task' = [task EXCEPT !.at = at] => task'.at = at /\ task'.in = task.in
  BY <1>a, Zenon DEF TaskRecs
<1>2. \A at \in TaskAts, in \in {"tty", "sfd"} :
                 task' = [task EXCEPT !.at = at, !.in = in] => task'.at = at /\ task'.in = in
  BY <1>a, Zenon DEF TaskRecs
<1>3. ASSUME GUnblock
      PROVE  \/ task.at = "blocked" /\ task'.at = "woken"
             \/ task.at \in {"tty2", "block"} /\ task' = task /\ seen'.missed
             \/ task.at \notin {"tty2", "block", "blocked"} /\ task' = task
  <2>1. CASE task.at = "blocked"
    BY <1>1, <1>3, <2>1, Zenon DEF GUnblock, TaskAts
  <2>2. CASE task.at \in {"tty2", "block"}
    <3>1. task' = task /\ seen' = [seen EXCEPT !.missed = TRUE]
      BY <1>3, <2>2, Zenon DEF GUnblock
    <3> QED BY <1>a, <2>2, <3>1, Zenon DEF SeenRecs
  <2> QED BY <1>3, <2>1, <2>2, Zenon DEF GUnblock
<1>4. ASSUME GUnblock PROVE (seen'.lost = seen.lost) /\ (~seen'.missed => ~seen.missed)
  <2>1. seen' = [seen EXCEPT !.missed = TRUE] \/ seen' = seen
    BY <1>4, Zenon DEF GUnblock
  <2> QED BY <1>a, <2>1, Zenon DEF SeenRecs
<1> QED BY <1>1, <1>2, <1>3, <1>4, Zenon

(* A step after which the task is on its way to sleep only if it was before.*)
LEMMA TtyQuiet ==
    ASSUME TtyReader, TtySleeps' => TtySleeps /\ (task.at = "tty2" => task'.at = "tty2"),
           ~seen'.missed => ~seen.missed, ~seen'.lost => ~seen.lost, UNCHANGED tty,
           ~seen'.lost /\ NoSignalYet => NoSignalYet'
    PROVE  TtyReader'
  BY Zenon DEF TtyReader, NoChar
LEMMA SfdQuiet ==
    ASSUME SfdReader, SfdSleeps' => SfdSleeps, ~seen'.missed => ~seen.missed, UNCHANGED sfd
    PROVE  SfdReader'
  BY Zenon DEF SfdReader

(* A step of the task that leads it elsewhere.                              *)
LEMMA AwakeKeeps ==
    ASSUME task'.at \notin {"tty2", "block", "blocked"} PROVE InTty' /\ TtyReader' /\ SfdReader'
  BY Zenon DEF InTty, TtyReader, SfdReader, TtySleeps, SfdSleeps

LEMMA CallReaders ==
    ASSUME SignalInv,
           \/ sys_rt_sigaction \/ sys_rt_sigprocmask \/ sys_signalfd \/ sfd_unref \/ GReadCall
           \/ FindSignal \/ ActOnSignal \/ ClearSignal \/ sys_rt_sigreturn
    PROVE  InTty' /\ TtyReader' /\ SfdReader'
<1> USE DEF GGoto
<1>a. SignalTypes /\ task \in TaskRecs /\ task.then \in {"user", "dead"}
  BY SMTT(30) DEF SignalInv, SignalTypes, TaskTypes, TaskRecs
<1>b. \A at \in {"ret", "tty", "sfd", "dead", "user", "act", "clear"} :
            at \in TaskAts /\ at \notin {"tty2", "block", "blocked"}
  BY Zenon DEF TaskAts
<1>1. CASE sys_rt_sigaction \/ sys_rt_sigprocmask \/ sys_signalfd \/ sfd_unref \/ GReadCall \/ sys_rt_sigreturn
  BY <1>1, <1>a, <1>b, TaskMoves, AwakeKeeps, Zenon
  DEF sys_rt_sigaction, sys_rt_sigprocmask, sys_signalfd, sfd_unref, GReadCall, sys_rt_sigreturn
<1>2. CASE FindSignal
  <2>1. ASSUME NEW sig, task' = [task EXCEPT !.at = "act", !.sig = sig] PROVE task'.at = "act"
    BY <1>a, <2>1, Zenon DEF TaskRecs
  <2> QED BY <1>2, <1>a, <1>b, <2>1, TaskMoves, AwakeKeeps, Zenon DEF FindSignal
<1>3. CASE ActOnSignal
  <2>1. \E then : Reads(then)
    BY <1>3, Zenon DEF ActOnSignal
  <2>2. task'.at = "clear"
    BY <1>a, <2>1, Zenon DEF Reads, TaskRecs
  <2> QED BY <1>b, <2>2, AwakeKeeps, Zenon
<1>4. CASE ClearSignal
  <2>1. task'.at = task.then
    BY <1>4, <1>a, Zenon DEF ClearSignal, TaskRecs
  <2> QED BY <1>a, <1>b, <2>1, AwakeKeeps, Zenon
<1> QED BY <1>1, <1>2, <1>3, <1>4, Zenon

LEMMA ReadReaders ==
    ASSUME SignalInv, wait_for_char \/ sfd_read \/ GBlock PROVE InTty' /\ TtyReader' /\ SfdReader'
<1> USE DEF GGoto
<1>a. SignalTypes /\ tty \in TtyRecs /\ sfd \in SfdRecs /\ seen \in SeenRecs
  BY Zenon DEF SignalInv, SignalTypes, FileTypes, HistTypes
<1>b. \A at \in {"ret", "tty", "sfd"} : at \in TaskAts /\ at \notin {"tty2", "block", "blocked"}
  BY Zenon DEF TaskAts
<1>c. {"tty2", "block", "blocked"} \subseteq TaskAts
  BY Zenon DEF TaskAts
<1>1. CASE wait_for_char
  <2>0. UNCHANGED <<g_pending_kill, sig_pending, sig_blocked, sender, sfd>>
    BY <1>1, Zenon DEF wait_for_char, kills, masks
  <2>1. CASE \E at \in {"ret", "tty", "sfd"} : task' = [task EXCEPT !.at = at]
    BY <1>a, <1>b, <2>1, TaskMoves, AwakeKeeps, Zenon
  <2>2. CASE /\ ~GInterrupted /\ task' = [task EXCEPT !.at = "tty2", !.in = "tty"]
             /\ tty' = [tty EXCEPT !.reader = TRUE]
    <3>1. task'.at = "tty2" /\ task'.in = "tty"
      BY <1>a, <1>c, <2>2, TaskMoves, Zenon
    <3>2. tty'.reader
      BY <1>a, <2>2, Zenon DEF TtyRecs
    <3>3. NoSignalYet'
      BY <2>0, <2>2, Zenon DEF GInterrupted, NoSignalYet, signal_pending_deliverable
    <3> QED BY <3>1, <3>2, <3>3, Zenon DEF InTty, TtyReader, SfdReader, SfdSleeps
  <2>3. CASE task.at = "tty2" /\ NoChar /\ task' = [task EXCEPT !.at = "block"] /\ UNCHANGED <<tty, seen>>
    <3>1. task'.at = "block" /\ task'.in = "tty"
      BY <1>a, <1>c, <2>3, TaskMoves, Zenon DEF SignalInv, InTty
    <3>2. NoSignalYet => NoSignalYet'
      BY <2>0, Zenon DEF NoSignalYet, signal_pending_deliverable, AboutToBeWoken
    <3>3. TtyReader'
      BY <2>3, <3>2, Zenon DEF SignalInv, TtyReader, TtySleeps, NoChar
    <3> QED BY <3>1, <3>3, Zenon DEF InTty, SfdReader, SfdSleeps
  <2> QED BY <1>1, <2>1, <2>2, <2>3, Zenon DEF wait_for_char
<1>2. CASE sfd_read
  <2>1. CASE \E at \in {"ret", "tty", "sfd"} : task' = [task EXCEPT !.at = at]
    BY <1>a, <1>b, <2>1, TaskMoves, AwakeKeeps, Zenon
  <2>2. CASE /\ sfd.queue = <<>> /\ task' = [task EXCEPT !.at = "block", !.in = "sfd"]
             /\ sfd' = [sfd EXCEPT !.waiter = TRUE]
    <3>1. task'.at = "block" /\ task'.in = "sfd"
      BY <1>a, <1>c, <2>2, TaskMoves, Zenon
    <3>2. sfd'.waiter /\ sfd'.queue = sfd.queue
      BY <1>a, <2>2, Zenon DEF SfdRecs
    <3> QED BY <2>2, <3>1, <3>2, Zenon DEF InTty, TtyReader, SfdReader, TtySleeps
  <2> QED BY <1>2, <2>1, <2>2, Zenon DEF sfd_read
<1>3. CASE GBlock
  <2>1. /\ task.at = "block" /\ task'.at = "blocked" /\ task'.in = task.in
        /\ UNCHANGED <<g_pending_kill, sig_pending, sig_blocked, sender, tty, sfd, seen>>
    BY <1>3, <1>a, <1>c, TaskMoves, Zenon DEF GBlock, kills, masks
  <2>2. NoSignalYet => NoSignalYet'
    BY <2>1, Zenon DEF NoSignalYet, signal_pending_deliverable, AboutToBeWoken
  <2>3. TtyReader'
    BY <2>1, <2>2, TtyQuiet, Zenon DEF SignalInv, TtySleeps
  <2>4. SfdReader'
    BY <2>1, SfdQuiet, Zenon DEF SignalInv, SfdSleeps
  <2> QED BY <2>1, <2>3, <2>4, Zenon DEF InTty
<1> QED BY <1>1, <1>2, <1>3, Zenon

LEMMA InputReaders ==
    ASSUME SignalInv, tty_vt_input \/ vt_switch PROVE InTty' /\ TtyReader' /\ SfdReader'
<1>a. SignalTypes /\ tty \in TtyRecs /\ seen \in SeenRecs
  BY Zenon DEF SignalInv, SignalTypes, FileTypes, HistTypes
<1>b. UNCHANGED <<g_pending_kill, sig_pending, sig_blocked, sender, sfd>>
  BY Zenon DEF tty_vt_input, vt_switch, kills, masks
<1>c. NoSignalYet => NoSignalYet'
  BY <1>b, Zenon DEF NoSignalYet, signal_pending_deliverable, AboutToBeWoken
<1>1. CASE UNCHANGED <<task, seen>> /\ tty' = [tty EXCEPT !.input = TRUE, !.ring = IF @ < Ring THEN @ + 1 ELSE @]
  <2>1. tty'.input /\ tty'.reader = tty.reader
    BY <1>1, <1>a, Zenon DEF TtyRecs
  <2>2. TtyReader'
    BY <1>1, <1>c, <2>1, Zenon DEF SignalInv, TtyReader, TtySleeps
  <2>3. SfdReader' /\ InTty'
    BY <1>1, <1>b, SfdQuiet, Zenon DEF SignalInv, SfdSleeps, InTty
  <2> QED BY <2>2, <2>3, Zenon
<1>2. CASE IF tty.reader THEN GUnblock ELSE UNCHANGED <<task, seen>>
  <2>1. SfdReader'
    BY <1>2, <1>a, <1>b, TaskMoves, SfdQuiet, Zenon DEF SignalInv, SfdSleeps
  <2>2. InTty'
    BY <1>2, <1>a, TaskMoves, Zenon DEF SignalInv, InTty
  <2>3. ~(TtySleeps' /\ ~seen'.missed)
    <3>1. CASE tty.reader
      BY <1>2, <1>a, <3>1, TaskMoves, Zenon DEF TtySleeps
    <3>2. CASE ~tty.reader
      BY <1>2, <3>2, Zenon DEF SignalInv, TtyReader, TtySleeps
    <3> QED BY <3>1, <3>2, Zenon
  <2> QED BY <2>1, <2>2, <2>3, Zenon DEF TtyReader
<1>3. CASE vt_switch
  <2>0. tty' = [tty EXCEPT !.active = ~@] /\ task' = task
        /\ seen' = [seen EXCEPT !.missed = @ \/ (~tty.active /\ tty.ring > 0)]
    BY <1>3, Zenon DEF vt_switch
  <2>1. /\ tty'.reader = tty.reader /\ tty'.input = tty.input /\ tty'.ring = tty.ring
        /\ tty'.active <=> ~tty.active
    BY <1>a, <2>0, Zenon DEF TtyRecs
  <2>2. /\ seen'.lost = seen.lost
        /\ ~seen'.missed => ~seen.missed /\ ~(~tty.active /\ tty.ring > 0)
    BY <1>a, <2>0, Zenon DEF SeenRecs
  <2>3. tty.ring \in Nat
    BY <1>a, Zenon DEF TtyRecs
  <2>4. ~seen'.missed => NoChar'
    BY <2>1, <2>2, <2>3, SMTT(30) DEF NoChar
  <2>5. TtyReader'
    BY <1>c, <2>0, <2>1, <2>2, <2>4, Zenon DEF SignalInv, TtyReader, TtySleeps
  <2>6. SfdReader' /\ InTty'
    BY <1>b, <2>0, <2>2, SfdQuiet, Zenon DEF SignalInv, SfdSleeps, InTty
  <2> QED BY <2>5, <2>6, Zenon
<1> QED BY <1>1, <1>2, <1>3, Zenon DEF tty_vt_input

(* A step of one sender leaves the wakeups of the others to come.           *)
LEMMA SendReaders ==
    ASSUME SignalInv, NEW c \in Senders, signal_send(c) PROVE InTty' /\ TtyReader' /\ SfdReader'
<1>a. SignalTypes /\ sfd \in SfdRecs /\ seen \in SeenRecs /\ sender \in [Senders -> SenderRecs]
  BY Zenon DEF SignalInv, SignalTypes, FileTypes, HistTypes, SenderTypes
<1>b. UNCHANGED <<sig_blocked, tty>>
  BY Zenon DEF signal_send, masks
<1>c. SIGKILL \notin sig_blocked
  BY Zenon DEF SignalInv, SignalTypes, MaskTypes, Maskable
<1>d. ASSUME UNCHANGED kills, \A d \in Senders \ {c} : sender'[d] = sender[d],
             ~(sender[c].at = "wake" /\ sender[c].sig \notin sig_blocked)
      PROVE  NoSignalYet => NoSignalYet'
  BY <1>b, <1>d, Zenon DEF NoSignalYet, signal_pending_deliverable, AboutToBeWoken, kills
<1>1. CASE \E sig \in Sigs : signalfd_deliver(sig) /\ UNCHANGED <<sender, kills>>
  <2>1. IF sfd.waiter THEN GUnblock ELSE UNCHANGED <<task, seen>>
    BY <1>1, Zenon DEF signalfd_deliver
  <2>2. NoSignalYet => NoSignalYet'
    BY <1>1, <1>b DEF NoSignalYet, signal_pending_deliverable, AboutToBeWoken, kills
  <2>3. TtyReader'
    BY <1>a, <1>b, <2>1, <2>2, TaskMoves, TtyQuiet, Zenon DEF SignalInv, TtySleeps
  <2>4. InTty'
    BY <1>a, <2>1, TaskMoves, Zenon DEF SignalInv, InTty
  <2>5. ~(SfdSleeps' /\ ~seen'.missed)
    <3>1. CASE sfd.waiter
      BY <1>a, <2>1, <3>1, TaskMoves, Zenon DEF SfdSleeps
    <3>2. CASE ~sfd.waiter
      BY <2>1, <3>2, Zenon DEF SignalInv, SfdReader, SfdSleeps
    <3> QED BY <3>1, <3>2, Zenon
  <2> QED BY <2>3, <2>4, <2>5, Zenon DEF SfdReader
<1>2. CASE /\ sender[c].at \in {"idle", "read"} /\ UNCHANGED <<kills, sfd, task, seen>>
           /\ \A d \in Senders \ {c} : sender'[d] = sender[d]
  <2>1. NoSignalYet => NoSignalYet'
    BY <1>2, <1>d, Zenon
  <2>2. TtyReader'
    BY <1>2, <1>b, <2>1, TtyQuiet, Zenon DEF SignalInv, TtySleeps
  <2>3. SfdReader' /\ InTty'
    BY <1>2, SfdQuiet, Zenon DEF SignalInv, SfdSleeps, InTty
  <2> QED BY <2>2, <2>3, Zenon
<1>3. CASE /\ sender[c].at = "store" /\ SendAt(c, "wake")
           /\ sig_pending' = sender[c].read \cup {sender[c].sig}
           /\ g_pending_kill' = (g_pending_kill \/ sender[c].sig = SIGKILL)
           /\ seen' = [seen EXCEPT !.accepted = @ \cup {sender[c].sig},
                                   !.lost = @ \/ sig_pending # sender[c].read]
           /\ UNCHANGED <<sfd, task>>
  <2>1. /\ seen'.missed = seen.missed
        /\ ~seen'.lost => ~seen.lost /\ sig_pending = sender[c].read
    BY <1>3, <1>a, Zenon DEF SeenRecs
  <2>2. /\ sender'[c].at = "wake" /\ sender'[c].sig = sender[c].sig
        /\ \A d \in Senders \ {c} : sender'[d] = sender[d]
    BY <1>3, <1>a, Zenon DEF SendAt, SenderRecs
  <2>3. ASSUME ~seen'.lost, NoSignalYet PROVE NoSignalYet'
    <3>1. CASE AboutToBeWoken
      <4>1. PICK d \in Senders : sender[d].at = "wake" /\ sender[d].sig \notin sig_blocked
        BY <3>1, Zenon DEF AboutToBeWoken
      <4> QED BY <1>3, <1>b, <2>2, <4>1, Zenon DEF NoSignalYet, AboutToBeWoken
    <3>2. CASE sender[c].sig \notin sig_blocked
      BY <1>b, <2>2, <3>2, Zenon DEF NoSignalYet, AboutToBeWoken
    <3>3. CASE sender[c].sig \in sig_blocked /\ ~AboutToBeWoken
      <4>1. ~g_pending_kill' /\ sig_pending' = sig_pending \cup {sender[c].sig}
        BY <1>3, <1>c, <2>1, <2>3, <3>3, Zenon DEF NoSignalYet
      <4>2. sig_pending \ sig_blocked = {}
        BY <2>3, <3>3, Zenon DEF NoSignalYet, signal_pending_deliverable
      <4>3. sig_pending' \ sig_blocked' = {}
        BY <1>b, <3>3, <4>1, <4>2, Zenon
      <4> QED BY <4>1, <4>3, Zenon DEF NoSignalYet, signal_pending_deliverable
    <3> QED BY <3>1, <3>2, <3>3, Zenon
  <2>4. TtyReader'
    BY <1>3, <1>b, <2>1, <2>3, TtyQuiet, Zenon DEF SignalInv, TtySleeps
  <2>5. SfdReader' /\ InTty'
    BY <1>3, <2>1, SfdQuiet, Zenon DEF SignalInv, SfdSleeps, InTty
  <2> QED BY <2>4, <2>5, Zenon
<1>4. CASE /\ sender[c].at = "wake"
           /\ sender' = [sender EXCEPT ![c] = [at |-> "idle", sig |-> 0, read |-> {}]]
           /\ IF sender[c].sig = SIGKILL \/ sender[c].sig \notin sig_blocked THEN GUnblock
              ELSE UNCHANGED <<task, seen>>
           /\ UNCHANGED <<kills, sfd>>
  <2>1. SfdReader' /\ InTty'
    BY <1>4, <1>a, TaskMoves, SfdQuiet, Zenon DEF SignalInv, SfdSleeps, InTty
  <2>2. TtyReader'
    <3>1. CASE sender[c].sig \notin sig_blocked
      <4>1. ~(TtySleeps' /\ ~seen'.missed)
        BY <1>4, <1>a, <3>1, TaskMoves, Zenon DEF TtySleeps
      <4> QED BY <4>1, Zenon DEF TtyReader
    <3>2. CASE sender[c].sig \in sig_blocked
      <4>1. UNCHANGED <<task, seen>>
        BY <1>4, <1>c, <3>2, Zenon
      <4>2. \A d \in Senders \ {c} : sender'[d] = sender[d]
        BY <1>4, <1>a, Zenon
      <4>3. NoSignalYet => NoSignalYet'
        BY <1>4, <1>d, <3>2, <4>2, Zenon
      <4> QED BY <1>b, <4>1, <4>3, TtyQuiet, Zenon DEF SignalInv, TtySleeps
    <3> QED BY <3>1, <3>2, Zenon
  <2> QED BY <2>1, <2>2, Zenon
<1>5. CASE /\ sender[c].at \in {"idle", "read"} /\ UNCHANGED <<kills, sfd, task, seen>>
           /\ \/ \E sig \in Sigs : 
                   sender' = IF Discarded(sig) THEN sender
                             ELSE [sender EXCEPT ![c] = [at |-> "read", sig |-> sig, read |-> {}]]
              \/ sender' = [sender EXCEPT ![c].at = "store", ![c].read = sig_pending]
  <2>1. \A d \in Senders \ {c} : sender'[d] = sender[d]
    BY <1>5, <1>a, Zenon
  <2> QED BY <1>2, <1>5, <2>1, Zenon
<1> QED BY <1>1, <1>3, <1>4, <1>5, Zenon DEF signal_send

LEMMA SignalStep == SignalInv /\ [GNext]_gvars => SignalInv'
<1> SUFFICES ASSUME SignalInv, [GNext]_gvars PROVE SignalInv'
  BY Zenon
<1>1. CASE UNCHANGED gvars
  BY <1>1, Zenon DEF gvars, SignalInv, SignalTypes, TaskTypes, SenderTypes, MaskTypes, FileTypes, HistTypes,
     PendingKept, MaskKept, InTty, TtyReader, SfdReader, TtySleeps, SfdSleeps, NoSignalYet, NoChar,
     signal_pending_deliverable, AboutToBeWoken
<1>2. CASE GNext
  <2>1. SignalTypes' /\ PendingKept' /\ MaskKept'
    BY <1>2, SignalTypesStep, PendingStep, MaskStep, Zenon DEF SignalInv
  <2>2. InTty' /\ TtyReader' /\ SfdReader'
    BY <1>2, CallReaders, ReadReaders, InputReaders, SendReaders, Zenon DEF GNext
  <2> QED BY <2>1, <2>2, Zenon DEF SignalInv
<1> QED BY <1>1, <1>2, Zenon

LEMMA SignalInit == GInit => SignalInv
<1> SUFFICES ASSUME GInit PROVE SignalInv
  BY Zenon
<1> USE DEF GInit
<1>1. task \in TaskRecs /\ task.at = "user"
  BY Zenon DEF TaskRecs, TaskAts
<1>2. SenderTypes
  <2>1. [at |-> "idle", sig |-> 0, read |-> {}] \in SenderRecs
    BY Zenon DEF SenderRecs
  <2> QED BY <2>1, Zenon DEF SenderTypes
<1>3. MaskTypes
  <2>1. Default \in Dispositions
    BY Zenon DEF Default, Dispositions
  <2>2. <<>> \in Seq(SUBSET Maskable)
    BY SMTT(30)
  <2> QED BY <2>1, <2>2, Zenon DEF MaskTypes
<1>4. FileTypes
  <2>1. <<>> \in Seq(Sigs) /\ 0 \in Nat
    BY SMTT(30)
  <2> QED BY <2>1, Zenon DEF FileTypes, TtyRecs, SfdRecs
<1>5. HistTypes /\ seen.accepted = {}
  BY Zenon DEF HistTypes, SeenRecs
<1>6. SignalTypes
  BY <1>1, <1>2, <1>3, <1>4, <1>5, Zenon DEF SignalTypes, TaskTypes
<1> QED BY <1>1, <1>5, <1>6, Zenon DEF SignalInv, PendingKept, MaskKept, InTty, TtyReader, SfdReader,
                                         TtySleeps, SfdSleeps

LEMMA SignalAlways == GSpec => []SignalInv
  BY SignalInit, SignalStep, PTL DEF GSpec

(* For any signals, senders and handlers: a signal raised stays pending     *)
(* until it is taken, unless two updates of sig_pending overlapped, and     *)
(* once the handlers have returned the mask is the one the program asked    *)
(* for, whatever handlers nested and whatever they did to the mask.         *)
THEOREM SignalsNotLost == GSpec => []SignalsKept
<1>1. SignalInv => SignalsKept
  BY Zenon DEF SignalInv, PendingKept, MaskKept, SignalsKept
<1> QED BY <1>1, SignalAlways, PTL

(* For any signals, senders and sizes a task asleep in a read of the        *)
(* terminal has no signal to be delivered and no character to take, and one *)
(* asleep on a signalfd no signal to read, with the exceptions the property *)
(* names: a lost update, a wakeup before it was BLOCKED, a change of        *)
(* terminals.                                                               *)
THEOREM ReadsInterrupted == GSpec => []ReadInterrupted
<1>1. SignalInv => ReadInterrupted
  BY Zenon DEF SignalInv, TtyReader, SfdReader, TtySleeps, SfdSleeps, NoSignalYet, ReadInterrupted
<1> QED BY <1>1, SignalAlways, PTL
-----------------------------------------------------------------------------
(* Timerfd: a timer that does not repeat is armed until its only expiration *)
(* has been read, and one set to zero never expires.                        *)
TimerInv == /\ clock \in Nat /\ expires \in Nat /\ interval \in Nat /\ first \in Nat /\ ticks \in Nat
            /\ interval = 0 /\ expires # 0 => ticks = 0 /\ expires = first
            /\ first = 0 => expires = 0 /\ ticks = 0
            /\ TicksExact

LEMMA TimerInit == TInit => TimerInv
  BY DEF TInit, TimerInv, TicksExact

(* What a late read returns and where it puts the next deadline.            *)
LEMMA LateRead ==
    ASSUME NEW n \in Nat, NEW e \in Nat, NEW i \in Nat \ {0}, NEW f \in Nat, NEW k \in Nat,
           e = f + k * i, n >= e,
           NEW m \in Nat, m = k + 1 + (n - e) \div i
    PROVE  /\ n + i - ((n - e) % i) = f + m * i
           /\ f + (m - 1) * i <= n
<1> DEFINE q == (n - e) \div i
           r == (n - e) % i
<1>1. q \in Nat /\ r \in Nat /\ n - e = i * q + r
  BY SMT
<1> HIDE DEF q, r
<1>2. m = k + 1 + q
  BY Zenon DEF q
<1>3. m * i = k * i + i + i * q /\ (m - 1) * i = k * i + i * q
  BY <1>1, <1>2, SMT
<1>4. k * i \in Nat /\ i * q \in Nat
  BY <1>1, SMT
<1>5. ASSUME NEW a \in Nat, NEW b \in Nat, a = k * i, b = i * q
      PROVE  n + i - r = f + m * i /\ f + (m - 1) * i <= n
  <2>1. n = f + a + b + r
    BY <1>1, <1>5
  <2>2. m * i = a + i + b /\ (m - 1) * i = a + b
    BY <1>3, <1>5, Zenon
  <2> QED BY <1>1, <2>1, <2>2
<1> QED BY <1>4, <1>5, Zenon DEF r

LEMMA TimerRead == ASSUME TimerInv, NEW t \in Users, tfd_read(t) PROVE TimerInv'
<1>1. CASE ~Expired
  <2>1. UNCHANGED <<clock, expires, interval, first, ticks>>
    BY <1>1, Zenon DEF tfd_read, settings
  <2> QED BY <2>1, Zenon DEF TimerInv, TicksExact
<1>2. CASE Expired /\ interval = 0
  <2>1. /\ UNCHANGED <<clock, interval, first>> /\ ticks' = ticks + 1 /\ expires' = 0
        /\ clock >= expires /\ expires # 0
    BY <1>2, Zenon DEF tfd_read, settings, Expired, Fired, NextExpiry
  <2>2. ticks = 0 /\ first <= clock /\ first # 0
    BY <1>2, <2>1, Zenon DEF TimerInv, TicksExact
  <2>3. first + (ticks' - 1) * interval = first
    BY <2>1, <2>2, SMT DEF TimerInv
  <2> QED BY <1>2, <2>1, <2>2, <2>3 DEF TimerInv, TicksExact
<1>3. CASE Expired /\ interval # 0
  <2>1. /\ UNCHANGED <<clock, interval, first>> /\ clock >= expires
        /\ ticks' = ticks + (1 + (clock - expires) \div interval)
        /\ expires' = clock + interval - ((clock - expires) % interval)
    BY <1>3, Zenon DEF tfd_read, settings, Expired, Fired, NextExpiry, Late
  <2>2. /\ clock \in Nat /\ expires \in Nat /\ interval \in Nat \ {0} /\ first \in Nat /\ ticks \in Nat
        /\ first # 0 /\ expires = first + ticks * interval
    BY <1>3 DEF TimerInv, TicksExact, Expired
  <2>3. (clock - expires) \div interval \in Nat
    BY <2>1, <2>2, SMT
  <2>4. ticks' \in Nat /\ ticks' > 0 /\ ticks' = ticks + 1 + (clock - expires) \div interval
    BY <2>1, <2>2, <2>3
  <2>5. expires' = first + ticks' * interval /\ first + (ticks' - 1) * interval <= clock
    BY <2>1, <2>2, <2>4, LateRead
  <2>6. expires' \in Nat
    BY <2>2, <2>4, <2>5, SMT
  <2> QED BY <2>1, <2>2, <2>4, <2>5, <2>6, Zenon DEF TimerInv, TicksExact
<1> QED BY <1>1, <1>2, <1>3, Zenon

LEMMA TimerStep == TimerInv /\ [TNext]_tvars => TimerInv'
<1> SUFFICES ASSUME TimerInv, [TNext]_tvars PROVE TimerInv'
  BY Zenon
<1>1. CASE TClock
  <2>1. clock' = clock + 1 /\ UNCHANGED <<expires, interval, first, ticks>>
    BY <1>1, Zenon DEF TClock, settings
  <2>2. ticks > 0 => first + (ticks - 1) * interval \in Nat
    BY DEF TimerInv
  <2> QED BY <2>1, <2>2 DEF TimerInv, TicksExact
<1>2. CASE timerfd_settime
  <2>1. /\ clock' = clock /\ ticks' = 0 /\ expires' = first' /\ expires' \in Nat
        /\ interval' \in Nat
    BY <1>2, TimerAssumption, SMT DEF timerfd_settime, timerfd_deadline, TimerInv
  <2>2. \A x \in Nat : 0 * x = 0
    BY SMT
  <2>3. first' + ticks' * interval' = first'
    <3>1. first' \in Nat /\ ticks' * interval' = 0
      BY <2>1, <2>2, Zenon
    <3> QED BY <3>1
  <2>4. ~(ticks' > 0) /\ ticks' \in Nat /\ ticks' <= 1 /\ clock' \in Nat /\ first' \in Nat
    BY <2>1 DEF TimerInv
  <2>5. TicksExact'
    BY <2>1, <2>3, <2>4, Zenon DEF TicksExact
  <2> QED BY <2>1, <2>4, <2>5, Zenon DEF TimerInv
<1>3. ASSUME \/ tfd_ioctl \/ UNCHANGED tvars
             \/ \E t \in Users : TReadCall(t) \/ TKill(t) \/ TSignal(t)
      PROVE  TimerInv'
  <2>1. UNCHANGED <<clock, expires, interval, first, ticks>>
    BY <1>3, Zenon DEF tfd_ioctl, tvars, TReadCall, TKill, TSignal, settings
  <2> QED BY <2>1, Zenon DEF TimerInv, TicksExact
<1> QED BY <1>1, <1>2, <1>3, TimerRead, Zenon DEF TNext

(***************************************************************************)
(* However late the reads of a timerfd come and whoever makes them, they    *)
(* return every expiration once, and none that has not happened (tfd_read). *)
(***************************************************************************)
THEOREM ExpirationsCounted == TSpec => []TicksExact
  BY TimerInit, TimerStep, PTL DEF TSpec, TimerInv
-----------------------------------------------------------------------------
(* Sleep: while a scan is going on the cached words say nothing; the        *)
(* invariant then speaks of its local minima and of the tasks it has        *)
(* passed.  A task on its way into a sleep with its deadline published is   *)
(* covered as well.  A task on its way during a scan, and one on its way    *)
(* into a timed futex_wait, is in unseen until a scan passes it asleep.     *)
Steps == {"user", "note", "block", "block2", "note2", "futex", "alarm", "sleep", "wait"}
Scans == [at : Nat, now : Nat, next_earliest : Nat, next_alarm : Nat,
          to_wake : SUBSET Tasks, to_alarm : SUBSET Tasks]
SleepTypes ==
    /\ now \in Nat /\ earliest_wakeup \in Nat /\ earliest_alarm \in Nat
    /\ state \in [Tasks -> {"RUNNING", "READY", "BLOCKED"}] /\ step \in [Tasks -> Steps]
    /\ wakeup_time \in [Tasks -> Nat] /\ alarm_at \in [Tasks -> Nat]
    /\ alarm_interval \in [Tasks -> Nat]
    /\ scan \in Scans

Asleep(t) == wakeup_time[t] # 0 /\ (step[t] = "block" \/ (step[t] \in {"sleep", "wait"} /\ state[t] = "BLOCKED"))
SleepKept(t) ==
    Asleep(t) /\ <<t, "sleep">> \notin unseen
        => IF Scanning THEN t < scan.at => scan.next_earliest <= wakeup_time[t]
                       ELSE earliest_wakeup <= wakeup_time[t]
AlarmKept(t) ==
    step[t] # "alarm" /\ alarm_at[t] # 0 /\ <<t, "alarm">> \notin unseen
        => IF Scanning THEN t < scan.at => scan.next_alarm <= alarm_at[t]
                       ELSE earliest_alarm <= alarm_at[t]
LateKnown(t) == (Scanning /\ Publishing(t)) \/ step[t] = "futex" => <<t, Kind(step[t])>> \in unseen

SleepInv == SleepTypes /\ \A t \in Tasks : SleepKept(t) /\ AlarmKept(t) /\ LateKnown(t)

LEMMA LowerIsMin == \A x, y \in Nat : Lower(x, y) \in Nat /\ Lower(x, y) <= x /\ Lower(x, y) <= y
  BY SMTT(30) DEF Lower

LEMMA SleepInit == ZInit => SleepInv
<1> SUFFICES ASSUME ZInit PROVE SleepInv
  BY Zenon
<1>1. SleepTypes
  BY TaskAssumption, Zenon DEF ZInit, NoScan, SleepTypes, Steps, Scans, Tasks
<1>2. ~Scanning
  BY SMTT(30) DEF ZInit, NoScan, Scanning
<1> QED BY <1>1, <1>2, Zenon DEF ZInit, SleepInv, SleepKept, AlarmKept, LateKnown, Asleep

(* A step that leaves the scan alone, does not raise the words and changes  *)
(* nothing of task u.                                                       *)
LEMMA OthersKept ==
    ASSUME SleepInv, NEW u \in Tasks,
           scan' = scan, step'[u] = step[u], state'[u] = state[u],
           wakeup_time'[u] = wakeup_time[u], alarm_at'[u] = alarm_at[u],
           earliest_wakeup' \in Nat, earliest_wakeup' <= earliest_wakeup,
           earliest_alarm' \in Nat, earliest_alarm' <= earliest_alarm,
           <<u, "sleep">> \in unseen' <=> <<u, "sleep">> \in unseen,
           <<u, "alarm">> \in unseen' <=> <<u, "alarm">> \in unseen
    PROVE  SleepKept(u)' /\ AlarmKept(u)' /\ LateKnown(u)'
<1>1. SleepKept(u)'
  BY SMTT(30) DEF SleepInv, SleepTypes, SleepKept, Asleep, Scanning
<1>2. AlarmKept(u)'
  BY SMTT(60) DEF SleepInv, SleepTypes, AlarmKept, Scanning
<1>3. LateKnown(u)'
  BY SMTT(30) DEF SleepInv, LateKnown, Scanning, Publishing, Kind
<1> QED BY <1>1, <1>2, <1>3, Zenon

(* What Goes does to unseen.                                                *)
LEMMA GoesRaced ==
    ASSUME SleepTypes, NEW t \in Tasks, NEW from \in Steps, NEW to \in Steps, Goes(t, from, to)
    PROVE  /\ step[t] = from /\ step' = [step EXCEPT ![t] = to]
           /\ \A u \in Tasks \ {t} : /\ <<u, "sleep">> \in unseen' <=> <<u, "sleep">> \in unseen
                                     /\ <<u, "alarm">> \in unseen' <=> <<u, "alarm">> \in unseen
           /\ Scanning => <<t, Kind(IF from = "user" THEN to ELSE from)>> \in unseen'
           /\ \A k \in {"sleep", "alarm"} : k # Kind(IF from = "user" THEN to ELSE from)
                 => (<<t, k>> \in unseen' <=> <<t, k>> \in unseen)
           /\ to = "futex" => <<t, Kind(IF from = "user" THEN to ELSE from)>> \in unseen'
           /\ ~Scanning /\ from # "user" /\ to # "futex" => unseen' = unseen
  BY SMTT(30) DEF Goes, Kind

(* The last facts of a step of t: the others by OthersKept, t by itself.    *)
LEMMA SetDeadlineKeeps ==
    ASSUME SleepInv, NEW t \in Tasks, NEW to \in {"note", "block2", "futex"}, SetDeadline(t, to)
    PROVE  SleepInv'
<1>1. PICK ns \in Delays : wakeup_time' = [wakeup_time EXCEPT ![t] = now + ns]
  BY ZenonT(30) DEF SetDeadline
<1>2. SleepTypes /\ ns \in Nat
  BY TimeAssumption, Zenon DEF SleepInv
<1>3. /\ step[t] = "user" /\ step' = [step EXCEPT ![t] = to]
      /\ \A u \in Tasks \ {t} : /\ <<u, "sleep">> \in unseen' <=> <<u, "sleep">> \in unseen
                                /\ <<u, "alarm">> \in unseen' <=> <<u, "alarm">> \in unseen
      /\ Scanning \/ to = "futex" => <<t, "sleep">> \in unseen'
      /\ <<t, "alarm">> \in unseen' <=> <<t, "alarm">> \in unseen
  <2>1. Goes(t, "user", to) /\ "user" \in Steps /\ to \in Steps
    BY Zenon DEF SetDeadline, Steps
  <2> QED BY <1>2, <2>1, GoesRaced, Zenon DEF Kind
<1>4. SleepTypes'
  BY <1>1, <1>2, <1>3, SMTT(30) DEF SetDeadline, SleepTypes, Steps
<1>5. ASSUME NEW u \in Tasks PROVE SleepKept(u)' /\ AlarmKept(u)' /\ LateKnown(u)'
  <2>1. CASE u # t
    <3>1. /\ scan' = scan /\ step'[u] = step[u] /\ state'[u] = state[u]
          /\ wakeup_time'[u] = wakeup_time[u] /\ alarm_at'[u] = alarm_at[u]
          /\ earliest_wakeup' \in Nat /\ earliest_wakeup' <= earliest_wakeup
          /\ earliest_alarm' \in Nat /\ earliest_alarm' <= earliest_alarm
      BY <1>1, <1>2, <1>3, <2>1, SMTT(30) DEF SetDeadline, SleepTypes
    <3>2. /\ <<u, "sleep">> \in unseen' <=> <<u, "sleep">> \in unseen
          /\ <<u, "alarm">> \in unseen' <=> <<u, "alarm">> \in unseen
      BY <1>3, <2>1, Zenon
    <3> QED BY <3>1, <3>2, OthersKept, Zenon
  <2>2. CASE u = t
    <3>1. SleepKept(t)'
      BY <1>1, <1>2, <1>3, Zenon DEF SetDeadline, SleepTypes, SleepKept, Asleep
    <3>2. AlarmKept(t)'
      BY <1>1, <1>2, <1>3, Zenon DEF SetDeadline, SleepInv, SleepTypes, AlarmKept, Scanning
    <3>3. LateKnown(t)'
      BY <1>2, <1>3, Zenon DEF SetDeadline, SleepTypes, LateKnown, Scanning, Kind
    <3> QED BY <2>2, <3>1, <3>2, <3>3, Zenon
  <2> QED BY <2>1, <2>2, Zenon
<1> QED BY <1>4, <1>5, Zenon DEF SleepInv

LEMMA NoteKeeps ==
    ASSUME SleepInv, NEW t \in Tasks, NEW from \in {"note", "note2"}, NEW to \in {"block", "sleep"},
           NoteStep(t, from, to)
    PROVE  SleepInv'
<1>1. SleepTypes
  BY Zenon DEF SleepInv
<1>2. /\ earliest_wakeup' \in Nat /\ earliest_wakeup' <= earliest_wakeup
      /\ wakeup_time[t] # 0 => earliest_wakeup' <= wakeup_time[t]
  <2>1. earliest_wakeup \in Nat /\ wakeup_time[t] \in Nat
    BY <1>1, Zenon DEF SleepTypes
  <2>2. /\ Lower(earliest_wakeup, wakeup_time[t]) \in Nat
        /\ Lower(earliest_wakeup, wakeup_time[t]) <= earliest_wakeup
        /\ Lower(earliest_wakeup, wakeup_time[t]) <= wakeup_time[t]
    BY <2>1, LowerIsMin, Zenon
  <2>3. earliest_wakeup' = IF wakeup_time[t] = 0 THEN earliest_wakeup
                           ELSE Lower(earliest_wakeup, wakeup_time[t])
    BY Zenon DEF NoteStep, sched_note_wakeup
  <2> QED BY <2>1, <2>2, <2>3, SMTT(30)
<1>3. /\ step[t] = from /\ step' = [step EXCEPT ![t] = to]
      /\ \A u \in Tasks \ {t} : /\ <<u, "sleep">> \in unseen' <=> <<u, "sleep">> \in unseen
                                /\ <<u, "alarm">> \in unseen' <=> <<u, "alarm">> \in unseen
      /\ Scanning => <<t, "sleep">> \in unseen'
      /\ <<t, "alarm">> \in unseen' <=> <<t, "alarm">> \in unseen
  <2>1. Goes(t, from, to) /\ from \in Steps /\ to \in Steps
    BY Zenon DEF NoteStep, Steps
  <2> QED BY <1>1, <2>1, GoesRaced, Zenon DEF Kind
<1>4. SleepTypes'
  BY <1>1, <1>2, <1>3, Zenon DEF NoteStep, SleepTypes, Steps
<1>5. ASSUME NEW u \in Tasks PROVE SleepKept(u)' /\ AlarmKept(u)' /\ LateKnown(u)'
  <2>1. CASE u # t
    <3>1. /\ scan' = scan /\ step'[u] = step[u] /\ state'[u] = state[u]
          /\ wakeup_time'[u] = wakeup_time[u] /\ alarm_at'[u] = alarm_at[u]
          /\ earliest_wakeup' \in Nat /\ earliest_wakeup' <= earliest_wakeup
          /\ earliest_alarm' \in Nat /\ earliest_alarm' <= earliest_alarm
      BY <1>1, <1>2, <1>3, <2>1, SMTT(30) DEF NoteStep, SleepTypes
    <3>2. /\ <<u, "sleep">> \in unseen' <=> <<u, "sleep">> \in unseen
          /\ <<u, "alarm">> \in unseen' <=> <<u, "alarm">> \in unseen
      BY <1>3, <2>1, Zenon
    <3> QED BY <3>1, <3>2, OthersKept, Zenon
  <2>2. CASE u = t
    <3>1. SleepKept(t)'
      BY <1>1, <1>2, <1>3, Zenon DEF NoteStep, SleepTypes, SleepKept, Asleep, Scanning
    <3>2. AlarmKept(t)'
      BY <1>1, <1>2, <1>3, Zenon DEF NoteStep, SleepInv, SleepTypes, AlarmKept, Scanning
    <3>3. LateKnown(t)'
      BY <1>1, <1>3, Zenon DEF NoteStep, SleepTypes, LateKnown, Scanning, Kind
    <3> QED BY <2>2, <3>1, <3>2, <3>3, Zenon
  <2> QED BY <2>1, <2>2, Zenon
<1> QED BY <1>4, <1>5, Zenon DEF SleepInv

LEMMA BlockKeeps ==
    ASSUME SleepInv, NEW t \in Tasks, NEW from \in {"block", "block2", "futex"}, NEW to \in {"sleep", "note2", "wait"},
           BlockStep(t, from, to), to = "sleep" => from = "block", to = "wait" => from = "futex"
    PROVE  SleepInv'
<1>1. SleepTypes
  BY Zenon DEF SleepInv
<1>3. /\ step[t] = from /\ step' = [step EXCEPT ![t] = to]
      /\ \A u \in Tasks \ {t} : /\ <<u, "sleep">> \in unseen' <=> <<u, "sleep">> \in unseen
                                /\ <<u, "alarm">> \in unseen' <=> <<u, "alarm">> \in unseen
      /\ Scanning => <<t, "sleep">> \in unseen'
      /\ ~Scanning => unseen' = unseen
      /\ <<t, "alarm">> \in unseen' <=> <<t, "alarm">> \in unseen
  <2>1. Goes(t, from, to) /\ from \in Steps /\ to \in Steps
    BY Zenon DEF BlockStep, Steps
  <2> QED BY <1>1, <2>1, GoesRaced, Zenon DEF Kind
<1>4. SleepTypes'
  BY <1>1, <1>3, Zenon DEF BlockStep, Blocks, SleepTypes, Steps
<1>5. ASSUME NEW u \in Tasks PROVE SleepKept(u)' /\ AlarmKept(u)' /\ LateKnown(u)'
  <2>1. CASE u # t
    <3>1. /\ scan' = scan /\ step'[u] = step[u] /\ state'[u] = state[u]
          /\ wakeup_time'[u] = wakeup_time[u] /\ alarm_at'[u] = alarm_at[u]
          /\ earliest_wakeup' \in Nat /\ earliest_wakeup' <= earliest_wakeup
          /\ earliest_alarm' \in Nat /\ earliest_alarm' <= earliest_alarm
      BY <1>1, <1>3, <2>1, SMTT(30) DEF BlockStep, Blocks, SleepTypes
    <3>2. /\ <<u, "sleep">> \in unseen' <=> <<u, "sleep">> \in unseen
          /\ <<u, "alarm">> \in unseen' <=> <<u, "alarm">> \in unseen
      BY <1>3, <2>1, Zenon
    <3> QED BY <3>1, <3>2, OthersKept, Zenon
  <2>2. CASE u = t
    <3>1. SleepKept(t)'
      <4>1. CASE from = "futex"
        <5>1. <<t, "sleep">> \in unseen
          BY <1>3, <4>1, Zenon DEF SleepInv, LateKnown, Kind
        <5> QED BY <1>3, <5>1, Zenon DEF SleepKept
      <4>2. CASE from # "futex" /\ to # "wait"
        BY <1>1, <1>3, <4>2, Zenon
        DEF BlockStep, Blocks, SleepInv, SleepTypes, SleepKept, Asleep, Scanning
      <4> QED BY <4>1, <4>2, Zenon
    <3>2. AlarmKept(t)'
      BY <1>1, <1>3, Zenon DEF BlockStep, SleepInv, SleepTypes, AlarmKept, Scanning
    <3>3. LateKnown(t)'
      BY <1>1, <1>3, Zenon DEF BlockStep, SleepTypes, LateKnown, Scanning, Kind
    <3> QED BY <2>2, <3>1, <3>2, <3>3, Zenon
  <2> QED BY <2>1, <2>2, Zenon
<1> QED BY <1>4, <1>5, Zenon DEF SleepInv

LEMMA AlarmKeeps ==
    ASSUME SleepInv, NEW t \in Tasks, task_set_itimer(t)
    PROVE  SleepInv'
<1>1. SleepTypes /\ Delays \subseteq Nat /\ Intervals \subseteq Nat
  BY TimeAssumption, Zenon DEF SleepInv
<1>3. /\ \A u \in Tasks \ {t} : /\ <<u, "sleep">> \in unseen' <=> <<u, "sleep">> \in unseen
                                /\ <<u, "alarm">> \in unseen' <=> <<u, "alarm">> \in unseen
      /\ <<t, "sleep">> \in unseen' <=> <<t, "sleep">> \in unseen
      /\ step[t] \in {"user", "alarm"} /\ step'[t] \in {"user", "alarm"}
      /\ \A u \in Tasks \ {t} : step'[u] = step[u]
      /\ step' \in [Tasks -> Steps]
      /\ Scanning /\ step'[t] # step[t] => <<t, "alarm">> \in unseen'
  <2>1. CASE Goes(t, "user", "alarm")
    <3>1. {"user", "alarm"} \subseteq Steps
      BY Zenon DEF Steps
    <3> QED BY <1>1, <2>1, <3>1, GoesRaced, SMTT(30) DEF Kind, SleepTypes
  <2>2. CASE Goes(t, "alarm", "user")
    <3>1. {"user", "alarm"} \subseteq Steps
      BY Zenon DEF Steps
    <3> QED BY <1>1, <2>2, <3>1, GoesRaced, SMTT(30) DEF Kind, SleepTypes
  <2>3. CASE step[t] = "user" /\ UNCHANGED <<step, unseen>>
    BY <1>1, <2>3, Zenon DEF SleepTypes
  <2> QED BY <2>1, <2>2, <2>3, Zenon DEF task_set_itimer
<1>2. /\ alarm_at' \in [Tasks -> Nat] /\ alarm_interval' \in [Tasks -> Nat]
      /\ \A u \in Tasks \ {t} : alarm_at'[u] = alarm_at[u]
      /\ earliest_alarm' \in Nat /\ earliest_alarm' <= earliest_alarm
      /\ UNCHANGED <<now, state, wakeup_time, earliest_wakeup, scan>>
  <2>1. /\ alarm_at' \in [Tasks -> Nat] /\ alarm_interval' \in [Tasks -> Nat]
        /\ \A u \in Tasks \ {t} : alarm_at'[u] = alarm_at[u]
    BY <1>1, SMTT(30) DEF task_set_itimer, SleepTypes
  <2>2. UNCHANGED <<now, state, wakeup_time, earliest_wakeup, scan>>
    BY Zenon DEF task_set_itimer
  <2>3. earliest_alarm' \in {earliest_alarm, Lower(earliest_alarm, alarm_at[t])}
    BY Zenon DEF task_set_itimer
  <2>4. earliest_alarm' \in Nat /\ earliest_alarm' <= earliest_alarm
    <3>1. earliest_alarm \in Nat /\ alarm_at[t] \in Nat
      BY <1>1, Zenon DEF SleepTypes
    <3>2. /\ Lower(earliest_alarm, alarm_at[t]) \in Nat
          /\ Lower(earliest_alarm, alarm_at[t]) <= earliest_alarm
      BY <3>1, LowerIsMin, Zenon
    <3> QED BY <2>3, <3>1, <3>2, SMTT(30)
  <2> QED BY <2>1, <2>2, <2>4, Zenon
<1>4. SleepTypes'
  BY <1>1, <1>2, <1>3, Zenon DEF SleepTypes
<1>5. ASSUME NEW u \in Tasks PROVE SleepKept(u)' /\ AlarmKept(u)' /\ LateKnown(u)'
  <2>1. CASE u # t
    <3>1. /\ scan' = scan /\ step'[u] = step[u] /\ state'[u] = state[u]
          /\ wakeup_time'[u] = wakeup_time[u] /\ alarm_at'[u] = alarm_at[u]
          /\ earliest_wakeup' \in Nat /\ earliest_wakeup' <= earliest_wakeup
          /\ earliest_alarm' \in Nat /\ earliest_alarm' <= earliest_alarm
      BY <1>1, <1>2, <1>3, <2>1, SMTT(30) DEF SleepTypes
    <3>2. /\ <<u, "sleep">> \in unseen' <=> <<u, "sleep">> \in unseen
          /\ <<u, "alarm">> \in unseen' <=> <<u, "alarm">> \in unseen
      BY <1>3, <2>1, Zenon
    <3> QED BY <3>1, <3>2, OthersKept, Zenon
  <2>2. CASE u = t
    <3>1. SleepKept(t)'
      BY <1>1, <1>2, <1>3, Zenon DEF SleepInv, SleepTypes, SleepKept, Asleep, Scanning
    <3>2. AlarmKept(t)'
      <4>1. CASE step'[t] = "alarm" \/ alarm_at'[t] = 0
        BY <4>1, Zenon DEF AlarmKept
      <4>2. CASE step[t] = "alarm" /\ step'[t] # "alarm" /\ alarm_at'[t] # 0
        <5>1. step[t] # "user"
          BY <4>2, Zenon
        <5>2. alarm_at' = alarm_at /\ earliest_alarm' = Lower(earliest_alarm, alarm_at[t])
          BY <4>2, <5>1, Zenon DEF task_set_itimer, Goes
        <5>3. earliest_alarm' <= alarm_at'[t]
          BY <1>1, <5>2, LowerIsMin, Zenon DEF SleepTypes
        <5> QED BY <1>2, <1>3, <4>2, <5>3, Zenon DEF AlarmKept, Scanning
      <4>3. CASE step[t] # "alarm" /\ step'[t] # "alarm" /\ alarm_at'[t] # 0
        <5>1. FALSE
          BY <1>1, <1>3, <4>3, Zenon DEF task_set_itimer, Goes, SleepTypes
        <5> QED BY <5>1, Zenon
      <4> QED BY <4>1, <4>2, <4>3, Zenon
    <3>3. LateKnown(t)'
      <4>1. CASE step'[t] = step[t]
        <5>1. step[t] = "user"
          BY <1>1, <4>1, Zenon DEF task_set_itimer, Goes, SleepTypes
        <5> QED BY <4>1, <5>1, Zenon DEF LateKnown, Publishing
      <4>2. CASE step'[t] # step[t]
        BY <1>2, <1>3, <4>2, Zenon DEF LateKnown, Publishing, Scanning, Kind
      <4> QED BY <4>1, <4>2, Zenon
    <3> QED BY <2>2, <3>1, <3>2, <3>3, Zenon
  <2> QED BY <2>1, <2>2, Zenon
<1> QED BY <1>4, <1>5, Zenon DEF SleepInv

LEMMA WakeKeeps ==
    ASSUME SleepInv, NEW t \in Tasks, Interrupted(t) \/ Runs(t)
    PROVE  SleepInv'
<1>1. SleepTypes
  BY Zenon DEF SleepInv
<1>2. /\ UNCHANGED <<now, alarm_at, alarm_interval, earliest_wakeup, earliest_alarm, scan>>
      /\ state' \in [Tasks -> {"RUNNING", "READY", "BLOCKED"}] /\ wakeup_time' \in [Tasks -> Nat]
      /\ \A u \in Tasks \ {t} : wakeup_time'[u] = wakeup_time[u] /\ state'[u] = state[u]
      /\ step' \in [Tasks -> Steps] /\ \A u \in Tasks \ {t} : step'[u] = step[u]
      /\ state'[t] # "BLOCKED"
      /\ \/ step'[t] = step[t] /\ wakeup_time'[t] \in {wakeup_time[t], 0}
         \/ step'[t] = "user" /\ step[t] \in {"sleep", "wait"}
  BY <1>1, SMTT(30) DEF Interrupted, task_unblock, Runs, SleepTypes, Steps
<1>3. \A u \in Tasks : /\ u # t => (<<u, "sleep">> \in unseen' <=> <<u, "sleep">> \in unseen)
                       /\ <<u, "alarm">> \in unseen' <=> <<u, "alarm">> \in unseen
                       /\ step'[t] = step[t] => unseen' = unseen
  BY <1>1, Zenon DEF Interrupted, task_unblock, Runs, SleepTypes
<1>4. SleepTypes'
  BY <1>1, <1>2, Zenon DEF SleepTypes
<1>5. ASSUME NEW u \in Tasks PROVE SleepKept(u)' /\ AlarmKept(u)' /\ LateKnown(u)'
  <2>1. CASE u # t
    <3>1. /\ scan' = scan /\ step'[u] = step[u] /\ state'[u] = state[u]
          /\ wakeup_time'[u] = wakeup_time[u] /\ alarm_at'[u] = alarm_at[u]
          /\ earliest_wakeup' \in Nat /\ earliest_wakeup' <= earliest_wakeup
          /\ earliest_alarm' \in Nat /\ earliest_alarm' <= earliest_alarm
      BY <1>1, <1>2, <2>1, SMTT(30) DEF SleepTypes
    <3>2. /\ <<u, "sleep">> \in unseen' <=> <<u, "sleep">> \in unseen
          /\ <<u, "alarm">> \in unseen' <=> <<u, "alarm">> \in unseen
      BY <1>3, <2>1, Zenon
    <3> QED BY <3>1, <3>2, OthersKept, Zenon
  <2>2. CASE u = t
    <3>0. SleepKept(t) /\ AlarmKept(t) /\ LateKnown(t)
      BY Zenon DEF SleepInv
    <3>1. CASE step'[t] = step[t] /\ wakeup_time'[t] \in {wakeup_time[t], 0}
      <4>1. unseen' = unseen
        BY <1>3, <3>1, ZenonT(30)
      <4>2. SleepKept(t)'
        BY <1>2, <3>0, <3>1, <4>1, Zenon DEF SleepKept, Asleep, Scanning
      <4>3. AlarmKept(t)'
        BY <1>2, <3>0, <3>1, <4>1, Zenon DEF AlarmKept, Scanning
      <4>4. LateKnown(t)'
        BY <1>2, <3>0, <3>1, <4>1, Zenon DEF LateKnown, Publishing, Scanning
      <4> QED BY <2>2, <4>2, <4>3, <4>4, Zenon
    <3>2. CASE step'[t] = "user" /\ step[t] \in {"sleep", "wait"}
      <4>1. <<t, "alarm">> \in unseen' <=> <<t, "alarm">> \in unseen
        BY <1>3, ZenonT(30)
      <4>2. AlarmKept(t)'
        BY <1>2, <3>0, <3>2, <4>1, Zenon DEF AlarmKept, Scanning
      <4>3. SleepKept(t)' /\ LateKnown(t)'
        BY <3>2, Zenon DEF SleepKept, Asleep, LateKnown, Publishing
      <4> QED BY <2>2, <4>2, <4>3, Zenon
    <3> QED BY <1>2, <2>2, <3>1, <3>2, Zenon
  <2> QED BY <2>1, <2>2, Zenon
<1> QED BY <1>4, <1>5, Zenon DEF SleepInv

LEMMA StartKeeps == ASSUME SleepInv, ScanStart PROVE SleepInv'
<1>1. SleepTypes
  BY Zenon DEF SleepInv
<1>2. scan' \in Scans /\ scan'.at = 1
  <2>1. scan' = [at |-> 1, now |-> now, next_earliest |-> Never, next_alarm |-> Never,
                 to_wake |-> {}, to_alarm |-> {}]
    BY ZenonT(30) DEF ScanStart, NoScan
  <2> QED BY <1>1, <2>1, TaskAssumption, Zenon DEF SleepTypes, Scans
<1>3. /\ SleepTypes'
      /\ UNCHANGED <<step, state, wakeup_time, alarm_at>>
  BY <1>1, <1>2, Zenon DEF ScanStart, SleepTypes
<1>4. ASSUME NEW u \in Tasks PROVE SleepKept(u)' /\ AlarmKept(u)' /\ LateKnown(u)'
  <2>1. ~(u < scan'.at) /\ Scanning'
    BY <1>2, TaskAssumption, SMTT(30) DEF Tasks, Scanning
  <2>2. Publishing(u)' => <<u, Kind(step[u])>> \in unseen'
    BY <1>3, Zenon DEF ScanStart, Publishing
  <2>3. SleepKept(u)' /\ AlarmKept(u)'
    BY <2>1, Zenon DEF SleepKept, AlarmKept
  <2>4. LateKnown(u)'
    BY <1>3, <2>2, Zenon DEF LateKnown, Publishing, Kind
  <2> QED BY <2>3, <2>4, Zenon
<1> QED BY <1>3, <1>4, Zenon DEF SleepInv

LEMMA EndKeeps == ASSUME SleepInv, ScanEnd PROVE SleepInv'
<1>1. SleepTypes
  BY Zenon DEF SleepInv
<1>2. scan' \in Scans /\ ~Scanning' /\ Scanning
  <2>1. NoScan \in Scans /\ NoScan.at = 0 /\ NTasks \in Nat
    BY TaskAssumption, SMTT(30) DEF NoScan, Scans
  <2>2. scan' = NoScan /\ scan.at = NTasks + 1
    BY Zenon DEF ScanEnd
  <2> QED BY <2>1, <2>2, SMTT(60) DEF Scanning
<1>3. /\ SleepTypes'
      /\ UNCHANGED <<step, wakeup_time, alarm_at, unseen>>
      /\ earliest_wakeup' = scan.next_earliest /\ earliest_alarm' = scan.next_alarm
      /\ \A u \in Tasks : state'[u] = "BLOCKED" => state[u] = "BLOCKED"
  BY <1>1, <1>2, Zenon DEF ScanEnd, SleepTypes, Scans
<1>4. ASSUME NEW u \in Tasks PROVE SleepKept(u)' /\ AlarmKept(u)' /\ LateKnown(u)'
  <2>1. u < scan.at
    BY TaskAssumption, SMTT(30) DEF Tasks, ScanEnd
  <2>2. SleepKept(u)'
    BY <1>2, <1>3, <2>1, Zenon DEF SleepInv, SleepKept, Asleep
  <2>3. AlarmKept(u)'
    BY <1>2, <1>3, <2>1, Zenon DEF SleepInv, AlarmKept
  <2>4. LateKnown(u)'
    BY <1>2, <1>3, Zenon DEF SleepInv, LateKnown, Kind
  <2> QED BY <2>2, <2>3, <2>4, ZenonT(60)
<1> QED BY <1>3, <1>4, Zenon DEF SleepInv

LEMMA ScanKeeps == ASSUME SleepInv, NEW t \in Tasks, ScanTask(t) PROVE SleepInv'
<1> DEFINE at == IF ~AlarmDue(t) THEN alarm_at[t]
                 ELSE IF alarm_interval[t] = 0 THEN 0 ELSE scan.now + alarm_interval[t]
<1>1. SleepTypes /\ t \in Nat /\ t > 0
  BY TaskAssumption, SMTT(30) DEF SleepInv, Tasks
<1>2. at \in Nat
  BY <1>1, SMTT(30) DEF SleepTypes, Scans
<1>3. /\ NextAlarm(at) \in Nat /\ NextAlarm(at) <= scan.next_alarm
      /\ at # 0 => NextAlarm(at) <= at
  <2>1. scan.next_alarm \in Nat
    BY <1>1, Zenon DEF SleepTypes, Scans
  <2> HIDE DEF at
  <2>2. /\ Lower(scan.next_alarm, at) \in Nat /\ Lower(scan.next_alarm, at) <= scan.next_alarm
        /\ Lower(scan.next_alarm, at) <= at
    BY <1>2, <2>1, LowerIsMin, Zenon
  <2> QED BY <2>1, <2>2, SMTT(30) DEF NextAlarm
<1>4. /\ NextEarliest(t) \in Nat /\ NextEarliest(t) <= scan.next_earliest
      /\ Sleeps(t) /\ ~WakeDue(t) => NextEarliest(t) <= wakeup_time[t]
  BY <1>1, LowerIsMin, SMTT(30) DEF NextEarliest, SleepTypes, Scans
<1>5. /\ scan.at = t /\ alarm_at' = [alarm_at EXCEPT ![t] = at]
      /\ UNCHANGED <<now, step, alarm_interval, earliest_wakeup, earliest_alarm>>
      /\ unseen' = unseen \ Seen(t)
  BY Zenon DEF ScanTask
<1>s. /\ \A u \in Tasks \ {t}, k \in {"sleep", "alarm"} : <<u, k>> \in unseen' <=> <<u, k>> \in unseen
      /\ Publishing(t) /\ <<t, Kind(step[t])>> \in unseen => <<t, Kind(step[t])>> \in unseen'
  BY <1>5, Zenon DEF Seen
<1>6. /\ scan' \in Scans /\ scan'.at = t + 1
      /\ scan'.next_alarm = NextAlarm(at) /\ scan'.next_earliest = NextEarliest(t)
  <2>1. scan \in Scans
    BY <1>1, Zenon DEF SleepTypes
  <2>2. scan' = [scan EXCEPT !.at = t + 1, !.next_alarm = NextAlarm(at),
                   !.next_earliest = NextEarliest(t),
                   !.to_alarm = IF AlarmDue(t) THEN @ \cup {t} ELSE @,
                   !.to_wake = IF WakeDue(t) THEN @ \cup {t} ELSE @]
    BY Zenon DEF ScanTask
  <2> HIDE DEF at
  <2>3. scan' = [at |-> t + 1, now |-> scan.now, next_earliest |-> NextEarliest(t),
                 next_alarm |-> NextAlarm(at),
                 to_wake |-> IF WakeDue(t) THEN scan.to_wake \cup {t} ELSE scan.to_wake,
                 to_alarm |-> IF AlarmDue(t) THEN scan.to_alarm \cup {t} ELSE scan.to_alarm]
    BY <2>1, <2>2, ZenonT(30) DEF Scans
  <2>4. /\ scan.now \in Nat /\ t + 1 \in Nat
        /\ scan.to_wake \subseteq Tasks /\ scan.to_alarm \subseteq Tasks
    BY <1>1, <2>1, SMTT(30) DEF Scans
  <2>5. scan' \in Scans
    BY <1>3, <1>4, <2>3, <2>4, Zenon DEF Scans
  <2> QED BY <2>3, <2>5, Zenon
<1>7. /\ wakeup_time' \in [Tasks -> Nat] /\ state' \in [Tasks -> {"RUNNING", "READY", "BLOCKED"}]
      /\ \A u \in Tasks \ {t} : wakeup_time'[u] = wakeup_time[u] /\ state'[u] = state[u]
      /\ \/ WakeDue(t) /\ wakeup_time'[t] = 0
         \/ ~WakeDue(t) /\ wakeup_time'[t] = wakeup_time[t] /\ state'[t] = state[t]
  BY <1>1, SMTT(30) DEF ScanTask, SleepTypes
<1> HIDE DEF at
<1>8. SleepTypes'
  <2>1. alarm_at' \in [Tasks -> Nat]
    BY <1>1, <1>2, <1>5, Zenon DEF SleepTypes
  <2> QED BY <1>1, <1>5, <1>6, <1>7, <2>1, Zenon DEF SleepTypes, Scans
<1>9. Scanning /\ Scanning'
  BY <1>1, <1>5, <1>6, SMTT(30) DEF Scanning
<1>10. ASSUME NEW u \in Tasks PROVE SleepKept(u)' /\ AlarmKept(u)' /\ LateKnown(u)'
  <2>0. u \in Nat /\ scan \in Scans
    BY <1>1, TaskAssumption, SMTT(30) DEF Tasks, SleepTypes
  <2>1. LateKnown(u)'
    <3>1. LateKnown(u)
      BY Zenon DEF SleepInv
    <3>2. CASE u # t
      <4>1. Kind(step[u]) \in {"sleep", "alarm"}
        BY Zenon DEF Kind
      <4> QED BY <1>5, <1>9, <1>s, <3>1, <3>2, <4>1, Zenon DEF LateKnown, Publishing, Kind
    <3>3. CASE u = t
      BY <1>5, <1>9, <1>s, <3>1, <3>3, Zenon DEF LateKnown, Publishing, Kind
    <3> QED BY <3>2, <3>3, Zenon
  <2>2. CASE u # t
    <3>1. u < scan'.at => u < scan.at
      BY <1>1, <1>5, <1>6, <2>0, <2>2, SMTT(60)
    <3>2. /\ <<u, "sleep">> \in unseen' <=> <<u, "sleep">> \in unseen
          /\ <<u, "alarm">> \in unseen' <=> <<u, "alarm">> \in unseen
      BY <1>s, <2>2, Zenon
    <3>3. SleepKept(u)'
      BY <1>4, <1>5, <1>6, <1>7, <1>8, <1>9, <2>0, <2>2, <3>1, <3>2, SMTT(60)
      DEF SleepInv, SleepTypes, Scans, SleepKept, Asleep
    <3>4. AlarmKept(u)'
      BY <1>3, <1>5, <1>6, <1>8, <1>9, <2>0, <2>2, <3>1, <3>2, SMTT(60)
      DEF SleepInv, SleepTypes, Scans, AlarmKept
    <3> QED BY <2>1, <3>3, <3>4, Zenon
  <2>3. CASE u = t
    <3>1. SleepKept(t)'
      <4>1. CASE step[t] \in {"sleep", "wait"} /\ state'[t] = "BLOCKED"
        BY <1>4, <1>6, <1>7, <1>9, <4>1, Zenon DEF SleepKept, Asleep, Sleeps
      <4>2. CASE step[t] = "block"
        <5>1. Publishing(t) /\ Kind(step[t]) = "sleep"
          BY <4>2, Zenon DEF Publishing, Kind
        <5>2. <<t, "sleep">> \in unseen
          BY <1>9, <5>1, Zenon DEF SleepInv, LateKnown
        <5> QED BY <1>s, <5>1, <5>2, Zenon DEF SleepKept
      <4> QED BY <1>5, <4>1, <4>2, Zenon DEF SleepKept, Asleep
    <3>2. AlarmKept(t)'
      BY <1>1, <1>3, <1>5, <1>6, <1>9, Zenon DEF AlarmKept, SleepTypes
    <3> QED BY <2>1, <2>3, <3>1, <3>2, Zenon
  <2> QED BY <2>2, <2>3, Zenon
<1> QED BY <1>8, <1>10, Zenon DEF SleepInv

LEMMA SleepStep == SleepInv /\ [ZNext]_zvars => SleepInv'
<1> SUFFICES ASSUME SleepInv, [ZNext]_zvars PROVE SleepInv'
  BY Zenon
<1>1. CASE UNCHANGED zvars
  BY <1>1, Zenon DEF zvars, SleepInv, SleepTypes, SleepKept, AlarmKept, LateKnown, Asleep, Scanning,
              Publishing
<1>2. CASE Clock
  <2>1. now' \in Nat
    BY <1>2, SMTT(30) DEF Clock, SleepInv, SleepTypes
  <2>2. UNCHANGED <<state, step, wakeup_time, alarm_at, alarm_interval, earliest_wakeup,
                    earliest_alarm, scan, unseen>>
    BY <1>2, Zenon DEF Clock
  <2> QED BY <2>1, <2>2, Zenon DEF SleepInv, SleepTypes, SleepKept, AlarmKept, LateKnown, Asleep,
                            Scanning, Publishing
<1>3. ASSUME NEW t \in Tasks, sys_sleep_ns(t) \/ task_sleep_ns(t) \/ futex_wait(t)
      PROVE SleepInv'
  <2>1. CASE \E to \in {"note", "block2", "futex"} : SetDeadline(t, to)
    BY <2>1, SetDeadlineKeeps, Zenon
  <2>2. CASE NoteStep(t, "note", "block") \/ NoteStep(t, "note2", "sleep")
    BY <2>2, NoteKeeps, Zenon
  <2>3. CASE BlockStep(t, "block", "sleep") \/ BlockStep(t, "block2", "note2") \/ BlockStep(t, "futex", "wait")
    BY <2>3, BlockKeeps, Zenon
  <2> QED BY <1>3, <2>1, <2>2, <2>3, Zenon DEF sys_sleep_ns, task_sleep_ns, futex_wait
<1> QED BY <1>1, <1>2, <1>3, StartKeeps, EndKeeps, AlarmKeeps, WakeKeeps, ScanKeeps, Zenon DEF ZNext

(***************************************************************************)
(* The cached deadlines are never later than the deadline of a sleeper or   *)
(* of an alarm: sched_wakeup_sleepers does not return early past it.        *)
(* Exempt, until a scan passes the task, are a deadline published during a  *)
(* scan and the one of a timed futex_wait, which nothing publishes.         *)
(***************************************************************************)
THEOREM DeadlinesInTime == ZSpec => []DeadlinesKept
<1>1. SleepInv => DeadlinesKept
  <2> SUFFICES ASSUME SleepInv, ~Scanning, NEW t \in Tasks
               PROVE  /\ step[t] \in {"sleep", "wait"} /\ Sleeps(t) /\ <<t, "sleep">> \notin unseen
                            => earliest_wakeup <= wakeup_time[t]
                      /\ step[t] # "alarm" /\ alarm_at[t] # 0 /\ <<t, "alarm">> \notin unseen
                            => earliest_alarm <= alarm_at[t]
    BY Zenon DEF DeadlinesKept
  <2>1. SleepKept(t) /\ AlarmKept(t)
    BY Zenon DEF SleepInv
  <2> QED BY <2>1, Zenon DEF SleepKept, AlarmKept, Asleep, Sleeps
<1> QED BY SleepInit, SleepStep, <1>1, PTL DEF ZSpec
=============================================================================
