------------------------------- MODULE Signal --------------------------------
(***************************************************************************)
(* Signals to one task (kernel/src/signal/signal.c): its pending set, which *)
(* senders on other CPUs and the task itself change without a lock, its     *)
(* mask, its handlers and the frames on its user stack; the signalfd that   *)
(* takes signals away from it (syscall/io/signalfd.c); and the terminal     *)
(* read a signal interrupts (fs/devfs.c).  An update of the pending set is  *)
(* a read and a write.                                                      *)
(***************************************************************************)
EXTENDS FiniteSets, Integers, Sequences

CONSTANTS Sigs, SIGKILL, SIGCONT,
          DefaultIgnored,    \* sig_default_ignore
          Senders,
          Actions,           \* what sigaction is called with
          Masks,             \* what sigprocmask and signalfd are called with
          SFD_QUEUE, Ring,   \* Ring is KB_BUF_SIZE - 1
          MaxFrames,
          CallSets           \* the calls a task makes: sigaction, mask, signalfd, tty

ASSUME SignalAssumption ==
    /\ Sigs \subseteq Nat /\ Masks \subseteq SUBSET Sigs
    /\ Actions \subseteq [handler : {"DFL", "IGN", "fn"}, mask : SUBSET Sigs,
                         flags : SUBSET {"NODEFER", "RESETHAND"}]

VARIABLES program,           \* the calls this one makes
          sig_pending, sig_blocked,
          sigaction,         \* handler, mask and flags of every signal
          g_pending_kill,
          task,              \* where the task is; in what it sleeps; the signal it
                             \* delivers, the pending set it read, what comes after
          frames,            \* uc->mask of the frames on the user stack
          sender,            \* signal_send on another CPU
          tty,               \* ring, whether its terminal is the active one, reader
          sfd,               \* open, mask, queue, waiter
          g_asked,           \* history: the mask outside of handlers
          seen               \* history: accepted and not yet taken; an update was lost;
                             \* a wakeup came before the task was BLOCKED
gvars == <<program, sig_pending, sig_blocked, sigaction, g_pending_kill, task, frames, sender,
           tty, sfd, g_asked, seen>>

Default == [handler |-> "DFL", mask |-> {}, flags |-> {}]
GInit == /\ program \in CallSets
         /\ sig_pending = {} /\ sig_blocked = {} /\ sigaction = [s \in Sigs |-> Default]
         /\ g_pending_kill = FALSE /\ frames = <<>>
         /\ task = [at |-> "user", in |-> "tty", sig |-> 0, read |-> {}, then |-> "user"]
         /\ sender = [c \in Senders |-> [at |-> "idle", sig |-> 0, read |-> {}]]
         /\ tty = [ring |-> 0, active |-> TRUE, reader |-> FALSE, input |-> FALSE]
         /\ sfd = [open |-> FALSE, mask |-> {}, queue |-> <<>>, waiter |-> FALSE]
         /\ g_asked = {}
         /\ seen = [accepted |-> {}, lost |-> FALSE, missed |-> FALSE]

dispositions == <<sigaction, g_asked>>
masks == <<sig_blocked, frames>>
kills == <<sig_pending, g_pending_kill>>

signal_pending_deliverable == sig_pending \ sig_blocked
GGoto(at) == task' = [task EXCEPT !.at = at]

(* task_unblock of the task, which does nothing before it is BLOCKED.       *)
GUnblock == /\ task' = IF task.at = "blocked" THEN [task EXCEPT !.at = "woken"] ELSE task
            /\ seen' = IF task.at \in {"tty2", "block"} THEN [seen EXCEPT !.missed = TRUE] ELSE seen
-----------------------------------------------------------------------------
SendAt(c, at) == sender' = [sender EXCEPT ![c].at = at]

(* signalfd_deliver: the signal counts as taken even if the queue is full.  *)
ToSignalfd(sig) == sig # SIGKILL /\ sfd.open /\ sig \in sfd.mask
signalfd_deliver(sig) ==
    /\ sfd' = [sfd EXCEPT !.queue = IF Len(@) < SFD_QUEUE THEN Append(@, sig) ELSE @,
                          !.waiter = FALSE]
    /\ IF sfd.waiter THEN GUnblock ELSE UNCHANGED <<task, seen>>

signal_ignored(sig) == \/ sigaction[sig].handler = "IGN"
                       \/ sigaction[sig].handler = "DFL" /\ sig \in DefaultIgnored
Discarded(sig) == /\ sig \notin {SIGKILL, SIGCONT} /\ sig \notin sig_blocked
                  /\ signal_ignored(sig)

signal_send(c) ==
    /\ \/ /\ sender[c].at = "idle"
          /\ \E sig \in Sigs :
               \/ /\ ToSignalfd(sig) /\ signalfd_deliver(sig) /\ UNCHANGED sender
               \/ /\ ~ToSignalfd(sig)
                  /\ sender' = IF Discarded(sig) THEN sender
                               ELSE [sender EXCEPT ![c] = [at |-> "read", sig |-> sig, read |-> {}]]
                  /\ UNCHANGED <<sfd, task, seen>>
          /\ UNCHANGED kills
       \/ /\ sender[c].at = "read"
          /\ sender' = [sender EXCEPT ![c].at = "store", ![c].read = sig_pending]
          /\ UNCHANGED <<kills, sfd, task, seen>>
       \/ /\ sender[c].at = "store" /\ SendAt(c, "wake")
          /\ sig_pending' = sender[c].read \cup {sender[c].sig}
          /\ g_pending_kill' = (g_pending_kill \/ sender[c].sig = SIGKILL)
          /\ seen' = [seen EXCEPT !.accepted = @ \cup {sender[c].sig},
                                  !.lost = @ \/ sig_pending # sender[c].read]
          /\ UNCHANGED <<sfd, task>>
       \/ /\ sender[c].at = "wake" /\ sender' = [sender EXCEPT ![c] = [at |-> "idle", sig |-> 0, read |-> {}]]
          /\ IF sender[c].sig = SIGKILL \/ sender[c].sig \notin sig_blocked THEN GUnblock
             ELSE UNCHANGED <<task, seen>>
          /\ UNCHANGED <<kills, sfd>>
    /\ UNCHANGED <<dispositions, masks, tty>>
-----------------------------------------------------------------------------
(* The task calls: each call ends at "ret".                                 *)
InUser(call) == call \in program /\ task.at = "user" /\ Len(frames) < MaxFrames
sys_rt_sigaction == /\ InUser("sigaction") /\ GGoto("ret")
                    /\ \E sig \in Sigs \ {SIGKILL}, a \in Actions :
                         sigaction' = [sigaction EXCEPT ![sig] = [a EXCEPT !.mask = @ \ {SIGKILL}]]
                    /\ UNCHANGED <<kills, masks, sender, tty, sfd, g_asked, seen>>
sys_rt_sigprocmask == /\ InUser("mask") /\ GGoto("ret")
                      /\ \E s \in {m \ {SIGKILL} : m \in Masks} :
                           sig_blocked' \in {sig_blocked \cup s, sig_blocked \ s, s}
                      /\ g_asked' = IF frames = <<>> THEN sig_blocked' ELSE g_asked
                      /\ UNCHANGED <<kills, sigaction, frames, sender, tty, sfd, seen>>
sys_signalfd == /\ InUser("signalfd") /\ GGoto("ret")
                /\ \E m \in Masks : sfd' = [sfd EXCEPT !.open = TRUE, !.mask = m]
                /\ UNCHANGED <<kills, dispositions, masks, sender, tty, seen>>
sfd_unref == /\ InUser("signalfd") /\ sfd.open /\ GGoto("ret")
             /\ sfd' = [open |-> FALSE, mask |-> {}, queue |-> <<>>, waiter |-> FALSE]
             /\ UNCHANGED <<kills, dispositions, masks, sender, tty, seen>>
GReadCall == /\ \/ InUser("tty") /\ GGoto("tty")
                \/ InUser("signalfd") /\ sfd.open /\ GGoto("sfd")
             /\ UNCHANGED <<kills, dispositions, masks, sender, tty, sfd, seen>>

(* wait_for_char: look for a character and for a signal, take the reader's  *)
(* slot, look for a character again, and sleep.                             *)
NoChar == tty.ring = 0 \/ ~tty.active
InterruptedByKill == g_pending_kill
GInterrupted == g_pending_kill \/ signal_pending_deliverable # {}
wait_for_char ==
    /\ \/ /\ task.at = "tty" /\ ~NoChar /\ GGoto("ret")
          /\ tty' = [tty EXCEPT !.ring = @ - 1] /\ UNCHANGED seen
       \/ /\ task.at = "tty" /\ NoChar /\ GInterrupted /\ GGoto("ret")
          /\ UNCHANGED <<tty, seen>>
       \/ /\ task.at = "tty" /\ NoChar /\ ~GInterrupted
          /\ task' = [task EXCEPT !.at = "tty2", !.in = "tty"]
          /\ tty' = [tty EXCEPT !.reader = TRUE] /\ seen' = [seen EXCEPT !.missed = FALSE]
       \/ /\ task.at = "tty2" /\ ~NoChar /\ GGoto("tty")
          /\ tty' = [tty EXCEPT !.reader = FALSE] /\ UNCHANGED seen
       \/ /\ task.at = "tty2" /\ NoChar /\ GGoto("block") /\ UNCHANGED <<tty, seen>>
       \/ /\ task.at = "woken" /\ task.in = "tty"
          /\ GGoto(IF signal_pending_deliverable # {} THEN "ret" ELSE "tty")
          /\ tty' = [tty EXCEPT !.reader = FALSE] /\ UNCHANGED seen
    /\ UNCHANGED <<kills, dispositions, masks, sender, sfd>>

(* sfd_read looks at the queue and enters the slot under the lock.          *)
sfd_read ==
    /\ \/ /\ task.at = "sfd" /\ sfd.queue # <<>> /\ GGoto("ret")
          /\ \E n \in 1 .. Len(sfd.queue) :
               sfd' = [sfd EXCEPT !.queue = SubSeq(@, n + 1, Len(@))]
          /\ UNCHANGED seen
       \/ /\ task.at = "sfd" /\ sfd.queue = <<>>
          /\ task' = [task EXCEPT !.at = "block", !.in = "sfd"]
          /\ sfd' = [sfd EXCEPT !.waiter = TRUE] /\ seen' = [seen EXCEPT !.missed = FALSE]
       \/ /\ task.at = "woken" /\ task.in = "sfd"
          /\ GGoto(IF g_pending_kill THEN "ret" ELSE "sfd") /\ UNCHANGED <<sfd, seen>>
    /\ UNCHANGED <<kills, dispositions, masks, sender, tty>>
GBlock == /\ task.at = "block" /\ GGoto("blocked")
          /\ UNCHANGED <<kills, dispositions, masks, sender, tty, sfd, seen>>
-----------------------------------------------------------------------------
(* The end of a system call: signal_deliver_pending finds the signal, ...   *)
Lowest(sig) == \A s \in signal_pending_deliverable : sig <= s
FindSignal ==
    /\ task.at = "ret"
    /\ \/ g_pending_kill /\ GGoto("dead")
       \/ /\ ~g_pending_kill /\ signal_pending_deliverable = {}
          /\ GGoto("user")
       \/ /\ ~g_pending_kill
          /\ \E sig \in signal_pending_deliverable :
               Lowest(sig) /\ task' = [task EXCEPT !.at = "act", !.sig = sig]
    /\ UNCHANGED <<kills, dispositions, masks, sender, tty, sfd, seen>>

(* ... does what its disposition says (a handler gets a frame with the mask *)
(* as it was; without a restorer or a stack the task ends) ...              *)
Reads(then) == task' = [task EXCEPT !.at = "clear", !.read = sig_pending, !.then = then]
BlockedIn(sig) == sig_blocked \cup sigaction[sig].mask
                  \cup (IF "NODEFER" \in sigaction[sig].flags THEN {} ELSE {sig})
EnterHandler(sig) == /\ frames' = <<sig_blocked>> \o frames
                     /\ sig_blocked' = BlockedIn(sig)
ActOnSignal ==
    LET sig == task.sig  h == sigaction[sig].handler
    IN  /\ task.at = "act"
        /\ \/ /\ sig = SIGKILL \/ h = "DFL"
              /\ Reads(IF sig # SIGKILL /\ sig \in DefaultIgnored THEN "user" ELSE "dead")
              /\ UNCHANGED <<masks, sigaction>>
           \/ sig # SIGKILL /\ h = "IGN" /\ Reads("user") /\ UNCHANGED <<masks, sigaction>>
           \/ sig # SIGKILL /\ h = "fn" /\ Reads("dead") /\ UNCHANGED <<masks, sigaction>>
           \/ /\ sig # SIGKILL /\ h = "fn" /\ Reads("user") /\ EnterHandler(sig)
              /\ sigaction' = IF "RESETHAND" \in sigaction[sig].flags
                              THEN [sigaction EXCEPT ![sig].handler = "DFL"] ELSE sigaction
        /\ UNCHANGED <<kills, sender, tty, sfd, g_asked, seen>>

(* ... and takes it out of the pending set.                                 *)
RemainingBlocked == task.read \cap sig_blocked
Remaining == task.read \ {task.sig}
ClearSignal == /\ task.at = "clear"
               /\ task' = [task EXCEPT !.at = task.then, !.sig = 0, !.read = {}, !.then = "user"]
               /\ sig_pending' = Remaining
               /\ seen' = [seen EXCEPT !.accepted = @ \ {task.sig},
                                       !.lost = @ \/ sig_pending # task.read]
               /\ UNCHANGED <<g_pending_kill, dispositions, masks, sender, tty, sfd>>

(* sigreturn delivers nothing.                                              *)
sys_rt_sigreturn == /\ task.at = "user" /\ frames # <<>>
                    /\ sig_blocked' = Head(frames) /\ frames' = Tail(frames)
                    /\ GGoto(IF g_pending_kill THEN "dead" ELSE "user")
                    /\ UNCHANGED <<kills, dispositions, sender, tty, sfd, seen>>
-----------------------------------------------------------------------------
(* A key or a reply of the terminal: the character, then the reader in the  *)
(* slot.                                                                    *)
tty_vt_input ==
    /\ "tty" \in program
    /\ \/ /\ ~tty.input
          /\ tty' = [tty EXCEPT !.input = TRUE,
                                !.ring = IF @ < Ring THEN @ + 1 ELSE @]
          /\ UNCHANGED <<task, seen>>
       \/ /\ tty.input /\ tty' = [tty EXCEPT !.input = FALSE, !.reader = FALSE]
          /\ IF tty.reader THEN GUnblock ELSE UNCHANGED <<task, seen>>
    /\ UNCHANGED <<kills, dispositions, masks, sender, sfd>>

(* Another terminal becomes the active one, or this one does again, which   *)
(* wakes nobody.                                                            *)
vt_switch == /\ "tty" \in program
             /\ tty' = [tty EXCEPT !.active = ~@]
             /\ seen' = [seen EXCEPT !.missed = @ \/ (~tty.active /\ tty.ring > 0)]
             /\ UNCHANGED <<kills, dispositions, masks, sender, sfd, task>>

GNext == /\ \/ \E c \in Senders : signal_send(c)
            \/ sys_rt_sigaction \/ sys_rt_sigprocmask \/ sys_signalfd \/ sfd_unref \/ GReadCall
            \/ wait_for_char \/ sfd_read \/ GBlock
            \/ FindSignal \/ ActOnSignal \/ ClearSignal \/ sys_rt_sigreturn
            \/ tty_vt_input \/ vt_switch
         /\ UNCHANGED program
GSpec == GInit /\ [][GNext]_gvars
-----------------------------------------------------------------------------
(* "A signal raised while blocked stays pending until it is unblocked":     *)
(* what was accepted and not yet taken is what is pending, unless two       *)
(* updates of sig_pending overlapped; and once the handlers have returned   *)
(* the mask is the one the program asked for outside of them, whatever     *)
(* handlers nested and whatever they did to the mask.                       *)
SignalsKept == /\ ~seen.lost => sig_pending = seen.accepted
               /\ frames = <<>> => sig_blocked = g_asked

(* "A blocking terminal read is interrupted rather than swallowing the      *)
(* signal": a task asleep in wait_for_char has no signal to be delivered,   *)
(* nor a character to take, and one asleep in sfd_read no signal to read,   *)
(* unless it is about to be woken, or the wakeup came before it was BLOCKED *)
(* or its terminal became the active one since.                             *)
AboutToBeWoken == \E c \in Senders : sender[c].at = "wake" /\ sender[c].sig \notin sig_blocked
ReadInterrupted ==
    task.at = "blocked" /\ ~seen.missed =>
       /\ task.in = "tty" /\ ~seen.lost =>
             (~g_pending_kill /\ signal_pending_deliverable = {}) \/ AboutToBeWoken
       /\ task.in = "tty" => NoChar \/ tty.input
       /\ task.in = "sfd" => sfd.queue = <<>>
=============================================================================
