------------------------------- MODULE Journal -------------------------------
(***************************************************************************)
(* The journal of ext3 and ext4 (kernel/src/fs/jbd2.c): what ext2_mount     *)
(* replays from a log, and how a transaction reaches the disk.  The device  *)
(* has a write cache: a write is durable once a flush follows it, and when  *)
(* the machine stops the writes since the last flush survive in part, in    *)
(* order or, on some devices, in any selection.                             *)
(*                                                                         *)
(* The log found at the first mount is one another system wrote.  The       *)
(* transactions of this kernel run only if jbd2_write_enabled is set; it is *)
(* a global that nothing in the tree sets.                                  *)
(***************************************************************************)
EXTENDS Integers, Sequences, FiniteSets, SequencesExt

CONSTANTS Home,         \* the blocks a transaction changes
          Super,        \* the block of the superblock
          NoBlock,
          Magic,        \* blocks whose content begins with the journal's magic number
          s_first,
          MaxLog,       \* the largest s_maxlen
          TidMod,       \* sequence numbers are counted modulo TidMod
          MaxData,      \* txn_max_data
          OldLogs,      \* the logs found at the first mount
          jbd2_write_enabled,
          MaxTxn, MaxCrash

Log == s_first .. MaxLog - 1
OldVer == 10            \* above the numbers of the transactions found in the log
JSB == 0                \* the log block of the journal superblock
Addr == Home \cup {Super, JSB} \cup Log
NoSeq == -1             \* a block no record revokes

VARIABLES jdisk,        \* what survives: the content of every block
          pend,         \* the writes since the last flush
          inorder,      \* the device writes its cache back in order
          phase,        \* where the kernel is
          fsSb,         \* fs->sb
          staged,       \* the blocks of the current transaction, in order
          tdepth,       \* its nesting depth
          next,         \* the block to stage once txn_flush returns
          ver,          \* the number of the last change
          okHome,       \* history: the contents the home blocks may have
          cutShort,     \* history: a crash cut a recovery short
          crashes

jvars == <<jdisk, pend, inorder, phase, fsSb, staged, tdepth, next, ver, okHome, cutShort, crashes>>

Content(b, v) == [magic |-> b \in Magic, v |-> v]
Write(a, c) == [a |-> a, c |-> c]
Apply(d, ws) == FoldLeft(LAMBDA f, w : [f EXCEPT ![w.a] = w.c], d, ws)
View == Apply(jdisk, pend)
HomeOf(d) == [b \in Home |-> d[b]]

(* What may be left of the writes ws since the last flush when the machine  *)
(* stops: the first few, or any of them.                                    *)
Survivors(ws) == IF inorder THEN {SubSeq(ws, 1, n) : n \in 0..Len(ws)}
                 ELSE {SelectSeq([i \in DOMAIN ws |-> IF i \in S THEN ws[i] ELSE Write(NoBlock, 0)],
                                 LAMBDA w : w.a # NoBlock) : S \in SUBSET DOMAIN ws}
Homes(ws) == {HomeOf(Apply(jdisk, left)) : left \in Survivors(ws)}
-----------------------------------------------------------------------------
(* Sequence numbers and log positions wrap. *)
tid_geq(a, b) == (a - b) % TidMod < TidMod \div 2

wrapb(b, maxlen) == IF b >= maxlen THEN b - (maxlen - s_first) ELSE b

(* The revoke table: rev[b] is the last sequence number that revokes b.     *)
rev_set(rev, bs, seq) ==
    [b \in Home |-> IF b \in bs /\ (rev[b] = NoSeq \/ tid_geq(seq, rev[b])) THEN seq ELSE rev[b]]
rev_test(rev, b, seq) == b \in Home /\ rev[b] # NoSeq /\ tid_geq(rev[b], seq)

(* What replaying the block of a tag writes: the magic number is put back.  *)
Unescape(t, d) == [magic |-> t.escape \/ d.magic, v |-> d.v]

(* jbd2_pass: one block of the log per iteration, until the log does not    *)
(* go on.  A walk is the position, the sequence number, the revoke table    *)
(* and the writes of the replay.                                            *)
InLog(w, d, pass, end) ==
    /\ pass # "scan" => ~tid_geq(w.seq, end)
    /\ d[w.pos].type \in {"descriptor", "commit", "revoke"}
    /\ d[w.pos].seq = w.seq
PosAfter(d, p, n) == wrapb(wrapb(p + 1, d[JSB].maxlen) + n, d[JSB].maxlen)
TagWrites(w, d, tags) ==
    [i \in DOMAIN tags |-> Write(tags[i].b, Unescape(tags[i], d[PosAfter(d, w.pos, i - 1)]))]
PassStep(w, d, pass, end) ==
    IF ~InLog(w, d, pass, end) THEN [w EXCEPT !.stop = TRUE]
    ELSE LET r == d[w.pos] IN
         CASE r.type = "descriptor" ->
                [w EXCEPT !.pos = PosAfter(d, w.pos, Len(r.tags)),
                          !.out = IF pass # "replay" THEN @
                                  ELSE @ \o SelectSeq(TagWrites(w, d, r.tags),
                                                      LAMBDA x : ~rev_test(w.rev, x.a, w.seq))]
           [] r.type = "commit" ->
                [w EXCEPT !.pos = PosAfter(d, @, 0), !.seq = (@ + 1) % TidMod]
           [] r.type = "revoke" ->
                [w EXCEPT !.pos = PosAfter(d, @, 0),
                          !.rev = IF pass = "revoke" THEN rev_set(@, r.blocks, w.seq) ELSE @]
RECURSIVE Walk(_, _, _, _)
Walk(w, d, pass, end) == IF w.stop THEN w ELSE Walk(PassStep(w, d, pass, end), d, pass, end)
jbd2_pass(d, pass, jsb, end, rev) ==
    Walk([pos |-> jsb.start, seq |-> jsb.seq, rev |-> rev, out |-> <<>>, stop |-> FALSE],
         d, pass, end)

NoRev == [b \in Home |-> NoSeq]
EndSeq(d) == jbd2_pass(d, "scan", d[JSB], 0, NoRev).seq
Revoked(d) == jbd2_pass(d, "revoke", d[JSB], EndSeq(d), NoRev).rev
Replayed(d) == jbd2_pass(d, "replay", d[JSB], EndSeq(d), Revoked(d)).out
-----------------------------------------------------------------------------
(* What the log d promises: a block has the content of the last committed   *)
(* transaction that holds it, unless that one or a later one revokes it.    *)
Promised(log) ==
    LET done == DOMAIN log.txns
        has(b) == {i \in done : b \in Range(log.txns[i].blocks)}
        gone(b, i) == \E j \in done : j >= i /\ b \in log.txns[j].revokes
        last(b) == CHOOSE i \in has(b) : \A j \in has(b) : j <= i
    IN [b \in Home |-> IF has(b) = {} \/ gone(b, last(b)) THEN Content(b, 0)
                       ELSE Content(b, last(b))]

(* The log another system leaves: transactions one after the other from the *)
(* position at, then the part of one that was not committed.                *)
Records(t, i, log) ==
    LET seq == (log.seq + i - 1) % TidMod
    IN (IF t.revokes = {} THEN <<>> ELSE <<[type |-> "revoke", seq |-> seq, blocks |-> t.revokes]>>)
       \o <<[type |-> "descriptor", seq |-> seq,
             tags |-> [k \in DOMAIN t.blocks |-> [b |-> t.blocks[k], escape |-> t.blocks[k] \in Magic]]]>>
       \o [k \in DOMAIN t.blocks |-> [type |-> "data", magic |-> FALSE, v |-> i]]
       \o <<[type |-> "commit", seq |-> seq]>>
LogRecords(log) ==
    LET all == FoldLeftDomain(LAMBDA r, i : r \o Records(log.txns[i], i, log), <<>>, log.txns)
        t == log.tail
        more == IF t = <<>> THEN <<>> ELSE Front(Records(t[1], Len(log.txns) + 1, log))
    IN all \o more
OldDisk(log) ==
    LET recs == LogRecords(log)
        n == log.maxlen - s_first
        at(p) == ((p - log.at) % n) + 1
    IN [a \in Addr |->
          IF a = JSB THEN [start |-> IF recs = <<>> THEN 0 ELSE log.at, seq |-> log.seq, maxlen |-> log.maxlen]
          ELSE IF a \in Log THEN IF a < log.maxlen /\ at(a) \in DOMAIN recs THEN recs[at(a)] ELSE [type |-> "empty"]
          ELSE Content(a, 0)]

JInit == /\ \E log \in OldLogs : jdisk = OldDisk(log) /\ okHome = {Promised(log)}
         /\ pend = <<>> /\ inorder \in BOOLEAN
         /\ phase = "off" /\ fsSb = Content(Super, 0)
         /\ staged = <<>> /\ tdepth = 0 /\ next = NoBlock
         /\ ver = OldVer /\ cutShort = FALSE /\ crashes = 0
-----------------------------------------------------------------------------
(* ext2_mount: the superblock is read, then jbd2_recover.  It replays the   *)
(* log, marks it empty, and writes back the superblock it read before.      *)
ClearLog(d) == Write(JSB, [d[JSB] EXCEPT !.start = 0, !.seq = EndSeq(d)])
RecoveryClearsFirst(d) == <<ClearLog(d)>> \o Replayed(d) \o <<Write(Super, d[Super])>>
Recovery(d) == Replayed(d) \o <<ClearLog(d), Write(Super, d[Super])>>
Mount == /\ phase = "off"
         /\ fsSb' = View[Super]
         /\ IF View[JSB].start = 0
            THEN pend' = Append(pend, Write(Super, View[Super])) /\ phase' = "up"
            ELSE pend' = pend \o Recovery(View) /\ phase' = "recovered"
         /\ UNCHANGED <<jdisk, inorder, staged, tdepth, next, ver, okHome, cutShort, crashes>>

Flushed == jdisk' = View /\ pend' = <<>>
RecoverFlush == /\ phase = "recovered" /\ Flushed /\ phase' = "up"
                /\ UNCHANGED <<inorder, fsSb, staged, tdepth, next, ver, okHome, cutShort, crashes>>
-----------------------------------------------------------------------------
(* A transaction: jbd2_txn_begin, jbd2_txn_stage and jbd2_txn_stage_patch   *)
(* (the block as it will be), jbd2_txn_end.                                 *)
Idle == phase = "up" /\ jbd2_write_enabled
TxnBegin == /\ Idle /\ tdepth < 2
            /\ ver < OldVer + MaxTxn
            /\ tdepth' = tdepth + 1 /\ ver' = ver + 1
            /\ UNCHANGED <<jdisk, pend, inorder, phase, fsSb, staged, next, okHome, cutShort, crashes>>

(* txn_get: a block is in the transaction once.                             *)
Holds(b) == \E i \in DOMAIN staged : staged[i].a = b
Staged(s, b) == IF \E i \in DOMAIN s : s[i].a = b
                THEN [i \in DOMAIN s |-> IF s[i].a = b THEN Write(b, Content(b, ver)) ELSE s[i]]
                ELSE Append(s, Write(b, Content(b, ver)))
Full(b) == Len(staged) >= MaxData /\ ~Holds(b)
Once(b) == ~Holds(b) => View[b].v # ver       \* bound: a change of a block per bracket

Stage(b) == /\ Idle /\ tdepth > 0 /\ ~Full(b) /\ Once(b)
            /\ staged' = Staged(staged, b)
            /\ fsSb' = Content(Super, ver)
            /\ UNCHANGED <<jdisk, pend, inorder, phase, tdepth, next, ver, okHome, cutShort, crashes>>

(* txn_flush.  txn_stage_meta adds the superblock; then, with a flush after *)
(* each: the log, its start, the blocks in their places, the log empty.     *)
StageMeta == Append(staged, Write(Super, fsSb))
Seq0 == View[JSB].seq
StartAt(p, seq) == Write(JSB, [View[JSB] EXCEPT !.start = p, !.seq = seq])
Descriptor(s) == Write(s_first, [type |-> "descriptor", seq |-> Seq0,
                     tags |-> [i \in DOMAIN s |-> [b |-> s[i].a, escape |-> s[i].c.magic]]])
DataBlocks(s) == [i \in DOMAIN s |-> Write(s_first + i, [type |-> "data", magic |-> FALSE, v |-> s[i].c.v])]
Commit(s) == Write(s_first + 1 + Len(s), [type |-> "commit", seq |-> Seq0])
LogWrites(s) == <<Write(Super, fsSb)>> \o DataBlocks(s) \o <<Descriptor(s), Commit(s)>>

After(d, s) == HomeOf(Apply(d, SelectSeq(s, LAMBDA w : w.a \in Home)))
Fits(s) == 2 + Len(s) <= View[JSB].maxlen - s_first

FlushTxn ==
    LET s == StageMeta
    IN /\ staged' = s
       /\ IF Fits(s)
          THEN /\ pend' = pend \o LogWrites(s) /\ phase' = "log"
               /\ okHome' = Homes(pend) \cup {After(View, s)}
          ELSE /\ pend' = pend \o s /\ phase' = "written"
               /\ okHome' = Homes(pend \o s)
FlushFirst(b) == /\ Idle /\ tdepth > 0 /\ Full(b) /\ Once(b)
                 /\ FlushTxn /\ next' = b
                 /\ UNCHANGED <<jdisk, inorder, fsSb, tdepth, ver, cutShort, crashes>>
TxnEnd == /\ Idle /\ tdepth > 0
          /\ tdepth' = tdepth - 1
          /\ IF tdepth > 1 THEN UNCHANGED <<pend, phase, staged, okHome>> ELSE FlushTxn
          /\ UNCHANGED <<jdisk, inorder, fsSb, next, ver, cutShort, crashes>>

Step(p, q, ws) == /\ phase = p /\ phase' = q
                  /\ jdisk' = View /\ pend' = ws
                  /\ UNCHANGED <<inorder, fsSb, staged, tdepth, next, ver, okHome, cutShort, crashes>>
SetStart == Step("log", "start", <<StartAt(s_first, Seq0)>>)
Checkpoint == Step("start", "home", staged)
ClearStart == Step("home", "done", <<StartAt(0, (Seq0 + 1) % TidMod)>>)

(* The end of txn_flush: with the last flush, or after writes in place      *)
(* without one.  The block that found the transaction full is staged.       *)
TxnFlushed == /\ \/ phase = "done" /\ Flushed
                 \/ phase = "written" /\ UNCHANGED <<jdisk, pend>>
              /\ phase' = "up" /\ next' = NoBlock
              /\ staged' = IF next = NoBlock THEN <<>> ELSE Staged(<<>>, next)
              /\ fsSb' = IF next = NoBlock THEN fsSb ELSE Content(Super, ver)
              /\ okHome' = IF phase = "done" THEN {HomeOf(View)} ELSE okHome
              /\ UNCHANGED <<inorder, tdepth, ver, cutShort, crashes>>
-----------------------------------------------------------------------------
(* The machine stops.                                                       *)
Crash == /\ crashes < MaxCrash /\ phase # "off"
         /\ \E ws \in Survivors(pend) : jdisk' = Apply(jdisk, ws)
         /\ pend' = <<>> /\ phase' = "off" /\ crashes' = crashes + 1
         /\ staged' = <<>> /\ tdepth' = 0 /\ next' = NoBlock
         /\ cutShort' = (cutShort \/ (phase = "recovered" /\ ~inorder))
         /\ UNCHANGED <<inorder, fsSb, ver, okHome>>

JNext == \/ Mount \/ RecoverFlush \/ TxnBegin \/ TxnEnd
         \/ (\E b \in Home : Stage(b) \/ FlushFirst(b))
         \/ SetStart \/ Checkpoint \/ ClearStart \/ TxnFlushed \/ Crash
JSpec == JInit /\ [][JNext]_jvars
-----------------------------------------------------------------------------
(* After every mount the home blocks hold all of a committed transaction or *)
(* nothing of an uncommitted one, whenever the machine stopped, a recovery  *)
(* that was itself cut short included; a revoked block keeps what it has.   *)
(* Two exceptions: a transaction too large for the log, whose blocks        *)
(* txn_flush writes in their places without the log (any of them may be     *)
(* there), and a device that reorders its cache, as jbd2_recover marks the  *)
(* log empty without a flush between the replay and the mark.               *)
AllOrNothing == phase = "up" /\ ~cutShort => HomeOf(View) \in okHome
=============================================================================
