---------------------------- MODULE Transaction ----------------------------
(***************************************************************************)
(* The container-wide transaction of transaction.c.                        *)
(*                                                                         *)
(* Every mounted volume or snapshot of a container (a super_block) shares  *)
(* one copy-on-write transaction, protected by the semaphore nx_big_sem.   *)
(* A filesystem operation calls apfs_transaction_start(), changes records  *)
(* and in-memory inodes while it holds the semaphore, and then calls       *)
(* apfs_transaction_commit(), which either leaves the transaction open and *)
(* arms the delayed work t_work, or writes a new checkpoint.  Before a     *)
(* checkpoint the inodes of t_inodes are flushed one by one, and the       *)
(* semaphore is released around each iput().  Any error aborts the         *)
(* transaction and turns the whole container read-only.                    *)
(*                                                                         *)
(* Data is abstracted to operations.  Each one changes a catalog record    *)
(* (its "rec" half, written to the transaction buffers at once) and an     *)
(* in-memory inode (its "ino" half, written by apfs_update_inode()).       *)
(***************************************************************************)
EXTENDS Naturals, FiniteSets

CONSTANTS
    Threads,    \* threads that call into the filesystem
    Worker,     \* the kworker that runs t_work
    Sbs,        \* super_blocks: mounted volumes and snapshots
    SnapSbs,    \* the ones that are snapshots, mounted read-only
    Inodes,     \* inodes that operations may dirty
    Ops,        \* identities of the operations
    Kinds,      \* kinds of calls that the threads make
    None,       \* NULL
    StartsMax,  \* APFS_TRANS_STARTS_MAX
    StartsSlack,\* what an incomplete block adds to StartsMax
    MaxStarts,  \* bound: starts in one transaction
    MaxXid      \* bound: last transaction id

\* The flags of t_state.
Flags == {"FORCE_COMMIT", "DEFER_COMMIT", "COMMITTING", "INCOMPLETE_BLOCK"}

\* Calls made for user writes: plain operations, write_begin/write_end,
\* remap_file_range and the snapshot ioctl.
UserKinds == {"REG", "WRITE", "CLONE", "SNAP"}

\* Calls that force a commit: sync_fs, remount and put_super.
Syncs == {"SYNC", "REMOUNT", "UMOUNT"}

\* The rest are made by the kernel: the cleanup of orphans, and writeback
\* (write_inode and page_mkwrite).
AllKinds == UserKinds \cup Syncs \cup {"CLEAN", "DEFER"}

Codes == {"OK", "EROFS", "EIO", "ENOSPC", "EEXIST"}

ASSUME KindsAssumption == Kinds \subseteq AllKinds
ASSUME SbsAssumption == SnapSbs \subseteq Sbs /\ None \notin Sbs
ASSUME WorkerAssumption == Worker \notin Threads /\ None \notin Threads \cup {Worker}
ASSUME BoundsAssumption ==
    /\ StartsMax \in Nat /\ StartsSlack \in Nat
    /\ MaxStarts \in Nat /\ MaxXid \in Nat

Procs == Threads \cup {Worker}
Halves == {"rec", "ino"}

VARIABLES
    nx_big_sem,     \* the writer that holds the semaphore, or None
    pc,             \* where each process is
    sb,             \* super_block each process works on
    kind,           \* kind of its current call, or NONE
    ret,            \* code its call returns, once its commit succeeds
    duty,           \* operations its last call promised to make durable
    flush_err,      \* apfs_update_inode() failed during its flush
    vol_list,       \* mounted super_blocks
    s_rdonly,       \* super_blocks with SB_RDONLY set
    nx_readwrite,   \* APFS_READWRITE is set in nx_flags
    nx_eph_list,    \* the ephemeral objects were read
    nx_xid,
    vsb_xid,        \* o_xid of each volume superblock in memory
    t_state,
    t_starts_count,
    t_inodes,       \* inodes that joined the transaction
    i_dirty,        \* operations whose inode change is only in memory
    t_buffers,      \* halves of operations in the transaction buffers
    t_work,         \* state of the delayed work
    t_work_sb,
    disk,           \* halves of operations in the latest valid checkpoint
    disk_xid        \* transaction id of that checkpoint

procVars == <<pc, sb, kind, ret, duty, flush_err>>
mountVars == <<vol_list, s_rdonly, nx_readwrite, nx_eph_list>>
workVars == <<t_work, t_work_sb>>
diskVars == <<disk, disk_xid>>
transVars == <<nx_xid, vsb_xid, t_state, t_starts_count, t_inodes, i_dirty, t_buffers>>
vars == <<nx_big_sem, procVars, mountVars, transVars, workVars, diskVars>>

\* Places where a process holds nx_big_sem.
LockedPCs == {"in", "commit", "flush", "finish", "abort", "snapflush", "snap"}

\* flush/window and finish are inside apfs_transaction_commit_nx(); snapflush,
\* snapwindow and snap are inside apfs_do_ioc_take_snapshot(); drop is the tail
\* of apfs_transaction_abort(); work is in apfs_trans_commit_work(), cancelled
\* and umount in apfs_put_super() and remount in apfs_remount().
PCs == LockedPCs \cup
    {"idle", "window", "snapwindow", "drop", "work", "cancelled", "umount", "remount"}

\* Every variable has its type.  In particular no path through the aborts of
\* transaction.c decrements nx_xid below zero.
TypeOK ==
    /\ nx_big_sem \in Procs \cup {None}
    /\ pc \in [Procs -> PCs]
    /\ sb \in [Procs -> Sbs \cup {None}]
    /\ kind \in [Procs -> AllKinds \cup {"WORK", "NONE"}]
    /\ ret \in [Procs -> Codes]
    /\ duty \in [Procs -> SUBSET Ops]
    /\ flush_err \in [Procs -> BOOLEAN]
    /\ vol_list \in SUBSET Sbs
    /\ s_rdonly \in SUBSET Sbs
    /\ nx_readwrite \in BOOLEAN
    /\ nx_eph_list \in BOOLEAN
    /\ nx_xid \in Nat
    /\ vsb_xid \in [Sbs -> Nat]
    /\ t_state \in SUBSET Flags
    /\ t_starts_count \in Nat
    /\ t_inodes \in SUBSET Inodes
    /\ i_dirty \in [Inodes -> SUBSET Ops]
    /\ t_buffers \in SUBSET (Ops \X Halves)
    /\ t_work \in {"idle", "queued"}
    /\ t_work_sb \in Sbs \cup {None}
    /\ disk \in SUBSET (Ops \X Halves)
    /\ disk_xid \in Nat

\* A container that was just mounted; the latest checkpoint has id 1.
Init ==
    /\ nx_big_sem = None
    /\ pc = [p \in Procs |-> "idle"]
    /\ sb = [p \in Procs |-> None]
    /\ kind = [p \in Procs |-> "NONE"]
    /\ ret = [p \in Procs |-> "OK"]
    /\ duty = [p \in Procs |-> {}]
    /\ flush_err = [p \in Procs |-> FALSE]
    /\ vol_list = Sbs
    /\ s_rdonly = SnapSbs
    /\ nx_readwrite = TRUE
    /\ nx_eph_list = FALSE
    /\ nx_xid = 1
    /\ vsb_xid = [s \in Sbs |-> 1]
    /\ t_state = {}
    /\ t_starts_count = 0
    /\ t_inodes = {}
    /\ i_dirty = [i \in Inodes |-> {}]
    /\ t_buffers = {}
    /\ t_work = "idle"
    /\ t_work_sb = None
    /\ disk = {}
    /\ disk_xid = 1

\* Operations whose two halves are in memory or on disk.
Applied == {o \in Ops : /\ <<o, "rec">> \in t_buffers \cup disk
                        /\ \/ <<o, "ino">> \in t_buffers \cup disk
                           \/ \E i \in Inodes : o \in i_dirty[i]}

\* Operations that survive a crash as a whole.
Durable == {o \in Ops : {o} \X Halves \subseteq disk}
----------------------------------------------------------------------------
\* A call of kind k for super_block s returns.  Whatever the outcome, put_super
\* goes on to release the super_block.
Return(t, s, k, code) ==
    /\ pc' = [pc EXCEPT ![t] = "idle"]
    /\ sb' = [sb EXCEPT ![t] = None]
    /\ kind' = [kind EXCEPT ![t] = "NONE"]
    /\ ret' = [ret EXCEPT ![t] = code]
    /\ vol_list' = IF k = "UMOUNT" THEN vol_list \ {s} ELSE vol_list

\* apfs_transaction_commit() or apfs_transaction_abort() return to the caller; a
\* remount goes on to set its flag if the sync succeeded.
Finish(t) ==
    IF kind[t] = "REMOUNT" /\ ret[t] = "OK"
    THEN pc' = [pc EXCEPT ![t] = "remount"] /\ UNCHANGED <<sb, kind, ret, vol_list>>
    ELSE Return(t, sb[t], kind[t], ret[t])

(***************************************************************************)
(* apfs_transaction_start(): its callers and its outcomes.                 *)
(***************************************************************************)
\* What the VFS keeps apart: nothing uses a super_block that is being unmounted,
\* and no user writes run during a remount.
Excludes(running, k) ==
    \/ running = "UMOUNT"
    \/ running = "REMOUNT" /\ k \in UserKinds
    \/ running \in UserKinds /\ k = "REMOUNT"

\* Thread t may call with kind k for super_block s, and takes nx_big_sem.
MayStart(t, s, k) ==
    /\ nx_big_sem = None
    /\ s \in vol_list
    /\ IF k = "UMOUNT"
       THEN pc[t] = "umount" /\ sb[t] = s
       ELSE /\ pc[t] = "idle"
            /\ k \in Kinds
            /\ \A u \in Threads : pc[u] # "idle" /\ sb[u] = s => ~Excludes(kind[u], k)
    /\ flush_err' = [flush_err EXCEPT ![t] = FALSE]

\* A sync promises all that was done before it.
Promise(t, k) ==
    duty' = [duty EXCEPT ![t] = IF k \in Syncs THEN Applied ELSE {}]

\* The start fails and the semaphore is released, with no transaction to abort.
StartReturns(t, s, k, code) ==
    /\ Return(t, s, k, code)
    /\ UNCHANGED <<nx_big_sem, transVars, workVars, diskVars>>

StartReadonly(t, s, k) ==
    /\ MayStart(t, s, k)
    /\ Promise(t, k)
    /\ s \in s_rdonly
    /\ StartReturns(t, s, k, "EROFS")
    /\ UNCHANGED <<s_rdonly, nx_readwrite, nx_eph_list>>

\* apfs_read_ephemeral_objects() fails: out of memory before anything is read,
\* or a bad checkpoint mapping, which forces the container read-only.
StartEphemeralError(t, s, k) ==
    /\ MayStart(t, s, k)
    /\ Promise(t, k)
    /\ s \notin s_rdonly
    /\ ~nx_eph_list
    /\ \/ UNCHANGED <<s_rdonly, nx_readwrite, nx_eph_list>>
       \/ /\ s_rdonly' = s_rdonly \cup vol_list
          /\ nx_readwrite' = FALSE
          /\ nx_eph_list' = TRUE
    /\ StartReturns(t, s, k, "EIO")

\* The part of the start that all the remaining outcomes share.
StartXid(t, s, k) ==
    /\ MayStart(t, s, k)
    /\ s \notin s_rdonly
    /\ t_starts_count = 0 => nx_xid < MaxXid \/ k = "UMOUNT"
    /\ nx_big_sem' = t
    /\ sb' = [sb EXCEPT ![t] = s]
    /\ kind' = [kind EXCEPT ![t] = k]
    /\ nx_eph_list' = TRUE
    /\ nx_xid' = IF t_starts_count = 0 THEN nx_xid + 1 ELSE nx_xid
    /\ UNCHANGED <<vol_list, s_rdonly, nx_readwrite, t_inodes, i_dirty, workVars, diskVars>>

\* apfs_read_spaceman() fails in a new transaction, or the copy-on-write of
\* the volume superblock, the object map or the catalog root does.
StartError(t, s, k) ==
    /\ StartXid(t, s, k)
    /\ t_starts_count = 0
    /\ Promise(t, k)
    /\ pc' = [pc EXCEPT ![t] = "abort"]
    /\ ret' = [ret EXCEPT ![t] = "EIO"]
    /\ UNCHANGED <<vsb_xid, t_state, t_starts_count, t_buffers>>

\* !apfs_transaction_has_room(): commit what there is and report ENOSPC.  A sync
\* needs no room at all in a transaction that already started.
StartNoRoom(t, s, k) ==
    /\ StartXid(t, s, k)
    /\ k \in Syncs => t_starts_count = 0
    /\ duty' = [duty EXCEPT ![t] = {}]
    /\ t_state' = t_state \cup {"FORCE_COMMIT"}
    /\ pc' = [pc EXCEPT ![t] = "commit"]
    /\ ret' = [ret EXCEPT ![t] = "ENOSPC"]
    /\ UNCHANGED <<vsb_xid, t_starts_count, t_buffers>>

\* Only the first start of a transaction copies the volume superblock.
StartOK(t, s, k) ==
    /\ StartXid(t, s, k)
    /\ t_starts_count < MaxStarts \/ k = "UMOUNT"
    /\ Promise(t, k)
    /\ vsb_xid' = IF t_starts_count = 0 THEN [vsb_xid EXCEPT ![s] = nx_xid'] ELSE vsb_xid
    /\ t_starts_count' = t_starts_count + 1
    /\ pc' = [pc EXCEPT ![t] = "in"]
    /\ ret' = [ret EXCEPT ![t] = "OK"]
    /\ UNCHANGED <<t_state, t_buffers>>
----------------------------------------------------------------------------
(***************************************************************************)
(* What an operation does while it holds nx_big_sem, up to its call of     *)
(* apfs_transaction_commit().                                              *)
(***************************************************************************)
\* The flags that a caller of this kind sets in t_state before its commit.
CallerFlags(k) ==
    CASE k = "WRITE" -> {t_state \cup {"INCOMPLETE_BLOCK"}, t_state \ {"INCOMPLETE_BLOCK"}}
      [] k = "DEFER" -> {t_state \cup {"DEFER_COMMIT"}}
      [] k \in Syncs \cup {"CLONE", "SNAP"} -> {t_state \cup {"FORCE_COMMIT"}}
      [] OTHER -> {t_state}

CallCommit(t) ==
    /\ t_state' \in CallerFlags(kind[t])
    /\ pc' = [pc EXCEPT ![t] = "commit"]

Fresh(o) == <<o, "rec">> \notin t_buffers \cup disk

\* apfs_inode_join_transaction()
InodeJoin(i) == t_inodes' = t_inodes \cup {i}

\* The halves of an operation that become part of the transaction.  Nodes are
\* taken to belong to it already if they have the current nx_xid, or if they are
\* the roots that its first start copied.  So both halves join, unless the
\* checkpoint of that id is written and nothing started since, or the roots are
\* those of another volume; then some changes are made in place, to old blocks.
Joins(t) ==
    IF t_starts_count > 0 /\ vsb_xid[sb[t]] = nx_xid THEN {Halves} ELSE SUBSET Halves

\* An operation changes records and an inode, and the inode joins.
Operate(t, o, i) ==
    /\ pc[t] = "in"
    /\ kind[t] \in {"REG", "WRITE", "CLONE", "CLEAN", "DEFER"}
    /\ Fresh(o)
    /\ \E joined \in Joins(t) :
        /\ t_buffers' = t_buffers \cup ({o} \X (joined \cap {"rec"}))
        /\ i_dirty' = [i_dirty EXCEPT ![i] = IF "ino" \in joined THEN @ \cup {o} ELSE @]
    /\ InodeJoin(i)
    /\ duty' = [duty EXCEPT ![t] = IF kind[t] = "CLONE" THEN {o} ELSE @]
    /\ CallCommit(t)
    /\ UNCHANGED <<nx_big_sem, sb, kind, ret, flush_err, mountVars, nx_xid, vsb_xid,
                   t_starts_count, workVars, diskVars>>

\* An operation that finds nothing to change; for a sync, the usual case.
OperateNothing(t) ==
    /\ pc[t] = "in"
    /\ kind[t] # "SNAP"
    /\ CallCommit(t)
    /\ UNCHANGED <<nx_big_sem, sb, kind, ret, duty, flush_err, mountVars, nx_xid, vsb_xid,
                   t_starts_count, t_inodes, i_dirty, t_buffers, workVars, diskVars>>

\* apfs_update_inode() writes the changes of an in-memory inode to its record.
UpdateInode(i) ==
    /\ t_buffers' = t_buffers \cup (i_dirty[i] \X {"ino"})
    /\ i_dirty' = [i_dirty EXCEPT ![i] = {}]

\* apfs_write_inode()
WriteInode(t, i) ==
    /\ pc[t] = "in"
    /\ kind[t] = "DEFER"
    /\ UpdateInode(i)
    /\ CallCommit(t)
    /\ UNCHANGED <<nx_big_sem, sb, kind, ret, duty, flush_err, mountVars, nx_xid, vsb_xid,
                   t_starts_count, t_inodes, workVars, diskVars>>

\* Mutant of OperateError: the caller commits what is left of the operation.
OperateErrorCommits(t, o) ==
    /\ pc[t] = "in"
    /\ kind[t] \notin Syncs
    /\ Fresh(o)
    /\ t_buffers' = t_buffers \cup {<<o, "rec">>}
    /\ CallCommit(t)
    /\ ret' = [ret EXCEPT ![t] = "EIO"]
    /\ UNCHANGED <<nx_big_sem, sb, kind, duty, flush_err, mountVars, nx_xid, vsb_xid,
                   t_starts_count, t_inodes, i_dirty, workVars, diskVars>>

\* An operation fails, perhaps halfway, and its caller aborts the transaction.
OperateError(t, o) ==
    /\ pc[t] = "in"
    /\ kind[t] \notin Syncs
    /\ \/ UNCHANGED t_buffers
       \/ Fresh(o) /\ t_buffers' = t_buffers \cup {<<o, "rec">>}
    /\ pc' = [pc EXCEPT ![t] = "abort"]
    /\ ret' = [ret EXCEPT ![t] = "EIO"]
    /\ UNCHANGED <<nx_big_sem, sb, kind, duty, flush_err, mountVars, nx_xid, vsb_xid,
                   t_state, t_starts_count, t_inodes, i_dirty, workVars, diskVars>>

\* apfs_do_ioc_take_snapshot(): the name is in use, or the inodes get flushed.
SnapshotNameCheck(t) ==
    /\ pc[t] = "in"
    /\ kind[t] = "SNAP"
    /\ \/ /\ pc' = [pc EXCEPT ![t] = "commit"]
          /\ ret' = [ret EXCEPT ![t] = "EEXIST"]
       \/ /\ pc' = [pc EXCEPT ![t] = "snapflush"]
          /\ UNCHANGED ret
    /\ UNCHANGED <<nx_big_sem, sb, kind, duty, flush_err, mountVars, transVars, workVars, diskVars>>

\* The records of the snapshot.
SnapshotCreate(t, o) ==
    /\ pc[t] = "snap"
    /\ Fresh(o)
    /\ \E joined \in Joins(t) : t_buffers' = t_buffers \cup ({o} \X joined)
    /\ duty' = [duty EXCEPT ![t] = {o}]
    /\ CallCommit(t)
    /\ UNCHANGED <<nx_big_sem, sb, kind, ret, flush_err, mountVars, nx_xid, vsb_xid,
                   t_starts_count, t_inodes, i_dirty, workVars, diskVars>>

SnapshotError(t) ==
    /\ pc[t] = "snap"
    /\ pc' = [pc EXCEPT ![t] = "abort"]
    /\ ret' = [ret EXCEPT ![t] = "EIO"]
    /\ UNCHANGED <<nx_big_sem, sb, kind, duty, flush_err, mountVars, transVars, workVars, diskVars>>
----------------------------------------------------------------------------
(***************************************************************************)
(* apfs_transaction_commit().                                              *)
(***************************************************************************)
\* Mutant of NeedCommit: COMMITTING isn't checked.
NeedCommitNested(over) ==
    /\ "DEFER_COMMIT" \notin t_state
    /\ "FORCE_COMMIT" \in t_state \/ t_starts_count > StartsMax \/ over

\* apfs_transaction_need_commit(); over says that a limit of the buffers or of
\* the free queues was crossed.
NeedCommit(over) ==
    /\ "DEFER_COMMIT" \notin t_state
    /\ "COMMITTING" \notin t_state
    /\ \/ "FORCE_COMMIT" \in t_state
       \/ t_starts_count > StartsMax + (IF "INCOMPLETE_BLOCK" \in t_state THEN StartsSlack ELSE 0)
       \/ over

\* Mutant of CommitLater: t_work isn't queued.
CommitLaterForgets(t, over) ==
    /\ pc[t] = "commit"
    /\ ~NeedCommit(over)
    /\ t_state' = t_state \ {"DEFER_COMMIT"}
    /\ nx_big_sem' = None
    /\ Finish(t)
    /\ UNCHANGED <<duty, flush_err, s_rdonly, nx_readwrite, nx_eph_list, nx_xid, workVars,
                   vsb_xid, t_starts_count, t_inodes, i_dirty, t_buffers, diskVars>>

\* No commit is needed: the transaction stays open, and t_work will commit it.
CommitLater(t, over) ==
    /\ pc[t] = "commit"
    /\ ~NeedCommit(over)
    /\ t_state' = t_state \ {"DEFER_COMMIT"}
    /\ t_work_sb' = sb[t]
    /\ t_work' = "queued"
    /\ nx_big_sem' = None
    /\ Finish(t)
    /\ UNCHANGED <<duty, flush_err, s_rdonly, nx_readwrite, nx_eph_list, nx_xid,
                   vsb_xid, t_starts_count, t_inodes, i_dirty, t_buffers, diskVars>>

CommitNow(t, over) ==
    /\ pc[t] = "commit"
    /\ NeedCommit(over)
    /\ t_state' = IF "FORCE_COMMIT" \in t_state THEN {} ELSE t_state
    /\ pc' = [pc EXCEPT ![t] = "flush"]
    /\ UNCHANGED <<nx_big_sem, sb, kind, ret, duty, flush_err, mountVars, nx_xid, vsb_xid,
                   t_starts_count, t_inodes, i_dirty, t_buffers, workVars, diskVars>>

(***************************************************************************)
(* apfs_transaction_flush_all_inodes(), one turn of its loop at a time.    *)
(***************************************************************************)
WindowOf(at) == IF at = "flush" THEN "window" ELSE "snapwindow"
FlushOf(at) == IF at = "window" THEN "flush" ELSE "snapflush"

\* The inode is delisted before the semaphore is released for iput().
FlushInode(t, i) ==
    /\ pc[t] \in {"flush", "snapflush"}
    /\ i \in t_inodes
    /\ \/ UpdateInode(i) /\ UNCHANGED flush_err
       \/ UNCHANGED <<t_buffers, i_dirty>> /\ flush_err' = [flush_err EXCEPT ![t] = TRUE]
    /\ t_inodes' = t_inodes \ {i}
    /\ t_state' = t_state \cup {"COMMITTING"}
    /\ nx_big_sem' = None
    /\ pc' = [pc EXCEPT ![t] = WindowOf(pc[t])]
    /\ UNCHANGED <<sb, kind, ret, duty, mountVars, nx_xid, vsb_xid, t_starts_count, workVars, diskVars>>

\* Mutant of FlushRelock: an abort during iput() goes unnoticed.
FlushRelockBlind(t) ==
    /\ pc[t] \in {"window", "snapwindow"}
    /\ nx_big_sem = None
    /\ nx_big_sem' = t
    /\ t_state' = {}
    /\ pc' = [pc EXCEPT ![t] = FlushOf(pc[t])]
    /\ UNCHANGED <<sb, kind, ret, duty, flush_err, mountVars, nx_xid, vsb_xid, t_starts_count,
                   t_inodes, i_dirty, t_buffers, workVars, diskVars>>

\* After iput(); the transaction may have been aborted meanwhile.
FlushRelock(t) ==
    /\ pc[t] \in {"window", "snapwindow"}
    /\ nx_big_sem = None
    /\ nx_big_sem' = t
    /\ t_state' = {}
    /\ IF sb[t] \in s_rdonly
       THEN /\ pc' = [pc EXCEPT ![t] = "abort"]
            /\ ret' = [ret EXCEPT ![t] = "EROFS"]
       ELSE /\ pc' = [pc EXCEPT ![t] = FlushOf(pc[t])]
            /\ UNCHANGED ret
    /\ UNCHANGED <<sb, kind, duty, flush_err, mountVars, nx_xid, vsb_xid, t_starts_count,
                   t_inodes, i_dirty, t_buffers, workVars, diskVars>>

\* Mutant of FlushDone: the errors of apfs_update_inode() are ignored.
FlushDoneBlind(t) ==
    /\ pc[t] \in {"flush", "snapflush"}
    /\ t_inodes = {}
    /\ pc' = [pc EXCEPT ![t] = IF pc[t] = "flush" THEN "finish" ELSE "snap"]
    /\ UNCHANGED <<nx_big_sem, sb, kind, ret, duty, flush_err, mountVars, transVars, workVars, diskVars>>

FlushDone(t) ==
    /\ pc[t] \in {"flush", "snapflush"}
    /\ t_inodes = {}
    /\ IF flush_err[t]
       THEN /\ pc' = [pc EXCEPT ![t] = "abort"]
            /\ ret' = [ret EXCEPT ![t] = "EIO"]
       ELSE /\ pc' = [pc EXCEPT ![t] = IF pc[t] = "flush" THEN "finish" ELSE "snap"]
            /\ UNCHANGED ret
    /\ UNCHANGED <<nx_big_sem, sb, kind, duty, flush_err, mountVars, transVars, workVars, diskVars>>

(***************************************************************************)
(* The rest of apfs_transaction_commit_nx(): the free queues, the bitmaps  *)
(* of the internal pool, the ephemeral objects, the buffers, and at last   *)
(* the checkpoint superblock.                                              *)
(***************************************************************************)
\* Mutant of Checkpoint: the superblock keeps its old transaction id.
CheckpointOldXid ==
    /\ disk' = disk \cup t_buffers
    /\ t_buffers' = {}
    /\ UNCHANGED disk_xid

Checkpoint ==
    /\ disk' = disk \cup t_buffers
    /\ disk_xid' = nx_xid
    /\ t_buffers' = {}

\* Mutant of FinishOK: t_starts_count isn't reset.
FinishOKNoReset(t) ==
    /\ pc[t] = "finish"
    /\ Checkpoint
    /\ t_work_sb' = None
    /\ t_work' = "idle"
    /\ nx_big_sem' = None
    /\ Finish(t)
    /\ UNCHANGED <<duty, flush_err, s_rdonly, nx_readwrite, nx_eph_list, nx_xid,
                   vsb_xid, t_state, t_starts_count, t_inodes, i_dirty>>

FinishOK(t) ==
    /\ pc[t] = "finish"
    /\ Checkpoint
    /\ t_starts_count' = 0
    /\ t_work_sb' = None
    /\ t_work' = "idle"
    /\ nx_big_sem' = None
    /\ Finish(t)
    /\ UNCHANGED <<duty, flush_err, s_rdonly, nx_readwrite, nx_eph_list, nx_xid,
                   vsb_xid, t_state, t_inodes, i_dirty>>

\* Some write fails; it may be the one that follows the checkpoint superblock.
FinishError(t) ==
    /\ pc[t] = "finish"
    /\ Checkpoint \/ UNCHANGED <<t_buffers, diskVars>>
    /\ pc' = [pc EXCEPT ![t] = "abort"]
    /\ ret' = [ret EXCEPT ![t] = "EIO"]
    /\ UNCHANGED <<nx_big_sem, sb, kind, duty, flush_err, mountVars, nx_xid, vsb_xid, t_state,
                   t_starts_count, t_inodes, i_dirty, workVars>>
----------------------------------------------------------------------------
(***************************************************************************)
(* apfs_transaction_abort().                                               *)
(***************************************************************************)
\* The super_block is already read-only.
AbortAgain(t) ==
    /\ pc[t] = "abort"
    /\ sb[t] \in s_rdonly
    /\ nx_big_sem' = None
    /\ Finish(t)
    /\ UNCHANGED <<duty, flush_err, s_rdonly, nx_readwrite, nx_eph_list, transVars,
                   workVars, diskVars>>

\* Mutant of AbortFirst: no apfs_force_readonly().
AbortFirstWritable(t) ==
    /\ pc[t] = "abort"
    /\ sb[t] \notin s_rdonly
    /\ t_state' = {}
    /\ nx_xid' = nx_xid - 1
    /\ t_buffers' = {}
    /\ nx_big_sem' = None
    /\ pc' = [pc EXCEPT ![t] = "drop"]
    /\ UNCHANGED <<sb, kind, ret, duty, flush_err, mountVars, vsb_xid, t_starts_count,
                   t_inodes, i_dirty, workVars, diskVars>>

\* Mutant of AbortFirst: apfs_force_readonly() only changes one super_block.
AbortFirstOne(t) ==
    /\ pc[t] = "abort"
    /\ sb[t] \notin s_rdonly
    /\ t_state' = {}
    /\ nx_xid' = nx_xid - 1
    /\ t_buffers' = {}
    /\ s_rdonly' = s_rdonly \cup {sb[t]}
    /\ nx_readwrite' = FALSE
    /\ nx_big_sem' = None
    /\ pc' = [pc EXCEPT ![t] = "drop"]
    /\ UNCHANGED <<sb, kind, ret, duty, flush_err, vol_list, nx_eph_list, vsb_xid,
                   t_starts_count, t_inodes, i_dirty, workVars, diskVars>>

\* apfs_force_readonly() changes all mounted super_blocks.
AbortFirst(t) ==
    /\ pc[t] = "abort"
    /\ sb[t] \notin s_rdonly
    /\ t_state' = {}
    /\ nx_xid' = nx_xid - 1
    /\ t_buffers' = {}
    /\ s_rdonly' = s_rdonly \cup vol_list
    /\ nx_readwrite' = FALSE
    /\ nx_big_sem' = None
    /\ pc' = [pc EXCEPT ![t] = "drop"]
    /\ UNCHANGED <<sb, kind, ret, duty, flush_err, vol_list, nx_eph_list, vsb_xid,
                   t_starts_count, t_inodes, i_dirty, workVars, diskVars>>

\* The inodes are dropped one by one after the semaphore was released.
AbortDropInode(t, i) ==
    /\ pc[t] = "drop"
    /\ i \in t_inodes
    /\ t_inodes' = t_inodes \ {i}
    /\ UNCHANGED <<nx_big_sem, procVars, mountVars, nx_xid, vsb_xid, t_state, t_starts_count,
                   i_dirty, t_buffers, workVars, diskVars>>

AbortDone(t) ==
    /\ pc[t] = "drop"
    /\ t_inodes = {}
    /\ Finish(t)
    /\ UNCHANGED <<nx_big_sem, duty, flush_err, s_rdonly, nx_readwrite, nx_eph_list,
                   transVars, workVars, diskVars>>
----------------------------------------------------------------------------
(***************************************************************************)
(* apfs_trans_commit_work(): t_work_sb is read before nx_big_sem is taken. *)
(***************************************************************************)
WorkBegin ==
    /\ t_work = "queued"
    /\ pc[Worker] = "idle"
    /\ t_work' = "idle"
    /\ sb' = [sb EXCEPT ![Worker] = t_work_sb]
    /\ kind' = [kind EXCEPT ![Worker] = "WORK"]
    /\ pc' = [pc EXCEPT ![Worker] = "work"]
    /\ UNCHANGED <<nx_big_sem, ret, duty, flush_err, mountVars, transVars, t_work_sb, diskVars>>

WorkSkip ==
    /\ pc[Worker] = "work"
    /\ nx_big_sem = None
    /\ sb[Worker] \in s_rdonly \cup {None}
    /\ Return(Worker, sb[Worker], "WORK", "OK")
    /\ UNCHANGED <<nx_big_sem, duty, flush_err, s_rdonly, nx_readwrite, nx_eph_list, transVars, workVars, diskVars>>

\* Mutant of WorkCommit: the worker doesn't look at SB_RDONLY.
WorkCommitBlind ==
    /\ pc[Worker] = "work"
    /\ nx_big_sem = None
    /\ sb[Worker] # None
    /\ nx_big_sem' = Worker
    /\ t_state' = t_state \cup {"FORCE_COMMIT"}
    /\ pc' = [pc EXCEPT ![Worker] = "commit"]
    /\ ret' = [ret EXCEPT ![Worker] = "OK"]
    /\ flush_err' = [flush_err EXCEPT ![Worker] = FALSE]
    /\ UNCHANGED <<sb, kind, duty, mountVars, nx_xid, vsb_xid, t_starts_count, t_inodes,
                   i_dirty, t_buffers, workVars, diskVars>>

WorkCommit ==
    /\ pc[Worker] = "work"
    /\ nx_big_sem = None
    /\ sb[Worker] \notin s_rdonly \cup {None}
    /\ nx_big_sem' = Worker
    /\ t_state' = t_state \cup {"FORCE_COMMIT"}
    /\ pc' = [pc EXCEPT ![Worker] = "commit"]
    /\ ret' = [ret EXCEPT ![Worker] = "OK"]
    /\ flush_err' = [flush_err EXCEPT ![Worker] = FALSE]
    /\ UNCHANGED <<sb, kind, duty, mountVars, nx_xid, vsb_xid, t_starts_count, t_inodes,
                   i_dirty, t_buffers, workVars, diskVars>>
----------------------------------------------------------------------------
(***************************************************************************)
(* apfs_put_super() and apfs_remount() outside of their transactions.  The *)
(* VFS calls put_super when no other thread uses the super_block.          *)
(***************************************************************************)
\* cancel_delayed_work_sync() waits for a running worker.
UnmountCancelWork(t, s) ==
    /\ "UMOUNT" \in Kinds
    /\ pc[t] = "idle"
    /\ s \in vol_list
    /\ \A u \in Threads \ {t} : pc[u] # "idle" => sb[u] # s
    /\ pc[Worker] = "idle"
    /\ t_work' = "idle"
    /\ pc' = [pc EXCEPT ![t] = "cancelled"]
    /\ sb' = [sb EXCEPT ![t] = s]
    /\ kind' = [kind EXCEPT ![t] = "UMOUNT"]
    /\ UNCHANGED <<nx_big_sem, ret, duty, flush_err, mountVars, transVars, t_work_sb, diskVars>>

\* A read-only super_block is released with no transaction.
UnmountReadonly(t) ==
    /\ pc[t] = "cancelled"
    /\ sb[t] \in s_rdonly
    /\ duty' = [duty EXCEPT ![t] = {}]
    /\ Return(t, sb[t], "UMOUNT", "OK")
    /\ UNCHANGED <<nx_big_sem, flush_err, s_rdonly, nx_readwrite, nx_eph_list,
                   transVars, workVars, diskVars>>

UnmountWritable(t) ==
    /\ pc[t] = "cancelled"
    /\ sb[t] \notin s_rdonly
    /\ pc' = [pc EXCEPT ![t] = "umount"]
    /\ UNCHANGED <<nx_big_sem, sb, kind, ret, duty, flush_err, mountVars, transVars, workVars, diskVars>>

\* SB_RDONLY is set without the semaphore.
RemountSetReadonly(t) ==
    /\ pc[t] = "remount"
    /\ s_rdonly' = s_rdonly \cup {sb[t]}
    /\ Return(t, sb[t], "REMOUNT", "OK")
    /\ UNCHANGED <<nx_big_sem, duty, flush_err, nx_readwrite, nx_eph_list, transVars, workVars, diskVars>>

\* Nobody calls, nothing is queued: the system may rest for ever.
Quiescent ==
    /\ \A p \in Procs : pc[p] = "idle"
    /\ t_work = "idle"
    /\ UNCHANGED vars
----------------------------------------------------------------------------
Start(t, s, k) ==
    \/ StartReadonly(t, s, k)
    \/ StartEphemeralError(t, s, k)
    \/ StartError(t, s, k)
    \/ StartNoRoom(t, s, k)
    \/ StartOK(t, s, k)

Body(t) ==
    \/ \E o \in Ops, i \in Inodes : Operate(t, o, i)
    \/ OperateNothing(t)
    \/ \E i \in Inodes : WriteInode(t, i)
    \/ \E o \in Ops : OperateError(t, o)
    \/ SnapshotNameCheck(t)
    \/ \E o \in Ops : SnapshotCreate(t, o)
    \/ SnapshotError(t)

Commit(p) ==
    \/ \E over \in BOOLEAN : CommitLater(p, over) \/ CommitNow(p, over)
    \/ \E i \in Inodes : FlushInode(p, i)
    \/ FlushDone(p)
    \/ FinishOK(p)
    \/ FinishError(p)

Abort(p) ==
    \/ AbortAgain(p)
    \/ AbortFirst(p)
    \/ \E i \in Inodes : AbortDropInode(p, i)
    \/ AbortDone(p)

Work == WorkBegin \/ WorkSkip \/ WorkCommit

Unmount(t) ==
    \/ \E s \in Sbs : UnmountCancelWork(t, s)
    \/ UnmountReadonly(t)
    \/ UnmountWritable(t)

Next ==
    \/ \E t \in Threads :
        \/ \E s \in Sbs, k \in AllKinds : Start(t, s, k)
        \/ Body(t)
        \/ Unmount(t)
        \/ RemountSetReadonly(t)
    \/ \E p \in Procs : Commit(p) \/ FlushRelock(p) \/ Abort(p)
    \/ Work
    \/ Quiescent

Spec == Init /\ [][Next]_vars

(***************************************************************************)
(* A process that holds nx_big_sem goes on; the semaphore is handed to its *)
(* waiters in the end; and the timer of t_work expires, because the calls  *)
(* that restart it are bounded.                                            *)
(***************************************************************************)
Fairness ==
    /\ \A t \in Threads : WF_vars(Body(t) \/ Unmount(t) \/ RemountSetReadonly(t))
    /\ \A p \in Procs : WF_vars(Commit(p) \/ Abort(p)) /\ SF_vars(FlushRelock(p))
    /\ WF_vars(WorkBegin)
    /\ SF_vars(WorkSkip \/ WorkCommit)

FairSpec == Spec /\ Fairness
----------------------------------------------------------------------------
(***************************************************************************)
(* Safety.                                                                 *)
(***************************************************************************)
CommitPCs == {"flush", "window", "finish"}

\* A checkpoint never holds one half of an operation: the flush loop of
\* apfs_transaction_flush_all_inodes() goes on until no inode is left, even if
\* inodes get dirtied while it doesn't hold the semaphore.
NoTornOps == \A o \in Ops : (<<o, "rec">> \in disk) <=> (<<o, "ino">> \in disk)

\* Only one process at a time is inside of apfs_transaction_commit_nx(), though
\* it releases nx_big_sem for each inode: the COMMITTING flag of
\* apfs_transaction_need_commit() keeps all others out.
NoNestedCommit ==
    \A p, q \in Procs : pc[p] \in CommitPCs /\ pc[q] \in CommitPCs => p = q

\* A process that changes records does it in a transaction that started and was
\* not committed yet, so that copy-on-write applies to what it changes.
InTransaction ==
    \A p \in Procs : pc[p] \in {"in", "snap"} => t_starts_count > 0 /\ nx_xid > disk_xid

\* Changes that are not on disk are never forgotten: as long as the container is
\* writable, t_work is queued, the worker is on its way, or somebody is inside
\* of a call that will commit or queue t_work.
PendingHasWork ==
    t_buffers # {} /\ nx_readwrite =>
        \/ t_work = "queued" /\ t_work_sb # None
        \/ \E p \in Procs : pc[p] \notin {"idle", "work", "remount"}
        \/ pc[Worker] = "work" /\ sb[Worker] # None

\* A transaction id identifies the contents of a checkpoint: a new checkpoint
\* with other contents has a greater one.  The worker may write a second
\* checkpoint for the same id if it read a stale t_work_sb, but it is the same.
XidIdentifiesCheckpoint == [][disk' # disk => disk_xid' > disk_xid]_vars

\* Once an abort turned the container read-only nothing is written any more.
AbortIsFinal == [][~nx_readwrite => UNCHANGED <<diskVars, t_buffers>>]_vars

\* The transaction keeps the promise of AtomicCommit: a checkpoint saves all
\* operations applied so far, each one as a whole, or nothing.
Atomic == INSTANCE AtomicCommit WITH mem <- Applied, disk <- Durable, frozen <- ~nx_readwrite

RefinesAtomicCommit == Atomic!Spec
----------------------------------------------------------------------------
(***************************************************************************)
(* Liveness.                                                               *)
(***************************************************************************)
\* What was applied reaches the disk with no need for a sync, through t_work,
\* unless the transaction gets aborted.
EventuallyDurable ==
    \A o \in Ops : o \in Applied ~> (o \in Durable \/ ~nx_readwrite)
----------------------------------------------------------------------------
(***************************************************************************)
(* What comments and assertions of the code say.                           *)
(***************************************************************************)
\* FORCE_COMMIT is "Commit guaranteed": when a call that sets it returns
\* success, all that it had to make durable is.
ForceCommitGuaranteed ==
    \A t \in Threads : pc[t] = "idle" /\ ret[t] = "OK" => duty[t] \subseteq Durable

\* apfs_assert_in_transaction() on the volume superblock, in every operation.
VolumeInTransaction ==
    \A t \in Threads : pc[t] = "in" => vsb_xid[sb[t]] = nx_xid
============================================================================
