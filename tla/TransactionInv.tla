--------------------------- MODULE TransactionInv --------------------------
(***************************************************************************)
(* The inductive invariant of Transaction, as long as nobody takes a       *)
(* snapshot, remounts or unmounts: each of those breaks a property.  Here  *)
(* are its conjuncts and the proof that every action preserves those about *)
(* control; the one about data is in TransactionProofs.                    *)
(***************************************************************************)
EXTENDS Transaction, TLAPS

USE SMTT(30), ZenonT(30)

\* The kinds of calls that the theorems leave out.
Disruptive == {"SNAP", "REMOUNT", "UMOUNT"}
Calm == Kinds \cap Disruptive = {}

\* Where a process holds the semaphore and the transaction is alive.
AlivePCs == {"in", "commit", "flush", "finish"}

\* The super_blocks that may take part in a transaction.
Volumes == Sbs \ SnapSbs

\* At most one of them is a volume: the start of a transaction only copies the
\* roots of its own volume, and another one that joins would change its roots in
\* place.
OneVolume == \A v, w \in Volumes : v = w

\* A process holds nx_big_sem just where the code says that it does.
LockInv == \A p \in Procs : pc[p] \in LockedPCs <=> nx_big_sem = p

\* What a process can be doing, and for which super_block.
CallInv ==
    \A p \in Procs :
        /\ pc[p] \in AlivePCs \cup {"idle", "window", "abort", "drop", "work"}
        /\ kind[p] \notin Disruptive
        /\ pc[p] \in AlivePCs \cup {"window", "abort"} => sb[p] \in Volumes
        /\ pc[p] = "work" => sb[p] \in Volumes \cup {None}

\* The container is read-only as a whole after an abort, and then no process
\* is left in the middle of a transaction.
MountInv ==
    /\ vol_list = Sbs
    /\ s_rdonly = IF nx_readwrite THEN SnapSbs ELSE Sbs
    /\ t_work_sb \in Volumes \cup {None}
    /\ t_work = "queued" => t_work_sb # None
    /\ \A p \in Procs :
        /\ pc[p] = "drop" => ~nx_readwrite
        /\ pc[p] \in AlivePCs => nx_readwrite

\* The COMMITTING flag is set whenever a commit released the semaphore.
FlushInv ==
    /\ NoNestedCommit
    /\ \A p \in Procs :
        /\ pc[p] = "window" /\ nx_readwrite => "COMMITTING" \in t_state
        /\ pc[p] = "finish" => t_inodes = {} /\ ~flush_err[p]

\* The transaction in memory is ahead of the checkpoint on disk, from the first
\* start until the commit, and before that it is empty.
XidInv ==
    /\ disk_xid > 0
    /\ t_starts_count = 0 => t_inodes = {} /\ t_buffers = {}
    /\ ~nx_eph_list => t_starts_count = 0
    /\ \A p \in Procs : pc[p] = "in" => t_starts_count > 0
    /\ nx_readwrite =>
        /\ nx_xid >= disk_xid
        /\ t_starts_count > 0 /\ (\A p \in Procs : pc[p] # "abort") => nx_xid > disk_xid

\* The roots of the volume belong to the transaction.
RootsInv ==
    nx_readwrite /\ t_starts_count > 0 => \A v \in Volumes : vsb_xid[v] = nx_xid

\* Some process met an error and is going to abort.
Doomed ==
    \E p \in Procs :
        \/ pc[p] = "abort"
        \/ flush_err[p] /\ pc[p] \in {"flush", "window"}

\* No half of an operation is in an inode, or was copied from there to the
\* buffers, unless the other half is in the buffers.
Rooted ==
    /\ \A o \in Ops : <<o, "ino">> \in t_buffers => <<o, "rec">> \in t_buffers
    /\ \A i \in Inodes : \A o \in i_dirty[i] : <<o, "rec">> \in t_buffers

\* The inode half of an operation in the buffers is there too, or in an inode of
\* t_inodes, and an inode outside of t_inodes has nothing left to write.
Paired ==
    /\ \A o \in Ops : <<o, "rec">> \in t_buffers =>
        <<o, "ino">> \in t_buffers \/ \E i \in t_inodes : o \in i_dirty[i]
    /\ \A i \in Inodes \ t_inodes : i_dirty[i] = {}

HalvesInv ==
    /\ NoTornOps
    /\ nx_readwrite => Rooted
    /\ nx_readwrite /\ ~Doomed => Paired

IInv ==
    /\ TypeOK
    /\ LockInv
    /\ CallInv
    /\ MountInv
    /\ FlushInv
    /\ XidInv
    /\ PendingHasWork
    /\ OneVolume => RootsInv /\ HalvesInv

\* The actions that are left of Next if nobody makes one of the calls above.
CalmBody(t) ==
    \/ \E o \in Ops, i \in Inodes : Operate(t, o, i)
    \/ OperateNothing(t)
    \/ \E i \in Inodes : WriteInode(t, i)
    \/ \E o \in Ops : OperateError(t, o)

CalmNext ==
    \/ \E t \in Threads : CalmBody(t) \/ \E s \in Sbs, k \in AllKinds : Start(t, s, k)
    \/ \E p \in Procs : Commit(p) \/ FlushRelock(p) \/ Abort(p)
    \/ Work
----------------------------------------------------------------------------
USE SbsAssumption, WorkerAssumption
USE DEF Procs, Volumes, Disruptive, Calm

LEMMA NextIsCalm ==
    ASSUME Calm, CallInv, Next
    PROVE  CalmNext \/ UNCHANGED vars
<1>1. ASSUME NEW t \in Threads
      PROVE  /\ ~SnapshotNameCheck(t) /\ ~SnapshotError(t) /\ \A o \in Ops : ~SnapshotCreate(t, o)
             /\ ~RemountSetReadonly(t)
  BY DEF CallInv, AlivePCs, SnapshotNameCheck, SnapshotError, SnapshotCreate, RemountSetReadonly
<1>2. ASSUME NEW t \in Threads
      PROVE  ~Unmount(t)
  BY DEF CallInv, AlivePCs, Unmount, UnmountCancelWork, UnmountReadonly, UnmountWritable
<1> QED
  BY <1>1, <1>2 DEF Next, CalmNext, CalmBody, Body, Quiescent

\* apfs_transaction_commit() and apfs_transaction_abort() end the call of a calm
\* process and leave the list of mounted super_blocks alone.
LEMMA CalmFinish ==
    ASSUME CallInv, NEW p \in Procs, Finish(p)
    PROVE  Return(p, sb[p], kind[p], ret[p]) /\ vol_list' = vol_list
BY DEF CallInv, Finish, Return

LEMMA CalmStart ==
    ASSUME Calm, CallInv, NEW t \in Threads, NEW s, NEW k, MayStart(t, s, k)
    PROVE  k \notin Disruptive /\ pc[t] = "idle" /\ s \in vol_list /\ nx_big_sem = None
BY DEF CallInv, MayStart, AlivePCs

\* down_write() and up_write() of nx_big_sem are paired.
LEMMA LockStep ==
    ASSUME Calm, IInv, CalmNext
    PROVE  LockInv'
<1>h. pc \in [Procs -> PCs] /\ LockInv /\ CallInv
  BY DEF IInv, TypeOK
<1> USE <1>h DEF LockInv, LockedPCs
<1>1. ASSUME NEW t \in Threads, NEW s \in Sbs, NEW k \in AllKinds, StartReadonly(t, s, k)
      PROVE  LockInv'
  BY <1>1, CalmStart DEF StartReadonly, StartReturns, Return
<1>2. ASSUME NEW t \in Threads, NEW s \in Sbs, NEW k \in AllKinds, StartEphemeralError(t, s, k)
      PROVE  LockInv'
  BY <1>2, CalmStart DEF StartEphemeralError, StartReturns, Return
<1>3. ASSUME NEW t \in Threads, NEW s \in Sbs, NEW k \in AllKinds, StartError(t, s, k)
      PROVE  LockInv'
  BY <1>3, CalmStart DEF StartError, StartXid
<1>4. ASSUME NEW t \in Threads, NEW s \in Sbs, NEW k \in AllKinds, StartNoRoom(t, s, k)
      PROVE  LockInv'
  BY <1>4, CalmStart DEF StartNoRoom, StartXid
<1>5. ASSUME NEW t \in Threads, NEW s \in Sbs, NEW k \in AllKinds, StartOK(t, s, k)
      PROVE  LockInv'
  BY <1>5, CalmStart DEF StartOK, StartXid
<1>6. ASSUME NEW t \in Threads, NEW o \in Ops, NEW i \in Inodes, Operate(t, o, i)
      PROVE  LockInv'
  BY <1>6 DEF Operate, CallCommit
<1>7. ASSUME NEW t \in Threads, OperateNothing(t)
      PROVE  LockInv'
  BY <1>7 DEF OperateNothing, CallCommit
<1>8. ASSUME NEW t \in Threads, NEW i \in Inodes, WriteInode(t, i)
      PROVE  LockInv'
  BY <1>8 DEF WriteInode, CallCommit
<1>9. ASSUME NEW t \in Threads, NEW o \in Ops, OperateError(t, o)
      PROVE  LockInv'
  BY <1>9 DEF OperateError
<1>10. ASSUME NEW p \in Procs, NEW over \in BOOLEAN, CommitLater(p, over)
      PROVE  LockInv'
  BY <1>10, CalmFinish DEF CommitLater, Return
<1>11. ASSUME NEW p \in Procs, NEW over \in BOOLEAN, CommitNow(p, over)
      PROVE  LockInv'
  BY <1>11 DEF CommitNow
<1>12. ASSUME NEW p \in Procs, NEW i \in Inodes, FlushInode(p, i)
      PROVE  LockInv'
  BY <1>12 DEF FlushInode, WindowOf
<1>13. ASSUME NEW p \in Procs, FlushDone(p)
      PROVE  LockInv'
  BY <1>13 DEF FlushDone
<1>14. ASSUME NEW p \in Procs, FinishOK(p)
      PROVE  LockInv'
  BY <1>14, CalmFinish DEF FinishOK, Return
<1>15. ASSUME NEW p \in Procs, FinishError(p)
      PROVE  LockInv'
  BY <1>15 DEF FinishError
<1>16. ASSUME NEW p \in Procs, FlushRelock(p)
      PROVE  LockInv'
  BY <1>16 DEF FlushRelock, FlushOf
<1>17. ASSUME NEW p \in Procs, AbortAgain(p)
      PROVE  LockInv'
  BY <1>17, CalmFinish DEF AbortAgain, Return
<1>18. ASSUME NEW p \in Procs, AbortFirst(p)
      PROVE  LockInv'
  BY <1>18 DEF AbortFirst
<1>19. ASSUME NEW p \in Procs, NEW i \in Inodes, AbortDropInode(p, i)
      PROVE  LockInv'
  BY <1>19 DEF AbortDropInode, procVars
<1>20. ASSUME NEW p \in Procs, AbortDone(p)
      PROVE  LockInv'
  BY <1>20, CalmFinish DEF AbortDone, Return
<1>21. CASE WorkBegin
  BY <1>21 DEF WorkBegin
<1>22. CASE WorkSkip
  BY <1>22 DEF WorkSkip, Return
<1>23. CASE WorkCommit
  BY <1>23 DEF WorkCommit
<1> HIDE <1>h DEF LockInv, LockedPCs
<1> QED
  BY <1>1, <1>2, <1>3, <1>4, <1>5, <1>6, <1>7, <1>8, <1>9, <1>10, <1>11, <1>12, <1>13, <1>14,
     <1>15, <1>16, <1>17, <1>18, <1>19, <1>20, <1>21, <1>22, <1>23 DEF CalmNext, CalmBody,
     Start, Commit, Abort, Work

\* No call of a kind that the theorems leave out ever begins.
LEMMA CallStep ==
    ASSUME Calm, IInv, CalmNext
    PROVE  CallInv'
<1>h. pc \in [Procs -> PCs] /\ sb \in [Procs -> Sbs \cup {None}]
      /\ kind \in [Procs -> AllKinds \cup {"WORK", "NONE"}] /\ CallInv /\ MountInv
  BY DEF IInv, TypeOK
<1> USE <1>h DEF CallInv, AlivePCs
<1>1. ASSUME NEW t \in Threads, NEW s \in Sbs, NEW k \in AllKinds, StartReadonly(t, s, k)
      PROVE  CallInv'
  BY <1>1, CalmStart DEF StartReadonly, StartReturns, Return, MountInv
<1>2. ASSUME NEW t \in Threads, NEW s \in Sbs, NEW k \in AllKinds, StartEphemeralError(t, s, k)
      PROVE  CallInv'
  BY <1>2, CalmStart DEF StartEphemeralError, StartReturns, Return, MountInv
<1>3. ASSUME NEW t \in Threads, NEW s \in Sbs, NEW k \in AllKinds, StartError(t, s, k)
      PROVE  CallInv'
  BY <1>3, CalmStart DEF StartError, StartXid, MountInv
<1>4. ASSUME NEW t \in Threads, NEW s \in Sbs, NEW k \in AllKinds, StartNoRoom(t, s, k)
      PROVE  CallInv'
  BY <1>4, CalmStart DEF StartNoRoom, StartXid, MountInv
<1>5. ASSUME NEW t \in Threads, NEW s \in Sbs, NEW k \in AllKinds, StartOK(t, s, k)
      PROVE  CallInv'
  BY <1>5, CalmStart DEF StartOK, StartXid, MountInv
<1>6. ASSUME NEW t \in Threads, NEW o \in Ops, NEW i \in Inodes, Operate(t, o, i)
      PROVE  CallInv'
  BY <1>6 DEF Operate, CallCommit
<1>7. ASSUME NEW t \in Threads, OperateNothing(t)
      PROVE  CallInv'
  BY <1>7 DEF OperateNothing, CallCommit
<1>8. ASSUME NEW t \in Threads, NEW i \in Inodes, WriteInode(t, i)
      PROVE  CallInv'
  BY <1>8 DEF WriteInode, CallCommit
<1>9. ASSUME NEW t \in Threads, NEW o \in Ops, OperateError(t, o)
      PROVE  CallInv'
  BY <1>9 DEF OperateError
<1>10. ASSUME NEW p \in Procs, NEW over \in BOOLEAN, CommitLater(p, over)
      PROVE  CallInv'
  BY <1>10, CalmFinish DEF CommitLater, Return
<1>11. ASSUME NEW p \in Procs, NEW over \in BOOLEAN, CommitNow(p, over)
      PROVE  CallInv'
  BY <1>11 DEF CommitNow
<1>12. ASSUME NEW p \in Procs, NEW i \in Inodes, FlushInode(p, i)
      PROVE  CallInv'
  BY <1>12 DEF FlushInode, WindowOf
<1>13. ASSUME NEW p \in Procs, FlushDone(p)
      PROVE  CallInv'
  BY <1>13 DEF FlushDone
<1>14. ASSUME NEW p \in Procs, FinishOK(p)
      PROVE  CallInv'
  BY <1>14, CalmFinish DEF FinishOK, Return
<1>15. ASSUME NEW p \in Procs, FinishError(p)
      PROVE  CallInv'
  BY <1>15 DEF FinishError
<1>16. ASSUME NEW p \in Procs, FlushRelock(p)
      PROVE  CallInv'
  BY <1>16 DEF FlushRelock, FlushOf
<1>17. ASSUME NEW p \in Procs, AbortAgain(p)
      PROVE  CallInv'
  BY <1>17, CalmFinish DEF AbortAgain, Return
<1>18. ASSUME NEW p \in Procs, AbortFirst(p)
      PROVE  CallInv'
  BY <1>18 DEF AbortFirst
<1>19. ASSUME NEW p \in Procs, NEW i \in Inodes, AbortDropInode(p, i)
      PROVE  CallInv'
  BY <1>19 DEF AbortDropInode, procVars
<1>20. ASSUME NEW p \in Procs, AbortDone(p)
      PROVE  CallInv'
  BY <1>20, CalmFinish DEF AbortDone, Return
<1>21. CASE WorkBegin
  BY <1>21 DEF WorkBegin, MountInv
<1>22. CASE WorkSkip
  BY <1>22 DEF WorkSkip, Return
<1>23. CASE WorkCommit
  BY <1>23 DEF WorkCommit
<1> HIDE <1>h DEF CallInv, AlivePCs
<1> QED
  BY <1>1, <1>2, <1>3, <1>4, <1>5, <1>6, <1>7, <1>8, <1>9, <1>10, <1>11, <1>12, <1>13, <1>14,
     <1>15, <1>16, <1>17, <1>18, <1>19, <1>20, <1>21, <1>22, <1>23 DEF CalmNext, CalmBody,
     Start, Commit, Abort, Work

\* The whole container becomes read-only at once.
LEMMA MountStep ==
    ASSUME Calm, IInv, CalmNext
    PROVE  MountInv'
<1>h. pc \in [Procs -> PCs] /\ s_rdonly \subseteq Sbs /\ LockInv /\ CallInv /\ MountInv
  BY DEF IInv, TypeOK
<1> USE <1>h DEF CallInv, MountInv, AlivePCs, mountVars, workVars
<1>1. ASSUME NEW t \in Threads, NEW s \in Sbs, NEW k \in AllKinds, StartReadonly(t, s, k)
      PROVE  MountInv'
  BY <1>1, CalmStart DEF StartReadonly, StartReturns, Return, LockInv, LockedPCs
<1>2. ASSUME NEW t \in Threads, NEW s \in Sbs, NEW k \in AllKinds, StartEphemeralError(t, s, k)
      PROVE  MountInv'
  <2>1. MayStart(t, s, k)
    BY <1>2 DEF StartEphemeralError
  <2>2. nx_big_sem = None /\ k # "UMOUNT"
    BY <2>1, CalmStart
  <2>3. \A p \in Procs : pc[p] \notin AlivePCs
    BY <2>2 DEF LockInv, LockedPCs
  <2>4. vol_list' = Sbs /\ pc' = [pc EXCEPT ![t] = "idle"] /\ UNCHANGED workVars
    BY <1>2, <2>2 DEF StartEphemeralError, StartReturns, Return
  <2>5. CASE UNCHANGED <<s_rdonly, nx_readwrite>>
    BY <2>3, <2>4, <2>5
  <2>6. CASE s_rdonly' = s_rdonly \cup vol_list /\ nx_readwrite' = FALSE
    BY <2>3, <2>4, <2>6
  <2> HIDE <1>h DEF CallInv, MountInv
  <2> QED
    BY <1>2, <2>5, <2>6, Zenon DEF StartEphemeralError
<1>3. ASSUME NEW t \in Threads, NEW s \in Sbs, NEW k \in AllKinds, StartError(t, s, k)
      PROVE  MountInv'
  BY <1>3, CalmStart DEF StartError, StartXid, LockInv, LockedPCs
<1>4. ASSUME NEW t \in Threads, NEW s \in Sbs, NEW k \in AllKinds, StartNoRoom(t, s, k)
      PROVE  MountInv'
  BY <1>4, CalmStart DEF StartNoRoom, StartXid, LockInv, LockedPCs
<1>5. ASSUME NEW t \in Threads, NEW s \in Sbs, NEW k \in AllKinds, StartOK(t, s, k)
      PROVE  MountInv'
  BY <1>5, CalmStart DEF StartOK, StartXid, LockInv, LockedPCs
<1>6. ASSUME NEW t \in Threads, NEW o \in Ops, NEW i \in Inodes, Operate(t, o, i)
      PROVE  MountInv'
  BY <1>6 DEF Operate, CallCommit
<1>7. ASSUME NEW t \in Threads, OperateNothing(t)
      PROVE  MountInv'
  BY <1>7 DEF OperateNothing, CallCommit
<1>8. ASSUME NEW t \in Threads, NEW i \in Inodes, WriteInode(t, i)
      PROVE  MountInv'
  BY <1>8 DEF WriteInode, CallCommit
<1>9. ASSUME NEW t \in Threads, NEW o \in Ops, OperateError(t, o)
      PROVE  MountInv'
  BY <1>9 DEF OperateError
<1>10. ASSUME NEW p \in Procs, NEW over \in BOOLEAN, CommitLater(p, over)
      PROVE  MountInv'
  BY <1>10, CalmFinish DEF CommitLater, Return
<1>11. ASSUME NEW p \in Procs, NEW over \in BOOLEAN, CommitNow(p, over)
      PROVE  MountInv'
  BY <1>11 DEF CommitNow
<1>12. ASSUME NEW p \in Procs, NEW i \in Inodes, FlushInode(p, i)
      PROVE  MountInv'
  BY <1>12 DEF FlushInode, WindowOf
<1>13. ASSUME NEW p \in Procs, FlushDone(p)
      PROVE  MountInv'
  BY <1>13 DEF FlushDone
<1>14. ASSUME NEW p \in Procs, FinishOK(p)
      PROVE  MountInv'
  BY <1>14, CalmFinish DEF FinishOK, Return
<1>15. ASSUME NEW p \in Procs, FinishError(p)
      PROVE  MountInv'
  BY <1>15 DEF FinishError
<1>16. ASSUME NEW p \in Procs, FlushRelock(p)
      PROVE  MountInv'
  BY <1>16 DEF FlushRelock, FlushOf
<1>17. ASSUME NEW p \in Procs, AbortAgain(p)
      PROVE  MountInv'
  BY <1>17, CalmFinish DEF AbortAgain, Return
<1>18. ASSUME NEW p \in Procs, AbortFirst(p)
      PROVE  MountInv'
  BY <1>18 DEF AbortFirst, LockInv, LockedPCs
<1>19. ASSUME NEW p \in Procs, NEW i \in Inodes, AbortDropInode(p, i)
      PROVE  MountInv'
  BY <1>19 DEF AbortDropInode, procVars
<1>20. ASSUME NEW p \in Procs, AbortDone(p)
      PROVE  MountInv'
  BY <1>20, CalmFinish DEF AbortDone, Return
<1>21. CASE WorkBegin
  BY <1>21 DEF WorkBegin
<1>22. CASE WorkSkip
  BY <1>22 DEF WorkSkip, Return
<1>23. CASE WorkCommit
  BY <1>23 DEF WorkCommit
<1> HIDE <1>h DEF CallInv, MountInv, AlivePCs, mountVars, workVars
<1> QED
  BY <1>1, <1>2, <1>3, <1>4, <1>5, <1>6, <1>7, <1>8, <1>9, <1>10, <1>11, <1>12, <1>13, <1>14,
     <1>15, <1>16, <1>17, <1>18, <1>19, <1>20, <1>21, <1>22, <1>23 DEF CalmNext, CalmBody,
     Start, Commit, Abort, Work

\* A second commit finds COMMITTING set.
LEMMA FlushStep ==
    ASSUME Calm, IInv, CalmNext
    PROVE  FlushInv'
<1>h. pc \in [Procs -> PCs] /\ flush_err \in [Procs -> BOOLEAN]
      /\ LockInv /\ CallInv /\ MountInv /\ FlushInv
  BY DEF IInv, TypeOK
<1> USE <1>h DEF LockInv, LockedPCs, FlushInv, NoNestedCommit, CommitPCs, mountVars, transVars
<1>1. ASSUME NEW t \in Threads, NEW s \in Sbs, NEW k \in AllKinds, StartReadonly(t, s, k)
      PROVE  FlushInv'
  BY <1>1, CalmStart DEF StartReadonly, StartReturns, Return, MayStart
<1>2. ASSUME NEW t \in Threads, NEW s \in Sbs, NEW k \in AllKinds, StartEphemeralError(t, s, k)
      PROVE  FlushInv'
  BY <1>2, CalmStart DEF StartEphemeralError, StartReturns, Return, MayStart, MountInv
<1>3. ASSUME NEW t \in Threads, NEW s \in Sbs, NEW k \in AllKinds, StartError(t, s, k)
      PROVE  FlushInv'
  BY <1>3, CalmStart DEF StartError, StartXid, MayStart
<1>4. ASSUME NEW t \in Threads, NEW s \in Sbs, NEW k \in AllKinds, StartNoRoom(t, s, k)
      PROVE  FlushInv'
  BY <1>4, CalmStart DEF StartNoRoom, StartXid, MayStart
<1>5. ASSUME NEW t \in Threads, NEW s \in Sbs, NEW k \in AllKinds, StartOK(t, s, k)
      PROVE  FlushInv'
  BY <1>5, CalmStart DEF StartOK, StartXid, MayStart
<1>6. ASSUME NEW t \in Threads, NEW o \in Ops, NEW i \in Inodes, Operate(t, o, i)
      PROVE  FlushInv'
  BY <1>6 DEF Operate, CallCommit, CallerFlags
<1>7. ASSUME NEW t \in Threads, OperateNothing(t)
      PROVE  FlushInv'
  BY <1>7 DEF OperateNothing, CallCommit, CallerFlags
<1>8. ASSUME NEW t \in Threads, NEW i \in Inodes, WriteInode(t, i)
      PROVE  FlushInv'
  BY <1>8 DEF WriteInode, CallCommit, CallerFlags
<1>9. ASSUME NEW t \in Threads, NEW o \in Ops, OperateError(t, o)
      PROVE  FlushInv'
  BY <1>9 DEF OperateError, CallerFlags
<1>10. ASSUME NEW p \in Procs, NEW over \in BOOLEAN, CommitLater(p, over)
      PROVE  FlushInv'
  BY <1>10, CalmFinish DEF CommitLater, Return
<1>11. ASSUME NEW p \in Procs, NEW over \in BOOLEAN, CommitNow(p, over)
      PROVE  FlushInv'
  BY <1>11 DEF CommitNow, NeedCommit, MountInv, AlivePCs
<1>12. ASSUME NEW p \in Procs, NEW i \in Inodes, FlushInode(p, i)
      PROVE  FlushInv'
  BY <1>12 DEF FlushInode, WindowOf, CallInv, AlivePCs
<1>13. ASSUME NEW p \in Procs, FlushDone(p)
      PROVE  FlushInv'
  BY <1>13 DEF FlushDone, CallInv, AlivePCs
<1>14. ASSUME NEW p \in Procs, FinishOK(p)
      PROVE  FlushInv'
  BY <1>14, CalmFinish DEF FinishOK, Return
<1>15. ASSUME NEW p \in Procs, FinishError(p)
      PROVE  FlushInv'
  BY <1>15 DEF FinishError
<1>16. ASSUME NEW p \in Procs, FlushRelock(p)
      PROVE  FlushInv'
  BY <1>16 DEF FlushRelock, FlushOf, CallInv, MountInv, AlivePCs
<1>17. ASSUME NEW p \in Procs, AbortAgain(p)
      PROVE  FlushInv'
  BY <1>17, CalmFinish DEF AbortAgain, Return, MountInv, CallInv
<1>18. ASSUME NEW p \in Procs, AbortFirst(p)
      PROVE  FlushInv'
  BY <1>18 DEF AbortFirst, MountInv, CallInv
<1>19. ASSUME NEW p \in Procs, NEW i \in Inodes, AbortDropInode(p, i)
      PROVE  FlushInv'
  BY <1>19 DEF AbortDropInode, procVars, MountInv, CallInv
<1>20. ASSUME NEW p \in Procs, AbortDone(p)
      PROVE  FlushInv'
  BY <1>20, CalmFinish DEF AbortDone, Return, MountInv, CallInv
<1>21. CASE WorkBegin
  BY <1>21 DEF WorkBegin
<1>22. CASE WorkSkip
  BY <1>22 DEF WorkSkip, Return
<1>23. CASE WorkCommit
  BY <1>23 DEF WorkCommit
<1> HIDE <1>h DEF LockInv, LockedPCs, FlushInv, NoNestedCommit, CommitPCs, mountVars, transVars
<1> QED
  BY <1>1, <1>2, <1>3, <1>4, <1>5, <1>6, <1>7, <1>8, <1>9, <1>10, <1>11, <1>12, <1>13, <1>14,
     <1>15, <1>16, <1>17, <1>18, <1>19, <1>20, <1>21, <1>22, <1>23 DEF CalmNext, CalmBody,
     Start, Commit, Abort, Work

\* The transaction id only goes back to that of the checkpoint.
LEMMA XidStep ==
    ASSUME Calm, IInv, CalmNext
    PROVE  XidInv'
<1>h. pc \in [Procs -> PCs] /\ nx_xid \in Nat /\ disk_xid \in Nat /\ t_starts_count \in Nat
      /\ LockInv /\ CallInv /\ MountInv /\ FlushInv /\ XidInv
  BY DEF IInv, TypeOK
<1> USE <1>h DEF LockInv, LockedPCs, XidInv, mountVars, transVars, diskVars
<1>1. ASSUME NEW t \in Threads, NEW s \in Sbs, NEW k \in AllKinds, StartReadonly(t, s, k)
      PROVE  XidInv'
  BY <1>1, CalmStart DEF StartReadonly, StartReturns, Return, MountInv
<1>2. ASSUME NEW t \in Threads, NEW s \in Sbs, NEW k \in AllKinds, StartEphemeralError(t, s, k)
      PROVE  XidInv'
  BY <1>2, CalmStart DEF StartEphemeralError, StartReturns, Return, MountInv
<1>3. ASSUME NEW t \in Threads, NEW s \in Sbs, NEW k \in AllKinds, StartError(t, s, k)
      PROVE  XidInv'
  BY <1>3, CalmStart DEF StartError, StartXid, MountInv
<1>4. ASSUME NEW t \in Threads, NEW s \in Sbs, NEW k \in AllKinds, StartNoRoom(t, s, k)
      PROVE  XidInv'
  BY <1>4, CalmStart DEF StartNoRoom, StartXid, MountInv
<1>5. ASSUME NEW t \in Threads, NEW s \in Sbs, NEW k \in AllKinds, StartOK(t, s, k)
      PROVE  XidInv'
  BY <1>5, CalmStart DEF StartOK, StartXid, MountInv
<1>6. ASSUME NEW t \in Threads, NEW o \in Ops, NEW i \in Inodes, Operate(t, o, i)
      PROVE  XidInv'
  <2>1. pc[t] = "in" /\ t_starts_count > 0 /\ pc' = [pc EXCEPT ![t] = "commit"]
    BY <1>6 DEF Operate, CallCommit
  <2>2. UNCHANGED <<nx_xid, disk_xid, t_starts_count, nx_readwrite, nx_eph_list>>
    BY <1>6 DEF Operate
  <2> QED
    BY <2>1, <2>2
<1>7. ASSUME NEW t \in Threads, OperateNothing(t)
      PROVE  XidInv'
  BY <1>7 DEF OperateNothing, CallCommit
<1>8. ASSUME NEW t \in Threads, NEW i \in Inodes, WriteInode(t, i)
      PROVE  XidInv'
  <2>1. pc[t] = "in" /\ t_starts_count > 0 /\ pc' = [pc EXCEPT ![t] = "commit"]
    BY <1>8 DEF WriteInode, CallCommit
  <2>2. UNCHANGED <<nx_xid, disk_xid, t_starts_count, nx_readwrite, nx_eph_list>>
    BY <1>8 DEF WriteInode
  <2> QED
    BY <2>1, <2>2
<1>9. ASSUME NEW t \in Threads, NEW o \in Ops, OperateError(t, o)
      PROVE  XidInv'
  BY <1>9 DEF OperateError
<1>10. ASSUME NEW p \in Procs, NEW over \in BOOLEAN, CommitLater(p, over)
      PROVE  XidInv'
  BY <1>10, CalmFinish DEF CommitLater, Return
<1>11. ASSUME NEW p \in Procs, NEW over \in BOOLEAN, CommitNow(p, over)
      PROVE  XidInv'
  BY <1>11 DEF CommitNow
<1>12. ASSUME NEW p \in Procs, NEW i \in Inodes, FlushInode(p, i)
      PROVE  XidInv'
  BY <1>12 DEF FlushInode, WindowOf, CallInv, AlivePCs
<1>13. ASSUME NEW p \in Procs, FlushDone(p)
      PROVE  XidInv'
  BY <1>13 DEF FlushDone, CallInv, AlivePCs
<1>14. ASSUME NEW p \in Procs, FinishOK(p)
      PROVE  XidInv'
  BY <1>14, CalmFinish DEF FinishOK, Return, Checkpoint, FlushInv, MountInv, AlivePCs
<1>15. ASSUME NEW p \in Procs, FinishError(p)
      PROVE  XidInv'
  BY <1>15 DEF FinishError, Checkpoint, MountInv, AlivePCs
<1>16. ASSUME NEW p \in Procs, FlushRelock(p)
      PROVE  XidInv'
  BY <1>16 DEF FlushRelock, FlushOf, CallInv, AlivePCs
<1>17. ASSUME NEW p \in Procs, AbortAgain(p)
      PROVE  XidInv'
  BY <1>17, CalmFinish DEF AbortAgain, Return, CallInv, MountInv
<1>18. ASSUME NEW p \in Procs, AbortFirst(p)
      PROVE  XidInv'
  BY <1>18 DEF AbortFirst, CallInv, MountInv
<1>19. ASSUME NEW p \in Procs, NEW i \in Inodes, AbortDropInode(p, i)
      PROVE  XidInv'
  BY <1>19 DEF AbortDropInode, procVars, CallInv, MountInv
<1>20. ASSUME NEW p \in Procs, AbortDone(p)
      PROVE  XidInv'
  BY <1>20, CalmFinish DEF AbortDone, Return, CallInv, MountInv
<1>21. CASE WorkBegin
  BY <1>21 DEF WorkBegin
<1>22. CASE WorkSkip
  BY <1>22 DEF WorkSkip, Return
<1>23. CASE WorkCommit
  BY <1>23 DEF WorkCommit
<1> HIDE <1>h DEF LockInv, LockedPCs, XidInv, mountVars, transVars, diskVars
<1> QED
  BY <1>1, <1>2, <1>3, <1>4, <1>5, <1>6, <1>7, <1>8, <1>9, <1>10, <1>11, <1>12, <1>13, <1>14,
     <1>15, <1>16, <1>17, <1>18, <1>19, <1>20, <1>21, <1>22, <1>23 DEF CalmNext, CalmBody,
     Start, Commit, Abort, Work

\* Whoever leaves the transaction open queues t_work.
LEMMA PendingStep ==
    ASSUME Calm, IInv, CalmNext
    PROVE  PendingHasWork'
<1>h. pc \in [Procs -> PCs] /\ sb \in [Procs -> Sbs \cup {None}]
      /\ CallInv /\ MountInv /\ PendingHasWork
  BY DEF IInv, TypeOK
<1> USE <1>h DEF PendingHasWork, mountVars, transVars, workVars
<1>1. ASSUME NEW t \in Threads, NEW s \in Sbs, NEW k \in AllKinds, StartReadonly(t, s, k)
      PROVE  PendingHasWork'
  BY <1>1, CalmStart DEF StartReadonly, StartReturns, Return
<1>2. ASSUME NEW t \in Threads, NEW s \in Sbs, NEW k \in AllKinds, StartEphemeralError(t, s, k)
      PROVE  PendingHasWork'
  BY <1>2, CalmStart DEF StartEphemeralError, StartReturns, Return
<1>3. ASSUME NEW t \in Threads, NEW s \in Sbs, NEW k \in AllKinds, StartError(t, s, k)
      PROVE  PendingHasWork'
  BY <1>3, CalmStart DEF StartError, StartXid
<1>4. ASSUME NEW t \in Threads, NEW s \in Sbs, NEW k \in AllKinds, StartNoRoom(t, s, k)
      PROVE  PendingHasWork'
  BY <1>4, CalmStart DEF StartNoRoom, StartXid
<1>5. ASSUME NEW t \in Threads, NEW s \in Sbs, NEW k \in AllKinds, StartOK(t, s, k)
      PROVE  PendingHasWork'
  BY <1>5, CalmStart DEF StartOK, StartXid
<1>6. ASSUME NEW t \in Threads, NEW o \in Ops, NEW i \in Inodes, Operate(t, o, i)
      PROVE  PendingHasWork'
  BY <1>6 DEF Operate, CallCommit
<1>7. ASSUME NEW t \in Threads, OperateNothing(t)
      PROVE  PendingHasWork'
  BY <1>7 DEF OperateNothing, CallCommit
<1>8. ASSUME NEW t \in Threads, NEW i \in Inodes, WriteInode(t, i)
      PROVE  PendingHasWork'
  BY <1>8 DEF WriteInode, CallCommit
<1>9. ASSUME NEW t \in Threads, NEW o \in Ops, OperateError(t, o)
      PROVE  PendingHasWork'
  BY <1>9 DEF OperateError
<1>10. ASSUME NEW p \in Procs, NEW over \in BOOLEAN, CommitLater(p, over)
      PROVE  PendingHasWork'
  BY <1>10, CalmFinish DEF CommitLater, Return, CallInv, AlivePCs
<1>11. ASSUME NEW p \in Procs, NEW over \in BOOLEAN, CommitNow(p, over)
      PROVE  PendingHasWork'
  BY <1>11 DEF CommitNow
<1>12. ASSUME NEW p \in Procs, NEW i \in Inodes, FlushInode(p, i)
      PROVE  PendingHasWork'
  BY <1>12 DEF FlushInode, WindowOf, CallInv, AlivePCs
<1>13. ASSUME NEW p \in Procs, FlushDone(p)
      PROVE  PendingHasWork'
  BY <1>13 DEF FlushDone, CallInv, AlivePCs
<1>14. ASSUME NEW p \in Procs, FinishOK(p)
      PROVE  PendingHasWork'
  BY <1>14, CalmFinish DEF FinishOK, Return, Checkpoint
<1>15. ASSUME NEW p \in Procs, FinishError(p)
      PROVE  PendingHasWork'
  BY <1>15 DEF FinishError
<1>16. ASSUME NEW p \in Procs, FlushRelock(p)
      PROVE  PendingHasWork'
  BY <1>16 DEF FlushRelock, FlushOf, CallInv, AlivePCs
<1>17. ASSUME NEW p \in Procs, AbortAgain(p)
      PROVE  PendingHasWork'
  BY <1>17, CalmFinish DEF AbortAgain, Return, CallInv, MountInv
<1>18. ASSUME NEW p \in Procs, AbortFirst(p)
      PROVE  PendingHasWork'
  BY <1>18 DEF AbortFirst, CallInv, MountInv
<1>19. ASSUME NEW p \in Procs, NEW i \in Inodes, AbortDropInode(p, i)
      PROVE  PendingHasWork'
  BY <1>19 DEF AbortDropInode, procVars, CallInv, MountInv
<1>20. ASSUME NEW p \in Procs, AbortDone(p)
      PROVE  PendingHasWork'
  BY <1>20, CalmFinish DEF AbortDone, Return, CallInv, MountInv
<1>21. CASE WorkBegin
  BY <1>21 DEF WorkBegin, MountInv
<1>22. CASE WorkSkip
  BY <1>22 DEF WorkSkip, Return, MountInv, CallInv
<1>23. CASE WorkCommit
  BY <1>23 DEF WorkCommit, MountInv
<1> HIDE <1>h DEF PendingHasWork, mountVars, transVars, workVars
<1> QED
  BY <1>1, <1>2, <1>3, <1>4, <1>5, <1>6, <1>7, <1>8, <1>9, <1>10, <1>11, <1>12, <1>13, <1>14,
     <1>15, <1>16, <1>17, <1>18, <1>19, <1>20, <1>21, <1>22, <1>23 DEF CalmNext, CalmBody,
     Start, Commit, Abort, Work

\* What all the starts of a transaction do has the right type.
LEMMA StartXidType ==
    ASSUME TypeOK, NEW t \in Threads, NEW s \in Sbs, NEW k \in AllKinds, StartXid(t, s, k)
    PROVE  /\ nx_big_sem' \in Procs \cup {None} /\ sb' \in [Procs -> Sbs \cup {None}]
           /\ kind' \in [Procs -> AllKinds \cup {"WORK", "NONE"}]
           /\ flush_err' \in [Procs -> BOOLEAN] /\ nx_eph_list' \in BOOLEAN /\ nx_xid' \in Nat
           /\ UNCHANGED <<vol_list, s_rdonly, nx_readwrite, t_inodes, i_dirty, t_work, t_work_sb,
                          disk, disk_xid>>
<1>1. nx_big_sem' = t /\ nx_eph_list' = TRUE /\ sb' = [sb EXCEPT ![t] = s]
      /\ kind' = [kind EXCEPT ![t] = k] /\ flush_err' = [flush_err EXCEPT ![t] = FALSE]
  BY DEF StartXid, MayStart
<1>2. nx_big_sem' \in Procs \cup {None} /\ sb' \in [Procs -> Sbs \cup {None}]
  BY <1>1 DEF TypeOK
<1>3. kind' \in [Procs -> AllKinds \cup {"WORK", "NONE"}]
  BY <1>1 DEF TypeOK
<1>4. flush_err' \in [Procs -> BOOLEAN] /\ nx_eph_list' \in BOOLEAN
  BY <1>1 DEF TypeOK
<1>5. nx_xid' \in Nat
  BY DEF StartXid, TypeOK
<1> QED
  BY <1>2, <1>3, <1>4, <1>5 DEF StartXid, workVars, diskVars

LEMMA PromiseType ==
    ASSUME TypeOK, NEW t \in Threads, NEW k, Promise(t, k)
    PROVE  duty' \in [Procs -> SUBSET Ops]
<1>1. Applied \subseteq Ops
  BY DEF Applied
<1> QED
  BY <1>1 DEF Promise, TypeOK

LEMMA ReturnType ==
    ASSUME TypeOK, NEW p \in Procs, NEW s, NEW k, NEW code \in Codes, Return(p, s, k, code)
    PROVE  /\ pc' \in [Procs -> PCs] /\ sb' \in [Procs -> Sbs \cup {None}]
           /\ kind' \in [Procs -> AllKinds \cup {"WORK", "NONE"}]
           /\ ret' \in [Procs -> Codes] /\ vol_list' \in SUBSET Sbs
<1>1. pc' \in [Procs -> PCs] /\ sb' \in [Procs -> Sbs \cup {None}]
  BY DEF Return, TypeOK, PCs
<1>2. kind' \in [Procs -> AllKinds \cup {"WORK", "NONE"}]
  BY DEF Return, TypeOK
<1>3. ret' \in [Procs -> Codes] /\ vol_list' \in SUBSET Sbs
  BY DEF Return, TypeOK
<1> QED
  BY <1>1, <1>2, <1>3

LEMMA FinishType ==
    ASSUME TypeOK, CallInv, NEW p \in Procs, Finish(p)
    PROVE  /\ pc' \in [Procs -> PCs] /\ sb' \in [Procs -> Sbs \cup {None}]
           /\ kind' \in [Procs -> AllKinds \cup {"WORK", "NONE"}]
           /\ ret' \in [Procs -> Codes] /\ vol_list' \in SUBSET Sbs
<1>1. Return(p, sb[p], kind[p], ret[p])
  BY CalmFinish
<1>2. ret[p] \in Codes
  BY DEF TypeOK
<1> QED
  BY <1>1, <1>2, ReturnType

\* Every action keeps the variables within their types.
LEMMA TypeStep ==
    ASSUME Calm, IInv, CalmNext
    PROVE  TypeOK'
<1>h. TypeOK /\ CallInv /\ MountInv /\ XidInv
  BY DEF IInv, TypeOK
<1> USE <1>h DEF TypeOK, LockedPCs, PCs, Codes, Flags, mountVars, transVars, workVars,
   diskVars
<1>1. ASSUME NEW t \in Threads, NEW s \in Sbs, NEW k \in AllKinds, StartReadonly(t, s, k)
      PROVE  TypeOK'
  <2>1. flush_err' \in [Procs -> BOOLEAN]
    BY <1>1 DEF StartReadonly, MayStart
  <2> QED
    BY <1>1, <2>1, ReturnType, PromiseType DEF StartReadonly, StartReturns
<1>2. ASSUME NEW t \in Threads, NEW s \in Sbs, NEW k \in AllKinds, StartEphemeralError(t, s, k)
      PROVE  TypeOK'
  <2>1. s_rdonly' \subseteq Sbs /\ nx_readwrite' \in BOOLEAN /\ nx_eph_list' \in BOOLEAN
    BY <1>2, Zenon DEF StartEphemeralError
  <2>2. flush_err' \in [Procs -> BOOLEAN]
    BY <1>2 DEF StartEphemeralError, MayStart
  <2> QED
    BY <1>2, <2>1, <2>2, ReturnType, PromiseType DEF StartEphemeralError, StartReturns
<1>3. ASSUME NEW t \in Threads, NEW s \in Sbs, NEW k \in AllKinds, StartError(t, s, k)
      PROVE  TypeOK'
  <2>1. pc' \in [Procs -> PCs] /\ ret' \in [Procs -> Codes]
    BY <1>3 DEF StartError
  <2> QED
    BY <1>3, <2>1, StartXidType, PromiseType DEF StartError
<1>4. ASSUME NEW t \in Threads, NEW s \in Sbs, NEW k \in AllKinds, StartNoRoom(t, s, k)
      PROVE  TypeOK'
  <2>1. pc' \in [Procs -> PCs] /\ ret' \in [Procs -> Codes]
    BY <1>4 DEF StartNoRoom
  <2>2. duty' \in [Procs -> SUBSET Ops] /\ t_state' \in SUBSET Flags
    BY <1>4 DEF StartNoRoom
  <2> QED
    BY <1>4, <2>1, <2>2, StartXidType DEF StartNoRoom
<1>5. ASSUME NEW t \in Threads, NEW s \in Sbs, NEW k \in AllKinds, StartOK(t, s, k)
      PROVE  TypeOK'
  <2>1. pc' \in [Procs -> PCs] /\ ret' \in [Procs -> Codes]
    BY <1>5 DEF StartOK
  <2>2. nx_xid' \in Nat
    BY <1>5, StartXidType DEF StartOK
  <2>3. vsb_xid' \in [Sbs -> Nat] /\ t_starts_count' \in Nat
    BY <1>5, <2>2 DEF StartOK
  <2> QED
    BY <1>5, <2>1, <2>3, StartXidType, PromiseType DEF StartOK
<1>6. ASSUME NEW t \in Threads, NEW o \in Ops, NEW i \in Inodes, Operate(t, o, i)
      PROVE  TypeOK'
  <2>a. Joins(t) \subseteq SUBSET Halves
    BY Zenon DEF Joins
  <2>1. PICK joined \in SUBSET Halves :
            /\ t_buffers' = t_buffers \cup ({o} \X (joined \cap {"rec"}))
            /\ i_dirty' = [i_dirty EXCEPT ![i] = IF "ino" \in joined THEN @ \cup {o} ELSE @]
    BY <1>6, <2>a, Zenon DEF Operate
  <2>2. t_buffers' \subseteq Ops \X Halves
    BY <2>1 DEF Halves
  <2>3. i_dirty' \in [Inodes -> SUBSET Ops]
    BY <2>1
  <2> QED
    BY <1>6, <2>2, <2>3 DEF Operate, CallCommit, CallerFlags, InodeJoin
<1>7. ASSUME NEW t \in Threads, OperateNothing(t)
      PROVE  TypeOK'
  BY <1>7 DEF OperateNothing, CallCommit, CallerFlags
<1>8. ASSUME NEW t \in Threads, NEW i \in Inodes, WriteInode(t, i)
      PROVE  TypeOK'
  BY <1>8 DEF WriteInode, CallCommit, CallerFlags, UpdateInode, Halves
<1>9. ASSUME NEW t \in Threads, NEW o \in Ops, OperateError(t, o)
      PROVE  TypeOK'
  BY <1>9 DEF OperateError, Halves
<1>10. ASSUME NEW p \in Procs, NEW over \in BOOLEAN, CommitLater(p, over)
      PROVE  TypeOK'
  <2>1. /\ pc' \in [Procs -> PCs] /\ sb' \in [Procs -> Sbs \cup {None}]
        /\ kind' \in [Procs -> AllKinds \cup {"WORK", "NONE"}]
        /\ ret' \in [Procs -> Codes] /\ vol_list' \in SUBSET Sbs
    BY <1>10, FinishType DEF CommitLater
  <2>2. t_work_sb' \in Sbs \cup {None} /\ t_work' \in {"idle", "queued"}
    BY <1>10 DEF CommitLater
  <2> QED
    BY <1>10, <2>1, <2>2 DEF CommitLater
<1>11. ASSUME NEW p \in Procs, NEW over \in BOOLEAN, CommitNow(p, over)
      PROVE  TypeOK'
  BY <1>11 DEF CommitNow
<1>12. ASSUME NEW p \in Procs, NEW i \in Inodes, FlushInode(p, i)
      PROVE  TypeOK'
  <2>1. pc[p] = "flush" /\ WindowOf(pc[p]) = "window"
    BY <1>12 DEF FlushInode, WindowOf, CallInv, AlivePCs
  <2>2. pc' \in [Procs -> PCs]
    BY <1>12, <2>1 DEF FlushInode
  <2>3. flush_err' \in [Procs -> BOOLEAN]
    BY <1>12, Zenon DEF FlushInode
  <2>4. i_dirty[i] \subseteq Ops
    OBVIOUS
  <2>5. t_buffers' \subseteq Ops \X Halves /\ i_dirty' \in [Inodes -> SUBSET Ops]
    BY <1>12, <2>4 DEF FlushInode, UpdateInode, Halves
  <2> QED
    BY <1>12, <2>2, <2>3, <2>5 DEF FlushInode
<1>13. ASSUME NEW p \in Procs, FlushDone(p)
      PROVE  TypeOK'
  BY <1>13 DEF FlushDone
<1>14. ASSUME NEW p \in Procs, FinishOK(p)
      PROVE  TypeOK'
  <2>1. /\ pc' \in [Procs -> PCs] /\ sb' \in [Procs -> Sbs \cup {None}]
        /\ kind' \in [Procs -> AllKinds \cup {"WORK", "NONE"}]
        /\ ret' \in [Procs -> Codes] /\ vol_list' \in SUBSET Sbs
    BY <1>14, FinishType DEF FinishOK
  <2>2. disk' \in SUBSET (Ops \X Halves) /\ disk_xid' \in Nat /\ t_buffers' \in SUBSET (Ops \X Halves)
    BY <1>14 DEF FinishOK, Checkpoint
  <2> QED
    BY <1>14, <2>1, <2>2 DEF FinishOK
<1>15. ASSUME NEW p \in Procs, FinishError(p)
      PROVE  TypeOK'
  <2>1. disk' \in SUBSET (Ops \X Halves) /\ disk_xid' \in Nat /\ t_buffers' \in SUBSET (Ops \X Halves)
    BY <1>15 DEF FinishError, Checkpoint
  <2>2. pc' \in [Procs -> PCs] /\ ret' \in [Procs -> Codes]
    BY <1>15 DEF FinishError
  <2> QED
    BY <1>15, <2>1, <2>2 DEF FinishError
<1>16. ASSUME NEW p \in Procs, FlushRelock(p)
      PROVE  TypeOK'
  <2>1. FlushOf(pc[p]) \in PCs
    BY <1>16 DEF FlushRelock, FlushOf
  <2>2. pc' \in [Procs -> PCs] /\ ret' \in [Procs -> Codes]
    BY <1>16, <2>1 DEF FlushRelock
  <2> QED
    BY <1>16, <2>2 DEF FlushRelock
<1>17. ASSUME NEW p \in Procs, AbortAgain(p)
      PROVE  TypeOK'
  <2>1. /\ pc' \in [Procs -> PCs] /\ sb' \in [Procs -> Sbs \cup {None}]
        /\ kind' \in [Procs -> AllKinds \cup {"WORK", "NONE"}]
        /\ ret' \in [Procs -> Codes] /\ vol_list' \in SUBSET Sbs
    BY <1>17, FinishType DEF AbortAgain
  <2> QED
    BY <1>17, <2>1 DEF AbortAgain
<1>18. ASSUME NEW p \in Procs, AbortFirst(p)
      PROVE  TypeOK'
  <2>1. sb[p] \in Volumes /\ sb[p] \notin s_rdonly
    BY <1>18 DEF AbortFirst, CallInv
  <2>2. nx_readwrite
    BY <2>1 DEF MountInv
  <2>3. nx_xid - 1 \in Nat
    BY <2>2 DEF XidInv
  <2>4. s_rdonly' \subseteq Sbs /\ nx_readwrite' \in BOOLEAN
    BY <1>18, Zenon DEF AbortFirst
  <2> QED
    BY <1>18, <2>3, <2>4 DEF AbortFirst
<1>19. ASSUME NEW p \in Procs, NEW i \in Inodes, AbortDropInode(p, i)
      PROVE  TypeOK'
  BY <1>19 DEF AbortDropInode, procVars
<1>20. ASSUME NEW p \in Procs, AbortDone(p)
      PROVE  TypeOK'
  <2>1. /\ pc' \in [Procs -> PCs] /\ sb' \in [Procs -> Sbs \cup {None}]
        /\ kind' \in [Procs -> AllKinds \cup {"WORK", "NONE"}]
        /\ ret' \in [Procs -> Codes] /\ vol_list' \in SUBSET Sbs
    BY <1>20, FinishType DEF AbortDone
  <2> QED
    BY <1>20, <2>1 DEF AbortDone
<1>21. CASE WorkBegin
  BY <1>21 DEF WorkBegin
<1>22. CASE WorkSkip
  BY <1>22 DEF WorkSkip, Return
<1>23. CASE WorkCommit
  BY <1>23 DEF WorkCommit
<1> HIDE <1>h DEF TypeOK, LockedPCs, PCs, Codes, Flags, mountVars, transVars, workVars, diskVars
<1> QED
  BY <1>1, <1>2, <1>3, <1>4, <1>5, <1>6, <1>7, <1>8, <1>9, <1>10, <1>11, <1>12, <1>13, <1>14,
     <1>15, <1>16, <1>17, <1>18, <1>19, <1>20, <1>21, <1>22, <1>23 DEF CalmNext, CalmBody,
     Start, Commit, Abort, Work
============================================================================
