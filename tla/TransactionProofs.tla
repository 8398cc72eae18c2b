------------------------- MODULE TransactionProofs -------------------------
(***************************************************************************)
(* Theorems about Transaction, for any number of threads, inodes and       *)
(* operations, as long as nobody takes a snapshot, remounts or unmounts:   *)
(* each of those breaks one of these properties.  The theorems about what  *)
(* a checkpoint holds are about a container with one mounted volume, and   *)
(* any number of mounted snapshots; the others about any super_blocks.     *)
(***************************************************************************)
EXTENDS TransactionInv

USE SMTT(30), ZenonT(30)
USE SbsAssumption, WorkerAssumption
USE DEF Procs, Volumes, Disruptive, Calm

\* A step that moves no half of any operation and forgets no error.
LEMMA HalvesStable ==
    ASSUME HalvesInv, UNCHANGED <<disk, t_buffers, i_dirty, t_inodes>>,
           nx_readwrite' => nx_readwrite, Doomed => Doomed' \/ ~nx_readwrite'
    PROVE  HalvesInv'
BY DEF HalvesInv, NoTornOps, Rooted, Paired

\* apfs_update_inode() keeps the halves of each operation together.
LEMMA UpdateInodePaired ==
    ASSUME TypeOK, Rooted, NEW i \in Inodes, UpdateInode(i),
           t_inodes \ {i} \subseteq t_inodes', t_inodes' \subseteq t_inodes
    PROVE  Rooted' /\ (Paired => Paired')
<1>1. \A o \in Ops, h \in Halves :
        <<o, h>> \in t_buffers' <=> <<o, h>> \in t_buffers \/ (o \in i_dirty[i] /\ h = "ino")
  BY DEF UpdateInode
<1>2. \A j \in Inodes : i_dirty'[j] = IF j = i THEN {} ELSE i_dirty[j]
  BY DEF UpdateInode, TypeOK
<1>3. i_dirty[i] \subseteq Ops /\ t_inodes \subseteq Inodes
  BY DEF TypeOK
<1>4. \A o \in Ops : <<o, "rec">> \in t_buffers' <=> <<o, "rec">> \in t_buffers
  BY <1>1 DEF Halves
<1>5. \A o \in Ops : <<o, "ino">> \in t_buffers' <=> <<o, "ino">> \in t_buffers \/ o \in i_dirty[i]
  BY <1>1 DEF Halves
<1>6. ASSUME Paired, NEW o \in Ops, <<o, "rec">> \in t_buffers'
      PROVE  <<o, "ino">> \in t_buffers' \/ \E j \in t_inodes' : o \in i_dirty'[j]
  BY <1>2, <1>3, <1>4, <1>5, <1>6 DEF Paired
<1>7. ASSUME NEW o \in Ops, <<o, "ino">> \in t_buffers'
      PROVE  <<o, "rec">> \in t_buffers'
  BY <1>4, <1>5, <1>7 DEF Rooted
<1>8. ASSUME NEW j \in Inodes, NEW o \in i_dirty'[j]
      PROVE  <<o, "rec">> \in t_buffers'
  <2>1. o \in i_dirty[j] /\ i_dirty[j] \subseteq Ops
    BY <1>2, <1>8 DEF TypeOK
  <2> QED
    BY <1>4, <2>1 DEF Rooted
<1>9. ASSUME Paired, NEW j \in Inodes \ t_inodes'
      PROVE  i_dirty'[j] = {}
  BY <1>2, <1>9 DEF Paired
<1> QED
  BY <1>6, <1>7, <1>8, <1>9 DEF Rooted, Paired

\* With one volume, both halves of an operation join the transaction.
LEMMA OperateJoins ==
    ASSUME OneVolume, IInv, NEW t \in Threads, NEW o \in Ops, NEW i \in Inodes, Operate(t, o, i)
    PROVE  /\ t_buffers' = t_buffers \cup {<<o, "rec">>}
           /\ i_dirty' = [i_dirty EXCEPT ![i] = i_dirty[i] \cup {o}]
<1>1. pc[t] = "in" /\ sb[t] \in Volumes /\ nx_readwrite /\ t_starts_count > 0
  BY DEF IInv, Operate, CallInv, MountInv, XidInv, AlivePCs
<1>2. Joins(t) = {Halves}
  BY <1>1 DEF IInv, RootsInv, Joins
<1>3. /\ t_buffers' = t_buffers \cup ({o} \X (Halves \cap {"rec"}))
      /\ i_dirty' = [i_dirty EXCEPT ![i] = IF "ino" \in Halves THEN @ \cup {o} ELSE @]
  BY <1>2 DEF Operate
<1>4. Halves \cap {"rec"} = {"rec"} /\ "ino" \in Halves
  BY DEF Halves
<1>5. {o} \X {"rec"} = {<<o, "rec">>}
  OBVIOUS
<1> QED
  BY <1>3, <1>4, <1>5

\* The first start of a transaction copies the roots of the volume.
LEMMA RootsStep ==
    ASSUME Calm, OneVolume, IInv, CalmNext
    PROVE  RootsInv'
<1> USE DEF mountVars, transVars
<1>h. RootsInv /\ TypeOK /\ CallInv /\ MountInv
  BY DEF IInv
<1>1. ASSUME NEW t \in Threads, NEW s \in Sbs, NEW k \in AllKinds, Start(t, s, k)
      PROVE  RootsInv'
  <2>1. CASE StartReadonly(t, s, k) \/ StartEphemeralError(t, s, k)
    BY <2>1, <1>h DEF StartReadonly, StartEphemeralError, StartReturns, RootsInv, TypeOK
  <2>2. CASE StartError(t, s, k) \/ StartNoRoom(t, s, k)
    <3>1. UNCHANGED <<nx_readwrite, t_starts_count, vsb_xid>> /\ (t_starts_count > 0 => UNCHANGED nx_xid)
      BY <2>2, <1>h DEF StartError, StartNoRoom, StartXid, TypeOK
    <3> QED
      BY <3>1, <1>h DEF RootsInv
  <2>3. CASE StartOK(t, s, k)
    <3>1. CASE t_starts_count > 0
      BY <2>3, <3>1, <1>h DEF StartOK, StartXid, RootsInv, TypeOK
    <3>2. CASE t_starts_count = 0
      <4>1. s \in Volumes /\ vsb_xid' = [vsb_xid EXCEPT ![s] = nx_xid']
        BY <2>3, <3>2, <1>h DEF StartOK, StartXid, MountInv
      <4>2. \A v \in Volumes : v = s
        BY <4>1 DEF OneVolume
      <4> QED
        BY <4>1, <4>2, <1>h DEF RootsInv, TypeOK
    <3> QED
      BY <3>1, <3>2, <1>h DEF TypeOK
  <2> QED
    BY <1>1, <2>1, <2>2, <2>3 DEF Start
<1>2. ASSUME NEW t \in Threads, CalmBody(t)
      PROVE  RootsInv'
  BY <1>2, <1>h DEF CalmBody, Operate, OperateNothing, WriteInode, OperateError, RootsInv
<1>3. ASSUME NEW p \in Procs, Commit(p)
      PROVE  RootsInv'
  <2>1. UNCHANGED <<nx_readwrite, nx_xid, vsb_xid>> /\ t_starts_count' \in {0, t_starts_count}
    BY <1>3 DEF Commit, CommitLater, CommitNow, FlushInode, FlushDone, FinishOK, FinishError
  <2> QED
    BY <2>1, <1>h DEF RootsInv
<1>4. ASSUME NEW p \in Procs, FlushRelock(p) \/ Abort(p)
      PROVE  RootsInv'
  BY <1>4, <1>h DEF FlushRelock, Abort, AbortAgain, AbortFirst, AbortDropInode, AbortDone, RootsInv
<1>5. CASE Work
  BY <1>5, <1>h DEF Work, WorkBegin, WorkSkip, WorkCommit, RootsInv
<1> QED
  BY <1>1, <1>2, <1>3, <1>4, <1>5 DEF CalmNext

\* A checkpoint is only written when nothing is torn in memory.
LEMMA FinishPaired ==
    ASSUME OneVolume, IInv, NEW p \in Procs, pc[p] = "finish"
    PROVE  nx_readwrite /\ Rooted /\ Paired /\ t_inodes = {}
<1>1. nx_readwrite /\ t_inodes = {} /\ nx_big_sem = p
  BY DEF IInv, MountInv, FlushInv, LockInv, AlivePCs, LockedPCs
<1>2. ASSUME NEW q \in Procs
      PROVE  pc[q] # "abort" /\ pc[q] \notin {"flush", "window"}
  BY <1>1 DEF IInv, LockInv, LockedPCs, FlushInv, NoNestedCommit, CommitPCs
<1> QED
  BY <1>1, <1>2 DEF Doomed, IInv, HalvesInv

LEMMA CheckpointUntorn ==
    ASSUME OneVolume, IInv, NEW p \in Procs, pc[p] = "finish", Checkpoint
    PROVE  NoTornOps'
<1>1. Rooted /\ Paired /\ t_inodes = {} /\ NoTornOps
  BY FinishPaired DEF IInv, HalvesInv
<1> QED
  BY <1>1 DEF Checkpoint, Rooted, Paired, NoTornOps

\* The halves of an operation stay together until an abort, and together they
\* reach the disk.
LEMMA HalvesStep ==
    ASSUME Calm, OneVolume, IInv, CalmNext
    PROVE  HalvesInv'
<1> USE DEF mountVars, transVars, diskVars
<1>h. HalvesInv /\ TypeOK /\ CallInv /\ MountInv
  BY DEF IInv
<1>1. ASSUME NEW t \in Threads, NEW s \in Sbs, NEW k \in AllKinds, Start(t, s, k)
      PROVE  HalvesInv'
  <2>1. pc[t] = "idle" /\ MayStart(t, s, k)
    BY <1>1, <1>h, CalmStart DEF Start, StartReadonly, StartEphemeralError, StartError,
       StartNoRoom, StartOK, StartXid
  <2>2. \A q \in Procs \ {t} : pc'[q] = pc[q] /\ flush_err'[q] = flush_err[q]
    BY <1>1, <1>h, <2>1 DEF TypeOK, MayStart, Start, StartReadonly, StartEphemeralError,
       StartReturns, StartError, StartNoRoom, StartOK, StartXid, Return
  <2>3. Doomed => Doomed'
    BY <2>1, <2>2 DEF Doomed
  <2> QED
    BY <1>1, <1>h, <2>3, HalvesStable DEF TypeOK, Start, StartReadonly, StartEphemeralError,
       StartReturns, StartError, StartNoRoom, StartOK, StartXid
<1>2. ASSUME NEW t \in Threads, NEW o \in Ops, NEW i \in Inodes, Operate(t, o, i)
      PROVE  HalvesInv'
  <2>0. t_buffers' = t_buffers \cup {<<o, "rec">>} /\ i_dirty' = [i_dirty EXCEPT ![i] = i_dirty[i] \cup {o}]
    BY <1>2, OperateJoins
  <2>1. t_buffers' = t_buffers \cup {<<o, "rec">>} /\ t_inodes' = t_inodes \cup {i}
    BY <1>2, <2>0 DEF Operate, InodeJoin
  <2>2. \A j \in Inodes : i_dirty'[j] = IF j = i THEN i_dirty[i] \cup {o} ELSE i_dirty[j]
    BY <1>h, <2>0 DEF TypeOK
  <2>3. Rooted => Rooted' /\ (Paired => Paired')
    BY <1>h, <2>1, <2>2 DEF Rooted, Paired, TypeOK
  <2>4. Doomed => Doomed'
    BY <1>2, <1>h DEF Operate, CallCommit, Doomed, TypeOK
  <2> QED
    BY <1>2, <1>h, <2>3, <2>4 DEF Operate, HalvesInv, NoTornOps
<1>3. ASSUME NEW t \in Threads, OperateNothing(t)
      PROVE  HalvesInv'
  <2>1. Doomed => Doomed'
    BY <1>3, <1>h DEF OperateNothing, CallCommit, Doomed, TypeOK
  <2> QED
    BY <1>3, <1>h, <2>1, HalvesStable DEF OperateNothing
<1>4. ASSUME NEW t \in Threads, NEW i \in Inodes, WriteInode(t, i)
      PROVE  HalvesInv'
  <2>1. Doomed => Doomed'
    BY <1>4, <1>h DEF WriteInode, CallCommit, Doomed, TypeOK
  <2>2. Rooted => Rooted' /\ (Paired => Paired')
    BY <1>4, <1>h, UpdateInodePaired DEF WriteInode
  <2> QED
    BY <1>4, <1>h, <2>1, <2>2 DEF WriteInode, HalvesInv, NoTornOps
<1>5. ASSUME NEW t \in Threads, NEW o \in Ops, OperateError(t, o)
      PROVE  HalvesInv'
  <2>1. Doomed'
    BY <1>5, <1>h DEF OperateError, Doomed, TypeOK
  <2>2. Rooted => Rooted'
    BY <1>5 DEF OperateError, Rooted
  <2> QED
    BY <1>5, <1>h, <2>1, <2>2 DEF OperateError, HalvesInv, NoTornOps
<1>6. ASSUME NEW p \in Procs, Commit(p)
      PROVE  HalvesInv'
  <2>0. pc[p] \in {"commit", "flush", "finish"} /\ nx_readwrite
    BY <1>6, <1>h DEF CallInv, MountInv, AlivePCs, Commit, CommitLater, CommitNow, FlushInode,
       FlushDone, FinishOK, FinishError
  <2>1. UNCHANGED nx_readwrite
    BY <1>6 DEF Commit, CommitLater, CommitNow, FlushInode, FlushDone, FinishOK, FinishError
  <2>2. ASSUME NEW over \in BOOLEAN, CommitLater(p, over) \/ CommitNow(p, over)
        PROVE  HalvesInv'
    <3>1. pc[p] = "commit" /\ UNCHANGED flush_err /\ \A q \in Procs \ {p} : pc'[q] = pc[q]
      BY <2>2, <1>h, CalmFinish DEF CommitLater, CommitNow, Return, TypeOK
    <3>2. Doomed => Doomed'
      BY <3>1 DEF Doomed
    <3>3. UNCHANGED <<disk, t_buffers, i_dirty, t_inodes>>
      BY <2>2 DEF CommitLater, CommitNow
    <3> QED
      BY <2>1, <1>h, <3>2, <3>3, HalvesStable
  <2>3. ASSUME NEW i \in Inodes, FlushInode(p, i)
        PROVE  HalvesInv'
    <3>1. pc[p] = "flush" /\ pc' = [pc EXCEPT ![p] = WindowOf("flush")]
      BY <2>3, <2>0 DEF FlushInode
    <3>w. WindowOf("flush") = "window"
      BY DEF WindowOf
    <3>2. pc'[p] = "window" /\ \A q \in Procs \ {p} : pc'[q] = pc[q] /\ flush_err'[q] = flush_err[q]
      BY <2>3, <3>1, <3>w, <1>h DEF FlushInode, TypeOK
    <3>3. flush_err[p] => flush_err'[p]
      BY <2>3, <1>h DEF FlushInode, TypeOK
    <3>4. Doomed => Doomed'
      BY <3>1, <3>2, <3>3 DEF Doomed
    <3>5. CASE UpdateInode(i)
      BY <2>1, <2>3, <3>4, <3>5, <1>h, UpdateInodePaired DEF FlushInode, HalvesInv, NoTornOps
    <3>6. CASE UNCHANGED <<t_buffers, i_dirty>> /\ flush_err' = [flush_err EXCEPT ![p] = TRUE]
      <4>1. Doomed'
        BY <3>2, <3>6, <1>h DEF Doomed, TypeOK
      <4> QED
        BY <2>1, <2>3, <3>6, <4>1, <1>h DEF FlushInode, HalvesInv, NoTornOps, Rooted
    <3> QED
      BY <2>3, <3>5, <3>6 DEF FlushInode
  <2>4. CASE FlushDone(p)
    <3>1. UNCHANGED flush_err /\ (flush_err[p] => pc'[p] = "abort")
      BY <2>4, <1>h DEF FlushDone, TypeOK
    <3>2. \A q \in Procs \ {p} : pc'[q] = pc[q]
      BY <2>4, <1>h DEF FlushDone, TypeOK
    <3>3. Doomed => Doomed'
      BY <2>0, <3>1, <3>2 DEF Doomed
    <3> QED
      BY <2>4, <1>h, <3>3, HalvesStable DEF FlushDone
  <2>5. CASE FinishOK(p)
    <3>1. NoTornOps' /\ Paired /\ t_inodes = {}
      BY <2>5, FinishPaired, CheckpointUntorn DEF FinishOK
    <3>2. t_buffers' = {} /\ UNCHANGED <<i_dirty, t_inodes>>
      BY <2>5 DEF FinishOK, Checkpoint
    <3>3. \A i \in Inodes : i_dirty[i] = {}
      BY <3>1 DEF Paired
    <3> QED
      BY <3>1, <3>2, <3>3 DEF HalvesInv, Rooted, Paired
  <2>6. CASE FinishError(p)
    <3>1. Doomed'
      BY <2>6, <1>h DEF FinishError, Doomed, TypeOK
    <3>2. NoTornOps' /\ Rooted'
      <4>1. Rooted /\ \A i \in Inodes : i_dirty[i] = {}
        BY <2>6, FinishPaired DEF FinishError, Paired
      <4>2. CASE Checkpoint
        BY <4>1, <4>2, <2>6, CheckpointUntorn DEF FinishError, Checkpoint, Rooted
      <4>3. CASE UNCHANGED <<t_buffers, disk>>
        BY <4>1, <4>3, <2>6, <1>h DEF FinishError, HalvesInv, NoTornOps, Rooted
      <4> QED
        BY <4>2, <4>3, <2>6 DEF FinishError
    <3> QED
      BY <3>1, <3>2 DEF HalvesInv
  <2> QED
    BY <1>6, <2>2, <2>3, <2>4, <2>5, <2>6 DEF Commit
<1>7. ASSUME NEW p \in Procs, FlushRelock(p)
      PROVE  HalvesInv'
  <2>1. pc[p] = "window" /\ pc'[p] \in {"flush", "abort"}
    BY <1>7, <1>h DEF FlushRelock, FlushOf, CallInv, AlivePCs, TypeOK
  <2>2. UNCHANGED flush_err /\ \A q \in Procs \ {p} : pc'[q] = pc[q]
    BY <1>7, <1>h DEF FlushRelock, TypeOK
  <2>3. Doomed => Doomed'
    BY <2>1, <2>2 DEF Doomed
  <2> QED
    BY <1>7, <1>h, <2>3, HalvesStable DEF FlushRelock
<1>8. ASSUME NEW p \in Procs, Abort(p)
      PROVE  HalvesInv'
  <2>1. ~nx_readwrite'
    BY <1>8, <1>h DEF Abort, AbortAgain, AbortFirst, AbortDropInode, AbortDone, CallInv, MountInv
  <2>2. UNCHANGED disk
    BY <1>8 DEF Abort, AbortAgain, AbortFirst, AbortDropInode, AbortDone
  <2> QED
    BY <2>1, <2>2, <1>h DEF HalvesInv, NoTornOps
<1>9. CASE Work
  <2>1. pc[Worker] \in {"idle", "work"} /\ \A q \in Procs \ {Worker} :
            pc'[q] = pc[q] /\ flush_err'[q] = flush_err[q]
    BY <1>9, <1>h DEF Work, WorkBegin, WorkSkip, WorkCommit, Return, TypeOK
  <2>2. Doomed => Doomed'
    BY <2>1 DEF Doomed
  <2> QED
    BY <1>9, <1>h, <2>2, HalvesStable DEF Work, WorkBegin, WorkSkip, WorkCommit
<1> QED
  BY <1>1, <1>2, <1>3, <1>4, <1>5, <1>6, <1>7, <1>8, <1>9 DEF CalmNext, CalmBody

----------------------------------------------------------------------------
LEMMA InitIInv == Init => IInv
<1> SUFFICES ASSUME Init PROVE IInv
  OBVIOUS
<1>1. TypeOK
  BY Zenon DEF Init, TypeOK, PCs, LockedPCs, Codes
<1>2. LockInv /\ CallInv /\ MountInv /\ XidInv
  BY DEF Init, LockInv, LockedPCs, CallInv, AlivePCs, MountInv, XidInv
<1>3. FlushInv /\ PendingHasWork
  BY DEF Init, FlushInv, NoNestedCommit, CommitPCs, PendingHasWork
<1>4. RootsInv /\ HalvesInv
  BY DEF Init, RootsInv, HalvesInv, NoTornOps, Rooted, Paired
<1> QED
  BY <1>1, <1>2, <1>3, <1>4 DEF IInv

LEMMA NextIInv ==
    ASSUME Calm, IInv, [Next]_vars
    PROVE  IInv'
<1>1. CASE CalmNext
  BY <1>1, TypeStep, LockStep, CallStep, MountStep, FlushStep, XidStep, PendingStep, RootsStep,
     HalvesStep
  DEF IInv
<1>2. CASE UNCHANGED vars
  <2> USE <1>2 DEF vars, procVars, mountVars, transVars, workVars, diskVars
  <2>1. TypeOK'
    BY DEF IInv, TypeOK
  <2>2. LockInv' /\ CallInv'
    BY DEF IInv, LockInv, CallInv
  <2>3. MountInv' /\ XidInv'
    BY DEF IInv, MountInv, XidInv
  <2>4. FlushInv'
    BY DEF IInv, FlushInv, NoNestedCommit
  <2>5. OneVolume => RootsInv' /\ HalvesInv'
    BY DEF IInv, RootsInv, HalvesInv, NoTornOps, Rooted, Paired, Doomed
  <2>6. PendingHasWork'
    BY DEF IInv, PendingHasWork
  <2> QED
    BY <2>1, <2>2, <2>3, <2>4, <2>5, <2>6 DEF IInv
<1> QED
  BY <1>1, <1>2, NextIsCalm DEF IInv

LEMMA Inductive ==
    ASSUME Calm
    PROVE  Spec => []IInv
<1>1. IInv /\ [Next]_vars => IInv'
  BY NextIInv
<1> QED
  BY <1>1, InitIInv, PTL DEF Spec

\* The type invariant of the transaction; the only action that could leave it is
\* --nx_xid in apfs_transaction_abort().
THEOREM TypeCorrect ==
    ASSUME Calm
    PROVE  Spec => []TypeOK
<1>1. IInv => TypeOK
  BY DEF IInv
<1> QED
  BY <1>1, Inductive, PTL

\* Commits never nest, for any number of threads: the COMMITTING flag excludes a
\* second apfs_transaction_commit_nx() while the first one has released nx_big_sem
\* to put an inode.
THEOREM CommitsDontNest ==
    ASSUME Calm
    PROVE  Spec => []NoNestedCommit
<1>1. IInv => NoNestedCommit
  BY DEF IInv, FlushInv
<1> QED
  BY <1>1, Inductive, PTL

\* No checkpoint holds one half of an operation, for any number of inodes and any
\* order in which they are dirtied and flushed, if one volume is mounted.
THEOREM CheckpointsUntorn ==
    ASSUME Calm, OneVolume
    PROVE  Spec => []NoTornOps
<1>1. IInv => NoTornOps
  BY DEF IInv, HalvesInv
<1> QED
  BY <1>1, Inductive, PTL

\* Records are only changed inside of a transaction that is not on disk yet.
THEOREM ChangesInTransaction ==
    ASSUME Calm
    PROVE  Spec => []InTransaction
<1>1. ASSUME IInv, NEW p \in Procs, pc[p] \in {"in", "snap"}
      PROVE  t_starts_count > 0 /\ nx_xid > disk_xid
  <2>1. pc[p] = "in" /\ nx_readwrite /\ t_starts_count > 0
    BY <1>1 DEF IInv, CallInv, MountInv, XidInv, AlivePCs
  <2>2. \A q \in Procs : pc[q] # "abort"
    BY <1>1, <2>1 DEF IInv, LockInv, LockedPCs
  <2> QED
    BY <1>1, <2>1, <2>2 DEF IInv, XidInv
<1>2. IInv => InTransaction
  BY <1>1 DEF InTransaction
<1> QED
  BY <1>2, Inductive, PTL

\* As long as the container is writable, a change that is not on disk has a
\* commit queued or a process on its way to one.
THEOREM PendingChangesHaveWork ==
    ASSUME Calm
    PROVE  Spec => []PendingHasWork
<1>1. IInv => PendingHasWork
  BY DEF IInv
<1> QED
  BY <1>1, Inductive, PTL

\* Nothing reaches the disk after an abort, whatever the processes that were
\* between two steps at that time still do.
THEOREM AbortsAreFinal ==
    ASSUME Calm
    PROVE  Spec => AbortIsFinal
<1>1. ASSUME IInv, CalmNext, ~nx_readwrite
      PROVE  UNCHANGED <<diskVars, t_buffers>>
  <2>0. CallInv /\ MountInv
    BY <1>1 DEF IInv
  <2>1. \A p \in Procs : pc[p] \in {"idle", "window", "abort", "drop", "work"}
    BY <1>1, <2>0 DEF CallInv, MountInv
  <2>2. \A p \in Procs : pc[p] = "abort" => sb[p] \in s_rdonly
    BY <1>1, <2>0 DEF CallInv, MountInv
  <2>3. s_rdonly = Sbs
    BY <1>1, <2>0 DEF MountInv
  <2>4. ASSUME NEW t \in Threads
        PROVE  /\ \A s \in Sbs, k \in AllKinds :
                    Start(t, s, k) => UNCHANGED <<diskVars, t_buffers>>
               /\ ~CalmBody(t)
    BY <2>1, <2>3 DEF Start, StartReadonly, StartEphemeralError, StartReturns, StartError,
       StartNoRoom, StartOK, StartXid, transVars, CalmBody, Operate, OperateNothing,
       WriteInode, OperateError
  <2>5. ASSUME NEW p \in Procs
        PROVE  /\ ~Commit(p)
               /\ FlushRelock(p) \/ Abort(p) => UNCHANGED <<diskVars, t_buffers>>
    BY <2>1, <2>2 DEF Commit, CommitLater, CommitNow, FlushInode, FlushDone, FinishOK, FinishError,
       FlushRelock, Abort, AbortAgain, AbortFirst, AbortDropInode, AbortDone, transVars
  <2>6. Work => UNCHANGED <<diskVars, t_buffers>>
    BY DEF Work, WorkBegin, WorkSkip, WorkCommit, transVars
  <2> QED
    BY <1>1, <2>0, <2>4, <2>5, <2>6 DEF CalmNext
<1>2. IInv /\ [Next]_vars => [~nx_readwrite => UNCHANGED <<diskVars, t_buffers>>]_vars
  BY <1>1, NextIsCalm DEF IInv, vars
<1> QED
  BY <1>2, Inductive, PTL DEF AbortIsFinal, Spec

\* A checkpoint with other contents has a greater transaction id, also when the
\* worker commits again because it read a stale t_work_sb.
THEOREM XidsIdentifyCheckpoints ==
    ASSUME Calm
    PROVE  Spec => XidIdentifiesCheckpoint
<1>1. ASSUME IInv, NEW p \in Procs, pc[p] = "finish", Checkpoint, disk' # disk
      PROVE  disk_xid' > disk_xid
  <2>1. t_starts_count > 0
    BY <1>1 DEF IInv, TypeOK, XidInv, Checkpoint
  <2>2. nx_readwrite /\ \A q \in Procs : pc[q] # "abort"
    BY <1>1 DEF IInv, MountInv, AlivePCs, LockInv, LockedPCs
  <2> QED
    BY <1>1, <2>1, <2>2 DEF IInv, XidInv, Checkpoint
<1>2. ASSUME IInv, CalmNext, disk' # disk
      PROVE  \E p \in Procs : pc[p] = "finish" /\ Checkpoint
  <2>1. CallInv
    BY <1>2 DEF IInv
  <2>2. ASSUME NEW t \in Threads
        PROVE  CalmBody(t) \/ (\E s \in Sbs, k \in AllKinds : Start(t, s, k)) => UNCHANGED disk
    BY DEF diskVars, Start, StartReadonly, StartEphemeralError, StartReturns, StartError,
       StartNoRoom, StartOK, StartXid, CalmBody, Operate, OperateNothing, WriteInode,
       OperateError
  <2>3. ASSUME NEW p \in Procs
        PROVE  /\ Commit(p) => UNCHANGED disk \/ (pc[p] = "finish" /\ Checkpoint)
               /\ FlushRelock(p) \/ Abort(p) => UNCHANGED disk
    BY DEF diskVars, Commit, CommitLater, CommitNow, FlushInode, FlushDone, FinishOK, FinishError,
       FlushRelock, Abort, AbortAgain, AbortFirst, AbortDropInode, AbortDone
  <2>4. Work => UNCHANGED disk
    BY DEF diskVars, Work, WorkBegin, WorkSkip, WorkCommit
  <2> QED
    BY <1>2, <2>1, <2>2, <2>3, <2>4 DEF CalmNext
<1>3. IInv /\ [Next]_vars => [disk' # disk => disk_xid' > disk_xid]_vars
  BY <1>1, <1>2, NextIsCalm DEF IInv, vars
<1> QED
  BY <1>3, Inductive, PTL DEF XidIdentifiesCheckpoint, Spec
----------------------------------------------------------------------------
(***************************************************************************)
(* The transaction implements AtomicCommit.                                *)
(***************************************************************************)
\* A step that moves no half of any operation changes neither what is applied nor
\* what is durable.
LEMMA AppliedStable ==
    ASSUME UNCHANGED <<t_buffers, i_dirty, disk>>
    PROVE  Applied' = Applied /\ Durable' = Durable
BY DEF Applied, Durable

\* apfs_update_inode() doesn't either.
LEMMA UpdateInodeApplied ==
    ASSUME TypeOK, NEW i \in Inodes, UpdateInode(i), UNCHANGED disk
    PROVE  Applied' = Applied /\ Durable' = Durable
<1>1. \A o \in Ops : <<o, "rec">> \in t_buffers' <=> <<o, "rec">> \in t_buffers
  BY DEF UpdateInode
<1>2. \A o \in Ops : <<o, "ino">> \in t_buffers' <=> <<o, "ino">> \in t_buffers \/ o \in i_dirty[i]
  BY DEF UpdateInode
<1>3. \A j \in Inodes : i_dirty'[j] = IF j = i THEN {} ELSE i_dirty[j]
  BY DEF UpdateInode, TypeOK
<1> QED
  BY <1>1, <1>2, <1>3 DEF Applied, Durable

\* A checkpoint makes all that is applied durable.
LEMMA CheckpointCommits ==
    ASSUME OneVolume, IInv, NEW p \in Procs, pc[p] = "finish", Checkpoint, UNCHANGED i_dirty
    PROVE  Applied' = Applied /\ Durable' = Applied
<1>1. \A i \in Inodes : i_dirty[i] = {}
  BY FinishPaired DEF Paired
<1>2. \A o \in Ops : {o} \X Halves \subseteq disk' <=> <<o, "rec">> \in disk' /\ <<o, "ino">> \in disk'
  BY DEF Halves
<1>3. disk' = t_buffers \cup disk /\ t_buffers' = {}
  BY DEF Checkpoint
<1> QED
  BY <1>1, <1>2, <1>3 DEF Applied, Durable

\* With no buffers, only what is durable is left of the operations.
LEMMA AppliedIsDurable ==
    ASSUME NoTornOps, UNCHANGED disk, t_buffers' = {}
    PROVE  Applied' = Durable /\ Durable' = Durable
<1>1. \A o \in Ops : {o} \X Halves \subseteq disk <=> <<o, "rec">> \in disk /\ <<o, "ino">> \in disk
  BY DEF Halves
<1> QED
  BY <1>1 DEF Applied, Durable, NoTornOps

LEMMA OperateApplies ==
    ASSUME OneVolume, IInv, NEW t \in Threads, NEW o \in Ops, NEW i \in Inodes, Operate(t, o, i)
    PROVE  o \notin Applied /\ Applied' = Applied \cup {o} /\ Durable' = Durable
<1>0. t_buffers' = t_buffers \cup {<<o, "rec">>} /\ i_dirty' = [i_dirty EXCEPT ![i] = i_dirty[i] \cup {o}]
  BY OperateJoins
<1>1. Fresh(o) /\ UNCHANGED disk
  BY DEF Operate, diskVars
<1>2. \A j \in Inodes : i_dirty'[j] = IF j = i THEN i_dirty[i] \cup {o} ELSE i_dirty[j]
  BY <1>0 DEF IInv, TypeOK
<1> QED
  BY <1>0, <1>1, <1>2 DEF Applied, Durable, Fresh

\* What a failed operation leaves in the buffers isn't an operation.
LEMMA OperateErrorApplied ==
    ASSUME TypeOK, NoTornOps, Rooted, NEW t \in Threads, NEW o \in Ops, OperateError(t, o)
    PROVE  Applied' = Applied /\ Durable' = Durable
<1>1. UNCHANGED <<disk, i_dirty>>
  BY DEF OperateError, diskVars
<1>2. CASE t_buffers' = t_buffers
  BY <1>1, <1>2 DEF Applied, Durable
<1>3. CASE Fresh(o) /\ t_buffers' = t_buffers \cup {<<o, "rec">>}
  <2>1. <<o, "ino">> \notin t_buffers \cup disk /\ \A i \in Inodes : o \notin i_dirty[i]
    BY <1>3 DEF Fresh, Rooted, NoTornOps
  <2> QED
    BY <1>1, <1>3, <2>1 DEF Applied, Durable
<1> QED
  BY <1>2, <1>3 DEF OperateError

LEMMA AtomicStep ==
    ASSUME Calm, OneVolume, IInv, CalmNext
    PROVE  [Atomic!Next]_(Atomic!vars)
<1> USE DEF Atomic!vars
<1> DEFINE Stutter == UNCHANGED <<Applied, Durable, nx_readwrite>>
<1>s. Stutter => [Atomic!Next]_(Atomic!vars)
  OBVIOUS
<1>h. TypeOK /\ CallInv /\ MountInv /\ HalvesInv
  BY DEF IInv
<1> HIDE DEF Stutter
<1>1. ASSUME NEW t \in Threads, NEW s \in Sbs, NEW k \in AllKinds, Start(t, s, k)
      PROVE  [Atomic!Next]_(Atomic!vars)
  <2>1. UNCHANGED <<t_buffers, i_dirty, disk>>
    BY <1>1 DEF transVars, diskVars, Start, StartReadonly, StartEphemeralError, StartReturns,
       StartError, StartNoRoom, StartOK, StartXid
  <2>2. CASE UNCHANGED nx_readwrite
    BY <2>1, <2>2, <1>s, AppliedStable DEF Stutter
  <2>3. CASE s \notin s_rdonly /\ ~nx_eph_list /\ nx_readwrite' = FALSE
    <3>1. nx_readwrite /\ t_buffers = {}
      BY <1>h, <2>3 DEF IInv, MountInv, TypeOK, XidInv
    <3>2. Applied' = Durable /\ Durable' = Durable
      BY <1>h, <2>1, <3>1, AppliedIsDurable DEF HalvesInv
    <3> QED
      BY <2>3, <3>2 DEF Atomic!Next, Atomic!Abort
  <2>4. UNCHANGED nx_readwrite \/ (s \notin s_rdonly /\ ~nx_eph_list /\ nx_readwrite' = FALSE)
    BY <1>1 DEF Start, StartReadonly, StartEphemeralError, StartError, StartNoRoom, StartOK, StartXid
  <2> QED
    BY <2>2, <2>3, <2>4, Zenon
<1>2. ASSUME NEW t \in Threads, CalmBody(t)
      PROVE  [Atomic!Next]_(Atomic!vars)
  <2>0. pc[t] = "in" /\ nx_readwrite /\ Rooted /\ UNCHANGED nx_readwrite
    BY <1>2, <1>h DEF CallInv, MountInv, HalvesInv, AlivePCs, mountVars, CalmBody, Operate,
       OperateNothing, WriteInode, OperateError
  <2>1. ASSUME NEW o \in Ops, NEW i \in Inodes, Operate(t, o, i)
        PROVE  [Atomic!Next]_(Atomic!vars)
    BY <1>h, <2>0, <2>1, OperateApplies DEF Atomic!Next, Atomic!Apply
  <2>2. ASSUME NEW i \in Inodes, WriteInode(t, i)
        PROVE  Stutter
    BY <1>h, <2>0, <2>2, UpdateInodeApplied DEF Stutter, WriteInode, diskVars
  <2>3. ASSUME NEW o \in Ops, OperateError(t, o)
        PROVE  Stutter
    BY <1>h, <2>0, <2>3, OperateErrorApplied DEF Stutter, HalvesInv
  <2>4. CASE OperateNothing(t)
    BY <2>0, <2>4, <1>s, AppliedStable DEF Stutter, OperateNothing, transVars, diskVars
  <2> QED
    BY <1>2, <1>s, <2>0, <2>1, <2>2, <2>3, <2>4 DEF CalmBody
<1>3. ASSUME NEW p \in Procs, Commit(p)
      PROVE  [Atomic!Next]_(Atomic!vars)
  <2>0. nx_readwrite /\ UNCHANGED nx_readwrite
    BY <1>3, <1>h DEF CallInv, MountInv, AlivePCs, mountVars, Commit, CommitLater, CommitNow,
       FlushInode, FlushDone, FinishOK, FinishError
  <2>1. ASSUME NEW i \in Inodes, FlushInode(p, i)
        PROVE  Stutter
    BY <1>h, <2>0, <2>1, UpdateInodeApplied, AppliedStable DEF Stutter, FlushInode, diskVars
  <2>2. CASE pc[p] = "finish" /\ Checkpoint /\ UNCHANGED i_dirty
    BY <2>0, <2>2, CheckpointCommits DEF Atomic!Next, Atomic!Commit
  <2>3. CASE UNCHANGED <<t_buffers, i_dirty, disk>>
    BY <2>0, <2>3, <1>s, AppliedStable DEF Stutter
  <2> QED
    BY <1>3, <1>s, <2>1, <2>2, <2>3 DEF Commit, CommitLater, CommitNow, FlushDone, FinishOK,
       FinishError, transVars, diskVars
<1>4. ASSUME NEW p \in Procs, FlushRelock(p)
      PROVE  Stutter
  BY <1>4, AppliedStable DEF Stutter, FlushRelock, mountVars, diskVars
<1>5. ASSUME NEW p \in Procs, Abort(p)
      PROVE  [Atomic!Next]_(Atomic!vars)
  <2>1. CASE AbortFirst(p)
    <3>1. Applied' = Durable /\ Durable' = Durable
      BY <1>h, <2>1, AppliedIsDurable DEF HalvesInv, AbortFirst, diskVars
    <3> QED
      BY <2>1, <3>1 DEF AbortFirst, Atomic!Next, Atomic!Abort
  <2>2. CASE AbortAgain(p) \/ AbortDone(p) \/ \E i \in Inodes : AbortDropInode(p, i)
    BY <2>2, <1>s, AppliedStable
    DEF Stutter, AbortAgain, AbortDone, AbortDropInode, transVars, diskVars, mountVars
  <2> QED
    BY <1>5, <2>1, <2>2 DEF Abort
<1>6. Work => Stutter
  BY AppliedStable DEF Stutter, Work, WorkBegin, WorkSkip, WorkCommit, transVars,
     diskVars, mountVars
<1> QED
  BY <1>1, <1>2, <1>3, <1>4, <1>5, <1>6, <1>s, <1>h DEF CalmNext

\* The transaction keeps the promise of AtomicCommit for any number of threads,
\* inodes and operations on the mounted volume: apfs_transaction_commit_nx() makes
\* durable all that was applied, each operation as a whole, or it makes nothing
\* durable.
THEOREM ImplementsAtomicCommit ==
    ASSUME Calm, OneVolume
    PROVE  Spec => RefinesAtomicCommit
<1>1. Init => Atomic!Init
  <2>1. \A o \in Ops : <<o, "rec">> \in {o} \X Halves
    BY DEF Halves
  <2>2. Init => Applied = {} /\ Durable = {}
    BY <2>1, Zenon DEF Init, Applied, Durable
  <2>3. Init => nx_readwrite
    BY DEF Init
  <2> QED
    BY <2>2, <2>3 DEF Atomic!Init
<1>2. IInv /\ [Next]_vars => [Atomic!Next]_(Atomic!vars)
  <2>1. ASSUME UNCHANGED vars
        PROVE  UNCHANGED Atomic!vars
    BY <2>1, AppliedStable DEF vars, mountVars, transVars, diskVars, Atomic!vars
  <2> QED
    BY <2>1, AtomicStep, NextIsCalm DEF IInv
<1> QED
  BY <1>1, <1>2, Inductive, PTL DEF Spec, RefinesAtomicCommit, Atomic!Spec
============================================================================
