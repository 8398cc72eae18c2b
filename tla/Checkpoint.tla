----------------------------- MODULE Checkpoint -----------------------------
(***************************************************************************)
(* Checkpoints on disk: how apfs_transaction_commit_nx() writes them, and  *)
(* how a mount finds the latest one after a crash.                         *)
(*                                                                         *)
(* A container has two rings of blocks.  The descriptor ring holds, for    *)
(* each checkpoint, its mapping blocks (cpm) followed by its superblock;   *)
(* the data ring holds its ephemeral objects, which are kept in memory and *)
(* written in full every time.  All other changes of a transaction are     *)
(* copied on write to new blocks, here a single "tree" block named by the  *)
(* superblock.  The tree records what its checkpoint should contain, so    *)
(* that a mount can tell if it found a whole one.                          *)
(*                                                                         *)
(* The blocks of a transaction reach the disk in any order, but all of     *)
(* them do before the superblock is written.  A crash may come at any      *)
(* time; a write that completed is taken to be durable.                    *)
(*                                                                         *)
(* A commit is made by some caller, or by the worker of t_work.  The       *)
(* worker reads t_work_sb before it takes the semaphore, so it may commit  *)
(* again what another process has just committed: that checkpoint has the  *)
(* same id and the same contents, at the next place of both rings.         *)
(***************************************************************************)
EXTENDS Naturals, FiniteSets, Sequences, SequencesExt

CONSTANTS
    DescBlks,       \* nx_xp_desc_blocks
    DataBlks,       \* nx_xp_data_blocks
    MaxMaps,        \* apfs_max_maps_per_block()
    EphSizes,       \* sizes in blocks of the first ephemeral objects
    EphLimit,       \* APFS_EPHEMERAL_LIST_LIMIT, or less if sfq_tree_node_limit asks for it
    FirstDesc,      \* nx_xp_desc_index of the first checkpoint
    FirstData,      \* nx_xp_data_index of the first checkpoint
    Remounts,       \* when apfs_remount() may set its flag: "quiet" or "racing"
    MaxOid,         \* bound: last object id
    MaxAttempt,     \* bound: transactions ever started
    None            \* NULL

ASSUME RingsAssumption ==
    /\ DescBlks \in Nat \ {0} /\ FirstDesc \in 0..(DescBlks - 1)
    /\ DataBlks \in Nat \ {0} /\ FirstData \in 0..(DataBlks - 1)
ASSUME ObjectsAssumption ==
    /\ MaxMaps \in Nat \ {0}
    /\ EphSizes \in Seq({1, 2}) /\ EphSizes # <<>>
    /\ EphLimit \in Nat /\ Len(EphSizes) <= EphLimit
ASSUME SwitchesAssumption == Remounts \in {"quiet", "racing"} /\ MaxOid \in Nat /\ MaxAttempt \in Nat

\* Transactions that were ever started; unlike transaction ids, which are used
\* again after a crash, these tell all of them apart.
Attempts == 1..MaxAttempt

VARIABLES
    disk,           \* contents of each block
    mounted,
    s_rdonly,       \* SB_RDONLY is set
    nx_readwrite,   \* APFS_READWRITE is set in nx_flags
    nx_raw,         \* container superblock in memory
    nx_xid,
    nx_bno,         \* position of the superblock in the descriptor ring
    nx_eph_list,    \* ephemeral objects, or None if they were not read
    t_buffers,      \* blocks of the transaction, not yet on disk
    phase,          \* of the transaction
    t_work,         \* the delayed commit is not queued, queued, or has read t_work_sb
    unmounting,     \* apfs_put_super() is waiting for its commit
    ops,            \* transactions whose changes are in memory
    started         \* latest transaction ever started

memVars == <<mounted, s_rdonly, nx_readwrite, nx_raw, nx_xid, nx_bno, nx_eph_list,
             t_buffers, phase, t_work, unmounting, ops>>
vars == <<disk, memVars, started>>

Desc(i) == <<"desc", i % DescBlks>>
Data(i) == <<"data", i % DataBlks>>
Tree(a) == <<"tree", a>>
Zero == <<"zero", 0>>
Addrs == {Desc(i) : i \in 0..(DescBlks - 1)} \cup {Data(i) : i \in 0..(DataBlks - 1)}
         \cup {Tree(a) : a \in Attempts \cup {0}} \cup {Zero}

Garbage == [type |-> "garbage"]
----------------------------------------------------------------------------
(***************************************************************************)
(* The layout of a checkpoint: apfs_write_ephemeral_objects().             *)
(***************************************************************************)
\* data_len after each number of objects
DataLen(eph) ==
    LET len[n \in 0..Len(eph)] == IF n = 0 THEN 0 ELSE len[n - 1] + eph[n].size
    IN len

\* Block n of the ephemeral objects, counting from 0.
EphBlock(eph, a, n) ==
    LET i == CHOOSE i \in DOMAIN eph : DataLen(eph)[i - 1] <= n /\ n < DataLen(eph)[i]
    IN [type |-> "eph", oid |-> eph[i].oid, part |-> n - DataLen(eph)[i - 1], attempt |-> a]

CpmCount(eph) == (Len(eph) + MaxMaps - 1) \div MaxMaps

\* The limits that are supposed to keep the rings from running over themselves.
InLimits(eph) ==
    /\ \A i \in DOMAIN eph : DataLen(eph)[i - 1] # DataBlks \div 4
    /\ CpmCount(eph) <= DescBlks \div 4

\* apfs_create_cpoint_map() for the objects of mapping block k.
CpmBlock(eph, k, data_index) ==
    [type |-> "cpm",
     maps |-> [m \in 1..(IF Len(eph) < (k + 1) * MaxMaps THEN Len(eph) - k * MaxMaps ELSE MaxMaps) |->
                 LET i == k * MaxMaps + m
                 IN [oid |-> eph[i].oid, size |-> eph[i].size,
                     paddr |-> (data_index + DataLen(eph)[i - 1]) % DataBlks]]]

\* The blocks of a checkpoint in the rings but for its superblock.  If the data
\* ring is too small, the last object written to a block is the one that stays.
RingBlocks(eph, a, desc_index, data_index) ==
    LET len == DataLen(eph)[Len(eph)]
        last(d) == CHOOSE n \in 0..(len - 1) :
                      /\ Data(data_index + n) = d
                      /\ \A m \in (n + 1)..(len - 1) : Data(data_index + m) # d
        cpms == [d \in {Desc(desc_index + k) : k \in 0..(CpmCount(eph) - 1)} |->
                   CpmBlock(eph, (d[2] + DescBlks - desc_index) % DescBlks, data_index)]
        data == [d \in {Data(data_index + n) : n \in 0..(len - 1)} |-> EphBlock(eph, a, last(d))]
    IN cpms @@ data

\* The blocks that the transaction copied on write.
TreeBlocks(eph, a, applied) == [d \in {Tree(a)} |-> [type |-> "tree", ops |-> applied, eph |-> eph]]

\* The fields that the superblock gets once the ephemeral objects have a place.
PlaceRings(raw, eph) ==
    [raw EXCEPT !.desc_index = raw.desc_next,
                !.desc_len = CpmCount(eph) + 1,
                !.desc_next = (raw.desc_next + CpmCount(eph) + 1) % DescBlks,
                !.data_index = raw.data_next,
                !.data_next = (raw.data_next + DataLen(eph)[Len(eph)]) % DataBlks]
----------------------------------------------------------------------------
(***************************************************************************)
(* Reading a checkpoint back.                                              *)
(***************************************************************************)
\* apfs_read_main_super(): start with block zero, which needs no valid checksum,
\* and go through the descriptors for the one with the greatest id.
Newer(d) == {i \in 0..(DescBlks - 1) : d[Desc(i)].type = "super" /\ d[Desc(i)].xid > d[Zero].xid}

ReadMainSuper(d) ==
    IF Newer(d) = {} THEN d[Zero]
    ELSE LET best == {i \in Newer(d) : \A j \in Newer(d) : d[Desc(j)].xid <= d[Desc(i)].xid}
         IN d[Desc(Min(best))]

CpmAddrs(raw) == {Desc(raw.desc_index + k) : k \in 0..(raw.desc_len - 2)}

\* apfs_read_single_ephemeral_object(): the checksum is the one of all blocks.
ObjectOK(d, map) ==
    LET first == d[Data(map.paddr)]
    IN \A p \in 0..(map.size - 1) :
          LET b == d[Data(map.paddr + p)]
          IN b.type = "eph" /\ b.part = p /\ b.oid = first.oid /\ b.attempt = first.attempt

\* apfs_read_single_cpm_block() works for all of them.  With no maps at all it
\* would return an uninitialized value.
Readable(d, raw) ==
    \A c \in CpmAddrs(raw) :
        /\ d[c].type = "cpm"
        /\ Len(d[c].maps) > 0
        /\ \A m \in DOMAIN d[c].maps : ObjectOK(d, d[c].maps[m])

\* All the mappings of a checkpoint, in order.
Maps(d, raw) ==
    FlattenSeq([k \in 1..(raw.desc_len - 1) |-> d[Desc(raw.desc_index + k - 1)].maps])

\* apfs_read_ephemeral_objects()
ReadEphemeral(d, raw) ==
    LET maps == Maps(d, raw)
    IN [m \in DOMAIN maps |-> [oid |-> maps[m].oid, size |-> maps[m].size]]

\* A mount of d finds a whole checkpoint: the tree is there, and so are the
\* objects that were written with it.
Whole(d, raw) ==
    /\ d[Tree(raw.omap)].type = "tree"
    /\ Readable(d, raw)
    /\ ReadEphemeral(d, raw) = d[Tree(raw.omap)].eph
    /\ \A c \in CpmAddrs(raw) : \A m \in DOMAIN d[c].maps :
        LET b == d[Data(d[c].maps[m].paddr)]
        IN b.attempt = raw.omap /\ b.oid = d[c].maps[m].oid
----------------------------------------------------------------------------
\* Nothing is mounted: all that was in memory is gone.
Unmounted ==
    /\ mounted' = FALSE
    /\ s_rdonly' = FALSE
    /\ nx_readwrite' = FALSE
    /\ nx_raw' = None
    /\ nx_xid' = 0
    /\ nx_bno' = 0
    /\ nx_eph_list' = None
    /\ t_buffers' = <<>>
    /\ phase' = "idle"
    /\ t_work' = "none"
    /\ unmounting' = FALSE
    /\ ops' = {}

\* A container right after its creation, with its first checkpoint.
Init ==
    LET eph == [i \in DOMAIN EphSizes |-> [oid |-> i, size |-> EphSizes[i]]]
        empty == [type |-> "super", xid |-> 1, omap |-> 0, next_oid |-> Len(eph) + 1,
                  desc_index |-> 0, desc_len |-> 0, desc_next |-> FirstDesc,
                  data_index |-> 0, data_next |-> FirstData]
        raw == PlaceRings(empty, eph)
    IN /\ disk = [d \in {Zero, Desc(FirstDesc + CpmCount(eph))} |-> raw]
                 @@ RingBlocks(eph, 0, FirstDesc, FirstData) @@ TreeBlocks(eph, 0, {})
                 @@ [d \in Addrs |-> Garbage]
       /\ mounted = FALSE /\ s_rdonly = FALSE /\ nx_readwrite = FALSE
       /\ nx_raw = None /\ nx_xid = 0 /\ nx_bno = 0 /\ nx_eph_list = None
       /\ t_buffers = <<>> /\ phase = "idle" /\ t_work = "none" /\ unmounting = FALSE /\ ops = {}
       /\ started = 0

\* A mount that finds a superblock and the tree that it names.
Mount ==
    LET raw == ReadMainSuper(disk)
    IN /\ ~mounted
       /\ disk[Tree(raw.omap)].type = "tree"
       /\ mounted' = TRUE
       /\ nx_readwrite' = TRUE
       /\ nx_raw' = raw
       /\ nx_xid' = raw.xid
       /\ ops' = disk[Tree(raw.omap)].ops
       /\ UNCHANGED <<disk, s_rdonly, nx_bno, nx_eph_list, t_buffers, phase, t_work, unmounting, started>>

(***************************************************************************)
(* apfs_transaction_start(), for the first start of a transaction.         *)
(***************************************************************************)
MayStart == mounted /\ ~s_rdonly /\ phase = "idle" /\ ~unmounting

\* The ephemeral objects can't be read, or the device fails: the whole container
\* is forced read-only.
StartEphemeralError ==
    /\ MayStart
    /\ nx_eph_list = None
    /\ s_rdonly' = TRUE
    /\ nx_readwrite' = FALSE
    /\ nx_eph_list' = <<>>
    /\ UNCHANGED <<disk, mounted, nx_raw, nx_xid, nx_bno, t_buffers, phase, t_work, unmounting, ops, started>>

\* Mutant of Start: the ephemeral objects are not read.
StartUnread ==
    /\ MayStart
    /\ started < MaxAttempt
    /\ started' = started + 1
    /\ nx_xid' = nx_xid + 1
    /\ nx_raw' = [nx_raw EXCEPT !.omap = started']
    /\ ops' = ops \cup {started'}
    /\ phase' = "open"
    /\ t_work' = IF t_work = "none" THEN "queued" ELSE t_work
    /\ UNCHANGED <<disk, mounted, s_rdonly, nx_readwrite, nx_bno, nx_eph_list, t_buffers, unmounting>>

\* The part of the start that both outcomes share.
StartXid ==
    /\ MayStart
    /\ started < MaxAttempt
    /\ nx_eph_list = None => Readable(disk, nx_raw)
    /\ started' = started + 1
    /\ nx_eph_list' = IF nx_eph_list = None THEN ReadEphemeral(disk, nx_raw) ELSE nx_eph_list
    /\ nx_xid' = nx_xid + 1

\* The start and the first operation, which leaves the commit for t_work.  The
\* copy of the container's object map changes nx_raw at once.
Start ==
    /\ StartXid
    /\ nx_raw' = [nx_raw EXCEPT !.omap = started']
    /\ ops' = ops \cup {started'}
    /\ phase' = "open"
    /\ t_work' = IF t_work = "none" THEN "queued" ELSE t_work
    /\ UNCHANGED <<disk, mounted, s_rdonly, nx_readwrite, nx_bno, t_buffers, unmounting>>

\* apfs_create_node() for a node of a free queue
CreateEphemeral ==
    /\ phase = "open"
    /\ nx_raw.next_oid <= MaxOid
    /\ Len(nx_eph_list) < EphLimit
    /\ nx_eph_list' = Append(nx_eph_list, [oid |-> nx_raw.next_oid, size |-> 1])
    /\ nx_raw' = [nx_raw EXCEPT !.next_oid = @ + 1]
    /\ UNCHANGED <<disk, mounted, s_rdonly, nx_readwrite, nx_xid, nx_bno, t_buffers, phase,
                   t_work, unmounting, ops, started>>

\* apfs_delete_node(); the space manager and the roots are never deleted.
DeleteEphemeral(i) ==
    /\ phase = "open"
    /\ i \in DOMAIN nx_eph_list
    /\ nx_eph_list[i].oid > Len(EphSizes)
    /\ nx_eph_list' = RemoveAt(nx_eph_list, i)
    /\ UNCHANGED <<disk, mounted, s_rdonly, nx_readwrite, nx_raw, nx_xid, nx_bno, t_buffers,
                   phase, t_work, unmounting, ops, started>>

\* apfs_transaction_abort(), when the operations of the transaction fail.
OperateError ==
    /\ phase = "open"
    /\ phase' = "abort"
    /\ UNCHANGED <<disk, mounted, s_rdonly, nx_readwrite, nx_raw, nx_xid, nx_bno, nx_eph_list,
                   t_buffers, t_work, unmounting, ops, started>>

(***************************************************************************)
(* apfs_transaction_commit_nx()                                            *)
(***************************************************************************)
\* Mutant of PlaceCheckpoint: the new checkpoint starts where the old one did.
PlaceCheckpointInPlace(eph, copied) ==
    LET raw == PlaceRings([nx_raw EXCEPT !.data_next = nx_raw.data_index], eph)
    IN /\ InLimits(eph)
       /\ t_buffers' = RingBlocks(eph, raw.omap, raw.desc_index, raw.data_index) @@ copied
       /\ nx_raw' = raw
       /\ nx_bno' = (raw.desc_index + raw.desc_len - 1) % DescBlks
       /\ phase' = "write"

\* Mutant of PlaceCheckpoint: the superblock goes one block too far.
PlaceCheckpointBno(eph, copied) ==
    LET raw == PlaceRings(nx_raw, eph)
    IN /\ InLimits(eph)
       /\ t_buffers' = RingBlocks(eph, raw.omap, raw.desc_index, raw.data_index) @@ copied
       /\ nx_raw' = raw
       /\ nx_bno' = (raw.desc_index + raw.desc_len) % DescBlks
       /\ phase' = "write"

\* apfs_write_ephemeral_objects() gives the objects their places, next to the
\* blocks that were copied on write.  The superblock gets its block here, but is
\* written at the very end.
PlaceCheckpoint(eph, copied) ==
    LET raw == PlaceRings(nx_raw, eph)
    IN /\ InLimits(eph)
       /\ t_buffers' = RingBlocks(eph, raw.omap, raw.desc_index, raw.data_index) @@ copied
       /\ nx_raw' = raw
       /\ nx_bno' = (raw.desc_index + raw.desc_len - 1) % DescBlks
       /\ phase' = "write"

\* Mutant of WriteEphemeral: what the last operation changed didn't join.
WriteEphemeralUnjoined ==
    /\ phase = "open"
    /\ PlaceCheckpoint(nx_eph_list, TreeBlocks(nx_eph_list, nx_raw.omap, ops \ {started}))
    /\ t_work' \in {t_work} \cup (IF t_work = "read" THEN {"none"} ELSE {})
    /\ UNCHANGED <<disk, mounted, s_rdonly, nx_readwrite, nx_xid, nx_eph_list, unmounting,
                   ops, started>>

\* The transaction is committed, by a caller or by the worker.
WriteEphemeral ==
    /\ phase = "open"
    /\ PlaceCheckpoint(nx_eph_list, TreeBlocks(nx_eph_list, nx_raw.omap, ops))
    /\ t_work' \in {t_work} \cup (IF t_work = "read" THEN {"none"} ELSE {})
    /\ UNCHANGED <<disk, mounted, s_rdonly, nx_readwrite, nx_xid, nx_eph_list, unmounting,
                   ops, started>>

\* The worker read t_work_sb before another commit was over, and commits again
\* though nothing has started: all is the same but for the place in the rings.
WriteEphemeralAgain ==
    /\ phase = "idle" /\ t_work = "read" /\ ~s_rdonly
    /\ PlaceCheckpoint(nx_eph_list, <<>>)
    /\ t_work' = "none"
    /\ UNCHANGED <<disk, mounted, s_rdonly, nx_readwrite, nx_xid, nx_eph_list, unmounting,
                   ops, started>>

\* !apfs_transaction_has_room() for a new transaction: it is committed at once,
\* with a new id and nothing in it.
StartNoRoom ==
    /\ StartXid
    /\ PlaceCheckpoint(nx_eph_list', <<>>)
    /\ UNCHANGED <<disk, mounted, s_rdonly, nx_readwrite, t_work, unmounting, ops>>

WriteEphemeralError ==
    /\ phase = "open"
    /\ ~InLimits(nx_eph_list)
    /\ phase' = "abort"
    /\ UNCHANGED <<disk, mounted, s_rdonly, nx_readwrite, nx_raw, nx_xid, nx_bno, nx_eph_list,
                   t_buffers, t_work, unmounting, ops, started>>

\* What the write of block b at d may leave on disk if it doesn't succeed.
WriteOutcomes(d, b) == {disk, [disk EXCEPT ![d] = Garbage], [disk EXCEPT ![d] = b]}

\* One of the buffers reaches the disk.
WriteBuffer(d) ==
    /\ phase = "write"
    /\ d \in DOMAIN t_buffers
    /\ disk' = [disk EXCEPT ![d] = t_buffers[d]]
    /\ t_buffers' = [e \in DOMAIN t_buffers \ {d} |-> t_buffers[e]]
    /\ UNCHANGED <<mounted, s_rdonly, nx_readwrite, nx_raw, nx_xid, nx_bno, nx_eph_list, phase,
                   t_work, unmounting, ops, started>>

WriteBufferError(d) ==
    /\ phase = "write"
    /\ d \in DOMAIN t_buffers
    /\ disk' \in WriteOutcomes(d, t_buffers[d])
    /\ phase' = "abort"
    /\ UNCHANGED <<mounted, s_rdonly, nx_readwrite, nx_raw, nx_xid, nx_bno, nx_eph_list,
                   t_buffers, t_work, unmounting, ops, started>>

\* Mutant of WriteSuper: it doesn't wait for the buffers.
WriteSuperEarly ==
    /\ phase = "write"
    /\ nx_raw' = [nx_raw EXCEPT !.xid = nx_xid]
    /\ phase' = "super"
    /\ UNCHANGED <<disk, mounted, s_rdonly, nx_readwrite, nx_xid, nx_bno, nx_eph_list,
                   t_buffers, t_work, unmounting, ops, started>>

\* apfs_checkpoint_end(): the superblock is written when all else is on disk.
WriteSuper ==
    /\ phase = "write"
    /\ DOMAIN t_buffers = {}
    /\ nx_raw' = [nx_raw EXCEPT !.xid = nx_xid]
    /\ phase' = "super"
    /\ UNCHANGED <<disk, mounted, s_rdonly, nx_readwrite, nx_xid, nx_bno, nx_eph_list,
                   t_buffers, t_work, unmounting, ops, started>>

\* apfs_transaction_commit() also forgets the delayed commit, unless the worker
\* is past its read of t_work_sb.
SuperOK ==
    /\ phase = "super"
    /\ disk' = [disk EXCEPT ![Desc(nx_bno)] = nx_raw]
    /\ phase' = "idle"
    /\ t_work' = IF t_work = "queued" THEN "none" ELSE t_work
    /\ UNCHANGED <<mounted, s_rdonly, nx_readwrite, nx_raw, nx_xid, nx_bno, nx_eph_list,
                   t_buffers, unmounting, ops, started>>

SuperError ==
    /\ phase = "super"
    /\ disk' \in WriteOutcomes(Desc(nx_bno), nx_raw)
    /\ phase' = "abort"
    /\ UNCHANGED <<mounted, s_rdonly, nx_readwrite, nx_raw, nx_xid, nx_bno, nx_eph_list,
                   t_buffers, t_work, unmounting, ops, started>>

\* apfs_transaction_abort(); if the volume is already read-only it does nothing.
Abort ==
    /\ phase = "abort"
    /\ phase' = "idle"
    /\ IF s_rdonly
       THEN UNCHANGED <<nx_xid, t_buffers, nx_readwrite, s_rdonly>>
       ELSE /\ nx_xid' = nx_xid - 1
            /\ t_buffers' = <<>>
            /\ s_rdonly' = TRUE
            /\ nx_readwrite' = FALSE
    /\ UNCHANGED <<disk, mounted, nx_raw, nx_bno, nx_eph_list, t_work, unmounting, ops, started>>

(***************************************************************************)
(* apfs_trans_commit_work(), up to its commit.                             *)
(***************************************************************************)
\* The timer expires, and the worker reads t_work_sb.
WorkBegin ==
    /\ t_work = "queued"
    /\ t_work' = "read"
    /\ UNCHANGED <<disk, mounted, s_rdonly, nx_readwrite, nx_raw, nx_xid, nx_bno, nx_eph_list,
                   t_buffers, phase, unmounting, ops, started>>

WorkSkip ==
    /\ t_work = "read" /\ s_rdonly /\ phase \in {"idle", "open"}
    /\ t_work' = "none"
    /\ UNCHANGED <<disk, mounted, s_rdonly, nx_readwrite, nx_raw, nx_xid, nx_bno, nx_eph_list,
                   t_buffers, phase, unmounting, ops, started>>

(***************************************************************************)
(* Remounts, unmounts and crashes.                                         *)
(***************************************************************************)
\* apfs_remount() sets SB_RDONLY after a sync but without nx_big_sem, so by then
\* there may be a new transaction.
Remount ==
    /\ phase = "idle" \/ Remounts = "racing"
    /\ mounted /\ ~s_rdonly /\ ~unmounting
    /\ s_rdonly' = TRUE
    /\ UNCHANGED <<disk, mounted, nx_readwrite, nx_raw, nx_xid, nx_bno, nx_eph_list, t_buffers,
                   phase, t_work, unmounting, ops, started>>

\* apfs_put_super() of a writable volume has a transaction of its own.  By then
\* cancel_delayed_work_sync() has waited for a worker that was running.
UnmountWritable ==
    /\ phase = "open"
    /\ ~s_rdonly /\ ~unmounting
    /\ t_work # "read"
    /\ t_work' = "none"
    /\ unmounting' = TRUE
    /\ UNCHANGED <<disk, mounted, s_rdonly, nx_readwrite, nx_raw, nx_xid, nx_bno, nx_eph_list,
                   t_buffers, phase, ops, started>>

\* Mutant of MakeSuperCopy: it doesn't look at APFS_READWRITE.
MakeSuperCopyAlways == disk' \in {disk, [disk EXCEPT ![Zero] = nx_raw]}

\* apfs_make_super_copy(); the block may still be lost in a crash.
MakeSuperCopy ==
    disk' \in {disk} \cup (IF nx_readwrite THEN {[disk EXCEPT ![Zero] = nx_raw]} ELSE {})

\* The last volume is released, after its commit or if it is read-only.
Unmount ==
    /\ mounted
    /\ \/ unmounting /\ phase = "idle"
       \/ s_rdonly /\ phase \in {"idle", "open"}
    /\ t_work # "read"
    /\ MakeSuperCopy
    /\ Unmounted
    /\ UNCHANGED started

Crash ==
    /\ mounted
    /\ disk' \in IF phase = "super" THEN WriteOutcomes(Desc(nx_bno), nx_raw) ELSE {disk}
    /\ Unmounted
    /\ UNCHANGED started

Next ==
    \/ Mount
    \/ StartEphemeralError
    \/ Start
    \/ StartNoRoom
    \/ CreateEphemeral
    \/ \E i \in 1..MaxOid : DeleteEphemeral(i)
    \/ OperateError
    \/ WriteEphemeral
    \/ WriteEphemeralAgain
    \/ WriteEphemeralError
    \/ \E d \in Addrs : WriteBuffer(d) \/ WriteBufferError(d)
    \/ WriteSuper
    \/ SuperOK
    \/ SuperError
    \/ Abort
    \/ WorkBegin
    \/ WorkSkip
    \/ Remount
    \/ UnmountWritable
    \/ Unmount
    \/ Crash

Spec == Init /\ [][Next]_vars
----------------------------------------------------------------------------
Supers == {disk[Zero]} \cup {disk[Desc(i)] : i \in {j \in 0..(DescBlks - 1) : disk[Desc(j)].type = "super"}}

\* The state of memory is consistent with the phase of the transaction.
TypeOK ==
    /\ mounted \in BOOLEAN /\ s_rdonly \in BOOLEAN /\ nx_readwrite \in BOOLEAN
    /\ unmounting \in BOOLEAN
    /\ phase \in {"idle", "open", "write", "super", "abort"}
    /\ t_work \in {"none", "queued", "read"}
    /\ nx_xid \in Nat /\ nx_bno \in 0..(DescBlks - 1)
    /\ ops \subseteq Attempts /\ started \in 0..MaxAttempt
    /\ DOMAIN disk = Addrs /\ DOMAIN t_buffers \subseteq Addrs
    /\ mounted <=> nx_raw # None
    /\ phase # "idle" => nx_eph_list # None

\* Whenever the machine goes down, the next mount finds a whole checkpoint: the
\* superblock is only written after the blocks that it needs, and the rings have
\* room for the checkpoint on disk and the one under way.
Recoverable == Whole(disk, ReadMainSuper(disk))

\* No block of a transaction lies in the checkpoint that a mount would find.
RingsDontOverlap ==
    LET raw == ReadMainSuper(disk)
        cpms == CpmAddrs(raw)
        data == {Data(raw.data_index + n) : n \in 0..((raw.data_next + DataBlks - raw.data_index - 1) % DataBlks)}
    IN DOMAIN t_buffers \cap (cpms \cup data \cup {Tree(raw.omap)}) = {}

\* The transaction id of a superblock, in the ring or in block zero, identifies
\* the contents of the checkpoint, though ids are used again after a crash or an
\* abort, and the worker may write a checkpoint twice.
XidIdentifiesContents ==
    \A s, t \in Supers : s.xid = t.xid => s.omap = t.omap /\ s.next_oid = t.next_oid

\* What a mount would find is never older than what it would have found before.
NoRollback == [][ReadMainSuper(disk').xid >= ReadMainSuper(disk).xid]_vars

\* What a mount would find in the tree of the latest checkpoint.
Found == disk[Tree(ReadMainSuper(disk).omap)].ops

Atomic == INSTANCE AtomicCommit WITH
    Ops <- Attempts,
    mem <- IF mounted /\ nx_readwrite THEN ops ELSE Found,
    disk <- Found,
    frozen <- mounted /\ ~nx_readwrite

\* The driver and the disk keep the promise of AtomicCommit, crashes included:
\* what a mount would find is all that was committed, and nothing else, also if
\* the worker of apfs_trans_commit_work() commits for a second time.
RefinesAtomicCommit == Atomic!Spec
=============================================================================
