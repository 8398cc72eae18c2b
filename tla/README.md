# Verification of the APFS driver

TLA+ models of the write path of this Linux driver for APFS, model-checked with
TLC on small instances, and theorems about them checked by TLAPS.

The driver mounts one or more volumes of a *container*. All of them share one
copy-on-write *transaction*. Operations change blocks in memory, and from time
to time a *commit* writes all of them to new places on disk, followed by a
superblock that makes them the current *checkpoint*. After a crash the next
mount uses the latest checkpoint with a valid superblock. Everything else in
the driver relies on this, so it is what the project models first.

## Modules

| Module | Role |
|---|---|
| `AtomicCommit` | What the container promises: operations are applied one by one, saved all at once, and lost together in a crash or an abort. |
| `Transaction` | The transaction manager of `transaction.c`, with its callers in `super.c`, `inode.c`, `dir.c` and `snapshot.c`. |
| `TransactionInv`, `TransactionProofs` | Its inductive invariant and its theorems. |
| `Checkpoint` | Checkpoints on disk: the rings, the order of writes, block zero, and recovery. |
| `MCTransaction`, `MCCheckpoint` | Constants for TLC; each `.cfg` is one run. |

`Transaction` and `Checkpoint` look at the same commit at two levels. The first
has many threads and volumes, and a commit that is a single step once its inodes
are flushed. The second has one volume and takes a commit apart into single
writes, with a crash possible between any two. Both implement `AtomicCommit`.

### Transaction

A process (a thread that makes calls, or the worker of `t_work`) has a place
`pc`. The state of the container has the names of `struct apfs_nx_transaction`
and `struct apfs_nxsb_info`: `nx_big_sem`, `nx_xid`, `t_state`,
`t_starts_count`, `t_inodes`, `t_buffers`, `t_work`, `t_work_sb`, `vol_list`.

| `pc` | Place in the code |
|---|---|
| `in` | after `apfs_transaction_start()`, in the body of the operation |
| `commit` | entry of `apfs_transaction_commit()` |
| `flush`, `window` | the loop of `apfs_transaction_flush_all_inodes()`, with `nx_big_sem` and, around `iput()`, without it |
| `finish` | the rest of `apfs_transaction_commit_nx()` |
| `abort`, `drop` | `apfs_transaction_abort()` before and after it releases the semaphore |
| `snapflush`, `snapwindow`, `snap` | `apfs_do_ioc_take_snapshot()` |
| `work` | `apfs_trans_commit_work()`, waiting for the semaphore |
| `cancelled`, `umount`, `remount` | `apfs_put_super()` and `apfs_remount()` outside of their transaction |

The kinds of calls differ by the flags that they set and by what the VFS keeps
apart: plain operations (`REG`), `write_begin`/`write_end` (`WRITE`), clones
(`CLONE`), the snapshot ioctl (`SNAP`), `write_inode` and page faults (`DEFER`),
the orphan cleaner (`CLEAN`), `sync_fs` (`SYNC`), `REMOUNT` and `UMOUNT`.

Data is abstracted to operations with two halves: a catalog record, which goes
to the buffers at once, and an in-memory inode, which is written to its record
by the flush, later. That is enough to tell a whole operation from a torn one.
Every step that can fail may fail. `over` stands for the limits on buffers and
free queues in `apfs_transaction_need_commit()`, which depend on data that is
not in the model and so may be crossed at any time.

### Checkpoint

`disk` maps block addresses to contents: the descriptor ring, the data ring,
block zero, and one `Tree` block per transaction that stands for all that is
copied on write. The tree records which transactions and ephemeral objects its
checkpoint should have, so `Whole` can tell if a mount finds the right things.
The blocks of a transaction reach the disk in any order, then the superblock
does; a failed write leaves the old contents, the new ones, or garbage. A write
that completed is taken to be on disk for good: nothing in `src/` flushes the
cache of the device (no `blkdev_issue_flush()`, `REQ_PREFLUSH` or `REQ_FUA`), so
on a disk with a volatile cache none of these results hold. A
checksum is modelled by what it tells apart: the blocks of an object are of one
write. `started` numbers all the transactions ever started, because transaction
ids are used again after a crash.

`t_work` follows the worker. It reads `t_work_sb` before it takes the semaphore,
and if another commit ends in between it commits again: a second checkpoint
(`WriteEphemeralAgain`) with the same id and contents at the next place of both
rings. `EphLimit` bounds the ephemeral objects, as `APFS_EPHEMERAL_LIST_LIMIT`
and the `sfq_tree_node_limit` of the free queues do.

Block zero is read with no need for a valid checksum (`apfs_read_super_copy()`
only reports a bad one). Torn writes of block zero are left out, since all the
fields that count are in its first sector. Read-only mounts write nothing, and
are left out as well.

## Runs

| Run | Shows |
|---|---|
| `core` | Two threads and the worker on one volume, with errors everywhere: no torn operation, no nested commit, changes only in open transactions, pending changes have a commit ahead, ids identify checkpoints, aborts are final, and `AtomicCommit` is implemented. |
| `volumes` | Two writable volumes share a transaction, which may miss half of what the second one changes: pending changes have a commit ahead, ids identify checkpoints, aborts are final. |
| `mounts` | A volume and a mounted snapshot, with remounts and unmounts: commits don't nest, changes are only made in open transactions, ids identify checkpoints. |
| `live` | With the snapshot ioctl, which flushes inodes outside of a commit: pending changes have a commit ahead, aborts are final, and under fairness applied operations become durable with no sync. |
| `ring` | Rings that wrap around, a two-block object, and second commits by the worker: any crash leaves a whole latest checkpoint, and `AtomicCommit` is implemented. |

Seven more runs have a property that fails. Each one states what a comment or an
assertion of the code says, and TLC finds a behaviour of the code where it is
not so. `findings` in `PROJECT.json` quotes the line for each:

| Run | What happens |
|---|---|
| `force` | A sync in the flush window of another commit returns success with nothing on disk ("Commit guaranteed"). |
| `snap_open` | The transaction of a snapshot is committed by somebody else before its records are changed. |
| `umount_snap` | Unmounting a snapshot cancels the queued commit of the volume ("We are about to commit anyway"). |
| `two_volumes` | The second volume of a transaction has no copy of its superblock in it, against an `ASSERT`. |
| `wrap` | A two-block object steps over the limit of the data ring, which is tested with `==`; from then on only the limits on free queue nodes keep the ring from running over itself. |
| `remount_copy` | A transaction opened between the sync of a remount and its flag is never committed, but the unmount writes the superblock of a lost transaction to block zero, and the next mount believes it. |
| `stale_copy` | The worker commits a second time with the same id, and three checkpoints do not fit in the descriptor ring: the third one is written over the copy that a mount would choose. |

`wrap` needs a container whose `sfq_tree_node_limit` (`spaceman.c:970`) and
`APFS_EPHEMERAL_LIST_LIMIT` (`node.c:388`) allow more blocks than half of the
data ring. `stale_copy` needs a descriptor ring of 4, 5 or 8 blocks: mapping
blocks may take a quarter of it, so three checkpoints fit if
`3 * (blocks / 4 + 1) <= blocks`.

Some of these have relatives that need no run of their own. The flush of the
snapshot ioctl that leads to `snap_open` also clears the `COMMITTING` flag of
another process, so that commits can nest. The remount of `remount_copy` also
makes the worker skip a commit that is due (`transaction.c:330`), and lets an
abort take its early return with buffers still listed (`transaction.c:1001`).
And since `apfs_transaction_abort()` drops the inodes after it releases the
semaphore, a second abort can meet some of them (`transaction.c:1000`).

Remounts and unmounts are checked with one writable volume, because with two
most of the properties fail. That early return keeps the buffers and
`t_starts_count` of the failed transaction, maybe with half of an operation,
and a commit of the other volume writes them. An unmount that commits in the
flush window of the other volume is put off by `COMMITTING`, and queues `t_work`
with a super_block that is about to be freed (`transaction.c:908`). And as in
`two_volumes`, changes of the second volume may be made to old blocks in place,
so that its operations are torn (`Joins`); `volumes` checks what is left.

### Bounds

`Transaction`: two threads and the worker are enough for one process in a
window, one that runs in it, and one that waits; two inodes for one that is
flushed and one that is not; two operations for one in a checkpoint and one
after it. `StartsMax` is 1 in place of 65536, so that the limit on starts is
reached by the second call; `MaxStarts` and `MaxXid` bound the starts per
transaction and the transaction ids, except for the transaction of an unmount,
which may always start. `volumes` has one inode and fewer starts, since a second
volume multiplies the states. Threads, operations and inodes are symmetric,
except in `live`.

`Checkpoint`: `MaxAttempt` bounds the transactions ever started and `MaxOid`
the ephemeral objects ever created. The checkpoints of `ring` have the largest
size that the limits allow, so that three of them fill the descriptor ring of 9
blocks exactly, and one more object makes a commit fail. The first one is at the
end of both rings; with the second commits of the worker up to four others follow
it, so that blocks are used again. Any of them may be cut short by a crash.
`Remounts` is `"quiet"` if the flag of a remount is only set with no
transaction open, and `"racing"` if it may come at any time as in the code; the
second is what `remount_copy` is about.

### Fairness

A process that holds `nx_big_sem` goes on (weak fairness of the body of an
operation, of its commit and of its abort). The semaphore is an rwsem, which
hands itself over to the first waiter, so nobody waits for ever while it keeps
being released: strong fairness of `FlushRelock` and of the worker. The timer of
`t_work` is restarted by every call; it expires in the end because the calls
are bounded (weak fairness of `WorkBegin`). Without a pause in the calls the
delay is only bounded by the limits of `apfs_transaction_need_commit()`. In the
same way, the code has no bound on the loop that flushes the inodes, which others
may add to: it ends because they pause. So no run claims that every call returns.
Nobody is forced to call.

## Proofs

The theorems hold for any number of threads, volumes, inodes and operations,
but for `CheckpointsUntorn` and `ImplementsAtomicCommit`, which assume
`OneVolume` (and any number of mounted snapshots), since the second volume of a
transaction has no copies of its roots in it. They assume `Calm`: no snapshot ioctl, remount or unmount takes place, since
each of those breaks one of the properties (runs `snap_open`, `umount_snap`,
`remount_copy`). The assumptions on constants are that snapshots
are super_blocks, that the worker is not a thread, and that `None` is neither.

| Theorem | Statement |
|---|---|
| `TypeCorrect` | `Spec => []TypeOK`, which includes that `nx_xid` never goes below zero |
| `CommitsDontNest` | `Spec => []NoNestedCommit` |
| `CheckpointsUntorn` | `Spec => []NoTornOps` |
| `ChangesInTransaction` | `Spec => []InTransaction` |
| `PendingChangesHaveWork` | `Spec => []PendingHasWork` |
| `AbortsAreFinal` | `Spec => AbortIsFinal` |
| `XidsIdentifyCheckpoints` | `Spec => XidIdentifiesCheckpoint` |
| `ImplementsAtomicCommit` | `Spec => RefinesAtomicCommit` |

The inductive invariant `IInv` has one conjunct per idea, and none of the
properties is inductive without the others:

- `LockInv`: a process is at a place that holds `nx_big_sem` just when it does.
- `CallInv`, `MountInv`: what each process can be doing; the container is
  read-only as a whole or not at all, and then nobody is in a transaction.
- `FlushInv`: whenever a commit released the semaphore and there was no abort,
  `COMMITTING` is set. This is what keeps a second commit out, and it survives
  because only the owner of the window clears `t_state` after that.
- `XidInv`: from the first start until the commit `nx_xid` is ahead of the
  checkpoint, and a transaction with no starts is empty.
- `RootsInv`, with one volume: an open transaction has copies of the volume's
  roots, so that both halves of an operation join it.
- `HalvesInv`, with one volume: no inode half without its record half in the buffers (`Rooted`),
  and unless some process is about to abort (`Doomed`), no record half without
  an inode half in the buffers or in an inode of `t_inodes` (`Paired`). So when
  `t_inodes` is empty, the buffers hold whole operations.
- `PendingHasWork` itself.

`TransactionInv` has one lemma per conjunct about control, with one step per
action; `TransactionProofs` has the one about data, and the theorems.

Only model-checked: liveness and fairness, which TLAPS can't reason about;
snapshots, remounts and unmounts; all of `Checkpoint`.

## Inventory and plan

State, operations, hard behaviours and properties of each part of the driver.
Parts with no module yet are planned in this order; `hazards` in `PROJECT.json`
has the lines.

1. **Space manager** (`spaceman.c`). State: bitmaps, chunk counts, the two free
   queues, the internal pool and its own ring of bitmaps. Operations: allocate,
   free, flush of the queues at commit, reallocation of pool bitmaps. Hard:
   blocks freed by a transaction must not be used again before it is on disk;
   the pool has room for a bounded number of changes. Module `Spaceman`, composed with the
   crash of `Checkpoint`: no block of the checkpoint on disk is ever
   overwritten; free counts match the bitmaps; no block is both free and used.
   To prove: disjointness of allocated, queued and free blocks.
2. **Mounts** (`super.c`). State: the list of containers, `nx_refcnt`, the
   super_blocks. Operations: mount, failed mount at each stage, unmount, kill.
   Hard: a mount that races with the last unmount. Module `Mount`: no use after
   free, the device is released just once. To prove: `nx_refcnt` is the number
   of super_blocks.
3. **Object maps and snapshots** (`btree.c`, `object.c`, `snapshot.c`,
   `node.c`). State: mappings (oid, xid) to blocks, the cache, snapshots.
   Operations: lookup, copy on write, create, delete, take a snapshot. Hard:
   blocks shared with snapshots, a stale cache. Module `Omap`: a lookup at a
   snapshot always finds what was there when it was taken. Abstract
   specification: a map with versions.
4. **Nodes and B-trees** (`node.c`, `btree.c`). State: records with offsets,
   free lists, a query with its path. Operations: bisection, insert, remove,
   split, refresh. Modules `Node` and `Btree`, against a plain map. Key
   comparison (`key.c`) as a pure operator, checked to be a total order.
5. **Files and extents** (`extents.c`, `file.c`). State: logical extents, the
   cached tail, physical extents with reference counts. Operations: write,
   flush, truncate, punch, clone. Module `Extents`: every physical block has as
   many references as extents that use it, and reads give the last write.
6. **Directories, links, orphans** (`dir.c`, `inode.c`). State: directory and
   sibling records, link counts, the private directory. Operations: create, link,
   unlink, rename with its undo, eviction, the cleaner. Hard: an inode unlinked while open,
   a cleaner that races with eviction, a busy orphan at the head of the list.
   Modules `Dir` and `Orphans`: link counts match records; orphans are removed
   in the end.
7. **Extended attributes** (`xattr.c`), **compression cache** (`compress.c`): as
   far as time allows.

In later proofs, also: the rings of `Checkpoint` don't overlap as long as a
checkpoint takes at most a third of each ring, for any size.

Not modelled, and not planned: `unicode.c` (normalisation tables), `lzfse/` and
`libzbitmap.c` (decoders with no state), on-disk formats and Fletcher checksums
as such, mount options and feature checks, logging, reads that change nothing.
