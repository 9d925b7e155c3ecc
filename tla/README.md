# TLA+ models of Linux 2.2 components

This directory holds TLA+ models of four parts of the Linux 2.2 sources under
`src/`, and the TLC configurations that check them:

- the HFS catalog entry cache (`src/fs/hfs/catalog.c`), which `spec.md`
  describes: modules `HfsDirSync` and `HfsCatalog`;
- the SPX transport over IPX (`src/net/ipx/af_spx.c`): module `Spx`;
- swap area management (`src/mm/swapfile.c`): module `Swap`;
- the DMA audio path of the ESS Maestro driver (`src/drivers/sound/maestro.c`):
  module `Maestro`.

The other files under `src/` (VFS path lookup, AX.25, IPv6 sockets, the other drivers)
are listed in `PROJECT.json` with the reason they are not modelled.

## The HFS catalog cache

`catalog.c` caches catalog records of an HFS volume in memory. The catalog is
a B-tree keyed by (parent CNID, name). Its parts and their state:

| Part | State in the code | Operations |
|---|---|---|
| Entry cache | `struct hfs_cat_entry`: key, `count`, `state` (`HFS_LOCK`, `HFS_DIRTY`, `HFS_DELETED`, `HFS_KEYDIRTY`), cnid, type, the child counts of a directory; a hash table; the lists `entry_unused`, `entry_in_use` and `entry_dirty`; `entries_stat` | `get_entry`, `find_entry`, `get_new_entry`, `grow_entries`, `hfs_cat_get`, `hfs_cat_put`, `clear_entry`, `write_entry`, `hfs_cat_mark_dirty`, `try_to_free_entries` |
| Entry lock | `HFS_LOCK` and `entry->wait` | `lock_entry`, `unlock_entry`, `wait_on_entry` |
| Directory admission | `u.dir.readers`, `u.dir.writers`, `read_wait`, `write_wait` | `start_read`, `end_read`, `start_write`, `end_write` |
| Operations | the B-tree (collaborator), `mdb->next_id`, the parent's `dirs`/`files` | `create_entry` (`hfs_cat_create`, `hfs_cat_mkdir`), `hfs_cat_delete`, `hfs_cat_move`, `hfs_cat_open`/`next`/`close`, `hfs_cat_commit`, `hfs_cat_invalidate` |

How the parts interact:
- Every operation gets its entries through `get_entry` and releases them with `hfs_cat_put`.
- Writers of a directory (create, delete, move) hold it with `start_write`.
- Scans hold it with `start_read`.
- An entry is locked while it is populated from the B-tree, deleted from it, or renamed.

Concurrency comes from the 2.2 kernel. It runs all file-system code under the
big kernel lock, so a thread runs alone from one sleep to the next. The places
where a thread can sleep are:
- `hfs_sleep_on`;
- B-tree I/O;
- `kmalloc` in `grow_entries`.

`hfs_sleep_on` is `sleep_on`: a woken task stays on the queue until it is
scheduled.

### Modules

| Module | Models | State ↔ code |
|---|---|---|
| `HfsDirSync` | `start_read`, `start_write`, `end_read`, `end_write` (catalog.c:757-794), with a client that opens a directory for reading or writing | `readers`, `writers`, `readWait`, `writeWait` are the `u.dir` fields. `woken` is the set of threads on a queue that a wake-up made runnable and that have not run yet. |
| `HfsCatalog` | The entry cache with its dirty list, entry locks, `hfs_cat_get`/`hfs_cat_put` with `write_entry`, `create_entry`, `hfs_cat_delete`, `hfs_cat_move` (rename within the root), `hfs_cat_commit`, `hfs_cat_parent`, scans of the root, and the AppleDouble wrappers of `dir_dbl.c` that call into the catalog. It composes `HfsDirSync` through `INSTANCE` (`DS`). | `ent[e]` holds the fields of entry `e`; `ent[e].onDirty` says the entry is on `mdb->entry_dirty`. `allocated` and `unused` are the allocation units and `entry_unused`. `entWait` is `entry->wait`. `cat` and `thd` are the B-tree's records and thread records. `nextId` is `mdb->next_id`. `rootFiles`/`rootDirs` are the root's counts. `renameLock`/`renameWait` are `mdb->rename_lock`/`rename_wait`; `mv[t]` is the entry a rename moves. |

`MCHfsDirSync` and `MCHfsCatalog` give model values to threads, directories
and names.

How `HfsCatalog` represents scheduling:
- `bkl` is the big kernel lock. `Runs(t)` lets thread `t` run when it holds `bkl` or nobody does.
- `Goto(t, l)` releases `bkl` when label `l` is a sleep, an I/O wait, or a return to the caller (`YieldPc`). Each action is therefore one basic block of the code.
- `ret[t]` is the return label of the subroutines `get_entry` and `hfs_cat_put`.

A B-tree call is an action at an I/O label. It takes effect when it returns. If its label is in `FailSites` (`IoFails`) it can also fail, with `-EIO` or `-ENOSPC`; each configuration lists the calls that may fail.

Every action models one whole piece of code:
- `GetEntry` is `get_entry` up to its sleep or return. It includes `find_entry`, `get_new_entry` and `add_new_entry`.
- `GetGrow` is `grow_entries` including its failure branch, plus the second `find_entry` (`NewOrOld`).
- `GetRead` is the read (`read_entry`, through `ReadEntry`) and the `read_fail` path, including its `hfs_cat_put`. Only a failed `hfs_bfind` marks the entry `HFS_DELETED`; a record read with CNID 0 takes `read_fail` without it.
- `CatPut`, `PutRepeat`, `PutWrite` and `PutClear` are the segments of `hfs_cat_put` between its sleeps. `PutWrite` applies `write_entry` (`WriteEntry`): a deleted or missing record is not written; with `HFS_KEYDIRTY` the record takes the entry's CNID and the flag is cleared; otherwise a CNID mismatch writes nothing.
- `CatCreate` and `CatMkdir` are `hfs_cat_create` (a file record, no thread record) and `hfs_cat_mkdir` (a directory record with a thread record); `CrStartWrite` through `CrDone` are the segments of `create_entry`. `StartCreate` is `dbl_create`, `dbl_mknod` (both files) and `dbl_mkdir`.
- `HolderDelete` through `DlEnd` are the segments of `hfs_cat_delete`.
- `HolderMove` through `MvEnd` are the segments of `hfs_cat_move` with `old_dir = new_dir = root`, including every bail path. `MvDone` also puts the victim, as its caller `hfs_rename` does.
- `WakeWrite` ends a sleep in `start_write` for each of its three callers. `WakeLock` ends a sleep in a lock loop: `lock_entry` in delete and rename, and rename's `rename_lock` loop (`LockRetry` names where each loop tests again).
- `StartScan`, `ScOpen` and `ScNext` are `hfs_cat_open`, `hfs_cat_next`/`hfs_cat_close`.
- `StartCommit`, `CmLoop` and `CmWrite` are `hfs_cat_commit`, run by a thread of `Syncers` (the superblock's `write_super`). `CmLoop` takes any entry of the dirty list, since the list's order does not matter to any property; a locked one is slept on. It flips `DIRTY|LOCK` with `^=` and takes the entry off the list; a deleted entry is unlocked at once, others are written back by `CmWrite` and unlocked.
- `MarkDirty` is `hfs_cat_mark_dirty`: it sets `HFS_DIRTY` and puts a hashed entry on the dirty list. `PutRepeat` takes an entry off it when it unhashes it.
- `HolderParent`, `PaLock` and `PaFind` are the `".."` lookup of `dbl_lookup`: `hfs_cat_parent` locks the directory's entry, finds its parent's thread record and unlocks it.
- The AppleDouble wrappers: names map to header names through the constant `Hdr` (`Hdr[n] = m` means n is `"%m"`). `StartCreate` and `HolderMove` run `is_hdr` first when the new name is a header name: a `hfs_cat_get` of m (`CrHdr`, `MvHdr` then put it and fail with `-EEXIST`/`-EPERM`, or go on). `LookupGot` retries a missing `"%m"` as m, and holds m's entry through its header inode; such a holder never deletes, renames or looks up `".."` (`DataHolder`).

The holder of an entry is the inode layer. It may:
- mark the entry dirty (`HolderMarkDirty`, when `HolderDirties` is TRUE);
- delete it (`HolderDelete`);
- rename it to a name of the root (`HolderMove`, when `Renames` is TRUE);
- release it (`HolderRelease`).

### Abstractions

- **Names and records are model values.** Names are the children of the root, so every key has parent CNID 2. A record is its CNID and its kind.
- **Child directories are empty.** Nothing writes into a child directory, so:
  - `start_read(entry)` in `hfs_cat_delete` never sleeps;
  - `-ENOTEMPTY` never happens;
  - `count_dir_entries` is never needed.
- **`try_to_free_entries` frees nothing, which is exact for the instances checked.** It has two callers:
  - `grow_entries`' failure branch, with goal `nr_entries >> 2`. The goal is 0 below four entries, and then the function frees nothing.
  - `get_entry`'s restock, with goal 8. This runs only when `nr_free_entries` is 0 at `CCACHE_MAX` as a lookup starts.

  Entries return to `entry_unused` at their last `hfs_cat_put`. So a restock needs every entry referenced while one more get begins, for example two holders plus a rename's placeholder. No checked instance has that.
- **No extents.** Extents and the extent freeing in `hfs_cat_put` are not modelled. A file entry of this model holds no cached extents.
- **Only the dirty list.** The dirty list is a flag per entry; its order is left out, so `CmLoop` picks any dirty entry. The in-use list is not modelled: only `try_to_free_entries` and `hfs_cat_invalidate` read it.
- **A scan is one observation.** It takes the children at `hfs_cat_open` (`snap`), then ends with `end_read`. Whether the children change in between is what `StableScan` asks.

### Runs

| Run | Config | Bounds | Result |
|---|---|---|---|
| `dirsync_excl` | `MCHfsDirSync_excl.cfg` | 3 threads, 1 directory | `ReadWriteExclusion` violated |
| `catalog` | `MCHfsCatalog.cfg` | 2 threads, 1 name, 2 entries, chunk 1, valence 1, 2 CNIDs, every B-tree call may fail | `TypeOK`, `QuiescentValence`, `UniqueHashed`, `RefCountExact`, `DirHasThread` and `NoLostWakeup` hold (513k states) |
| `catalog_writeback` | `MCHfsCatalog_writeback.cfg` | 1 user thread and 1 syncer (`hfs_cat_commit`), 2 names of which n2 is `"%n1"`, 2 entries in one chunk, valence 2, 2 CNIDs, the rename's B-tree calls may fail, holders that dirty, rename and look up `".."` | `CacheAgreesWithDisk`, `RefCountExact` and `DirtyListed` hold (749k states) |
| `catalog_race` | `MCHfsCatalog_race.cfg` | 2 threads, dirtying holders | `RefCountExact` violated |
| `catalog_leak` | `MCHfsCatalog_leak.cfg` | 2 threads, failures | `CacheAgreesWithDisk` violated |

The properties `GetReturnsPopulated` and `StableScan` are defined in
`HfsCatalog` but no configuration checks them. TLC violates each of them in
its own exploration, described under the findings below: `GetReturnsPopulated`
with lookups of a missing name, and `StableScan` with three threads.

The properties:
- **`QuiescentValence`**: whenever no writer is inside the root, the root's `files`/`dirs` equal the records of each kind in the B-tree.
- **`UniqueHashed`**: no two hashed entries have the same key.
- **`RefCountExact`**: `count` equals the number of threads holding the entry.
- **`DirHasThread`**: every directory record has its thread record.
- **`CacheAgreesWithDisk`**: between steps, a hashed, populated, unlocked entry is not marked deleted and has a record; the record has the entry's CNID, unless a rename left the entry `HFS_KEYDIRTY` (the record it took over gets the CNID at `write_entry`).
- **`GetReturnsPopulated`**: `hfs_cat_get` returns NULL or a populated entry.
- **`StableScan`**: the children do not change while a scan holds the root.
- **`NoLostWakeup`**: every sleeper is eventually made runnable.
- **`DirtyListed`**: outside `hfs_cat_put`'s `repeat` (under `entry_lock`), an entry is on the dirty list only if it is dirty, and every hashed dirty entry is on it. `hfs_cat_commit` relies on this to write every dirty entry: it must clear `HFS_DIRTY` exactly when it takes the entry off, which its `^=` does only because a listed entry is dirty. A `hfs_cat_mark_dirty` that forgot the list breaks it.

The sleepers of `start_read`/`start_write` are among those `NoLostWakeup`
covers: `HfsCatalog` drives the directory counters of `HfsDirSync` through an
instance of it, so the `catalog` run checks their wake-ups together with those
of `entry->wait`.

### Why the bounds are enough

- **Two threads** are enough for every race between two operations on one key. These races are:
  - the write-back race;
  - the zombie;
  - the deleted-flag leak;
  - two creates;
  - a delete against a lookup;
  - the grow race behind `UniqueHashed`.
- **The wrong-admission bug needs three threads.** One reader ends and wakes a writer, a second writer enters, a reader sleeps and is woken by it. The `dirsync_excl` run uses three threads.
- **Entries and valence.** With `MaxEntries = 2` two entries can carry the same key. With valence 1 the `-ENOSPC` branch happens.
- **The `NULL` return of `grow_entries`** needs all entries busy. `catalog_race` and `catalog_leak` use `MaxEntries = 1`, where it happens as soon as the one entry is held.

#### Fairness

`HfsDirSync` defines weak fairness for every thread, but no run checks that
module's liveness on its own. `HfsCatalog` assumes
strong fairness for each thread's steps inside an operation (`OpStep`).
`Fairness` writes it as `<>[]~CanOp(t) \/ []<><<OpStep(t)>>_vars`, where
`CanOp(t)` is the state predicate that enables `OpStep(t)` (the thread is inside
an operation, may take `bkl`, and is not asleep); TLC checks this form much
faster than `SF_vars`. This is
justified because the scheduler eventually runs a runnable task: a task that can
take the big kernel lock infinitely often eventually gets it, and B-tree I/O
completes.

Strong fairness rather than weak is needed because another thread holding
`bkl` disables a step for a while. Holders are not forced to act, because an
inode may be kept forever.

Under this fairness, "every operation finishes" does not hold. A holder whose
`hfs_cat_delete` keeps failing locks and unlocks the entry again and again, and
a thread looping in `wait_on_entry` can starve. The checked property is
therefore that no wake-up is lost.

### Findings

The findings below come from the violation runs and from the two unchecked
properties. Each is a reachable sequence of
the modelled code.

1. **`dirsync_excl` (and `StableScan`): readers and writers admitted together** (catalog.c:759, 770).
   - `start_read` and `start_write` test with `if`, sleep once, and increment without testing again.
   - A writer woken by the last `end_read` can find that, before it ran, another writer entered and then woke a sleeping reader. Both are then admitted.
   - Through `StableScan`, `hfs_cat_delete` removes a child while a scan holds the root.
   - This contradicts spec §8.6 and the code's own comment.
2. **`catalog_race`: the write-back race in `hfs_cat_put`** (catalog.c:946-962).
   - At `count` 0 a dirty entry is written back. `write_entry` sleeps in the B-tree while the entry is still hashed.
   - A `hfs_cat_get` finds the entry and takes a reference.
   - `hfs_cat_put` then clears DIRTY and goes to `repeat`, which unhashes and zeroes the entry and puts it on `entry_unused`. The reader holds freed memory.
   - In an exploration with two threads, such a holder's `hfs_cat_delete` then saw `entry->type` change between the two tests (catalog.c:1340, 1386) and drove `readers` negative.
3. **`GetReturnsPopulated`: waiters get a zombie entry** (catalog.c:706-708).
   - A second `hfs_cat_get` of a name that is being read waits on the entry lock.
   - The first read fails. `read_fail` marks the entry deleted, unhashes it and unlocks it.
   - The waiter wakes and returns the unpopulated entry (cnid 0) instead of failing.
   - Spec §4.1 and §7 say this must not happen.
4. **`catalog_leak`: a failed create marks the live entry deleted** (catalog.c:882-886).
   - `bail1` sets `HFS_DELETED` without `remove_hash`.
   - A concurrent create of the same name was waiting on the entry lock. It sees cnid 0, inserts the record successfully, and populates the same entry.
   - The file exists on disk, but its hashed entry is marked deleted. `hfs_cat_delete` answers `-ENOENT`, and the final `hfs_cat_put` treats the file as deleted.

5. **Rename, checked with one thread: the valence drifts after two B-tree failures** (catalog.c:1639-1640).
   - Rename to a new name inserts the new record and counts it (`update_dir(+1)`).
   - If `hfs_bdelete` of the old record fails, `bail2` tries to delete the new record, ignores the result, and calls `update_dir(-1)` anyway.
   - If that delete also fails, the root counts one child while the B-tree holds two. TLC shows this as a `QuiescentValence` violation of the `catalog_writeback` configuration (27 steps). It is not a run of its own, because all run slots are used.
6. **Rename leaves the victim hashed** (catalog.c:1620-1628).
   - The replaced `dest` is marked `HFS_DELETED` and unlocked, but it is not unhashed. It stays beside the rekeyed entry under the same key until its last `hfs_cat_put`.
   - With one thread that happens within the same locked segment. With a second thread holding the victim, `find_entry` can return the deleted victim for the new name, which violates `UniqueHashed`.

Because of finding 2, the passing runs with two threads use holders that do not
dirty or rename their entries (`hfs_cat_move` marks the renamed entry dirty,
catalog.c:1617, which reaches the same race). The write-back path itself is checked by
`catalog_writeback` with one user thread and a syncer, and its race by `catalog_race`.

### Not modelled, and the plan

Planned next, in this order:
1. Reclaim: `try_to_free_entries`, `CAN_UNUSE` and the prune callback. Its hazard is an entry with count 1 or 2 unhashed while held, after which a lookup builds a second live entry for the same key.
   - It was modelled and then taken out again. A restock needs three entries referenced at once: two holders with renames, or three threads. Either configuration is far past the run time bound.
   - `hfs_cat_prune` is in `fs/hfs/inode.c`, which is not in this tree.
2. Nested directories with `count_dir_entries`.
3. `hfs_cat_move` between directories and its cycle check, and rename with two threads once the `hfs_cat_put` race is fixed in the model's configuration.
4. `hfs_cat_invalidate` over the in-use list, with the syncer and two user threads once the write-back race is fixed.
5. An abstract specification of the cache as a map from keys to records, shown by refinement to be implemented by `HfsCatalog` where the findings do not intervene.

Out of scope:
- The record codec beyond type and CNID: `ReadEntry` keeps what `__read_entry` does with these two fields (a record of neither type leaves the CNID 0, which `get_new_entry` treats as a failed read), and the dates, Finder info and forks are field marshalling. `__write_entry` is modelled as `WriteRec`: the entry's CNID goes into `DirID` or `FlNum`, and a record of another type is left alone. The dates, Finder info and extents it writes are marshalling.
- Key comparison and hashing are pure functions on names, which here are model values. Two numeric edges are left unchecked:
  - `hfs_cat_compare` casts the unsigned difference of the parent IDs to `int`. For parent IDs 2^31 or more apart, the sign is wrong and the order is not transitive.
  - `new_cnid` increments `next_id` with no wrap test.

  Both are beyond the bounded CNIDs used here (`MaxCnid`).

## The SPX transport (`Spx`)

`af_spx.c` implements SPX, a sequenced, acknowledged transport, over IPX
datagrams. A connection has two sockets. `Spx` models both of them: a
`Client` that calls `spx_connect` and a `Server` that calls `spx_listen` and
`spx_accept`. After that, either one calls `sendmsg`, `recvmsg` and `release`.

### State

- **Per socket.** The fields of `spx_opt` are variables indexed by socket:
  - `st` is the state;
  - `seqn` is `sequence` and `rmt` is `rmt_seq`;
  - `dff` means `dest_connid = 0xFFFF`;
  - `retries` and `rexmits` are the two retry counters;
  - `wd` and `rt` mean the watchdog and retransmit timers are pending;
  - `rtq`, `txq` and `rq` are the retransmit, transmit and receive queues;
  - `rcvq` is the length of `rcv_queue`.
- **Network.** `net` is a bag of packets in flight to each socket, so the
  network reorders. `Lose` drops up to `MaxLoss` packets.
- **Ghosts.** `nsent`, `got`, `lost` and `aborted` record what was sent,
  what was delivered to the reader, how many packets were lost, and whether a
  socket was closed by an abort.

### Actions and code

| Action | Code |
|---|---|
| `Connect`, `ConnectDone` | `spx_connect` before and after its sleep |
| `Listen`, `AcceptDone` | `spx_listen`, `spx_accept` |
| `SendMsg`, `SendQueue` | `spx_sendmsg` and `spx_route_skb` |
| `RecvMsg` | `spx_recvmsg` |
| `Release` | `spx_release`, `spx_close_socket`, `spx_destroy_socket` |
| `Deliver` | the IPX layer queueing a packet, then `spx_rcv` on the head of the receive queue |
| `Refuse` | the IPX layer freeing a packet for a full receive queue or a released socket, without calling `spx_rcv` |
| `Retransmit`, `Watchdog` | the timer handlers `spx_retransmit` and `spx_watchdog` |

`SpxRcv` dispatches on the packet type to one handler per branch of
`spx_rcv`: `RcvConReq`, `RcvWdReq`, `RcvConAck`, `RcvAck`, `RcvDiscon`,
`RcvData` and `RcvStale`.

`SendMsg` and `SendQueue` are two steps because `spx_route_skb` runs in
process context without disabling bottom halves. An `spx_rcv` can therefore
run between its test of the retransmit queue and its queueing. Bottom halves
are atomic with respect to each other.

A timer fires only when nothing is in flight. This is justified because the
timeouts, one second and more, are longer than a round trip.

### Runs

| Run | Bounds | Result |
|---|---|---|
| `spx` | client sends 2 packets, sequence modulo 4, 1 loss, `skb_clone` may fail | `TypeOK`, `InOrderDelivery` hold |
| `spx_live` | 1 packet, 1 loss | `DataAcked` holds |
| `spx_stranded` | 2 packets, no loss | `TxqBehindRtq` violated |
| `spx_wrap` | 2 packets, sequence modulo 2 | `AckedLeavesRetransmitQueue` violated |
| `spx_release` | 1 packet, no loss | `NoTimerAfterRelease` violated |

`SeqMod` stands for 2^16. Modulo 4, two packets never wrap; modulo 2, they
do. That is the case `spx_wrap` needs.

### Fairness

The fairness conditions are:
- weak fairness for the second half of a connect or accept, for
  `SendQueue`, and for delivering or refusing what is in flight;
- strong fairness for the timers, which are enabled only between round
  trips.

The user's calls need not happen.

### Findings

- **`spx_stranded`** (af_spx.c:353). An ACK handled between `spx_route_skb`'s
  test and `skb_queue_tail` leaves the new packet on the transmit queue with
  nothing outstanding. Only an ACK sends it, so it is stranded.
- **`spx_wrap`** (af_spx.c:553). The insanity check compares `ackseq` with
  `sequence` as plain numbers. Once `sequence` has wrapped, the ACK of the
  outstanding packet is discarded, and the connection is eventually aborted.
- **`spx_release`** (af_spx.c:158). `spx_release` deletes the timers only
  when the state is not `SPX_CLOSED`. A closed socket can still have timers
  pending, and is freed with them.

Two further properties are defined and violated in explorations that no run
repeats:
- **`AbortOnlyAfterLoss`**, with no senders, no loss and a receive buffer
  of 4. The server's watchdog requests before accept are taken by the client
  as connection requests, and the server aborts (af_spx.c:565).
- **`RetransmitTimerHasPacket`**, with the `spx` configuration. In
  `spx_route_skb` the retransmit timer is armed before `skb_clone`. When the
  clone fails (af_spx.c:363-365), the timer is armed and the retransmit queue
  is empty, and `spx_retransmit` then peeks at an empty queue (7 steps).
- **`ConnectReturns`**, with one loss. When the `CONREQ` is lost,
  `spx_connect` sleeps until a signal (af_spx.c:446).

## Swap areas (`Swap`)

`swapfile.c` keeps, for each swap area, a `swap_map` of reference counts, the
`lowest_bit`/`highest_bit` hints and an allocation cluster. It also keeps the
areas in `swap_list`, ordered by priority, with a round-robin cursor
`swap_list.next`, and the global count `nr_swap_pages`.

### State

- **Areas.** `si[t]` is a record of the fields of `swap_info[t]`:
  - `flags`, `map`, `lo`/`hi` (the hints);
  - `cn`/`cr` (`cluster_next`, `cluster_nr`);
  - `prio` and `pages`.
- **List.** `lst` is `swap_list` followed from its head, as a sequence.
  `nxt` is `swap_list.next`, with `Nil` = -1.
- **Counters.** `nr` is `nr_swap_pages` and `least` is `least_priority`.
- **Control.** `ctl[t]` is where `sys_swapon` or `sys_swapoff` of area `t`
  is asleep. `cur[t]` is the offset `try_to_unuse` is reading, and `pref[t]`
  records whether `SWAP_FLAG_PREFER` was given.
- **Ghost.** `refs[t][o]` is the number of references held on each entry by
  page tables, the swap cache and shm, which live in other files.
- **Encoding.** `SWAP_MAP_BAD` is `MapMax + 1`, so it lies above
  `SWAP_MAP_MAX`.

### Actions and code

Everything runs under the big kernel lock, so a function is one step, except
where it sleeps:
- `sys_swapon` is `SwaponStart`, then `SwaponDone` after the header read;
  `Headers` are the version-1 and version-2 headers it accepts.
- `sys_swapoff` is `Swapoff`, then `try_to_unuse` as `UnuseScan` and
  `UnuseRead`, one step per `read_swap_cache`, then `SwapoffEnd`, or
  re-insertion in the list when a read fails (`Reinsert`, the same
  priority-ordered insertion as `sys_swapon`'s).
- `GetSwapPage` is `get_swap_page`. Its walk over the list is the recursive
  `Walk`, and `scan_swap_map` is the pure operator `Scan`.
- `AcquireSwapEntry` and `SwapFree` are `acquire_swap_entry` and
  `swap_free`.
- `Duplicate` is `swap_duplicate`, whose code is not in the repository. It
  is the environment's, and it is not mapped.

### Run `swap`

Bounds:
- 2 areas of 2 pages each, clusters of 1;
- `SWAP_MAP_MAX` = 3 with at most 2 references per entry, so no count sticks;
- priority 1 given, or -1 taken;
- reads in `try_to_unuse` may fail.

It has 511k states. The following hold:
- `TypeOK`;
- `CountMatchesRefs`: counts equal references;
- `NrSwapPagesExact`: `nr_swap_pages` is exact;
- `SwapListWellFormed`: the list is sorted and holds the writable areas,
  and its cursor is on it;
- `SwapoffTerminates`: every swapoff returns.

Two areas are needed for the list and the cursor.

Two properties are defined in `Swap` but not checked by the run:
- `AllocComplete` says that `get_swap_page` fails only when nothing is free. It holds in this run only because counts stay below `SWAP_MAP_MAX`. It fails under the hint leak below.
- `PriorityRespected` says that `get_swap_page` never allocates below a higher area with room. A stale cursor (swapfile.c:144) needs a lower group of two areas under a higher one, which is three areas, and that is beyond the run's time bound. Two pages
are needed so that the hints and a partial `try_to_unuse` matter.

Fairness is weak fairness on the steps of `try_to_unuse`: page reads
complete, and the process is scheduled again. Nothing obliges processes or
the administrator to act. `Fairness` writes this weak fairness out as
`[]<>~E \/ []<><<A>>_vars`, where the state predicate `E` (the swapoff is in
`scan` or `read`) is exactly when `A` is enabled. It is the same formula as
`WF_vars(A)`, and TLC checks it without evaluating `ENABLED`.

### Observations outside the run

Two observations come from configurations that the `swap` run excludes.

- **Hint leak** (swapfile.c:392). Set `MapMax = 2`, `MaxRefs = 3`, one area,
  and let reads fail. Swapoff clears a count stuck at `SWAP_MAP_MAX` without
  restoring `lowest_bit`/`highest_bit`, and then a read fails. `AllocComplete`
  is violated: `get_swap_page` finds nothing while `nr_swap_pages` is 1.
- **Duplicate bad pages** (swapfile.c:719). Set `HeaderDups = TRUE`. A
  version-2 header that lists a bad page twice subtracts it twice, and
  `NrSwapPagesExact` is violated. `mkswap` does not write such headers.

Not modelled: the read-only reports `get_swaparea_info`, `is_swap_partition`
and `si_swapinfo`, and the page-table walk of `unuse_process`, which is
abstracted to dropping the references on an entry.

## The Maestro DSP channel (`Maestro`)

`src/drivers/sound/maestro.c` drives the ESS Maestro audio chips. Each
`/dev/dsp` minor is an `ess_state`. Its two DMA buffers, `dma_dac` for
playback and `dma_adc` for recording, are the two halves of one allocation.
Wave processors (APUs) play and record them, and the card's "bob" timer
interrupt runs `ess_update_ptr` to follow their positions. `Maestro` models
one channel with the files that open it. `MCMaestro` instantiates it.

### State

| variable | code |
|---|---|
| `db[d]` | `struct dmabuf` of each direction: `ready`, `hwptr`, `swptr`, `count`, `endcleared`, `rawbuf` (a chunk), and the `ESS_ENABLE_PE`/`RE` bit |
| `apu[d]` | the APU pair of each direction: running, position register, and the `rawbuf` the last `ess_play_setup`/`ess_rec_setup` gave it |
| `alive` | halves of allocations not yet freed |
| `openMode`, `bob` | `s->open_mode`, `card->bob_running` |
| `pc`, `left`, `cnt`, `sw`, `dst` | each file's process: where it is, and the locals of its `ess_read`/`ess_write` loop |
| `woken` | processes a `wake_up` made runnable |

Byte counts are in units of 4 bytes, the granularity of `ess_read`/`ess_write`.
Allocations are model values (`Chunks`), and a NULL `rawbuf` is `NoChunk`.

### Actions and code

| action | code |
|---|---|
| `Open`, `OpenSignal` | `ess_open`: wait for the modes to be free, then set up |
| `Release`, `ReleaseBody`, `DrainEnd`, `DrainSignal` | `ess_release` and `drain_dac` |
| `ProgDmabuf`, `ProgAlloc` | `prog_dmabuf`: free or reuse the buffer, allocate (sleeping), program the APUs |
| `WriteCall`, `WLoop`, `WSleep`, `WCopy` | `ess_write`: loop, sleep with timeout, `copy_from_user` with the lock dropped |
| `ReadCall`, `RLoop`, `RSleep`, `RCopy` | `ess_read`: the same for recording |
| `Update`, `Interrupt` | `ess_update_ptr` (with the APUs' movement since the last call), `ess_interrupt`, which comes while `BobRunning` (`start_bob`/`stop_bob` unmask and mask the timer as `bob_running` leaves and returns to 0) |
| `DspReset`, `DspSpeed`, `DspGetSpace`, `SpaceUpdate` | `SNDCTL_DSP_RESET`; `SNDCTL_DSP_SPEED`, `STEREO`, `CHANNELS` and `SETFMT` (each stops and unreadies the file's directions); `SNDCTL_DSP_GETOSPACE`/`GETISPACE` |
| `DspSync`, `DrainReturn` | `SNDCTL_DSP_SYNC`: `drain_dac` and its end |
| `DspGetBlkSize` | `SNDCTL_DSP_GETBLKSIZE`: `prog_dmabuf` of the file's first direction, unconditionally |
| `DspGetPtr` | `SNDCTL_DSP_GETODELAY`, `GETOPTR`, `GETIPTR`: `ess_update_ptr` under the lock |
| `DspSetTrigger`, `TrigStep` | `SNDCTL_DSP_SETTRIGGER`: for a reader, `prog_dmabuf` of a record buffer not ready then `start_adc`, or `stop_adc`; then for a writer the same with the DAC (`OutHalf`). The labels `ti1_prog`, `ti0_prog`, `to_prog` are its sleeps in the allocator, and `ti1_start`, `ti0_start`, `tw1`, `tw0`, `to_start` where it goes on |
| `Poll` | `ess_poll` |

Process steps end where the code sleeps or drops `s->lock` around a user copy.
The big kernel lock keeps processes from interleaving anywhere else. The
interrupt runs between any two steps. A `spin_lock_irqsave` section is one
step.

**Lumped APU movement.** The APUs move continuously. The driver reads their
position only in `ess_update_ptr` (through `get_dmaa`/`get_dmac`). `Update`
therefore moves each running APU by 0 to `MaxAdvance` units and then runs the
update. No separate APU step is needed.

### Run `maestro`

The run has two files: `a`, opened for reading and writing, and `b`, for
writing only. It uses `Frag = 1` and `NumFrag = 4`. `prog_dmabuf` guarantees at
least four fragments, so this is the smallest legal geometry. Further settings:

- `MaxAdvance = 1` and `MaxXfer = 1`;
- two chunks, with symmetry on them;
- allocations may fail, and sleepers may receive signals.

TLC finds about 1,180,000 distinct states in about three minutes with coverage. Two files are needed
because `b` contends with `a` for the playback mode and sleeps in `ess_open`.

The properties:
- **`OpenExclusive`**: files in use never share a mode, `open_mode` is the union
  of their modes, and `bob_running` counts them.

`OpenExclusive` would also hold with files that split the modes. The run checks only this property.
`DmaOnLiveBuffers` and `NoLeakedBuffer` are defined in `Maestro` but not checked. In this run only one file at a time owns the buffers, so they would hold for that reason alone. They fail when two files split the modes (below).

The specification has no fairness and the run checks no liveness. The open
and drain waits end only on a wake-up or a signal, and the model gives no
process a guarantee that it is scheduled.

### Observations outside the run

The following come from other configurations or properties. They are recorded
as hazards in `PROJECT.json`.

- **DMA into freed pages** (maestro.c:2851). Use files `r` with `{R}` and `w`
  with `{W}`. `ess_release` of one frees both halves and stops only its own
  APUs. `DmaOnLiveBuffers` fails in 6 steps.
- **Leaked allocation** (maestro.c:1644). With the same files, two
  `prog_dmabuf` calls both find `rawbuf` NULL and both sleep in the allocator.
  `NoLeakedBuffer` fails in 7 steps.
- **Drain that never ends** (maestro.c:2071). `drain_dac` checks `ready` only
  on entry. If the other file's release frees the buffers, `count` never falls
  (9 steps).
- **Stale `swptr` commit** (maestro.c:2373). `ess_write` stores the `swptr` it
  read before the copy, after an underrun reset. `PlaybackPointersAgree` fails
  in the `maestro` configuration in 9 steps. It is therefore defined in the
  module but not checked by the run.
- Three hazards are read from the code and not modelled:
  - `stop_dac` retakes `s->lock` inside `ess_update_ptr`, which deadlocks on
    SMP;
  - `set_dmaa`/`set_dmac` are empty stubs;
  - `SNDCTL_DSP_GETISPACE` reprograms the record buffer whenever recording is
    stopped.
- `SNDCTL_DSP_GETBLKSIZE` (maestro.c:2694) calls `prog_dmabuf` even while the
  direction plays, which zeroes its pointers and discards the queued data. It
  is modelled (`DspGetBlkSize`). No checked property covers it.
- Card lifecycle bugs, read from the code and not modelled:
  - `maestro_install` links the card into `devs` before `request_irq` and
    `kfree`s it on failure without unlinking it (maestro.c:2993, 3327);
  - the APM suspend callback pops every card off `devs` for good (2897);
  - `ess_open` raises the module use count only after its sleep (2832);
  - `apm_register_callback` runs once per card but is unregistered once.

Not modelled:
- stereo and 16-bit split buffers;
- the `kmalloc` bounce buffer of the ADC;
- `SETFRAGMENT` and `SUBDIVIDE` (the model's fragment geometry is fixed) and the read-only ioctls;
- the mixer, the card probe and lifecycle (install, APM, unload), and the APU
  register access. Composing the lifecycle with the channel took the run far
  past its time bound.

`mmap` is not in the driver's `file_operations`.
