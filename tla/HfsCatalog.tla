----------------------------- MODULE HfsCatalog -----------------------------
(***************************************************************************)
(* The HFS catalog entry cache (src/fs/hfs/catalog.c) with the operations *)
(* built on it: lookup (hfs_cat_get/hfs_cat_put), file and directory      *)
(* creation (hfs_cat_create/hfs_cat_mkdir -> create_entry), deletion      *)
(* (hfs_cat_delete) and directory scans (hfs_cat_open/next/close), run   *)
(* by concurrent kernel threads over the children of the root directory. *)
(*                                                                         *)
(* Scheduling.  The 2.2 kernel runs file system calls under the big      *)
(* kernel lock (bkl): a thread runs alone until it sleeps (hfs_sleep_on, *)
(* B-tree I/O, kmalloc) or returns to its caller.  A thread holds bkl    *)
(* from the start of such a segment to its end; the labels in YieldPc    *)
(* are where it gives it up.                                             *)
(*                                                                         *)
(* The catalog B-tree is the collaborator: cat maps a name under the     *)
(* root to its record, thd maps a CNID to the name its thread record      *)
(* points at.  A B-tree call takes effect when it returns; with          *)
(* FailSites it may also fail with an I/O error at the calls named there. *)
(***************************************************************************)
EXTENDS Integers, FiniteSets

CONSTANTS
    Threads,     \* kernel threads
    Names,       \* names of the root directory's children (catalog keys)
    Root,        \* the root directory entry, always cached and held
    MaxEntries,  \* CCACHE_MAX: ceiling of allocated entries
    ChunkSize,   \* CCACHE_INC: entries allocated by one grow_entries
    MaxValence,  \* HFS_MAX_VALENCE: children a directory may have
    FirstCnid,   \* mdb->next_id when the volume is mounted
    MaxCnid,     \* bound: CNIDs handed out by new_cnid
    FailSites,   \* the B-tree calls (by the label that waits for them) that may fail
    HolderDirties, \* whether the inode layer dirties the entries it holds
    Renames,     \* whether holders rename their entries (hfs_cat_move)
    Syncers,     \* threads that only write the cache back (hfs_cat_commit)
    DotDot,      \* whether directory holders look up ".." (hfs_cat_parent)
    Hdr,         \* Hdr[n]: m if name n is "%m" (an AppleDouble header name), else NoName
    NoThread, NoEntry, NoName, NoRec

ASSUME MaxEntries % ChunkSize = 0 /\ ChunkSize >= 1
ASSUME FirstCnid > 2 /\ MaxCnid >= FirstCnid
ASSUME Syncers \subseteq Threads
ASSUME /\ Hdr \in [Names -> Names \cup {NoName}]
       /\ \A m, n \in Names : Hdr[m] = Hdr[n] /\ Hdr[m] # NoName => m = n

Entries == 1..MaxEntries
Cnids == FirstCnid..MaxCnid
DirIds == {Root} \cup Entries
Flags == {"LOCK", "DIRTY", "DELETED", "KEYDIRTY"}
Kinds == {"fil", "dir"}

VARIABLES
    ent,        \* ent[e]: the fields of struct hfs_cat_entry e; onDirty:
                \* entry->list is on mdb->entry_dirty
    allocated,  \* entries allocated by grow_entries (nr_entries = its size)
    unused,     \* entry_unused (nr_free_entries = its size)
    entWait,    \* entWait[e]: threads on entry->wait
    readers, writers, readWait, writeWait, woken,  \* see HfsDirSync
    rootFiles,  \* Root->u.dir.files
    rootDirs,   \* Root->u.dir.dirs
    rootDirty,  \* HFS_DIRTY of the root entry
    cat,        \* cat[n]: the catalog record of name n, or NoRec
    thd,        \* thd[c]: the name in the thread record of CNID c, or NoRec
    nextId,     \* mdb->next_id
    bkl,        \* the thread holding the big kernel lock, or NoThread
    pc,         \* pc[t]: the label thread t executes next
    ret,        \* ret[t]: where get_entry and hfs_cat_put return to
    cur,        \* cur[t]: the entry thread t works on, or NoEntry (NULL)
    name,       \* name[t]: the key of thread t's operation
    isDir,      \* isDir[t]: is_dir of create_entry / hfs_cat_delete
    id,         \* id[t]: the CNID new_cnid gave thread t's create
    snap,       \* snap[t]: the children a scan found when it opened the dir
    mv,         \* mv[t]: the entry hfs_cat_move is moving, or NoEntry
    renameLock, \* mdb->rename_lock
    renameWait  \* threads on mdb->rename_wait

cacheVars == <<ent, allocated, unused, entWait>>
syncVars == <<readers, writers, readWait, writeWait, woken>>
rootVars == <<rootFiles, rootDirs, rootDirty>>
diskVars == <<cat, thd, nextId>>
threadVars == <<bkl, pc, ret, cur, name, isDir, id, snap>>
moveVars == <<mv, renameLock, renameWait>>
vars == <<cacheVars, syncVars, rootVars, diskVars, threadVars, moveVars>>
poolVars == <<allocated, unused, entWait>>
dirVars == <<readers, writers, readWait, writeWait>>
opVars == <<name, isDir, id, snap>>

DS == INSTANCE HfsDirSync WITH Dirs <- DirIds, dirOf <- [t \in Threads |-> Root]

-----------------------------------------------------------------------------
(* Entries *)

\* An entry as clear_entry leaves it (memset to zero, lists emptied).
Cleared == [key |-> NoName, count |-> 0, state |-> {}, cnid |-> 0,
            type |-> "none", hashed |-> FALSE, onDirty |-> FALSE]

\* The entries find_entry can return for name n.
HashedWith(n) == {e \in allocated : ent[e].hashed /\ ent[e].key = n}

\* The record under a key; an entry zeroed by clear_entry has no key.
RecOf(k) == IF k \in Names THEN cat[k] ELSE NoRec

\* get_entry with read == 1 (hfs_cat_get); create_entry and hfs_cat_move
\* (for a placeholder) call it with 0.
Populate(t) == ret[t] \notin {"cr_got", "mv_new"}

\* Labels at which a thread sleeps, waits for I/O or is back in its caller.
SleepPc == {"get_sleep", "put_sleep", "put_clear_sleep", "cr_sw_sleep",
            "dl_sw_sleep", "dl_lock_sleep", "sc_sr_sleep", "mv_rl_sleep",
            "mv_sw_sleep", "mv_ld_sleep", "mv_le_sleep", "cm_sleep", "pa_lock_sleep"}
IoPc == {"get_grow", "get_read", "put_write", "cr_ins_thd", "cr_ins_rec",
         "cr_undo_thd", "dl_bdel", "dl_bdel_thd", "sc_open", "sc_next",
         "mv_ins", "mv_bdel", "mv_thd", "mv_dthd", "mv_undo", "cm_write", "pa_find"}
YieldPc == SleepPc \cup IoPc \cup {"idle", "held", "held_dirtied", "dl_start"}

\* The B-tree call awaited at label l may fail with an I/O error.
IoFails(l) == l \in FailSites

\* Thread t may run: it holds the big kernel lock or nobody does.
Runs(t) == bkl \in {t, NoThread}

\* Thread t continues at label l, giving up the lock if l is a yield point.
Goto(t, l) ==
    /\ pc' = [pc EXCEPT ![t] = l]
    /\ bkl' = IF l \in YieldPc THEN NoThread ELSE t

\* unlock_entry: clear HFS_LOCK and wake entry->wait.
UnlockedState(e) == ent[e].state \ {"LOCK"}

\* Mutant: the entry is marked dirty but not put on mdb->entry_dirty.
MarkDirtyNoList(r) ==
    IF "DIRTY" \in r.state THEN r ELSE [r EXCEPT !.state = @ \cup {"DIRTY"}]

\* hfs_cat_mark_dirty (catalog.c:229) of entry record r: a clean entry is
\* marked HFS_DIRTY and, if it is hashed, moved to mdb->entry_dirty.
MarkDirty(r) ==
    IF "DIRTY" \in r.state THEN r
    ELSE [r EXCEPT !.state = @ \cup {"DIRTY"}, !.onDirty = @ \/ r.hashed]

-----------------------------------------------------------------------------
(* get_entry (catalog.c:690), find_entry, get_new_entry, grow_entries      *)

\* find_entry found e: take a reference, then wait_on_entry.
FoundEntry(t, e) ==
    /\ ent' = [ent EXCEPT ![e].count = @ + 1]
    /\ cur' = [cur EXCEPT ![t] = e]
    /\ IF "LOCK" \in ent[e].state
       THEN entWait' = [entWait EXCEPT ![e] = @ \cup {t}] /\ Goto(t, "get_sleep")
       ELSE UNCHANGED entWait /\ Goto(t, ret[t])

\* add_new_entry: hash e under the key, locked, with one reference; read
\* it from the B-tree if asked to.
AddNewEntry(t, e) ==
    /\ ent' = [ent EXCEPT ![e].key = name[t], ![e].count = 1,
                          ![e].state = {"LOCK"}, ![e].hashed = TRUE]
    /\ cur' = [cur EXCEPT ![t] = e]
    /\ UNCHANGED entWait
    /\ Goto(t, IF Populate(t) THEN "get_read" ELSE ret[t])

\* get_entry.  At the ceiling with no free entry it first calls
\* try_to_free_entries (restock), which is not modelled: it frees nothing.
GetEntry(t) ==
    /\ pc[t] = "get" /\ Runs(t)
    /\ \/ \E e \in HashedWith(name[t]) :
             FoundEntry(t, e) /\ UNCHANGED <<allocated, unused>>
       \/ /\ HashedWith(name[t]) = {} /\ unused # {}
          /\ \E e \in unused : AddNewEntry(t, e) /\ unused' = unused \ {e}
          /\ UNCHANGED allocated
       \/ /\ HashedWith(name[t]) = {} /\ unused = {}
          /\ Goto(t, "get_grow")
          /\ UNCHANGED <<cacheVars, cur>>
    /\ UNCHANGED <<syncVars, rootVars, diskVars, ret, name, isDir, id, snap>>

\* Mutant: no find_entry after grow_entries dropped the lock.
NewOrOldNoResearch(t, e, free) ==
    AddNewEntry(t, e) /\ unused' = free \ {e}

\* get_new_entry after grow_entries handed it entry e, the others of free
\* being on entry_unused: find_entry again, since the lock was dropped.
NewOrOld(t, e, free) ==
    \/ \E old \in HashedWith(name[t]) : FoundEntry(t, old) /\ unused' = free
    \/ /\ HashedWith(name[t]) = {}
       /\ AddNewEntry(t, e)
       /\ unused' = free \ {e}

\* grow_entries returned (HFS_NEW slept).  Below the ceiling: a new
\* allocation unit of ChunkSize entries.  At the ceiling: the failure
\* branch (try_to_free_entries, then the head of entry_unused, else NULL,
\* which get_entry returns).
GetGrow(t) ==
    /\ pc[t] = "get_grow" /\ Runs(t)
    /\ LET base == Cardinality(allocated)
           chunk == (base + 1)..(base + ChunkSize)
       IN \/ /\ base < MaxEntries
             /\ allocated' = allocated \cup chunk
             /\ NewOrOld(t, base + 1, unused \cup chunk)
          \/ /\ base >= MaxEntries /\ unused # {}
             /\ \E e \in unused : NewOrOld(t, e, unused)
             /\ UNCHANGED allocated
          \/ /\ base >= MaxEntries /\ unused = {}
             /\ cur' = [cur EXCEPT ![t] = NoEntry]
             /\ Goto(t, ret[t])
             /\ UNCHANGED cacheVars
    /\ UNCHANGED <<syncVars, rootVars, diskVars, ret, name, isDir, id, snap>>

\* The thread sleeping in wait_on_entry is scheduled: it loops while the
\* entry is locked, and leaves the queue when it is not.
WakeGet(t) ==
    /\ pc[t] = "get_sleep" /\ t \in woken /\ Runs(t)
    /\ woken' = woken \ {t}
    /\ IF "LOCK" \in ent[cur[t]].state
       THEN UNCHANGED entWait /\ Goto(t, "get_sleep")
       ELSE entWait' = [entWait EXCEPT ![cur[t]] = @ \ {t}] /\ Goto(t, ret[t])
    /\ UNCHANGED <<ent, allocated, unused, readers, writers, readWait, writeWait,
                   rootVars, diskVars, ret, cur, name, isDir, id, snap>>

\* __read_entry (catalog.c:385) of record rec into entry r: the type, and
\* the CNID of a directory (DirID) or a file (FlNum); a record of any other
\* type leaves the CNID clear_entry zeroed.  Dates, Finder info, flags and
\* the forks are not modelled.
ReadEntry(r, rec) ==
    [r EXCEPT !.type = rec.type, !.cnid = IF rec.type \in Kinds THEN rec.cnid ELSE @]

\* Mutant: a successful read does not hfs_wake_up(&entry->wait).
GetReadNoWake(t) ==
    /\ pc[t] = "get_read" /\ Runs(t) /\ cat[name[t]] # NoRec
    /\ ent' = [ent EXCEPT ![cur[t]].cnid = cat[name[t]].cnid,
                          ![cur[t]].type = cat[name[t]].type,
                          ![cur[t]].state = UnlockedState(cur[t])]
    /\ Goto(t, ret[t])
    /\ UNCHANGED <<allocated, unused, entWait, syncVars, rootVars, diskVars,
                   ret, cur, name, isDir, id, snap>>

\* Mutant: read_fail unhashes and unlocks but never calls hfs_cat_put.
GetReadNoPut(t) ==
    /\ pc[t] = "get_read" /\ Runs(t)
    /\ \/ /\ cat[name[t]] # NoRec
          /\ ent' = [ent EXCEPT ![cur[t]].cnid = cat[name[t]].cnid,
                                ![cur[t]].type = cat[name[t]].type,
                                ![cur[t]].state = UnlockedState(cur[t])]
          /\ UNCHANGED cur
       \/ /\ cat[name[t]] = NoRec \/ IoFails("get_read")
          /\ ent' = [ent EXCEPT ![cur[t]].hashed = FALSE,
                                ![cur[t]].state = (@ \cup {"DELETED"}) \ {"LOCK"}]
          /\ cur' = [cur EXCEPT ![t] = NoEntry]
    /\ woken' = woken \cup entWait[cur[t]]
    /\ Goto(t, ret[t])
    /\ UNCHANGED <<allocated, unused, entWait, readers, writers, readWait,
                   writeWait, rootVars, diskVars, ret, name, isDir, id, snap>>

\* get_new_entry after hfs_bfind returned: read_entry, and with a CNID the
\* entry is unlocked; a failed hfs_bfind (marking the entry deleted) or a
\* CNID of 0 goes to read_fail: unhash, unlock, hfs_cat_put, return NULL.
\* Directories of this key space have no children (Val 0), so read_entry
\* never needs count_dir_entries.
GetRead(t) ==
    /\ pc[t] = "get_read" /\ Runs(t)
    /\ LET e == cur[t]
           rec == cat[name[t]]
           bfail == rec = NoRec \/ IoFails("get_read")
           read == rec # NoRec /\ ReadEntry(ent[e], rec).cnid # 0
       IN \/ /\ read
             /\ ent' = [ent EXCEPT ![e] = [ReadEntry(@, rec) EXCEPT !.state = UnlockedState(e)]]
             /\ UNCHANGED <<unused, cur>>
          \/ /\ bfail \/ ~read
             /\ IF ent[e].count = 1
                THEN ent' = [ent EXCEPT ![e] = Cleared] /\ unused' = unused \cup {e}
                ELSE /\ ent' = [ent EXCEPT ![e].count = @ - 1, ![e].hashed = FALSE,
                                      ![e].state = (@ \cup IF bfail THEN {"DELETED"} ELSE {})
                                                   \ {"LOCK"}]
                     /\ UNCHANGED unused
             /\ cur' = [cur EXCEPT ![t] = NoEntry]
    /\ woken' = woken \cup entWait[cur[t]]
    /\ Goto(t, ret[t])
    /\ UNCHANGED <<allocated, entWait, readers, writers, readWait, writeWait,
                   rootVars, diskVars, ret, name, isDir, id, snap>>

-----------------------------------------------------------------------------
(* hfs_cat_put (catalog.c:904)                                             *)

\* wait_on_entry, then drop the reference; the last one goes on to the
\* cleanup at "repeat".
CatPut(t) ==
    /\ pc[t] = "put" /\ Runs(t)
    /\ LET e == cur[t] IN
       IF "LOCK" \in ent[e].state
       THEN /\ entWait' = [entWait EXCEPT ![e] = @ \cup {t}]
            /\ Goto(t, "put_sleep")
            /\ UNCHANGED <<ent, cur>>
       ELSE /\ UNCHANGED entWait
            /\ IF ent[e].count = 0
               THEN UNCHANGED ent /\ cur' = [cur EXCEPT ![t] = NoEntry]
                    /\ Goto(t, ret[t])
               ELSE /\ ent' = [ent EXCEPT ![e].count = @ - 1]
                    /\ IF ent[e].count > 1
                       THEN cur' = [cur EXCEPT ![t] = NoEntry] /\ Goto(t, ret[t])
                       ELSE UNCHANGED cur /\ Goto(t, "put_repeat")
    /\ UNCHANGED <<allocated, unused, syncVars, rootVars, diskVars, ret, name,
                   isDir, id, snap>>

WakePut(t) ==
    /\ pc[t] \in {"put_sleep", "put_clear_sleep"} /\ t \in woken /\ Runs(t)
    /\ woken' = woken \ {t}
    /\ entWait' = [entWait EXCEPT ![cur[t]] = @ \ {t}]
    /\ Goto(t, IF pc[t] = "put_sleep" THEN "put" ELSE "put_clear")
    /\ UNCHANGED <<ent, allocated, unused, readers, writers, readWait, writeWait,
                   rootVars, diskVars, ret, cur, name, isDir, id, snap>>

\* "repeat": a deleted entry loses its state (its extents are freed); a
\* dirty one is written back first, sleeping in write_entry; otherwise it
\* leaves the hash and the lists and clear_entry frees it.  The count is
\* not looked at again after a sleep.
PutRepeat(t) ==
    /\ pc[t] = "put_repeat" /\ Runs(t)
    /\ LET e == cur[t]
           st == IF "DELETED" \in ent[e].state THEN {} ELSE ent[e].state
       IN IF "DIRTY" \in st
          THEN ent' = [ent EXCEPT ![e].state = st] /\ Goto(t, "put_write")
          ELSE ent' = [ent EXCEPT ![e].state = st, ![e].hashed = FALSE,
                                  ![e].onDirty = FALSE]
               /\ Goto(t, "put_clear")
    /\ UNCHANGED <<allocated, unused, entWait, syncVars, rootVars, diskVars,
                   ret, cur, name, isDir, id, snap>>

\* write_entry: unless the entry is deleted, hfs_bfind of its key (which
\* may fail), then __write_entry puts the entry's CNID in the record.  An
\* entry renamed onto the key (HFS_KEYDIRTY, then cleared) overwrites the
\* record whatever its CNID; otherwise a record with another CNID is left
\* alone ("CNID changed unexpectedly").  The caller clears the flags clr
\* when it returns (HFS_DIRTY for hfs_cat_put, HFS_LOCK for hfs_cat_commit).
\* __write_entry (catalog.c:498): a directory entry fills the record's
\* DirID, a file entry its FlNum, with the entry's CNID (the dates, Finder
\* info, valence and extents are not modelled); any other type is
\* "invalid entry" and leaves the record as it was.
WriteRec(x, r) == IF x.type \in Kinds THEN [r EXCEPT !.cnid = x.cnid] ELSE r

WriteEntry(e, clr) ==
    LET k == ent[e].key
        found == "DELETED" \notin ent[e].state /\ RecOf(k) # NoRec
    IN \/ /\ found
          /\ cat' = IF "KEYDIRTY" \in ent[e].state \/ cat[k].cnid = ent[e].cnid
                    THEN [cat EXCEPT ![k] = WriteRec(ent[e], @)] ELSE cat
          /\ ent' = [ent EXCEPT ![e].state = @ \ ({"KEYDIRTY"} \cup clr)]
       \/ /\ ~found \/ IoFails("write_entry")
          /\ ent' = [ent EXCEPT ![e].state = @ \ clr]
          /\ UNCHANGED cat

\* write_entry returned; HFS_DIRTY is cleared and the put goes back to
\* "repeat".
PutWrite(t) ==
    /\ pc[t] = "put_write" /\ Runs(t)
    /\ WriteEntry(cur[t], {"DIRTY"})
    /\ Goto(t, "put_repeat")
    /\ UNCHANGED <<allocated, unused, entWait, syncVars, rootVars, thd, nextId,
                   ret, cur, name, isDir, id, snap>>

\* clear_entry: wait_on_entry, zero the entry, put it on entry_unused.
PutClear(t) ==
    /\ pc[t] = "put_clear" /\ Runs(t)
    /\ LET e == cur[t] IN
       IF "LOCK" \in ent[e].state
       THEN /\ entWait' = [entWait EXCEPT ![e] = @ \cup {t}]
            /\ Goto(t, "put_clear_sleep")
            /\ UNCHANGED <<ent, unused, cur>>
       ELSE /\ ent' = [ent EXCEPT ![e] = Cleared]
            /\ unused' = unused \cup {e}
            /\ cur' = [cur EXCEPT ![t] = NoEntry]
            /\ Goto(t, ret[t])
            /\ UNCHANGED entWait
    /\ UNCHANGED <<allocated, syncVars, rootVars, diskVars, ret, name, isDir,
                   id, snap>>

-----------------------------------------------------------------------------
(* Lookup by the inode layer: hfs_cat_get, use, hfs_cat_put               *)

StartLookup(t, n) ==
    /\ pc[t] = "idle" /\ t \notin Syncers /\ Runs(t)
    /\ name' = [name EXCEPT ![t] = n]
    /\ ret' = [ret EXCEPT ![t] = "lk_got"]
    /\ Goto(t, "get")
    /\ UNCHANGED <<cacheVars, syncVars, rootVars, diskVars, cur, isDir, id, snap>>

\* The name of which m is the header: "%m".
HdrName(m) == CHOOSE n \in Names : Hdr[n] = m

\* dbl_lookup (dir_dbl.c:132) after hfs_cat_get: an entry found is held
\* through its inode; a "%m" not found is looked up again as m, whose
\* entry is then held through its header inode (HFS_DBL_HDR, ret lk_hdr).
LookupGot(t) ==
    /\ pc[t] \in {"lk_got", "lk_hdr"} /\ Runs(t)
    /\ IF pc[t] = "lk_got" /\ cur[t] = NoEntry /\ Hdr[name[t]] # NoName
       THEN /\ name' = [name EXCEPT ![t] = Hdr[name[t]]]
            /\ ret' = [ret EXCEPT ![t] = "lk_hdr"]
            /\ Goto(t, "get")
       ELSE /\ Goto(t, IF cur[t] = NoEntry THEN "idle" ELSE "held")
            /\ UNCHANGED <<ret, name>>
    /\ UNCHANGED <<cacheVars, syncVars, rootVars, diskVars, cur, isDir, id, snap>>

\* A header inode's entry can be dirtied and released, but unlink and
\* rename of "%m" find no record "%m" (then is_hdr gives -EPERM), and
\* ".." is not looked up in it: only a data holder deletes, renames or
\* looks up the parent.
DataHolder(t) == pc[t] \in {"held", "held_dirtied"} /\ ret[t] # "lk_hdr"

\* hfs_cat_mark_dirty by the holder (the inode layer changed the entry).
HolderMarkDirty(t) ==
    /\ pc[t] = "held" /\ Runs(t) /\ HolderDirties
    /\ ent' = [ent EXCEPT ![cur[t]] = MarkDirty(@)]
    /\ Goto(t, "held_dirtied")
    /\ UNCHANGED <<allocated, unused, entWait, syncVars, rootVars, diskVars,
                   ret, cur, name, isDir, id, snap>>

\* The holder lets the entry go: hfs_cat_put.
HolderRelease(t) ==
    /\ pc[t] \in {"held", "held_dirtied"} /\ Runs(t)
    /\ ret' = [ret EXCEPT ![t] = "idle"]
    /\ Goto(t, "put")
    /\ UNCHANGED <<cacheVars, syncVars, rootVars, diskVars, cur, name, isDir,
                   id, snap>>

-----------------------------------------------------------------------------
(* create_entry (catalog.c:802) via hfs_cat_create / hfs_cat_mkdir         *)

\* Mutant: update_dir counts a directory as a file and a file as a directory.
UpdateRootSwapped(dir, delta) ==
    /\ rootDirs' = IF dir THEN rootDirs ELSE (rootDirs + delta) % 65536
    /\ rootFiles' = IF dir THEN (rootFiles + delta) % 65536 ELSE rootFiles
    /\ rootDirty' = TRUE

\* update_dir: the root's child counts (hfs_u16 in hfs_fs.h), its
\* modify_date and hfs_cat_mark_dirty(dir).
UpdateRoot(dir, delta) ==
    /\ rootDirs' = IF dir THEN (rootDirs + delta) % 65536 ELSE rootDirs
    /\ rootFiles' = IF dir THEN rootFiles ELSE (rootFiles + delta) % 65536
    /\ rootDirty' = TRUE

\* hfs_cat_create: new_cnid, a file record (HFS_CDR_FIL, FlNum the new
\* CNID), then create_entry without a thread record.  Its callers never
\* pass HFS_FIL_THD.
CatCreate(t, n) ==
    /\ isDir' = [isDir EXCEPT ![t] = FALSE]
    /\ name' = [name EXCEPT ![t] = n]
    /\ id' = [id EXCEPT ![t] = nextId]
    /\ nextId' = nextId + 1
    /\ Goto(t, "cr_sw")

\* hfs_cat_mkdir: new_cnid, a directory record (HFS_CDR_DIR, DirID the new
\* CNID), then create_entry with a thread record.
CatMkdir(t, n) ==
    /\ isDir' = [isDir EXCEPT ![t] = TRUE]
    /\ name' = [name EXCEPT ![t] = n]
    /\ id' = [id EXCEPT ![t] = nextId]
    /\ nextId' = nextId + 1
    /\ Goto(t, "cr_sw")

\* dbl_create, dbl_mkdir and dbl_mknod (dir_dbl.c:304-358): a header name
\* "%m" is refused (-EEXIST) if is_hdr finds m, tested with hfs_cat_get
\* and hfs_cat_put before hfs_create / hfs_mkdir / hfs_mknod runs.
StartCreate(t, n, dir) ==
    /\ pc[t] = "idle" /\ t \notin Syncers /\ Runs(t) /\ nextId <= MaxCnid
    /\ IF Hdr[n] = NoName
       THEN /\ IF dir THEN CatMkdir(t, n) ELSE CatCreate(t, n)
            /\ UNCHANGED ret
       ELSE /\ isDir' = [isDir EXCEPT ![t] = dir]
            /\ name' = [name EXCEPT ![t] = Hdr[n]]
            /\ ret' = [ret EXCEPT ![t] = "cr_hdr"]
            /\ Goto(t, "get")
            /\ UNCHANGED <<id, nextId>>
    /\ UNCHANGED <<cacheVars, syncVars, rootVars, cat, thd, cur, snap>>

\* is_hdr's hfs_cat_get returned: m exists, so its entry is put and the
\* create fails; otherwise "%m" is created.
CrHdr(t) ==
    /\ pc[t] = "cr_hdr" /\ Runs(t)
    /\ IF cur[t] # NoEntry
       THEN ret' = [ret EXCEPT ![t] = "idle"] /\ Goto(t, "put")
            /\ UNCHANGED <<name, isDir, id, nextId>>
       ELSE /\ IF isDir[t] THEN CatMkdir(t, HdrName(name[t]))
                           ELSE CatCreate(t, HdrName(name[t]))
            /\ UNCHANGED ret
    /\ UNCHANGED <<cacheVars, syncVars, rootVars, cat, thd, cur, snap>>

\* start_write(parent), then get_entry(mdb, key, 0).
CrStartWrite(t) ==
    /\ pc[t] = "cr_sw" /\ Runs(t)
    /\ IF DS!WriteBlocked(Root)
       THEN DS!SleepWrite(t, Root) /\ Goto(t, "cr_sw_sleep") /\ UNCHANGED ret
       ELSE DS!EnterWrite(Root) /\ ret' = [ret EXCEPT ![t] = "cr_got"]
            /\ Goto(t, "get")
    /\ UNCHANGED <<cacheVars, rootVars, diskVars, cur, name, isDir, id, snap>>

\* start_write's sleep on write_wait ends; its caller goes on: create_entry
\* to get_entry, hfs_cat_delete to start_read, hfs_cat_move to hfs_cat_get.
WakeWrite(t) ==
    /\ pc[t] \in {"cr_sw_sleep", "dl_sw_sleep", "mv_sw_sleep"} /\ Runs(t)
    /\ DS!ResumeWrite(t, Root)
    /\ ret' = IF pc[t] = "cr_sw_sleep" THEN [ret EXCEPT ![t] = "cr_got"] ELSE ret
    /\ Goto(t, CASE pc[t] = "cr_sw_sleep" -> "get"
                 [] pc[t] = "dl_sw_sleep" -> "dl_sr"
                 [] OTHER -> "mv_get")
    /\ UNCHANGED <<cacheVars, rootVars, diskVars, cur, opVars>>

\* Mutant: has_thread taken from the file flags alone, so a directory is
\* inserted without its thread record.
CrGotNoThread(t) ==
    /\ pc[t] = "cr_got" /\ Runs(t)
    /\ CASE cur[t] = NoEntry -> Goto(t, "cr_done") /\ UNCHANGED ret
         [] ent[cur[t]].cnid # 0 ->
                ret' = [ret EXCEPT ![t] = "cr_done"] /\ Goto(t, "put")
         [] rootDirs + rootFiles >= MaxValence ->
                Goto(t, "cr_bail1") /\ UNCHANGED ret
         [] OTHER -> Goto(t, "cr_ins_rec") /\ UNCHANGED ret
    /\ UNCHANGED <<cacheVars, syncVars, rootVars, diskVars, cur, name, isDir,
                   id, snap>>

\* The entry came back: NULL (-EIO), already populated (-EEXIST, bail2),
\* valence at the ceiling (-ENOSPC, bail1), else insert the thread record
\* (directories) and then the record.
CrGot(t) ==
    /\ pc[t] = "cr_got" /\ Runs(t)
    /\ CASE cur[t] = NoEntry -> Goto(t, "cr_done") /\ UNCHANGED ret
         [] ent[cur[t]].cnid # 0 ->
                ret' = [ret EXCEPT ![t] = "cr_done"] /\ Goto(t, "put")
         [] rootDirs + rootFiles >= MaxValence ->
                Goto(t, "cr_bail1") /\ UNCHANGED ret
         [] OTHER -> Goto(t, IF isDir[t] THEN "cr_ins_thd" ELSE "cr_ins_rec")
                     /\ UNCHANGED ret
    /\ UNCHANGED <<cacheVars, syncVars, rootVars, diskVars, cur, name, isDir,
                   id, snap>>

\* hfs_binsert of the thread record (key: the new CNID, empty name).
CrInsThd(t) ==
    /\ pc[t] = "cr_ins_thd" /\ Runs(t)
    /\ \/ /\ thd[id[t]] = NoRec
          /\ thd' = [thd EXCEPT ![id[t]] = name[t]]
          /\ Goto(t, "cr_ins_rec")
       \/ /\ thd[id[t]] # NoRec \/ IoFails("cr_ins_thd")
          /\ Goto(t, "cr_bail1") /\ UNCHANGED thd
    /\ UNCHANGED <<cacheVars, syncVars, rootVars, cat, nextId, ret, cur, name,
                   isDir, id, snap>>

\* hfs_binsert of the record.  On success: update_dir, __read_entry,
\* unlock_entry, hand the entry to the caller.  On failure other than -EIO
\* try to remove the thread record first.
CrInsRec(t) ==
    /\ pc[t] = "cr_ins_rec" /\ Runs(t)
    /\ LET e == cur[t] IN
       \/ /\ cat[name[t]] = NoRec
          /\ cat' = [cat EXCEPT ![name[t]] =
                        [cnid |-> id[t], type |-> IF isDir[t] THEN "dir" ELSE "fil"]]
          /\ UpdateRoot(isDir[t], 1)
          /\ ent' = [ent EXCEPT ![e].cnid = id[t],
                                ![e].type = IF isDir[t] THEN "dir" ELSE "fil",
                                ![e].state = UnlockedState(e)]
          /\ woken' = woken \cup entWait[e]
          /\ Goto(t, "cr_done")
       \/ /\ cat[name[t]] # NoRec \/ IoFails("cr_ins_rec")
          /\ \E err \in (IF cat[name[t]] # NoRec THEN {"EEXIST"} ELSE {})
                        \cup (IF IoFails("cr_ins_rec") THEN {"EIO", "ENOSPC"} ELSE {}) :
                Goto(t, IF isDir[t] /\ err # "EIO" THEN "cr_undo_thd" ELSE "cr_bail1")
          /\ UNCHANGED <<ent, cat, rootVars, woken>>
    /\ UNCHANGED <<allocated, unused, entWait, readers, writers, readWait,
                   writeWait, thd, nextId, ret, cur, name, isDir, id, snap>>

\* The best-effort hfs_bdelete of the thread record; its result is ignored.
CrUndoThd(t) ==
    /\ pc[t] = "cr_undo_thd" /\ Runs(t)
    /\ \/ thd' = [thd EXCEPT ![id[t]] = NoRec]
       \/ IoFails("cr_undo_thd") /\ UNCHANGED thd
    /\ Goto(t, "cr_bail1")
    /\ UNCHANGED <<cacheVars, syncVars, rootVars, cat, nextId, ret, cur, name,
                   isDir, id, snap>>

\* bail1: mark the placeholder deleted, unlock it, then bail2: hfs_cat_put.
CrBail1(t) ==
    /\ pc[t] = "cr_bail1" /\ Runs(t)
    /\ ent' = [ent EXCEPT ![cur[t]].state = (@ \cup {"DELETED"}) \ {"LOCK"}]
    /\ woken' = woken \cup entWait[cur[t]]
    /\ ret' = [ret EXCEPT ![t] = "cr_done"]
    /\ Goto(t, "put")
    /\ UNCHANGED <<allocated, unused, entWait, readers, writers, readWait,
                   writeWait, rootVars, diskVars, cur, name, isDir, id, snap>>

\* done: end_write(parent); the caller holds the new entry, if any.
CrDone(t) ==
    /\ pc[t] = "cr_done" /\ Runs(t)
    /\ DS!Release({}, {Root})
    /\ Goto(t, IF cur[t] = NoEntry THEN "idle" ELSE "held")
    /\ UNCHANGED <<cacheVars, rootVars, diskVars, ret, cur, name, isDir, id, snap>>

-----------------------------------------------------------------------------
(* hfs_cat_delete (catalog.c:1329): the holder of an entry deletes it     *)

\* is_dir is fixed from the type at entry; start_write(parent).
HolderDelete(t) ==
    /\ DataHolder(t) /\ Runs(t)
    /\ isDir' = [isDir EXCEPT ![t] = ent[cur[t]].type # "fil"]
    /\ IF DS!WriteBlocked(Root)
       THEN DS!SleepWrite(t, Root) /\ Goto(t, "dl_sw_sleep")
       ELSE DS!EnterWrite(Root) /\ Goto(t, "dl_sr")
    /\ UNCHANGED <<cacheVars, rootVars, diskVars, ret, cur, name, id, snap>>

\* A directory is opened for reading to keep scans of it out.  Directories
\* of this key space have no children and nothing writes into them, so
\* start_read(entry) never sleeps and -ENOTEMPTY never happens.
DlStartRead(t) ==
    /\ pc[t] = "dl_sr" /\ Runs(t)
    /\ IF ent[cur[t]].type = "dir"
       THEN DS!EnterRead(cur[t])
       ELSE UNCHANGED syncVars
    /\ Goto(t, "dl_lock")
    /\ UNCHANGED <<cacheVars, rootVars, diskVars, ret, cur, name, isDir, id, snap>>

\* lock_entry; a deleted entry is unlocked again at once (-ENOENT).
DlLock(t) ==
    /\ pc[t] = "dl_lock" /\ Runs(t)
    /\ LET e == cur[t] IN
       CASE "LOCK" \in ent[e].state ->
                /\ entWait' = [entWait EXCEPT ![e] = @ \cup {t}]
                /\ Goto(t, "dl_lock_sleep") /\ UNCHANGED <<ent, woken>>
         [] "DELETED" \in ent[e].state ->
                /\ woken' = woken \cup entWait[e]
                /\ Goto(t, "dl_end") /\ UNCHANGED <<ent, entWait>>
         [] OTHER ->
                /\ ent' = [ent EXCEPT ![e].state = @ \cup {"LOCK"}]
                /\ Goto(t, "dl_bdel") /\ UNCHANGED <<entWait, woken>>
    /\ UNCHANGED <<allocated, unused, readers, writers, readWait, writeWait,
                   rootVars, diskVars, ret, cur, name, isDir, id, snap>>

\* Where a lock loop tests again: lock_entry of hfs_cat_delete, lock_entry
\* of hfs_cat_move on dest and on the entry, its rename_lock loop, and the
\* wait_on_entry of hfs_cat_commit and the lock_entry of hfs_cat_parent.
LockRetry == [dl_lock_sleep |-> "dl_lock", mv_ld_sleep |-> "mv_lock_dest",
              mv_le_sleep |-> "mv_lock", mv_rl_sleep |-> "mv_rl", cm_sleep |-> "cm",
              pa_lock_sleep |-> "pa_lock"]

\* A sleeper of a lock loop, woken by unlock_entry (entry->wait) or by the
\* end of a rename (mdb->rename_wait), leaves the queue and tests again.
WakeLock(t) ==
    /\ pc[t] \in DOMAIN LockRetry /\ t \in woken /\ Runs(t)
    /\ woken' = woken \ {t}
    /\ IF pc[t] = "mv_rl_sleep"
       THEN renameWait' = renameWait \ {t} /\ UNCHANGED entWait
       ELSE LET e == IF pc[t] = "mv_le_sleep" THEN mv[t] ELSE cur[t]
            IN entWait' = [entWait EXCEPT ![e] = @ \ {t}] /\ UNCHANGED renameWait
    /\ Goto(t, LockRetry[pc[t]])
    /\ UNCHANGED <<ent, allocated, unused, readers, writers, readWait, writeWait,
                   rootVars, diskVars, opVars, ret, cur, mv, renameLock>>

\* Mutant: the deleted entry is not taken out of the hash (no remove_hash).
DlBdelKeepHash(t) ==
    /\ pc[t] = "dl_bdel" /\ Runs(t)
    /\ \/ /\ RecOf(ent[cur[t]].key) # NoRec
          /\ cat' = [cat EXCEPT ![ent[cur[t]].key] = NoRec]
          /\ ent' = [ent EXCEPT ![cur[t]].state = (@ \cup {"DELETED"}) \ {"LOCK"}]
          /\ IF isDir[t]
             THEN Goto(t, "dl_bdel_thd") /\ UNCHANGED rootVars
             ELSE UpdateRoot(FALSE, -1) /\ Goto(t, "dl_end")
       \/ /\ RecOf(ent[cur[t]].key) = NoRec \/ IoFails("dl_bdel")
          /\ ent' = [ent EXCEPT ![cur[t]].state = UnlockedState(cur[t])]
          /\ Goto(t, "dl_end")
          /\ UNCHANGED <<cat, rootVars>>
    /\ woken' = woken \cup entWait[cur[t]]
    /\ UNCHANGED <<allocated, unused, entWait, readers, writers, readWait,
                   writeWait, thd, nextId, ret, cur, name, isDir, id, snap>>

\* hfs_bdelete of the record returned; unlock_entry.  On success mark the
\* entry deleted, unhash it, delete the thread record (directories) and
\* update_dir(parent, is_dir, -1).
DlBdel(t) ==
    /\ pc[t] = "dl_bdel" /\ Runs(t)
    /\ LET e == cur[t]
           k == ent[e].key
       IN \/ /\ RecOf(k) # NoRec
             /\ cat' = [cat EXCEPT ![k] = NoRec]
             /\ ent' = [ent EXCEPT ![e].state = (@ \cup {"DELETED"}) \ {"LOCK"},
                                   ![e].hashed = FALSE]
             /\ IF isDir[t]
                THEN Goto(t, "dl_bdel_thd") /\ UNCHANGED rootVars
                ELSE UpdateRoot(FALSE, -1) /\ Goto(t, "dl_end")
          \/ /\ RecOf(k) = NoRec \/ IoFails("dl_bdel")
             /\ ent' = [ent EXCEPT ![e].state = UnlockedState(e)]
             /\ Goto(t, "dl_end")
             /\ UNCHANGED <<cat, rootVars>>
    /\ woken' = woken \cup entWait[cur[t]]
    /\ UNCHANGED <<allocated, unused, entWait, readers, writers, readWait,
                   writeWait, thd, nextId, ret, cur, name, isDir, id, snap>>

\* The hfs_bdelete of the thread record (result ignored), then update_dir.
DlBdelThd(t) ==
    /\ pc[t] = "dl_bdel_thd" /\ Runs(t)
    /\ LET c == ent[cur[t]].cnid
           found == c \in Cnids /\ thd[c] # NoRec
       IN \/ found /\ thd' = [thd EXCEPT ![c] = NoRec]
          \/ (~found \/ IoFails("dl_bdel_thd")) /\ UNCHANGED thd
    /\ UpdateRoot(TRUE, -1)
    /\ Goto(t, "dl_end")
    /\ UNCHANGED <<cacheVars, syncVars, cat, nextId, ret, cur, name, isDir, id, snap>>

\* Mutant: end_read(entry) whatever the entry's type.
DlEndAnyType(t) ==
    /\ pc[t] = "dl_end" /\ Runs(t)
    /\ DS!Release({cur[t]}, {Root})
    /\ Goto(t, "held")
    /\ UNCHANGED <<cacheVars, rootVars, diskVars, ret, cur, name, isDir, id, snap>>

\* end_read(entry) for a directory, end_write(parent); back to the holder.
DlEnd(t) ==
    /\ pc[t] = "dl_end" /\ Runs(t)
    /\ DS!Release(IF ent[cur[t]].type = "dir" THEN {cur[t]} ELSE {}, {Root})
    /\ Goto(t, "held")
    /\ UNCHANGED <<cacheVars, rootVars, diskVars, ret, cur, name, isDir, id, snap>>

-----------------------------------------------------------------------------
(* dbl_lookup of ".." (dir_dbl.c:156) in a directory: hfs_cat_parent      *)
(* (catalog.c:1240).                                                       *)

\* The holder of a directory looks up "..".
HolderParent(t) ==
    /\ DotDot /\ DataHolder(t) /\ Runs(t) /\ ent[cur[t]].type = "dir"
    /\ ret' = [ret EXCEPT ![t] = pc[t]]
    /\ Goto(t, "pa_lock")
    /\ UNCHANGED <<cacheVars, syncVars, rootVars, diskVars, cur, opVars>>

\* lock_entry; a deleted entry is unlocked again and NULL returned.
PaLock(t) ==
    /\ pc[t] = "pa_lock" /\ Runs(t)
    /\ LET e == cur[t] IN
       CASE "LOCK" \in ent[e].state ->
                /\ entWait' = [entWait EXCEPT ![e] = @ \cup {t}]
                /\ Goto(t, "pa_lock_sleep") /\ UNCHANGED <<ent, woken>>
         [] "DELETED" \in ent[e].state ->
                /\ woken' = woken \cup entWait[e]
                /\ Goto(t, ret[t]) /\ UNCHANGED <<ent, entWait>>
         [] OTHER ->
                /\ ent' = [ent EXCEPT ![e].state = @ \cup {"LOCK"}]
                /\ Goto(t, "pa_find") /\ UNCHANGED <<entWait, woken>>
    /\ UNCHANGED <<allocated, unused, dirVars, rootVars, diskVars, ret, cur,
                   opVars>>

\* hfs_bfind of the parent's thread record returned; on success the parent,
\* the root, is taken with hfs_cat_get: it is always cached and never
\* locked and its count is not modelled, so success and failure leave the
\* same state.  Then unlock_entry; the root's inode is the VFS's.
PaFind(t) ==
    /\ pc[t] = "pa_find" /\ Runs(t)
    /\ ent' = [ent EXCEPT ![cur[t]].state = UnlockedState(cur[t])]
    /\ woken' = woken \cup entWait[cur[t]]
    /\ Goto(t, ret[t])
    /\ UNCHANGED <<allocated, unused, entWait, dirVars, rootVars, diskVars, ret,
                   cur, opVars>>

-----------------------------------------------------------------------------
(* hfs_cat_move (catalog.c:1400): the holder of an entry renames it under  *)
(* the root (old_dir = new_dir), and hfs_rename, its caller in dir.c,      *)
(* puts the victim it hands back.  While it runs, mv[t] is the entry moved *)
(* and cur[t] the destination (dest).                                      *)

\* A placeholder is unlocked (marked with fl), then hfs_cat_put'd; the
\* thread goes on at r.
DropDest(t, fl, r) ==
    /\ ent' = [ent EXCEPT ![cur[t]].state = (@ \cup fl) \ {"LOCK"}]
    /\ woken' = woken \cup entWait[cur[t]]
    /\ ret' = [ret EXCEPT ![t] = r]
    /\ Goto(t, "put")

\* dbl_rename (dir_dbl.c:412): a new name "%m" is refused (-EPERM) if
\* is_hdr finds m; otherwise hfs_rename calls hfs_cat_move.  is_dir and
\* has_thread come from the type (an entry of another type is -EINVAL,
\* nothing done); files never carry HFS_FIL_THD (see StartCreate).
HolderMove(t, n) ==
    /\ Renames /\ DataHolder(t) /\ Runs(t)
    /\ ent[cur[t]].type \in Kinds
    /\ isDir' = [isDir EXCEPT ![t] = ent[cur[t]].type = "dir"]
    /\ mv' = [mv EXCEPT ![t] = cur[t]]
    /\ cur' = [cur EXCEPT ![t] = NoEntry]
    /\ IF Hdr[n] = NoName
       THEN name' = [name EXCEPT ![t] = n] /\ Goto(t, "mv_rl") /\ UNCHANGED ret
       ELSE /\ name' = [name EXCEPT ![t] = Hdr[n]]
            /\ ret' = [ret EXCEPT ![t] = "mv_hdr"]
            /\ Goto(t, "get")
    /\ UNCHANGED <<cacheVars, syncVars, rootVars, diskVars, id, snap,
                   renameLock, renameWait>>

\* is_hdr's hfs_cat_get returned: m exists, so its entry is put and the
\* rename fails with nothing changed; otherwise hfs_cat_move renames to "%m".
MvHdr(t) ==
    /\ pc[t] = "mv_hdr" /\ Runs(t)
    /\ IF cur[t] # NoEntry
       THEN ret' = [ret EXCEPT ![t] = "mv_end"] /\ Goto(t, "put") /\ UNCHANGED name
       ELSE name' = [name EXCEPT ![t] = HdrName(name[t])] /\ Goto(t, "mv_rl")
            /\ UNCHANGED ret
    /\ UNCHANGED <<cacheVars, syncVars, rootVars, diskVars, isDir, id, snap,
                   cur, moveVars>>

\* while (mdb->rename_lock) hfs_sleep_on(&mdb->rename_wait); take it, then
\* start_write(new_dir).  new_dir is the root, so the walk that keeps a
\* directory from moving into itself has nothing to do.
MvRenameLock(t) ==
    /\ pc[t] = "mv_rl" /\ Runs(t)
    /\ IF renameLock
       THEN /\ renameWait' = renameWait \cup {t}
            /\ Goto(t, "mv_rl_sleep") /\ UNCHANGED <<syncVars, renameLock>>
       ELSE /\ renameLock' = TRUE /\ UNCHANGED renameWait
            /\ IF DS!WriteBlocked(Root)
               THEN DS!SleepWrite(t, Root) /\ Goto(t, "mv_sw_sleep")
               ELSE DS!EnterWrite(Root) /\ Goto(t, "mv_get")
    /\ UNCHANGED <<cacheVars, rootVars, diskVars, opVars, ret, cur, mv>>

\* restart: dest = hfs_cat_get(mdb, new_key).
MvGet(t) ==
    /\ pc[t] = "mv_get" /\ Runs(t)
    /\ ret' = [ret EXCEPT ![t] = "mv_got"]
    /\ Goto(t, "get")
    /\ UNCHANGED <<cacheVars, syncVars, rootVars, diskVars, opVars, moveVars,
                   cur>>

\* Mutant: a rename onto the entry itself drops dest without the
\* --entry->count that gives back hfs_cat_get's reference.
MvGotNoDec(t) ==
    /\ pc[t] = "mv_got" /\ Runs(t)
    /\ CASE cur[t] = NoEntry ->
              ret' = [ret EXCEPT ![t] = "mv_new"] /\ Goto(t, "get")
              /\ UNCHANGED <<ent, cur>>
         [] cur[t] = mv[t] ->
              /\ cur' = [cur EXCEPT ![t] = NoEntry]
              /\ Goto(t, "mv_lock") /\ UNCHANGED <<ret, ent>>
         [] OTHER -> Goto(t, "mv_lock_dest") /\ UNCHANGED <<ent, cur, ret>>
    /\ UNCHANGED <<syncVars, rootVars, diskVars, poolVars, opVars, moveVars>>

\* No dest: get_entry(mdb, new_key, 0) for a locked placeholder.  dest is
\* the entry itself: --entry->count, dest = NULL.  Else have_distinct.
MvGot(t) ==
    /\ pc[t] = "mv_got" /\ Runs(t)
    /\ CASE cur[t] = NoEntry ->
              ret' = [ret EXCEPT ![t] = "mv_new"] /\ Goto(t, "get")
              /\ UNCHANGED <<ent, cur>>
         [] cur[t] = mv[t] ->
              /\ ent' = [ent EXCEPT ![mv[t]].count = @ - 1]
              /\ cur' = [cur EXCEPT ![t] = NoEntry]
              /\ Goto(t, "mv_lock") /\ UNCHANGED ret
         [] OTHER -> Goto(t, "mv_lock_dest") /\ UNCHANGED <<ent, cur, ret>>
    /\ UNCHANGED <<syncVars, rootVars, diskVars, poolVars, opVars, moveVars>>

\* get_entry returned: NULL (-EIO); an entry populated meanwhile
\* (have_distinct); the valence ceiling (-ENOSPC, bail3); else
\* hfs_binsert of a record built from the entry (__write_entry).
MvNew(t) ==
    /\ pc[t] = "mv_new" /\ Runs(t)
    /\ CASE cur[t] = NoEntry -> Goto(t, "mv_done") /\ UNCHANGED <<ent, woken, ret>>
         [] ent[cur[t]].cnid # 0 ->
              Goto(t, "mv_lock_dest") /\ UNCHANGED <<ent, woken, ret>>
         [] rootDirs + rootFiles >= MaxValence -> DropDest(t, {"DELETED"}, "mv_done")
         [] OTHER -> Goto(t, "mv_ins") /\ UNCHANGED <<ent, woken, ret>>
    /\ UNCHANGED <<rootVars, diskVars, poolVars, dirVars, opVars, moveVars, cur>>

\* hfs_binsert returned: update_dir(new_dir, is_dir, 1); -EEXIST drops the
\* placeholder and restarts; another error is bail3.
MvIns(t) ==
    /\ pc[t] = "mv_ins" /\ Runs(t)
    /\ LET e == mv[t] IN
       \/ /\ cat[name[t]] = NoRec
          /\ cat' = [cat EXCEPT ![name[t]] = [cnid |-> ent[e].cnid, type |-> ent[e].type]]
          /\ UpdateRoot(isDir[t], 1)
          /\ Goto(t, "mv_lock") /\ UNCHANGED <<ent, woken, ret>>
       \/ /\ cat[name[t]] # NoRec
          /\ DropDest(t, {"DELETED"}, "mv_get") /\ UNCHANGED <<rootVars, cat>>
       \/ /\ IoFails("mv_ins")
          /\ DropDest(t, {"DELETED"}, "mv_done") /\ UNCHANGED <<rootVars, cat>>
    /\ UNCHANGED <<poolVars, dirVars, opVars, moveVars, thd, nextId, cur>>

\* have_distinct: lock_entry(dest); a deleted dest is unlocked and put and
\* the lookup restarts; one of the other type is -ENOTDIR/-EISDIR (bail2).
\* A directory dest is empty: no directory of this key space has children.
MvLockDest(t) ==
    /\ pc[t] = "mv_lock_dest" /\ Runs(t)
    /\ LET d == cur[t] IN
       CASE "LOCK" \in ent[d].state ->
              /\ entWait' = [entWait EXCEPT ![d] = @ \cup {t}]
              /\ Goto(t, "mv_ld_sleep") /\ UNCHANGED <<ent, woken, ret>>
         [] "DELETED" \in ent[d].state -> DropDest(t, {}, "mv_get") /\ UNCHANGED entWait
         [] OTHER ->
              /\ ent' = [ent EXCEPT ![d].state = @ \cup {"LOCK"}]
              /\ Goto(t, IF ent[d].type # ent[mv[t]].type THEN "mv_bail2" ELSE "mv_lock")
              /\ UNCHANGED <<entWait, woken, ret>>
    /\ UNCHANGED <<rootVars, diskVars, dirVars, opVars, moveVars, allocated,
                   unused, cur>>

\* What follows the removal of the old record: the thread record of a
\* directory is updated, then the victim's thread record goes.
AfterBdel(t) == IF isDir[t] THEN "mv_thd" ELSE "mv_rekey"
AfterThd(t) ==
    IF cur[t] # NoEntry /\ ent[cur[t]].cnid # 0 /\ isDir[t] THEN "mv_dthd" ELSE "mv_rekey"

\* lock_entry(entry); deleted meanwhile: -ENOENT (bail1).  With a dest the
\* old record is removed next; without one nothing was inserted.
MvLock(t) ==
    /\ pc[t] = "mv_lock" /\ Runs(t)
    /\ LET e == mv[t] IN
       IF "LOCK" \in ent[e].state
       THEN /\ entWait' = [entWait EXCEPT ![e] = @ \cup {t}]
            /\ Goto(t, "mv_le_sleep") /\ UNCHANGED ent
       ELSE /\ ent' = [ent EXCEPT ![e].state = @ \cup {"LOCK"}]
            /\ Goto(t, CASE "DELETED" \in ent[e].state -> "mv_bail1"
                         [] cur[t] # NoEntry -> "mv_bdel"
                         [] OTHER -> AfterBdel(t))
            /\ UNCHANGED entWait
    /\ UNCHANGED <<syncVars, rootVars, diskVars, opVars, moveVars, allocated,
                   unused, ret, cur>>

\* hfs_bdelete of the old key returned: update_dir(old_dir, is_dir, -1);
\* on an error nothing has changed (bail1).
MvBdel(t) ==
    /\ pc[t] = "mv_bdel" /\ Runs(t)
    /\ LET k == ent[mv[t]].key IN
       \/ /\ RecOf(k) # NoRec
          /\ cat' = [cat EXCEPT ![k] = NoRec]
          /\ UpdateRoot(isDir[t], -1)
          /\ Goto(t, AfterBdel(t))
       \/ /\ RecOf(k) = NoRec \/ IoFails("mv_bdel")
          /\ Goto(t, "mv_bail1") /\ UNCHANGED <<rootVars, cat>>
    /\ UNCHANGED <<cacheVars, syncVars, opVars, moveVars, thd, nextId, ret, cur>>

\* hfs_bfind of the directory's thread record (HFS_BFIND_WRITE) returned:
\* its name becomes the new one.  Not found (-EIO for a directory) or an
\* error: without dest the entry is unlocked and nothing changed; with one
\* the entry is marked deleted and unhashed (bail1).
MvThd(t) ==
    /\ pc[t] = "mv_thd" /\ Runs(t)
    /\ LET e == mv[t]
           c == ent[e].cnid
       IN \/ /\ thd[c] # NoRec
             /\ thd' = [thd EXCEPT ![c] = name[t]]
             /\ Goto(t, AfterThd(t)) /\ UNCHANGED <<ent, woken>>
          \/ /\ thd[c] = NoRec \/ IoFails("mv_thd")
             /\ UNCHANGED thd
             /\ IF cur[t] = NoEntry
                THEN /\ ent' = [ent EXCEPT ![e].state = UnlockedState(e)]
                     /\ woken' = woken \cup entWait[e]
                     /\ Goto(t, "mv_done")
                ELSE /\ ent' = [ent EXCEPT ![e].state = @ \cup {"DELETED"},
                                           ![e].hashed = FALSE]
                     /\ Goto(t, "mv_bail1") /\ UNCHANGED woken
    /\ UNCHANGED <<rootVars, poolVars, dirVars, opVars, moveVars, cat, nextId,
                   ret, cur>>

\* The try to remove the victim's thread record; its result is ignored.
MvDelDthd(t) ==
    /\ pc[t] = "mv_dthd" /\ Runs(t)
    /\ \/ thd' = [thd EXCEPT ![ent[cur[t]].cnid] = NoRec]
       \/ IoFails("mv_dthd") /\ UNCHANGED thd
    /\ Goto(t, "mv_rekey")
    /\ UNCHANGED <<cacheVars, syncVars, rootVars, opVars, moveVars, cat, nextId,
                   ret, cur>>

\* new_dir marked dirty; the entry leaves the hash and goes back under the
\* new key, HFS_KEYDIRTY, marked dirty and unlocked.  dest is marked
\* deleted and unlocked (not unhashed): a placeholder is put here, a
\* victim with a CNID is handed to the caller.
MvRekey(t) ==
    /\ pc[t] = "mv_rekey" /\ Runs(t)
    /\ LET e == mv[t]
           d == cur[t]
       IN /\ ent' = [x \in Entries |->
                       IF x = e
                       THEN LET r == MarkDirty([ent[e] EXCEPT !.key = name[t],
                                     !.hashed = TRUE, !.state = @ \cup {"KEYDIRTY"}])
                            IN [r EXCEPT !.state = @ \ {"LOCK"}]
                       ELSE IF x = d
                       THEN [ent[d] EXCEPT !.state = (@ \cup {"DELETED"}) \ {"LOCK"}]
                       ELSE ent[x]]
          /\ woken' = woken \cup entWait[e] \cup (IF d # NoEntry THEN entWait[d] ELSE {})
          /\ IF d # NoEntry /\ ent[d].cnid = 0
             THEN ret' = [ret EXCEPT ![t] = "mv_done"] /\ Goto(t, "put")
             ELSE UNCHANGED ret /\ Goto(t, "mv_done")
    /\ rootDirty' = TRUE
    /\ UNCHANGED <<diskVars, poolVars, dirVars, opVars, moveVars, rootFiles,
                   rootDirs, cur>>

\* bail1: unlock_entry(entry), then bail2.
MvBail1(t) ==
    /\ pc[t] = "mv_bail1" /\ Runs(t)
    /\ ent' = [ent EXCEPT ![mv[t]].state = UnlockedState(mv[t])]
    /\ woken' = woken \cup entWait[mv[t]]
    /\ Goto(t, "mv_bail2")
    /\ UNCHANGED <<rootVars, diskVars, poolVars, dirVars, opVars, moveVars, ret,
                   cur>>

\* bail2: a placeholder dest has its new record removed first; any other
\* dest is unlocked and put.
MvBail2(t) ==
    /\ pc[t] = "mv_bail2" /\ Runs(t)
    /\ CASE cur[t] = NoEntry -> Goto(t, "mv_done") /\ UNCHANGED <<ent, woken, ret>>
         [] ent[cur[t]].cnid = 0 -> Goto(t, "mv_undo") /\ UNCHANGED <<ent, woken, ret>>
         [] OTHER -> DropDest(t, {}, "mv_done")
    /\ UNCHANGED <<rootVars, diskVars, poolVars, dirVars, opVars, moveVars, cur>>

\* The try to hfs_bdelete the new record (result ignored), then
\* update_dir(new_dir, is_dir, -1) and bail3.
MvUndo(t) ==
    /\ pc[t] = "mv_undo" /\ Runs(t)
    /\ \/ cat' = [cat EXCEPT ![name[t]] = NoRec]
       \/ IoFails("mv_undo") /\ UNCHANGED cat
    /\ UpdateRoot(isDir[t], -1)
    /\ DropDest(t, {"DELETED"}, "mv_done")
    /\ UNCHANGED <<poolVars, dirVars, opVars, moveVars, thd, nextId, cur>>

\* done: end_write(new_dir), rename_lock = 0, wake rename_wait.  hfs_rename
\* then puts the victim, if it got one.
MvDone(t) ==
    /\ pc[t] = "mv_done" /\ Runs(t)
    /\ writers' = DS!WritersAfter({Root})
    /\ woken' = woken \cup DS!WokenBy({}, {Root}) \cup renameWait
    /\ renameLock' = FALSE
    /\ IF cur[t] # NoEntry
       THEN ret' = [ret EXCEPT ![t] = "mv_end"] /\ Goto(t, "put")
       ELSE UNCHANGED ret /\ Goto(t, "mv_end")
    /\ UNCHANGED <<cacheVars, rootVars, diskVars, opVars, readers, readWait,
                   writeWait, cur, mv, renameWait>>

\* Back in the holder, who still holds the entry it renamed.
MvEnd(t) ==
    /\ pc[t] = "mv_end" /\ Runs(t)
    /\ cur' = [cur EXCEPT ![t] = mv[t]]
    /\ mv' = [mv EXCEPT ![t] = NoEntry]
    /\ Goto(t, "held")
    /\ UNCHANGED <<cacheVars, syncVars, rootVars, diskVars, opVars, ret,
                   renameLock, renameWait>>

\* The steps of a rename in progress.
MoveStep(t) ==
    \/ MvHdr(t) \/ MvRenameLock(t) \/ MvGet(t) \/ MvGot(t) \/ MvNew(t)
    \/ MvIns(t) \/ MvLockDest(t) \/ MvLock(t) \/ MvBdel(t) \/ MvThd(t)
    \/ MvDelDthd(t) \/ MvRekey(t) \/ MvBail1(t) \/ MvBail2(t) \/ MvUndo(t)
    \/ MvDone(t) \/ MvEnd(t)

-----------------------------------------------------------------------------
(* hfs_cat_commit (catalog.c:1037), called by hfs_mdb_commit when the     *)
(* super block is written (sync, kupdate): write back mdb->entry_dirty.   *)

\* Entries on mdb->entry_dirty.  The loop takes head->prev, the entry that
\* has been on the list longest; the model lets it take any of them.
DirtyList == {e \in allocated : ent[e].onDirty}

StartCommit(t) ==
    /\ pc[t] = "idle" /\ t \in Syncers /\ Runs(t)
    /\ Goto(t, "cm")
    /\ UNCHANGED <<cacheVars, syncVars, rootVars, diskVars, ret, cur, opVars>>

\* One turn of the loop: a locked entry is waited for (wait_on_entry);
\* otherwise it leaves the list, HFS_DIRTY and HFS_LOCK are flipped
\* (state ^= HFS_DIRTY | HFS_LOCK) and write_entry runs.  write_entry of
\* a deleted entry does nothing, so that one is unlocked at once.
CmLoop(t) ==
    /\ pc[t] = "cm" /\ Runs(t)
    /\ IF DirtyList = {}
       THEN cur' = [cur EXCEPT ![t] = NoEntry] /\ Goto(t, "idle")
            /\ UNCHANGED <<ent, entWait, woken>>
       ELSE \E e \in DirtyList :
            /\ cur' = [cur EXCEPT ![t] = e]
            /\ IF "LOCK" \in ent[e].state
               THEN /\ entWait' = [entWait EXCEPT ![e] = @ \cup {t}]
                    /\ Goto(t, "cm_sleep") /\ UNCHANGED <<ent, woken>>
               ELSE LET st == (ent[e].state \ {"DIRTY", "LOCK"})
                              \cup ({"DIRTY", "LOCK"} \ ent[e].state)
                    IN IF "DELETED" \in st
                       THEN /\ ent' = [ent EXCEPT ![e].onDirty = FALSE,
                                                  ![e].state = st \ {"LOCK"}]
                            /\ woken' = woken \cup entWait[e]
                            /\ Goto(t, "cm") /\ UNCHANGED entWait
                       ELSE /\ ent' = [ent EXCEPT ![e].onDirty = FALSE,
                                                  ![e].state = st]
                            /\ Goto(t, "cm_write") /\ UNCHANGED <<entWait, woken>>
    /\ UNCHANGED <<allocated, unused, readers, writers, readWait, writeWait,
                   rootVars, diskVars, ret, opVars>>

\* write_entry returned: HFS_LOCK is cleared and entry->wait woken.
CmWrite(t) ==
    /\ pc[t] = "cm_write" /\ Runs(t)
    /\ WriteEntry(cur[t], {"LOCK"})
    /\ woken' = woken \cup entWait[cur[t]]
    /\ Goto(t, "cm")
    /\ UNCHANGED <<allocated, unused, entWait, readers, writers, readWait,
                   writeWait, rootVars, thd, nextId, ret, cur, opVars>>

-----------------------------------------------------------------------------
(* A scan of the root: hfs_cat_open, hfs_cat_next .. -ENOENT / close      *)

\* The children the catalog B-tree holds under the root.
Children == {n \in Names : cat[n] # NoRec}

\* hfs_cat_open: start_read(dir), then hfs_bfind of its thread record.
StartScan(t) ==
    /\ pc[t] = "idle" /\ t \notin Syncers /\ Runs(t)
    /\ IF DS!ReadBlocked(Root)
       THEN DS!SleepRead(t, Root) /\ Goto(t, "sc_sr_sleep")
       ELSE DS!EnterRead(Root) /\ Goto(t, "sc_open")
    /\ UNCHANGED <<cacheVars, rootVars, diskVars, ret, cur, name, isDir, id, snap>>

WakeScRead(t) ==
    /\ pc[t] = "sc_sr_sleep" /\ Runs(t)
    /\ DS!ResumeRead(t, Root)
    /\ Goto(t, "sc_open")
    /\ UNCHANGED <<cacheVars, rootVars, diskVars, ret, cur, name, isDir, id, snap>>

\* hfs_bfind returned: the scan starts from the children there are now;
\* on an error hfs_cat_open calls end_read itself.
ScOpen(t) ==
    /\ pc[t] = "sc_open" /\ Runs(t)
    /\ \/ /\ snap' = [snap EXCEPT ![t] = Children]
          /\ Goto(t, "sc_next")
          /\ UNCHANGED syncVars
       \/ /\ IoFails("sc_open")
          /\ DS!Release({Root}, {})
          /\ Goto(t, "idle")
          /\ UNCHANGED snap
    /\ UNCHANGED <<cacheVars, rootVars, diskVars, ret, cur, name, isDir, id>>

\* hfs_cat_next (hfs_bsucc) until -ENOENT or an error, or hfs_cat_close:
\* each ends with end_read(dir).
ScNext(t) ==
    /\ pc[t] = "sc_next" /\ Runs(t)
    /\ DS!Release({Root}, {})
    /\ snap' = [snap EXCEPT ![t] = {}]
    /\ Goto(t, "idle")
    /\ UNCHANGED <<cacheVars, rootVars, diskVars, ret, cur, name, isDir, id>>

-----------------------------------------------------------------------------
(* The specification *)

Init ==
    /\ ent = [e \in Entries |-> Cleared]
    /\ allocated = {}
    /\ unused = {}
    /\ entWait = [e \in Entries |-> {}]
    /\ DS!SyncInit
    /\ rootFiles = 0 /\ rootDirs = 0 /\ rootDirty = FALSE
    /\ cat = [n \in Names |-> NoRec]
    /\ thd = [c \in Cnids |-> NoRec]
    /\ nextId = FirstCnid
    /\ bkl = NoThread
    /\ pc = [t \in Threads |-> "idle"]
    /\ ret = [t \in Threads |-> "idle"]
    /\ cur = [t \in Threads |-> NoEntry]
    /\ name = [t \in Threads |-> NoName]
    /\ isDir = [t \in Threads |-> FALSE]
    /\ id = [t \in Threads |-> 0]
    /\ snap = [t \in Threads |-> {}]
    /\ mv = [t \in Threads |-> NoEntry]
    /\ renameLock = FALSE
    /\ renameWait = {}

\* The steps of lookups, creates, deletes and scans in progress.
CatStep(t) ==
    \/ GetEntry(t) \/ GetGrow(t) \/ WakeGet(t) \/ GetRead(t)
    \/ CatPut(t) \/ WakePut(t) \/ PutRepeat(t) \/ PutWrite(t) \/ PutClear(t)
    \/ LookupGot(t) \/ HolderMarkDirty(t) \/ HolderRelease(t)
    \/ CrHdr(t) \/ CrStartWrite(t) \/ WakeWrite(t) \/ CrGot(t) \/ CrInsThd(t)
    \/ CrInsRec(t) \/ CrUndoThd(t) \/ CrBail1(t) \/ CrDone(t)
    \/ HolderDelete(t) \/ DlStartRead(t)
    \/ DlLock(t) \/ DlBdel(t) \/ DlBdelThd(t) \/ DlEnd(t)
    \/ WakeScRead(t) \/ ScOpen(t) \/ ScNext(t)
    \/ CmLoop(t) \/ CmWrite(t) \/ HolderParent(t) \/ PaLock(t) \/ PaFind(t)

\* The steps of thread t other than those that start an operation.
Step(t) == (CatStep(t) /\ UNCHANGED moveVars) \/ WakeLock(t) \/ MoveStep(t)

Next ==
    \/ \E t \in Threads, n \in Names :
          \/ /\ StartLookup(t, n) \/ StartCreate(t, n, FALSE) \/ StartCreate(t, n, TRUE)
             /\ UNCHANGED moveVars
          \/ HolderMove(t, n)
    \/ \E t \in Threads :
          \/ (StartScan(t) \/ StartCommit(t)) /\ UNCHANGED moveVars
          \/ Step(t)

\* The steps of an operation in progress; the holder's own choices (mark
\* dirty, delete, release) are left to the holder and are not forced.
OpStep(t) ==
    /\ Step(t)
    /\ ~(pc[t] \in {"held", "held_dirtied"})

\* A thread that can run infinitely often is eventually scheduled: the
\* scheduler runs every runnable task, the big kernel lock is free again
\* whenever its holder yields, and B-tree I/O completes.  Strong fairness,
\* because another thread taking the lock disables the step for a while.
\* OpStep(t) is enabled exactly when t is inside an operation, may run,
\* and, if it sleeps, has been woken (every label has a step then), so
\* SF_vars(OpStep(t)) is stated with that predicate in place of ENABLED.
CanOp(t) ==
    /\ pc[t] \notin {"idle", "held", "held_dirtied"} /\ Runs(t)
    /\ pc[t] \in SleepPc => t \in woken

Fairness == \A t \in Threads : <>[]~CanOp(t) \/ []<><<OpStep(t)>>_vars

Spec == Init /\ [][Next]_vars /\ Fairness

-----------------------------------------------------------------------------
(* Properties *)

Labels == {"idle", "get", "get_grow", "get_sleep", "get_read", "put",
           "put_sleep", "put_repeat", "put_write", "put_clear",
           "put_clear_sleep", "lk_got", "held", "held_dirtied", "cr_sw",
           "cr_sw_sleep", "cr_got", "cr_ins_thd", "cr_ins_rec", "cr_undo_thd",
           "cr_bail1", "cr_done", "dl_sw_sleep", "dl_sr",
           "dl_lock", "dl_lock_sleep", "dl_bdel", "dl_bdel_thd", "dl_end",
           "sc_sr_sleep", "sc_open", "sc_next"} \cup IoPc \cup SleepPc
          \cup {"mv_rl", "mv_get", "mv_got", "mv_new", "mv_lock_dest", "mv_lock",
             "mv_rekey", "mv_bail1", "mv_bail2", "mv_done", "mv_end", "cm",
             "lk_hdr", "cr_hdr", "mv_hdr", "pa_lock"}
Recs == [cnid : Cnids, type : Kinds]

TypeOK ==
    /\ ent \in [Entries -> [key : Names \cup {NoName}, count : 0..2 * Cardinality(Threads),
                            state : SUBSET Flags, cnid : Cnids \cup {0},
                            type : Kinds \cup {"none"}, hashed : BOOLEAN,
                            onDirty : BOOLEAN]]
    /\ allocated \subseteq Entries /\ unused \subseteq allocated
    /\ entWait \in [Entries -> SUBSET Threads]
    /\ readers \in [DirIds -> 0..Cardinality(Threads)]
    /\ writers \in [DirIds -> 0..Cardinality(Threads)]
    /\ readWait \in [DirIds -> SUBSET Threads]
    /\ writeWait \in [DirIds -> SUBSET Threads]
    /\ woken \subseteq Threads
    /\ rootFiles \in 0..65535 /\ rootDirs \in 0..65535 /\ rootDirty \in BOOLEAN
    /\ cat \in [Names -> Recs \cup {NoRec}]
    /\ thd \in [Cnids -> Names \cup {NoRec}]
    /\ nextId \in FirstCnid..MaxCnid + 1
    /\ bkl \in Threads \cup {NoThread}
    /\ pc \in [Threads -> Labels] /\ ret \in [Threads -> Labels]
    /\ cur \in [Threads -> Entries \cup {NoEntry}]
    /\ name \in [Threads -> Names \cup {NoName}]
    /\ isDir \in [Threads -> BOOLEAN]
    /\ id \in [Threads -> Cnids \cup {0}]
    /\ snap \in [Threads -> SUBSET Names]
    /\ mv \in [Threads -> Entries \cup {NoEntry}]
    /\ renameLock \in BOOLEAN /\ renameWait \subseteq Threads

\* Catalog records of each kind under the root.
OnDisk(k) == Cardinality({n \in Children : cat[n].type = k})

\* Between operations on the root (no writer inside create_entry or
\* hfs_cat_delete, nobody running), the counts update_dir keeps in the root
\* entry equal the children the B-tree holds, whatever failed on the way.
QuiescentValence ==
    bkl = NoThread /\ writers[Root] = 0 =>
        /\ rootFiles = OnDisk("fil")
        /\ rootDirs = OnDisk("dir")

\* At most one hashed entry per key: get_entry and the re-search after
\* grow_entries never add a second entry for a key already cached.
UniqueHashed ==
    \A e, f \in allocated :
        e # f /\ ent[e].hashed /\ ent[f].hashed => ent[e].key # ent[f].key

\* Threads past the last hfs_cat_put of an entry, and hfs_cat_commit, which
\* works on the entries of the dirty list, hold no reference to them.
NoRefPc == {"put_repeat", "put_write", "put_clear", "put_clear_sleep",
            "cm", "cm_sleep", "cm_write"}

\* entry->count is exactly the number of references threads hold: every
\* find_entry/add_new_entry is matched by one decrement in hfs_cat_put (or
\* the --entry->count of a rename onto itself), and an entry is cleared
\* only when nobody holds it.  A renaming thread holds the entry it moves
\* besides its dest.
RefCountExact ==
    \A e \in Entries :
        ent[e].count = Cardinality({t \in Threads : cur[t] = e /\ pc[t] \notin NoRefPc})
                       + Cardinality({t \in Threads : mv[t] = e})

\* Between steps, a hashed, populated, unlocked entry describes the record
\* on disk: it is not marked deleted and has the record's CNID (create_entry
\* bail1 and read_fail mark entries HFS_DELETED; hfs_cat_delete unhashes
\* them; hfs_cat_move rekeys the entry under its lock, and the record it
\* took over gets the entry's CNID at write_entry, HFS_KEYDIRTY till then).  A locked entry is
\* its locker's to change: find_entry and hfs_cat_put wait for the lock.
CacheAgreesWithDisk ==
    bkl = NoThread =>
    \A e \in allocated :
        ent[e].hashed /\ ent[e].cnid # 0 /\ "LOCK" \notin ent[e].state =>
            /\ "DELETED" \notin ent[e].state
            /\ RecOf(ent[e].key) # NoRec
            /\ RecOf(ent[e].key).cnid = ent[e].cnid \/ "KEYDIRTY" \in ent[e].state

\* Every directory record has its thread record: create_entry inserts the
\* thread first and hfs_cat_delete removes it last.
DirHasThread ==
    \A n \in Children : cat[n].type = "dir" => thd[cat[n].cnid] = n

\* hfs_cat_get returns NULL or an entry read from disk (spec: a lookup never
\* hands out an unpopulated entry).
GetReturnsPopulated ==
    \A t \in Threads :
        pc[t] = "lk_got" /\ cur[t] # NoEntry => ent[cur[t]].cnid # 0

\* start_read keeps writers out: the children of the root do not change
\* while a scan is between hfs_cat_open and its end_read.
StableScan ==
    \A t \in Threads : pc[t] = "sc_next" => snap[t] = Children

\* Thread t sleeps on a wait queue and nobody has woken it yet.
Asleep(t) == pc[t] \in SleepPc /\ t \notin woken

\* No wake-up is lost: a thread that sleeps on entry->wait, read_wait or
\* write_wait is eventually made runnable by an unlock_entry, the last
\* end_read or the last end_write, however the threads interleave.
NoLostWakeup ==
    \A t \in Threads : Asleep(t) ~> ~Asleep(t)

\* mdb->entry_dirty holds exactly the dirty entries still to be written:
\* an entry on it is HFS_DIRTY (so hfs_cat_commit's ^= clears HFS_DIRTY
\* rather than setting it), and a hashed HFS_DIRTY entry is on it (so the
\* next commit writes it).  hfs_cat_put's "repeat" changes flags and lists
\* under entry_lock; an entry in there is not looked at.
DirtyListed ==
    \A e \in allocated \ {cur[t] : t \in {u \in Threads : pc[u] = "put_repeat"}} :
        /\ ent[e].onDirty => "DIRTY" \in ent[e].state
        /\ ent[e].hashed /\ "DIRTY" \in ent[e].state => ent[e].onDirty

=============================================================================
