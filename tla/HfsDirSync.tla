----------------------------- MODULE HfsDirSync -----------------------------
(***************************************************************************)
(* Per-directory reader/writer admission of the HFS catalog cache          *)
(* (src/fs/hfs/catalog.c, start_write/start_read/end_write/end_read).      *)
(*                                                                         *)
(* A directory entry keeps two counters, readers and writers, and two     *)
(* wait queues, read_wait and write_wait.  Readers are directory scans    *)
(* (hfs_cat_open .. hfs_cat_close, count_dir_entries and the emptiness    *)
(* check of hfs_cat_delete); writers are the operations that add or       *)
(* remove children (create_entry, hfs_cat_delete, hfs_cat_move).          *)
(*                                                                         *)
(* The kernel runs this code under the big kernel lock, so everything     *)
(* between two sleeps is one atomic step.  hfs_sleep_on is the 2.2        *)
(* sleep_on: the task is put on the queue, sleeps, and takes itself off   *)
(* the queue only when it runs again; hfs_wake_up makes every task on     *)
(* the queue runnable.  A woken task therefore still counts as "on the    *)
(* queue" until it is scheduled.  That is modelled by the set woken: a    *)
(* thread in a queue and in woken is runnable, one in a queue and not in  *)
(* woken is asleep.                                                       *)
(***************************************************************************)
EXTENDS Naturals, FiniteSets

CONSTANTS
    Threads,    \* kernel threads calling into the catalog
    Dirs        \* directory entries whose admission is modelled

VARIABLES
    readers,    \* readers[d]: dir->u.dir.readers
    writers,    \* writers[d]: dir->u.dir.writers
    readWait,   \* readWait[d]: threads on dir->u.dir.read_wait
    writeWait,  \* writeWait[d]: threads on dir->u.dir.write_wait
    woken,      \* threads made runnable by a wake-up and not yet scheduled
    pc,         \* pc[t]: where thread t is in its directory operation
    dirOf       \* dirOf[t]: the directory thread t is operating on

syncVars == <<readers, writers, readWait, writeWait, woken>>
vars == <<readers, writers, readWait, writeWait, woken, pc, dirOf>>

-----------------------------------------------------------------------------
(* Admission operators, shared with the modules that compose this one.    *)

\* start_read: a reader sleeps if a writer is active or waiting.
ReadBlocked(d) == writers[d] > 0 \/ writeWait[d] # {}

\* start_write: a writer sleeps if a reader is active or waiting.
WriteBlocked(d) == readers[d] > 0 \/ readWait[d] # {}

\* The sleep of start_read/start_write: join the queue.
SleepRead(t, d) ==
    /\ readWait' = [readWait EXCEPT ![d] = @ \cup {t}]
    /\ UNCHANGED <<readers, writers, writeWait, woken>>

SleepWrite(t, d) ==
    /\ writeWait' = [writeWait EXCEPT ![d] = @ \cup {t}]
    /\ UNCHANGED <<readers, writers, readWait, woken>>

\* The admission that follows the test (or the sleep) in start_read.
EnterRead(d) ==
    /\ readers' = [readers EXCEPT ![d] = @ + 1]
    /\ UNCHANGED <<writers, readWait, writeWait, woken>>

EnterWrite(d) ==
    /\ writers' = [writers EXCEPT ![d] = @ + 1]
    /\ UNCHANGED <<readers, readWait, writeWait, woken>>

\* A woken thread is scheduled: sleep_on takes it off the queue, and the
\* code after hfs_sleep_on increments the counter without testing again.
ResumeRead(t, d) ==
    /\ t \in readWait[d] /\ t \in woken
    /\ readWait' = [readWait EXCEPT ![d] = @ \ {t}]
    /\ woken' = woken \ {t}
    /\ readers' = [readers EXCEPT ![d] = @ + 1]
    /\ UNCHANGED <<writers, writeWait>>

ResumeWrite(t, d) ==
    /\ t \in writeWait[d] /\ t \in woken
    /\ writeWait' = [writeWait EXCEPT ![d] = @ \ {t}]
    /\ woken' = woken \ {t}
    /\ writers' = [writers EXCEPT ![d] = @ + 1]
    /\ UNCHANGED <<readers, readWait>>

\* end_read on every directory of RD and end_write on every directory of WD
\* in one atomic step (the release sequences of hfs_cat_delete and
\* hfs_cat_move): the counters after the decrements, and the threads woken,
\* since the last reader wakes write_wait and the last writer read_wait.
ReadersAfter(RD) == [d \in Dirs |-> IF d \in RD THEN readers[d] - 1 ELSE readers[d]]
WritersAfter(WD) == [d \in Dirs |-> IF d \in WD THEN writers[d] - 1 ELSE writers[d]]

WokenBy(RD, WD) ==
    UNION {writeWait[d] : d \in {x \in RD : readers[x] = 1}}
    \cup UNION {readWait[d] : d \in {x \in WD : writers[x] = 1}}

Release(RD, WD) ==
    /\ readers' = ReadersAfter(RD)
    /\ writers' = WritersAfter(WD)
    /\ woken' = woken \cup WokenBy(RD, WD)
    /\ UNCHANGED <<readWait, writeWait>>

-----------------------------------------------------------------------------
(* A client: each thread opens a directory for reading (a scan) or for    *)
(* writing (a create or delete), then closes it, and starts again.        *)

SyncInit ==
    /\ readers = [d \in Dirs |-> 0]
    /\ writers = [d \in Dirs |-> 0]
    /\ readWait = [d \in Dirs |-> {}]
    /\ writeWait = [d \in Dirs |-> {}]
    /\ woken = {}

Init ==
    /\ SyncInit
    /\ pc = [t \in Threads |-> "idle"]
    /\ dirOf = [t \in Threads |-> CHOOSE d \in Dirs : TRUE]

\* hfs_cat_open: start_read(dir).
StartRead(t, d) ==
    /\ pc[t] = "idle"
    /\ dirOf' = [dirOf EXCEPT ![t] = d]
    /\ IF ReadBlocked(d)
       THEN SleepRead(t, d) /\ pc' = [pc EXCEPT ![t] = "waitRead"]
       ELSE EnterRead(d) /\ pc' = [pc EXCEPT ![t] = "reading"]

\* create_entry / hfs_cat_delete: start_write(parent).
StartWrite(t, d) ==
    /\ pc[t] = "idle"
    /\ dirOf' = [dirOf EXCEPT ![t] = d]
    /\ IF WriteBlocked(d)
       THEN SleepWrite(t, d) /\ pc' = [pc EXCEPT ![t] = "waitWrite"]
       ELSE EnterWrite(d) /\ pc' = [pc EXCEPT ![t] = "writing"]

WokenRead(t) ==
    /\ pc[t] = "waitRead"
    /\ ResumeRead(t, dirOf[t])
    /\ pc' = [pc EXCEPT ![t] = "reading"]
    /\ UNCHANGED dirOf

WokenWrite(t) ==
    /\ pc[t] = "waitWrite"
    /\ ResumeWrite(t, dirOf[t])
    /\ pc' = [pc EXCEPT ![t] = "writing"]
    /\ UNCHANGED dirOf

\* hfs_cat_close / hfs_cat_next at the end of the directory: end_read(dir).
EndRead(t) ==
    /\ pc[t] = "reading"
    /\ Release({dirOf[t]}, {})
    /\ pc' = [pc EXCEPT ![t] = "idle"]
    /\ UNCHANGED dirOf

\* The end of create_entry / hfs_cat_delete: end_write(parent).
EndWrite(t) ==
    /\ pc[t] = "writing"
    /\ Release({}, {dirOf[t]})
    /\ pc' = [pc EXCEPT ![t] = "idle"]
    /\ UNCHANGED dirOf

Next ==
    \/ \E t \in Threads, d \in Dirs : StartRead(t, d) \/ StartWrite(t, d)
    \/ \E t \in Threads : WokenRead(t) \/ WokenWrite(t) \/ EndRead(t) \/ EndWrite(t)

\* A runnable thread is eventually scheduled, and a thread inside a
\* directory operation eventually finishes it: weak fairness per thread.
Fairness == \A t \in Threads :
    WF_vars(WokenRead(t) \/ WokenWrite(t) \/ EndRead(t) \/ EndWrite(t))

Spec == Init /\ [][Next]_vars /\ Fairness

-----------------------------------------------------------------------------
TypeOK ==
    /\ readers \in [Dirs -> Nat]
    /\ writers \in [Dirs -> Nat]
    /\ readWait \in [Dirs -> SUBSET Threads]
    /\ writeWait \in [Dirs -> SUBSET Threads]
    /\ woken \subseteq Threads
    /\ pc \in [Threads -> {"idle", "waitRead", "waitWrite", "reading", "writing"}]
    /\ dirOf \in [Threads -> Dirs]

\* The purpose of the counters (spec 4.2, comment "keep readers from getting
\* confused by changing dir size"): a directory is never being scanned and
\* modified at the same time.
ReadWriteExclusion ==
    \A d \in Dirs : ~(readers[d] > 0 /\ writers[d] > 0)

=============================================================================
