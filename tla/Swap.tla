-------------------------------- MODULE Swap --------------------------------
(***************************************************************************)
(* The swap areas of mm/swapfile.c: the per-area swap_map of reference     *)
(* counts with its lowest_bit/highest_bit hints and allocation cluster,    *)
(* the priority-ordered swap_list with its round-robin cursor              *)
(* swap_list.next, nr_swap_pages, and the system calls that add and        *)
(* remove an area.                                                         *)
(*                                                                         *)
(* Everything runs under the big kernel lock, so each function is one      *)
(* atomic step, except where the code sleeps and the lock is dropped:      *)
(* sys_swapon between claiming a swap_info slot and reading the swap       *)
(* header, and try_to_unuse at every read_swap_cache.  Those two are       *)
(* split into steps with a per-area control state.                         *)
(*                                                                         *)
(* The holders of swap entries (page tables, the swap cache, shm) live in  *)
(* other files.  The model keeps, as a ghost, the number of references     *)
(* they hold on each entry; swap-out, swap-in, exit and fork are the       *)
(* environment's actions that call into this file.                         *)
(***************************************************************************)
EXTENDS Integers, SequencesExt

CONSTANTS
    NTypes,     \* MAX_SWAPFILES
    MaxPage,    \* the last page offset an area can have (offset 0 is the header)
    Cluster,    \* SWAPFILE_CLUSTER
    MapMax,     \* SWAP_MAP_MAX: a count that reaches it is never decremented
    MaxRefs,    \* bound on the references held on one entry
    PrefPrios,  \* priorities given with SWAP_FLAG_PREFER
    MinPrio,    \* bound on least_priority
    ReadFails,  \* read_swap_cache may fail for want of memory
    HeaderDups  \* a version-2 header may list a bad page twice

ASSUME /\ NTypes >= 1 /\ MaxPage >= 1 /\ Cluster >= 1
       /\ MapMax >= 2 /\ MaxRefs >= 1 /\ MinPrio < 0
       /\ ReadFails \in BOOLEAN /\ HeaderDups \in BOOLEAN

Types == 0..NTypes-1
Nil == -1                  \* the end of swap_list
Offsets == 0..MaxPage
Bad == MapMax + 1          \* SWAP_MAP_BAD (0x8000) lies above SWAP_MAP_MAX
NoMap == [o \in Offsets |-> Bad]   \* swap_map NULL, or offsets past p->max
Counts == 0..Bad

VARIABLES
    si,     \* swap_info[type]: flags, swap_map, lowest_bit, highest_bit,
            \* cluster_next, cluster_nr, prio, pages
    lst,    \* swap_list from swap_list.head along ->next, as a sequence
    nxt,    \* swap_list.next
    nr,     \* nr_swap_pages
    least,  \* least_priority of sys_swapon
    ctl,    \* per type: "idle", "swapon" (asleep in sys_swapon),
            \* "scan" / "read" (try_to_unuse of sys_swapoff)
    cur,    \* per type: the offset try_to_unuse is reading in
    pref,   \* per type: sys_swapon was given SWAP_FLAG_PREFER
    refs    \* ghost: references held on each entry [type][offset]

vars == <<si, lst, nxt, nr, least, ctl, cur, pref, refs>>

Area == [flags : {"FREE", "USED", "WRITEOK"}, map : [Offsets -> Counts],
         lo : -1..MaxPage+1, hi : -1..MaxPage+1, cn : 0..MaxPage+1,
         cr : 0..Cluster, prio : MinPrio..Max(PrefPrios \cup {0}),
         pages : -MaxPage..MaxPage]

Init ==
    /\ si = [t \in Types |-> [flags |-> "FREE", map |-> NoMap, lo |-> 0,
                              hi |-> 0, cn |-> 0, cr |-> 0, prio |-> 0,
                              pages |-> 0]]
    /\ lst = <<>>
    /\ nxt = Nil
    /\ nr = 0
    /\ least = 0
    /\ ctl = [t \in Types |-> "idle"]
    /\ cur = [t \in Types |-> 0]
    /\ pref = [t \in Types |-> FALSE]
    /\ refs = [t \in Types |-> [o \in Offsets |-> 0]]

-----------------------------------------------------------------------------
(* swap_list *)

ListHead == IF lst = <<>> THEN Nil ELSE lst[1]

\* p->next of a listed area
Succ(t) == IF \E i \in 1..Len(lst) - 1 : lst[i] = t
           THEN lst[1 + CHOOSE i \in 1..Len(lst) - 1 : lst[i] = t]
           ELSE Nil

\* Insertion of area t by priority, as sys_swapon and the error path of
\* sys_swapoff do it: before the first area whose prio is not above t's;
\* at the head, swap_list.next is reset to t as well.
Insert(t) ==
    LET at == {i \in 1..Len(lst) : si[t].prio >= si[lst[i]].prio}
        k  == IF at = {} THEN Len(lst) + 1 ELSE Min(at)
    IN /\ lst' = InsertAt(lst, k, t)
       /\ nxt' = IF k = 1 THEN t ELSE nxt

-----------------------------------------------------------------------------
(* scan_swap_map and get_swap_page, as functions of the state *)

\* The first free offset of area d in a..b, or 0.
FirstFree(d, a, b) ==
    LET s == {o \in a..b : d.map[o] = 0} IN IF s = {} THEN 0 ELSE Min(s)

\* Mutant: cluster_next set one past the entry after it.
TakeCnOffByOne(d, off, cr) ==
    [d EXCEPT !.map[off] = 1,
              !.lo = IF off = d.lo THEN @ + 1 ELSE @,
              !.hi = IF off = d.hi THEN @ - 1 ELSE @,
              !.cn = off + 2,
              !.cr = cr]

\* got_page: the entry is taken with count 1 and the hints are narrowed.
Take(d, off, cr) ==
    [d EXCEPT !.map[off] = 1,
              !.lo = IF off = d.lo THEN @ + 1 ELSE @,
              !.hi = IF off = d.hi THEN @ - 1 ELSE @,
              !.cn = off + 1,
              !.cr = cr]

\* scan_swap_map: first the current cluster from cluster_next, then the
\* first wholly free run of Cluster offsets from lowest_bit, then first
\* free.  The result is the offset (0: none) and the area after the scan.
Scan(d) ==
    LET inCluster == IF d.cr > 0 THEN FirstFree(d, d.cn, d.hi) ELSE 0
        runs == {o \in d.lo .. d.hi - Cluster + 1 :
                    \A n \in o .. o + Cluster - 1 : d.map[n] = 0}
        fresh == IF runs = {} THEN 0 ELSE Min(runs)
        any == FirstFree(d, d.lo, d.hi)
    IN IF inCluster # 0 THEN [off |-> inCluster, d |-> Take(d, inCluster, d.cr - 1)]
       ELSE IF fresh # 0 THEN [off |-> fresh, d |-> Take(d, fresh, Cluster)]
       ELSE IF any # 0 THEN [off |-> any, d |-> Take(d, any, Cluster)]
       ELSE [off |-> 0,
             d |-> [d EXCEPT !.cr = Cluster,
                             !.cn = IF d.cr > 0 /\ d.cn <= d.hi THEN d.hi + 1 ELSE @]]

\* The while (1) loop of get_swap_page from area ty: to the end of ty's
\* priority group, then once from the head to the end of the list.  s is
\* swap_info as the scans so far left it.
RECURSIVE Walk(_, _, _)
Walk(ty, wrapped, s) ==
    LET ok == s[ty].flags = "WRITEOK"
        r  == Scan(s[ty])
        s2 == IF ok THEN [s EXCEPT ![ty] = r.d] ELSE s
        n  == Succ(ty)
    IN IF ok /\ r.off # 0 THEN [ty |-> ty, off |-> r.off, si |-> s2]
       ELSE IF ~wrapped
            THEN IF n = Nil \/ s[ty].prio # s[n].prio
                 THEN Walk(ListHead, TRUE, s2) ELSE Walk(n, FALSE, s2)
            ELSE IF n = Nil THEN [ty |-> Nil, off |-> 0, si |-> s2]
                 ELSE Walk(n, TRUE, s2)

\* get_swap_page: the area and offset it returns (Nil: none) and swap_info
\* after it.
Alloc == IF nxt = Nil \/ nr = 0 THEN [ty |-> Nil, off |-> 0, si |-> si]
         ELSE Walk(nxt, FALSE, si)

\* swap_list.next after an entry was taken from area t: the next area of
\* t's priority group, or the head.
NxtAfter(t) == LET n == Succ(t)
               IN IF n = Nil \/ si[t].prio # si[n].prio THEN ListHead ELSE n

-----------------------------------------------------------------------------
(* swap_free *)

\* The count of an entry reached 0: the hints widen to take it in.
FreeSlot(d, o) ==
    [d EXCEPT !.map[o] = 0,
              !.lo = IF o < @ THEN o ELSE @,
              !.hi = IF o > @ THEN o ELSE @]

\* Area d after k > 0 calls of swap_free on its offset o, each by a holder
\* of a reference.  A count at SWAP_MAP_MAX (or SWAP_MAP_BAD) stays.
Dropped(d, o, k) ==
    IF d.map[o] >= MapMax THEN d
    ELSE IF d.map[o] = k THEN FreeSlot(d, o)
    ELSE [d EXCEPT !.map[o] = @ - k]

\* The calls brought the count to 0, and nr_swap_pages is incremented.
Freed(d, o, k) == d.map[o] < MapMax /\ d.map[o] = k

\* swap_list.next after swap_free on area t: reset to the head when t has a
\* higher priority than the area it designates.  When swap_list.next is -1
\* the code reads swap_info[-1].prio; the list is then empty and either
\* outcome leaves swap_list.next at -1.
NxtAfterFree(t) ==
    IF nxt # Nil /\ si[t].prio > si[nxt].prio THEN ListHead ELSE nxt

-----------------------------------------------------------------------------
(* Swapping out, in, exit and fork: the environment's calls *)

\* A page is written to swap: get_swap_page, and the caller's pte holds the
\* entry.  When no entry is found the scans may still have moved the
\* clusters.
GetSwapPage ==
    LET g == Alloc
    IN /\ si' = g.si
       /\ IF g.ty = Nil THEN UNCHANGED <<nxt, nr, refs>>
          ELSE /\ nr' = nr - 1
               /\ nxt' = NxtAfter(g.ty)
               /\ refs' = [refs EXCEPT ![g.ty][g.off] = @ + 1]
       /\ UNCHANGED <<lst, least, ctl, cur, pref>>

\* acquire_swap_entry of a page that was last in entry (t, o): the old
\* entry is taken again if its area is writable and nobody uses it;
\* otherwise get_swap_page.  An offset past p->max is SWAP_MAP_BAD here.
\* Mutant: acquire_swap_entry without the "re-used for something else" test.
ReusableInUse(t, o) == si[t].flags = "WRITEOK" /\ si[t].map[o] # Bad

Reusable(t, o) == si[t].flags = "WRITEOK" /\ si[t].map[o] = 0

AcquireSwapEntry(t, o) ==
    IF Reusable(t, o)
    THEN /\ si' = [si EXCEPT ![t].map[o] = 1]
         /\ nr' = nr - 1
         /\ refs' = [refs EXCEPT ![t][o] = @ + 1]
         /\ UNCHANGED <<lst, nxt, least, ctl, cur, pref>>
    ELSE GetSwapPage

\* A holder drops its reference (swap-in, exit): swap_free.
SwapFree(t, o) ==
    /\ refs[t][o] > 0
    /\ si' = [si EXCEPT ![t] = Dropped(@, o, 1)]
    /\ nr' = IF Freed(si[t], o, 1) THEN nr + 1 ELSE nr
    /\ nxt' = NxtAfterFree(t)
    /\ refs' = [refs EXCEPT ![t][o] = @ - 1]
    /\ UNCHANGED <<lst, least, ctl, cur, pref>>

\* fork copies a pte: swap_duplicate (mm/swap_state.c) increments the count
\* up to SWAP_MAP_MAX, where it sticks.
Duplicate(t, o) ==
    /\ refs[t][o] > 0
    /\ refs[t][o] < MaxRefs
    /\ si' = [si EXCEPT ![t].map[o] = IF @ < MapMax THEN @ + 1 ELSE MapMax]
    /\ refs' = [refs EXCEPT ![t][o] = @ + 1]
    /\ UNCHANGED <<lst, nxt, nr, least, ctl, cur, pref>>

-----------------------------------------------------------------------------
(* sys_swapon *)

\* The areas a swap header can describe.  Version 1: a bitmap of good
\* pages; the area ends after the last good one.  Version 2: last_page and
\* a list of bad pages, of which nr_badpages is the length; a list that
\* names a page twice is taken as one more bad page than it marks.
V1Header(G) ==
    [map |-> [o \in Offsets |-> IF o \in G THEN 0 ELSE Bad],
     lo |-> Min(G), hi |-> Max(G), pages |-> Cardinality(G)]

V2Header(last, B, dup) ==
    [map |-> [o \in Offsets |-> IF o = 0 \/ o \in B \/ o >= last THEN Bad ELSE 0],
     lo |-> 1, hi |-> last - 1, pages |-> last - (Cardinality(B) + dup) - 1]

DupsOf(B) == IF HeaderDups /\ B # {} THEN 0..1 ELSE {0}

Headers ==
    {V1Header(G) : G \in SUBSET (1..MaxPage) \ {{}}}
    \cup UNION {UNION {{V2Header(l, B, d) : d \in DupsOf(B)} :
                           B \in SUBSET (1..l - 1)} : l \in 2..MaxPage + 1}

\* A released swap_info slot.  Only cluster_next survives to be read by the
\* next sys_swapon of the slot; the other fields are written by sys_swapon
\* before they are read again and are reset here to keep one such state.
Released(d) == [d EXCEPT !.flags = "FREE", !.map = NoMap, !.lo = 0, !.hi = 0,
                         !.cr = 0, !.prio = 0, !.pages = 0]

\* sys_swapon up to its first sleep: the lowest unused swap_info slot is
\* claimed and given its priority, the given one or --least_priority.
SwaponStart(pf, p) ==
    LET free == {t \in Types : si[t].flags = "FREE"}
    IN /\ free # {}
       /\ pf \/ least > MinPrio
       /\ LET t == Min(free) IN
          /\ si' = [si EXCEPT ![t] = [@ EXCEPT !.flags = "USED", !.map = NoMap,
                                     !.lo = 0, !.hi = 0, !.cr = 0,
                                     !.prio = IF pf THEN p ELSE least - 1]]
          /\ least' = IF pf THEN least ELSE least - 1
          /\ ctl' = [ctl EXCEPT ![t] = "swapon"]
          /\ pref' = [pref EXCEPT ![t] = pf]
       /\ UNCHANGED <<lst, nxt, nr, cur, refs>>

\* The rest of sys_swapon: on any error (lookup, open, header, memory, an
\* area without good pages) bad_swap releases the slot and gives back the
\* priority; otherwise swap_map is built from the header, the area becomes
\* writable, its pages are added to nr_swap_pages and it joins swap_list.
SwaponDone(t) ==
    /\ ctl[t] = "swapon"
    /\ \/ /\ si' = [si EXCEPT ![t] = Released(@)]
          /\ least' = IF pref[t] THEN least ELSE least + 1
          /\ UNCHANGED <<lst, nxt, nr>>
       \/ \E h \in Headers :
            /\ h.pages # 0
            /\ si' = [si EXCEPT ![t] = [@ EXCEPT !.flags = "WRITEOK", !.map = h.map,
                                       !.lo = h.lo, !.hi = h.hi, !.pages = h.pages]]
            /\ nr' = nr + h.pages
            /\ Insert(t)
            /\ UNCHANGED least
    /\ ctl' = [ctl EXCEPT ![t] = "idle"]
    /\ pref' = [pref EXCEPT ![t] = FALSE]
    /\ UNCHANGED <<cur, refs>>

-----------------------------------------------------------------------------
(* sys_swapoff and try_to_unuse *)

\* Mutant: swap_list.next is not moved off the area being removed.
SwapoffKeepNext(t) ==
    /\ si[t].flags = "WRITEOK"
    /\ lst' = Remove(lst, t)
    /\ si' = [si EXCEPT ![t].flags = "USED"]
    /\ ctl' = [ctl EXCEPT ![t] = "scan"]
    /\ UNCHANGED <<nxt, nr, least, cur, pref, refs>>

\* sys_swapoff up to try_to_unuse: the area leaves swap_list (and
\* swap_list.next, if it designated it) and is no longer writable.
Swapoff(t) ==
    /\ si[t].flags = "WRITEOK"
    /\ lst' = Remove(lst, t)
    /\ nxt' = IF nxt # t THEN nxt ELSE IF lst' = <<>> THEN Nil ELSE lst'[1]
    /\ si' = [si EXCEPT ![t].flags = "USED"]
    /\ ctl' = [ctl EXCEPT ![t] = "scan"]
    /\ UNCHANGED <<nr, least, cur, pref, refs>>

\* Mutant: sys_swapoff does not take the area's pages off nr_swap_pages.
SwapoffEndKeepNr(t) ==
    /\ si' = [si EXCEPT ![t] = Released(@)]
    /\ ctl' = [ctl EXCEPT ![t] = "idle"]
    /\ UNCHANGED <<cur, nr>>

\* The end of a successful sys_swapoff: nr_swap_pages loses the area's
\* pages and the swap_info slot is released.
SwapoffEnd(t) ==
    /\ nr' = nr - si[t].pages
    /\ si' = [si EXCEPT ![t] = Released(@)]
    /\ ctl' = [ctl EXCEPT ![t] = "idle"]
    /\ UNCHANGED cur

\* The error path of sys_swapoff: the area goes back into swap_list by
\* priority and is writable again.
Reinsert(t) ==
    /\ si' = [si EXCEPT ![t].flags = "WRITEOK"]
    /\ Insert(t)

\* try_to_unuse looks for the first offset in use.  When there is none,
\* sys_swapoff ends.
UnuseScan(t) ==
    /\ ctl[t] = "scan"
    /\ LET inUse == {o \in 1..MaxPage : si[t].map[o] \in 1..MapMax}
       IN IF inUse = {}
          THEN SwapoffEnd(t)
          ELSE /\ cur' = [cur EXCEPT ![t] = Min(inUse)]
               /\ ctl' = [ctl EXCEPT ![t] = "read"]
               /\ UNCHANGED <<si, nr>>
    /\ UNCHANGED <<lst, nxt, least, pref, refs>>

\* unuse_process over every task (and shm_unuse, delete_from_swap_cache):
\* every pte that holds entry (t, i) is pointed at the page read in and
\* gives its reference back through swap_free.
UnuseAll(d, i, k) == IF k = 0 THEN d ELSE Dropped(d, i, k)

\* Mutant: a failed read is retried instead of ending sys_swapoff.
UnuseReadRetry(t) ==
    /\ ctl[t] = "read"
    /\ LET i == cur[t]
           k == refs[t][i]
           d == si[t]
           d1 == UnuseAll(d, i, k)
           clr == d1.map[i] # 0
       IN \/ /\ d.map[i] = 0
             /\ ctl' = [ctl EXCEPT ![t] = "scan"]
             /\ UNCHANGED <<si, lst, nxt, nr, refs>>
          \/ /\ d.map[i] # 0
             /\ si' = [si EXCEPT ![t] = IF clr THEN [d1 EXCEPT !.map[i] = 0] ELSE d1]
             /\ nr' = nr + (IF k > 0 /\ Freed(d, i, k) THEN 1 ELSE 0)
                         + (IF clr THEN 1 ELSE 0)
             /\ nxt' = IF k > 0 THEN NxtAfterFree(t) ELSE nxt
             /\ refs' = [refs EXCEPT ![t][i] = 0]
             /\ ctl' = [ctl EXCEPT ![t] = "scan"]
             /\ UNCHANGED lst
          \/ /\ d.map[i] # 0
             /\ ReadFails
             /\ ctl' = [ctl EXCEPT ![t] = "scan"]
             /\ UNCHANGED <<si, lst, nxt, nr, refs>>
    /\ cur' = [cur EXCEPT ![t] = 0]
    /\ UNCHANGED <<least, pref>>

\* read_swap_cache returns (it slept).  An entry freed meanwhile cannot be
\* read and the search goes on.  A read page replaces every reference,
\* each through swap_free, and a count stuck at SWAP_MAP_MAX is then
\* cleared by hand.  A failed read ends sys_swapoff with -ENOMEM: the area
\* is put back into swap_list and is writable again.
UnuseRead(t) ==
    /\ ctl[t] = "read"
    /\ LET i == cur[t]
           k == refs[t][i]
           d == si[t]
           d1 == UnuseAll(d, i, k)
           clr == d1.map[i] # 0
       IN \/ /\ d.map[i] = 0
             /\ ctl' = [ctl EXCEPT ![t] = "scan"]
             /\ UNCHANGED <<si, lst, nxt, nr, refs>>
          \/ /\ d.map[i] # 0
             /\ si' = [si EXCEPT ![t] = IF clr THEN [d1 EXCEPT !.map[i] = 0] ELSE d1]
             /\ nr' = nr + (IF k > 0 /\ Freed(d, i, k) THEN 1 ELSE 0)
                         + (IF clr THEN 1 ELSE 0)
             /\ nxt' = IF k > 0 THEN NxtAfterFree(t) ELSE nxt
             /\ refs' = [refs EXCEPT ![t][i] = 0]
             /\ ctl' = [ctl EXCEPT ![t] = "scan"]
             /\ UNCHANGED lst
          \/ /\ d.map[i] # 0
             /\ ReadFails
             /\ Reinsert(t)
             /\ ctl' = [ctl EXCEPT ![t] = "idle"]
             /\ UNCHANGED <<nr, refs>>
    /\ cur' = [cur EXCEPT ![t] = 0]
    /\ UNCHANGED <<least, pref>>

-----------------------------------------------------------------------------

Next ==
    \/ GetSwapPage
    \/ \E t \in Types, o \in 1..MaxPage :
          AcquireSwapEntry(t, o) \/ SwapFree(t, o) \/ Duplicate(t, o)
    \/ \E pf \in BOOLEAN, p \in PrefPrios : SwaponStart(pf, p)
    \/ \E t \in Types :
          SwaponDone(t) \/ Swapoff(t) \/ UnuseScan(t) \/ UnuseRead(t)

\* The page reads of try_to_unuse complete and a process in sys_swapoff is
\* scheduled again; nothing obliges a process to swap or an administrator
\* to act.  This is weak fairness of UnuseScan(t) \/ UnuseRead(t), written
\* with its enabling condition: one of them is enabled exactly when the
\* swapoff of t is in "scan" or "read", and each step changes ctl[t].
Fairness ==
    \A t \in Types : \/ []<>(ctl[t] \notin {"scan", "read"})
                    \/ []<><<UnuseScan(t) \/ UnuseRead(t)>>_vars

Spec == Init /\ [][Next]_vars /\ Fairness

-----------------------------------------------------------------------------
(* Properties *)

FreeCount(t) == Cardinality({o \in Offsets : si[t].map[o] = 0})

TypeOK ==
    /\ si \in [Types -> Area]
    /\ lst \in Seq(Types)
    /\ nxt \in Types \cup {Nil}
    /\ nr \in Int
    /\ least \in MinPrio..0
    /\ ctl \in [Types -> {"idle", "swapon", "scan", "read"}]
    /\ cur \in [Types -> Offsets]
    /\ pref \in [Types -> BOOLEAN]
    /\ refs \in [Types -> [Offsets -> 0..MaxRefs]]

\* Reference counting of swap_map: an entry's count below SWAP_MAP_MAX is
\* exactly the number of references held on it (get_swap_page,
\* acquire_swap_entry, swap_free, swap_duplicate and try_to_unuse), and an
\* entry that is free or bad has none, so a referenced slot is never
\* handed out again.
CountMatchesRefs ==
    \A t \in Types, o \in Offsets :
        LET c == si[t].map[o]
        IN /\ c < MapMax => c = refs[t][o]
           /\ c = Bad => refs[t][o] = 0

\* nr_swap_pages, maintained by scan_swap_map, acquire_swap_entry,
\* swap_free, try_to_unuse, sys_swapoff and sys_swapon, is the number of
\* free entries of the areas in use.
NrSwapPagesExact == nr = MapThenSumSet(FreeCount, Types)

\* swap_list holds the writable areas once each in order of decreasing
\* priority, and swap_list.next designates one of them (-1 only when the
\* list is empty), through sys_swapon, get_swap_page, swap_free and both
\* exits of sys_swapoff.
SwapListWellFormed ==
    /\ ToSet(lst) = {t \in Types : si[t].flags = "WRITEOK"}
    /\ Len(lst) = Cardinality(ToSet(lst))
    /\ IsSorted([i \in 1..Len(lst) |-> si[lst[i]].prio], LAMBDA a, b : a >= b)
    /\ (nxt = Nil) = (lst = <<>>)
    /\ nxt # Nil => Contains(lst, nxt)

\* get_swap_page fails only when no writable area has a free entry: the
\* lowest_bit/highest_bit hints that scan_swap_map trusts, kept by
\* scan_swap_map and swap_free, never hide a free entry, and the walk over
\* swap_list reaches every area.  Not checked by a passing run: it holds
\* only while counts stay below SWAP_MAP_MAX, and TLC finds it violated at
\* MapMax 2 with three references (README, swapfile.c:392).
AllocComplete ==
    Alloc.ty = Nil => \A u \in Types : si[u].flags = "WRITEOK" => FreeCount(u) = 0

\* get_swap_page takes an entry from an area only when no writable area of
\* higher priority has a free one: the cursor swap_list.next never stays in
\* a lower priority group once a higher area has room again (swap_free,
\* sys_swapon and the error exit of sys_swapoff reset it).  Not checked by a
\* passing run: the stale cursor needs a lower group of two areas under a
\* higher one, three areas, which is past the run time bound.
PriorityRespected ==
    LET g == Alloc
    IN g.ty # Nil =>
         \A u \in Types : si[u].flags = "WRITEOK" /\ si[u].prio > si[g.ty].prio
                            => FreeCount(u) = 0

\* sys_swapoff returns: try_to_unuse empties every entry of the area, or
\* fails, however processes keep freeing and duplicating entries meanwhile.
SwapoffTerminates ==
    \A t \in Types : ctl[t] \in {"scan", "read"} ~> ctl[t] = "idle"

====
