------------------------------ MODULE Maestro ------------------------------
(***************************************************************************)
(* The DMA audio path of one channel of src/drivers/sound/maestro.c: the   *)
(* playback (dma_dac) and record (dma_adc) struct dmabuf of an ess_state,  *)
(* the wave processors (APUs) that play and record them, the "bob" timer   *)
(* interrupt that runs ess_update_ptr, and the files of /dev/dsp that      *)
(* open, write, read, poll and release the channel.                        *)
(*                                                                         *)
(* The two buffers are the halves of one allocation, made by whichever     *)
(* prog_dmabuf finds its own rawbuf NULL.  Byte quantities (pointers,      *)
(* counts, transfer sizes) are in units of 4 bytes, the granularity of     *)
(* ess_read/ess_write (cnt &= ~3); dmasize is NumFrag fragments of Frag    *)
(* units.  Only mono formats are modelled, so the split-stereo paths of    *)
(* ess_read/ess_write and ess_update_ptr are not; mmap is not in the       *)
(* file_operations, so dmabuf.mapped is always 0 and its paths are dead.   *)
(*                                                                         *)
(* The file system code runs under the big kernel lock: a process runs     *)
(* alone until it sleeps.  The interrupt and the APUs run at any time;     *)
(* the spin_lock_irqsave sections of the code are atomic steps.  A step   *)
(* of a process ends where it sleeps, or where copy_to_user or             *)
(* copy_from_user runs with no lock held, which the interrupt may         *)
(* interleave.                                                             *)
(***************************************************************************)
EXTENDS Integers, FiniteSetsExt

CONSTANTS
    Files,       \* open files of the channel's /dev/dsp minor
    ModeOf,      \* f_mode of each file: a subset of {"R", "W"}
    NonBlock,    \* the files opened with O_NONBLOCK
    Frag,        \* dmabuf.fragsize, in units
    NumFrag,     \* dmabuf.numfrag
    MaxAdvance,  \* units an APU moves between two calls of ess_update_ptr
    MaxXfer,     \* largest count of one read or write call, in units
    Chunks,      \* identities of DMA allocations
    NoChunk,     \* a NULL rawbuf
    AllocFails,  \* __get_free_pages or kmalloc may fail
    Signals      \* a sleeping process may receive a signal

ASSUME /\ NoChunk \notin Chunks
ASSUME /\ Frag >= 1 /\ NumFrag >= 4 /\ MaxAdvance >= 1 /\ MaxXfer >= 1
       /\ \A f \in Files : ModeOf[f] \subseteq {"R", "W"} /\ ModeOf[f] # {}

DBs == {"adc", "dac"}
DmaSize == Frag * NumFrag

VARIABLES
    db,       \* dma_adc and dma_dac: ready, hwptr, swptr, count, endcleared,
              \* rawbuf (a chunk), and the enable bit of each (ESS_ENABLE_RE =
              \* ADC_RUNNING, ESS_ENABLE_PE = DAC_RUNNING)
    apu,      \* the APUs of each buffer: running, the position register, and
              \* the rawbuf the last ess_play_setup/ess_rec_setup programmed
    alive,    \* halves of allocations not yet freed: <<chunk, buffer>>
    openMode, \* s->open_mode
    bob,      \* card->bob_running
    pc,       \* where each file's process is
    left,     \* what remains of the count of its read or write call
    cnt,      \* the cnt of its loop iteration
    sw,       \* the swptr its loop iteration read
    dst,      \* the rawbuf its copy_to_user/copy_from_user is using
    woken     \* processes a wake_up made runnable

vars == <<db, apu, alive, openMode, bob, pc, left, cnt, sw, dst, woken>>

Buf == [ready : BOOLEAN, hw : 0..(DmaSize - 1), sw : 0..(DmaSize - 1),
        count : (-DmaSize)..(2 * DmaSize), endcl : BOOLEAN,
        buf : Chunks \cup {NoChunk}, en : BOOLEAN]

\* A process sleeping in the allocation of prog_dmabuf, by the buffer it
\* programs and where it goes on: ess_write, ess_read, the
\* SNDCTL_DSP_GETOSPACE / GETISPACE ioctls, SNDCTL_DSP_GETBLKSIZE of a
\* writer (bo) or a reader (bi), and SNDCTL_DSP_SETTRIGGER for input (ti1
\* when output is to be enabled next, ti0 when not) or for output (to).
DirOfProg == [w_prog |-> "dac", r_prog |-> "adc", os_prog |-> "dac", is_prog |-> "adc",
              bo_prog |-> "dac", bi_prog |-> "adc", ti1_prog |-> "adc",
              ti0_prog |-> "adc", to_prog |-> "dac"]
NextOfProg == [w_prog |-> "w_loop", r_prog |-> "r_loop", os_prog |-> "space",
               is_prog |-> "space", bo_prog |-> "open", bi_prog |-> "open",
               ti1_prog |-> "ti1_start", ti0_prog |-> "ti0_start", to_prog |-> "to_start"]

\* Where SNDCTL_DSP_SETTRIGGER goes on: start_adc, the output half with
\* output enabled (tw1) or not (tw0), start_dac.
TrigLabels == {"ti1_start", "ti0_start", "tw1", "tw0", "to_start"}

Labels == {"closed", "o_wait", "open", "w_loop", "w_copy", "w_sleep", "r_loop",
           "r_copy", "r_sleep", "space", "drain", "sync"} \cup DOMAIN DirOfProg
          \cup TrigLabels

Init ==
    /\ db = [d \in DBs |-> [ready |-> FALSE, hw |-> 0, sw |-> 0, count |-> 0,
                            endcl |-> FALSE, buf |-> NoChunk, en |-> FALSE]]
    /\ apu = [d \in DBs |-> [run |-> FALSE, pos |-> 0, base |-> NoChunk]]
    /\ alive = {}
    /\ openMode = {}
    /\ bob = 0
    /\ pc = [f \in Files |-> "closed"]
    /\ left = [f \in Files |-> 0]
    /\ cnt = [f \in Files |-> 0]
    /\ sw = [f \in Files |-> 0]
    /\ dst = [f \in Files |-> NoChunk]
    /\ woken = {}

-----------------------------------------------------------------------------
(* The APUs and the pointers *)

\* get_dmac / get_dmaa read the position register of an APU relative to
\* the buffer base; ess_update_ptr (mono) takes it modulo dmasize.  The
\* position is read nowhere else, so the APU's movement is taken where it
\* is read: a running APU has moved on by 0 to MaxAdvance units since the
\* last ess_update_ptr.  It is started at offset 0 by ess_play_setup /
\* ess_rec_setup, and stop_dac / stop_adc only clear its mode bits,
\* leaving the position register where it was.
Moved(d, k) == IF apu[d].run THEN (apu[d].pos + k) % DmaSize ELSE apu[d].pos

\* ess_update_ptr, record side: the data recorded since the last call are
\* added to count; past dmasize - 1.5 fragments the recording is stopped
\* (stop_adc) and an overrun counted.  Readers are woken once a fragment
\* is there.
UpdAdc(b, a, h) ==
    LET
        c == b.count + ((DmaSize + h - b.hw) % DmaSize)
        over == c > DmaSize - ((3 * Frag) \div 2)
    IN [b |-> [b EXCEPT !.hw = h, !.count = c, !.en = IF over THEN FALSE ELSE @],
        run |-> IF over THEN FALSE ELSE a.run,
        wake |-> c >= Frag]

\* ess_update_ptr, playback side: what was played since the last call is
\* taken off count.  When nothing is left the APU is stopped and count,
\* swptr and hwptr are zeroed; when at most a fragment is left the next
\* fragment is cleared once (clear_advance, endcleared).  Writers are woken
\* when a fragment is free.
UpdDac(b, a, h) ==
    LET
        c == b.count - ((DmaSize + h - b.hw) % DmaSize)
        b1 == IF c <= 0
              THEN [b EXCEPT !.hw = 0, !.count = 0, !.sw = 0, !.en = FALSE]
              ELSE IF c <= Frag /\ ~b.endcl
              THEN [b EXCEPT !.hw = h, !.count = c, !.endcl = TRUE]
              ELSE [b EXCEPT !.hw = h, !.count = c]
    IN [b |-> b1,
        run |-> IF c <= 0 THEN FALSE ELSE a.run,
        wake |-> b1.count + Frag <= DmaSize]

\* The sleepers on dma_adc.wait and dma_dac.wait.
WaitersOf(d) ==
    {f \in Files : pc[f] = (IF d = "adc" THEN "r_sleep" ELSE "w_sleep")}

\* ess_update_ptr under s->lock: both buffers, each only when ready, and
\* the wake_up calls it makes.
Update ==
    \E k \in [DBs -> 0..MaxAdvance] :
    LET h == [d \in DBs |-> Moved(d, k[d])]
        ua == UpdAdc(db["adc"], apu["adc"], h["adc"])
        ud == UpdDac(db["dac"], apu["dac"], h["dac"])
        ra == db["adc"].ready
        rd == db["dac"].ready
    IN /\ db' = [db EXCEPT !["adc"] = IF ra THEN ua.b ELSE @,
                           !["dac"] = IF rd THEN ud.b ELSE @]
       /\ apu' = [d \in DBs |->
                    [apu[d] EXCEPT !.pos = h[d],
                                   !.run = IF d = "adc" /\ ra THEN ua.run
                                           ELSE IF d = "dac" /\ rd THEN ud.run ELSE @]]
       /\ woken' = woken \cup (IF ra /\ ua.wake THEN WaitersOf("adc") ELSE {})
                         \cup (IF rd /\ ud.wake THEN WaitersOf("dac") ELSE {})

\* bob, the card's timer, interrupts while bit 0 of IDR 11 and 17 is set:
\* start_bob programs its rate and sets the bits when ess_open raises
\* bob_running from 0, stop_bob clears them when ess_release brings it back
\* to 0.  Its rate is not modelled: an interrupt may come at any time.
BobRunning == bob > 0

\* ess_interrupt: each interrupt of bob updates the pointers of the channel.
Interrupt ==
    /\ BobRunning
    /\ Update
    /\ UNCHANGED <<alive, openMode, bob, pc, left, cnt, sw, dst>>

-----------------------------------------------------------------------------
(* Starting, stopping and programming the buffers *)

\* start_dac / start_adc: the APU is started (its mode bits set) and the
\* enable bit raised only when the buffer is ready and, for playback, holds
\* data, for recording has room for two more fragments.
DacStarts(b) == b.count > 0 /\ b.ready
AdcStarts(b) == b.count < DmaSize - 2 * Frag /\ b.ready
Starts(d, b) == IF d = "dac" THEN DacStarts(b) ELSE AdcStarts(b)

\* The buffer b of d, after start_dac / start_adc, becomes db[d].
StartWith(d, b) ==
    /\ db' = [db EXCEPT ![d] = [b EXCEPT !.en = @ \/ Starts(d, b)]]
    /\ apu' = [apu EXCEPT ![d].run = @ \/ Starts(d, b)]

\* stop_dac / stop_adc run when the file's mode has the direction.
Stops(m, d) == (d = "dac" /\ "W" \in m) \/ (d = "adc" /\ "R" \in m)

\* prog_dmabuf(s, d = "adc") up to the allocation: the enable bit is
\* cleared and the pointers zeroed.  With a rawbuf the APU is set up to
\* play or record it from offset 0 and the buffer is ready, and the caller
\* goes on; without one both buffers are marked not ready and the caller
\* allocates, which may sleep (label).
ProgDmabuf(f, d, label) ==
    LET b0 == [db[d] EXCEPT !.hw = 0, !.sw = 0, !.count = 0, !.endcl = FALSE,
                            !.en = FALSE]
    IN IF db[d].buf # NoChunk
       THEN /\ db' = [db EXCEPT ![d] = [b0 EXCEPT !.ready = TRUE]]
            /\ apu' = [apu EXCEPT ![d] = [run |-> TRUE, pos |-> 0, base |-> db[d].buf]]
            /\ pc' = [pc EXCEPT ![f] = NextOfProg[label]]
       ELSE /\ db' = [x \in DBs |-> IF x = d THEN [b0 EXCEPT !.ready = FALSE]
                                            ELSE [db[x] EXCEPT !.ready = FALSE]]
            /\ apu' = apu
            /\ pc' = [pc EXCEPT ![f] = label]

\* The rest of prog_dmabuf: __get_free_pages fails (-ENOMEM), or returns
\* free pages whose halves become the rawbuf of both buffers, whatever the
\* rawbufs were; then the set-up of the APU of d and ready.
ProgAlloc(f) ==
    /\ pc[f] \in DOMAIN DirOfProg
    /\ LET d == DirOfProg[pc[f]] IN
       \/ /\ AllocFails
          /\ pc' = [pc EXCEPT ![f] = "open"]
          /\ left' = [left EXCEPT ![f] = 0]
          /\ UNCHANGED <<db, apu, alive>>
       \/ \E c \in Chunks \ {h[1] : h \in alive} :
             /\ alive' = alive \cup {<<c, "adc">>, <<c, "dac">>}
             /\ db' = [x \in DBs |-> [db[x] EXCEPT !.buf = c,
                                                   !.ready = (x = d) \/ @]]
             /\ apu' = [apu EXCEPT ![d] = [run |-> TRUE, pos |-> 0, base |-> c]]
             /\ pc' = [pc EXCEPT ![f] = NextOfProg[pc[f]]]
             /\ UNCHANGED left
    /\ UNCHANGED <<openMode, bob, cnt, sw, dst, woken>>

-----------------------------------------------------------------------------
(* ess_open and ess_release *)

\* Mutant: ess_open does not wait for the modes to be free.
OpenNoExclusion(f) ==
    /\ pc[f] \in {"closed", "o_wait"}
    /\ pc[f] = "o_wait" => f \in woken
    /\ woken' = woken \ {f}
    /\ openMode' = openMode \cup ModeOf[f]
    /\ bob' = bob + 1
    /\ pc' = [pc EXCEPT ![f] = "open"]
    /\ UNCHANGED <<db, apu, alive, left, cnt, sw, dst>>

\* ess_open, or its process woken on open_wait: while the channel is open
\* in a mode of the file, a non-blocking open fails with -EWOULDBLOCK and
\* a blocking one sleeps on open_wait.  Otherwise the file's modes are
\* added to open_mode and bob_running is incremented (start_bob from 0).
\* open_sem is only held where no process sleeps, so it is not modelled.
Open(f) ==
    /\ pc[f] \in {"closed", "o_wait"}
    /\ pc[f] = "o_wait" => f \in woken
    /\ woken' = woken \ {f}
    /\ IF openMode \cap ModeOf[f] # {}
       THEN /\ pc' = [pc EXCEPT ![f] = IF f \in NonBlock THEN "closed" ELSE "o_wait"]
            /\ UNCHANGED <<openMode, bob>>
       ELSE /\ openMode' = openMode \cup ModeOf[f]
            /\ bob' = bob + 1
            /\ pc' = [pc EXCEPT ![f] = "open"]
    /\ UNCHANGED <<db, apu, alive, left, cnt, sw, dst>>

\* A signal ends the sleep on open_wait: -ERESTARTSYS.
OpenSignal(f) ==
    /\ Signals
    /\ pc[f] = "o_wait"
    /\ pc' = [pc EXCEPT ![f] = "closed"]
    /\ woken' = woken \ {f}
    /\ UNCHANGED <<db, apu, alive, openMode, bob, left, cnt, sw, dst>>

\* dealloc_dmabuf: the rawbuf's pages are freed (when there is one), and
\* rawbuf becomes NULL and the buffer not ready.
Dealloc(b) == [b EXCEPT !.buf = NoChunk, !.ready = FALSE]

\* The body of ess_release after drain_dac: the file's directions are
\* stopped, both DMA buffers are freed whatever the file's mode
\* (dealloc_dmabuf of dma_adc and dma_dac), its modes leave open_mode,
\* bob_running is decremented (stop_bob at 0) and open_wait is woken.
ReleaseBody(f) ==
    /\ db' = [d \in DBs |-> [Dealloc(db[d]) EXCEPT !.en = @ /\ ~Stops(ModeOf[f], d)]]
    /\ apu' = [d \in DBs |-> [apu[d] EXCEPT !.run = @ /\ ~Stops(ModeOf[f], d)]]
    /\ alive' = alive \ {<<db[d].buf, d>> : d \in DBs}
    /\ openMode' = openMode \ ModeOf[f]
    /\ bob' = bob - 1
    /\ woken' = woken \cup {g \in Files : pc[g] = "o_wait"}
    /\ pc' = [pc EXCEPT ![f] = "closed"]
    /\ UNCHANGED <<left, cnt, sw, dst>>

\* ess_release.  A writer first drains (drain_dac): unless the playback
\* buffer is not ready or empty, a non-blocking file gives up at once
\* (-EBUSY, ignored) and a blocking one waits.
Release(f) ==
    /\ pc[f] = "open"
    /\ IF "W" \in ModeOf[f] /\ db["dac"].ready /\ db["dac"].count > 0
          /\ f \notin NonBlock
       THEN /\ pc' = [pc EXCEPT ![f] = "drain"]
            /\ UNCHANGED <<db, apu, alive, openMode, bob, left, cnt, sw, dst, woken>>
       ELSE ReleaseBody(f)

\* Where drain_dac returns to: the rest of ess_release, or the caller of
\* SNDCTL_DSP_SYNC.
DrainReturn(f) ==
    IF pc[f] = "drain"
    THEN ReleaseBody(f)
    ELSE /\ pc' = [pc EXCEPT ![f] = "open"]
         /\ UNCHANGED <<db, apu, alive, openMode, bob, left, cnt, sw, dst, woken>>

\* The loop of drain_dac ends when count is down to 0; it re-reads count
\* after every schedule_timeout.
DrainEnd(f) ==
    /\ pc[f] \in {"drain", "sync"}
    /\ db["dac"].count <= 0
    /\ DrainReturn(f)

\* A signal pending ends the loop of drain_dac as well.
DrainSignal(f) ==
    /\ Signals
    /\ pc[f] \in {"drain", "sync"}
    /\ DrainReturn(f)

-----------------------------------------------------------------------------
(* ess_write *)

\* The locals of a loop turn (cnt, swptr, the buffer copied) end with it.
Done(f) ==
    /\ cnt' = [cnt EXCEPT ![f] = 0]
    /\ sw' = [sw EXCEPT ![f] = 0]
    /\ dst' = [dst EXCEPT ![f] = NoChunk]

\* ess_write of n units: prog_dmabuf when the playback buffer is not ready.
WriteCall(f, n) ==
    /\ pc[f] = "open"
    /\ "W" \in ModeOf[f]
    /\ left' = [left EXCEPT ![f] = n]
    /\ IF db["dac"].ready
       THEN /\ pc' = [pc EXCEPT ![f] = "w_loop"]
            /\ UNCHANGED <<db, apu>>
       ELSE ProgDmabuf(f, "dac", "w_prog")
    /\ UNCHANGED <<alive, openMode, bob, cnt, sw, dst, woken>>

\* One turn of the loop of ess_write, under s->lock: a negative count is
\* put back to 0, and cnt is the room up to the end of the buffer, at most
\* the free room and what is left to write.  With room the copy starts at
\* swptr; without, start_dac, then -EAGAIN or a sleep on dma_dac.wait.
WLoop(f) ==
    /\ pc[f] = "w_loop"
    /\ LET b == IF db["dac"].count < 0
                THEN [db["dac"] EXCEPT !.count = 0, !.sw = db["dac"].hw]
                ELSE db["dac"]
           c == Min({DmaSize - b.sw, DmaSize - b.count, left[f]})
       IN IF c > 0
          THEN /\ db' = [db EXCEPT !["dac"] = b]
                  /\ pc' = [pc EXCEPT ![f] = "w_copy"]
                  /\ cnt' = [cnt EXCEPT ![f] = c]
                  /\ sw' = [sw EXCEPT ![f] = b.sw]
                  /\ dst' = [dst EXCEPT ![f] = b.buf]
                  /\ UNCHANGED apu
          ELSE /\ StartWith("dac", b)
                  /\ pc' = [pc EXCEPT ![f] = IF f \in NonBlock THEN "open" ELSE "w_sleep"]
                  /\ UNCHANGED <<cnt, sw, dst>>
    /\ left' = [left EXCEPT ![f] = IF pc'[f] = "open" THEN 0 ELSE @]
    /\ UNCHANGED <<alive, openMode, bob, woken>>

\* Mutant: the new swptr is not taken modulo dmasize.
WCopyNoWrap(f) ==
    /\ pc[f] = "w_copy"
    /\ StartWith("dac", [db["dac"] EXCEPT !.sw = sw[f] + cnt[f],
                                          !.count = @ + cnt[f], !.endcl = FALSE])
    /\ left' = [left EXCEPT ![f] = @ - cnt[f]]
    /\ pc' = [pc EXCEPT ![f] = IF left[f] = cnt[f] THEN "open" ELSE "w_loop"]
    /\ Done(f)
    /\ UNCHANGED <<alive, openMode, bob, woken>>

\* copy_from_user into rawbuf + swptr has run with no lock held; then,
\* under s->lock, swptr is set past the copy from the swptr read before
\* it, count grows by cnt and endcleared is cleared; then start_dac.
WCopy(f) ==
    /\ pc[f] = "w_copy"
    /\ StartWith("dac", [db["dac"] EXCEPT !.sw = (sw[f] + cnt[f]) % DmaSize,
                                          !.count = @ + cnt[f], !.endcl = FALSE])
    /\ left' = [left EXCEPT ![f] = @ - cnt[f]]
    /\ pc' = [pc EXCEPT ![f] = IF left[f] = cnt[f] THEN "open" ELSE "w_loop"]
    /\ Done(f)
    /\ UNCHANGED <<alive, openMode, bob, woken>>

\* The end of interruptible_sleep_on_timeout(&dma_dac.wait, HZ) in
\* ess_write: woken, the loop goes on; timed out, the playback is stopped
\* and count, hwptr and swptr are zeroed (set_dmaa is an empty stub); a
\* signal returns.
WSleep(f) ==
    /\ pc[f] = "w_sleep"
    /\ \/ /\ f \in woken
          /\ pc' = [pc EXCEPT ![f] = "w_loop"]
          /\ UNCHANGED <<db, apu>>
       \/ /\ f \notin woken
          /\ db' = [db EXCEPT !["dac"] = [@ EXCEPT !.en = FALSE, !.count = 0,
                                                   !.hw = 0, !.sw = 0]]
          /\ apu' = [apu EXCEPT !["dac"].run = FALSE]
          /\ pc' = [pc EXCEPT ![f] = "w_loop"]
       \/ /\ Signals
          /\ pc' = [pc EXCEPT ![f] = "open"]
          /\ UNCHANGED <<db, apu>>
    /\ left' = [left EXCEPT ![f] = IF pc'[f] = "open" THEN 0 ELSE @]
    /\ woken' = woken \ {f}
    /\ UNCHANGED <<alive, openMode, bob, cnt, sw, dst>>

-----------------------------------------------------------------------------
(* ess_read *)

\* ess_read of n units: prog_dmabuf when the record buffer is not ready.
ReadCall(f, n) ==
    /\ pc[f] = "open"
    /\ "R" \in ModeOf[f]
    /\ left' = [left EXCEPT ![f] = n]
    /\ IF db["adc"].ready
       THEN /\ pc' = [pc EXCEPT ![f] = "r_loop"]
            /\ UNCHANGED <<db, apu>>
       ELSE ProgDmabuf(f, "adc", "r_prog")
    /\ UNCHANGED <<alive, openMode, bob, cnt, sw, dst, woken>>

\* One turn of the loop of ess_read: cnt is the data up to the end of the
\* buffer, at most count and what is left to read; without data,
\* start_adc, then -EAGAIN or a sleep on dma_adc.wait.
RLoop(f) ==
    /\ pc[f] = "r_loop"
    /\ LET b == db["adc"]
           c == Min({DmaSize - b.sw, b.count, left[f]})
       IN IF c > 0
          THEN /\ pc' = [pc EXCEPT ![f] = "r_copy"]
                  /\ cnt' = [cnt EXCEPT ![f] = c]
                  /\ sw' = [sw EXCEPT ![f] = b.sw]
                  /\ dst' = [dst EXCEPT ![f] = b.buf]
                  /\ UNCHANGED <<db, apu>>
          ELSE /\ StartWith("adc", b)
                  /\ pc' = [pc EXCEPT ![f] = IF f \in NonBlock THEN "open" ELSE "r_sleep"]
                  /\ UNCHANGED <<cnt, sw, dst>>
    /\ left' = [left EXCEPT ![f] = IF pc'[f] = "open" THEN 0 ELSE @]
    /\ UNCHANGED <<alive, openMode, bob, woken>>

\* copy_to_user from rawbuf + swptr has run; under s->lock swptr moves past
\* it and count drops by cnt; then start_adc.
RCopy(f) ==
    /\ pc[f] = "r_copy"
    /\ StartWith("adc", [db["adc"] EXCEPT !.sw = (sw[f] + cnt[f]) % DmaSize,
                                          !.count = @ - cnt[f]])
    /\ left' = [left EXCEPT ![f] = @ - cnt[f]]
    /\ pc' = [pc EXCEPT ![f] = IF left[f] = cnt[f] THEN "open" ELSE "r_loop"]
    /\ Done(f)
    /\ UNCHANGED <<alive, openMode, bob, woken>>

\* The end of the sleep on dma_adc.wait in ess_read, as in ess_write.
RSleep(f) ==
    /\ pc[f] = "r_sleep"
    /\ \/ /\ f \in woken
          /\ pc' = [pc EXCEPT ![f] = "r_loop"]
          /\ UNCHANGED <<db, apu>>
       \/ /\ f \notin woken
          /\ db' = [db EXCEPT !["adc"] = [@ EXCEPT !.en = FALSE, !.count = 0,
                                                   !.hw = 0, !.sw = 0]]
          /\ apu' = [apu EXCEPT !["adc"].run = FALSE]
          /\ pc' = [pc EXCEPT ![f] = "r_loop"]
       \/ /\ Signals
          /\ pc' = [pc EXCEPT ![f] = "open"]
          /\ UNCHANGED <<db, apu>>
    /\ left' = [left EXCEPT ![f] = IF pc'[f] = "open" THEN 0 ELSE @]
    /\ woken' = woken \ {f}
    /\ UNCHANGED <<alive, openMode, bob, cnt, sw, dst>>

-----------------------------------------------------------------------------
(* ess_ioctl and ess_poll *)

\* SNDCTL_DSP_RESET: each direction of the file is stopped and its
\* swptr, hwptr and count zeroed (after synchronize_irq).
DspReset(f) ==
    /\ pc[f] = "open"
    /\ db' = [d \in DBs |-> IF Stops(ModeOf[f], d)
                           THEN [db[d] EXCEPT !.en = FALSE, !.sw = 0, !.hw = 0, !.count = 0]
                           ELSE db[d]]
    /\ apu' = [d \in DBs |-> [apu[d] EXCEPT !.run = @ /\ ~Stops(ModeOf[f], d)]]
    /\ UNCHANGED <<alive, openMode, bob, pc, left, cnt, sw, dst, woken>>

\* SNDCTL_DSP_SPEED (and likewise STEREO, CHANNELS, SETFMT): each direction
\* of the file is stopped and marked not ready, to be programmed again.
DspSpeed(f) ==
    /\ pc[f] = "open"
    /\ db' = [d \in DBs |-> IF Stops(ModeOf[f], d)
                           THEN [db[d] EXCEPT !.en = FALSE, !.ready = FALSE]
                           ELSE db[d]]
    /\ apu' = [d \in DBs |-> [apu[d] EXCEPT !.run = @ /\ ~Stops(ModeOf[f], d)]]
    /\ UNCHANGED <<alive, openMode, bob, pc, left, cnt, sw, dst, woken>>

\* SNDCTL_DSP_GETOSPACE (d = "dac") and GETISPACE (d = "adc"): when the
\* enable bit of d is clear, prog_dmabuf; then ess_update_ptr.
DspGetSpace(f, d) ==
    /\ pc[f] = "open"
    /\ Stops(ModeOf[f], d)
    /\ IF db[d].en
       THEN /\ Update
            /\ UNCHANGED pc
       ELSE /\ ProgDmabuf(f, d, IF d = "dac" THEN "os_prog" ELSE "is_prog")
            /\ UNCHANGED woken
    /\ UNCHANGED <<alive, openMode, bob, left, cnt, sw, dst>>

\* The ess_update_ptr of GETOSPACE / GETISPACE after prog_dmabuf.
SpaceUpdate(f) ==
    /\ pc[f] = "space"
    /\ Update
    /\ pc' = [pc EXCEPT ![f] = "open"]
    /\ UNCHANGED <<alive, openMode, bob, left, cnt, sw, dst>>

\* SNDCTL_DSP_SYNC: a writer drains the playback buffer (drain_dac) and
\* stays in the ioctl until count is down to 0; a non-blocking file, or a
\* buffer not ready or empty, returns at once, with nothing changed.
DspSync(f) ==
    /\ pc[f] = "open"
    /\ "W" \in ModeOf[f]
    /\ db["dac"].ready /\ db["dac"].count > 0 /\ f \notin NonBlock
    /\ pc' = [pc EXCEPT ![f] = "sync"]
    /\ UNCHANGED <<db, apu, alive, openMode, bob, left, cnt, sw, dst, woken>>

\* SNDCTL_DSP_GETBLKSIZE: prog_dmabuf of the playback buffer for a writer,
\* else of the record buffer, whatever state the buffer is in.
DspGetBlkSize(f) ==
    /\ pc[f] = "open"
    /\ IF "W" \in ModeOf[f]
       THEN ProgDmabuf(f, "dac", "bo_prog")
       ELSE ProgDmabuf(f, "adc", "bi_prog")
    /\ UNCHANGED <<alive, openMode, bob, left, cnt, sw, dst, woken>>

\* SNDCTL_DSP_GETODELAY and GETOPTR (d = "dac"), GETIPTR (d = "adc"): -EINVAL
\* unless the file has the direction; else ess_update_ptr under the lock.
\* The counts they return are not state.
DspGetPtr(f, d) ==
    /\ pc[f] = "open"
    /\ Stops(ModeOf[f], d)
    /\ Update
    /\ UNCHANGED <<alive, openMode, bob, pc, left, cnt, sw, dst>>

\* stop_dac / stop_adc of the buffer d: its enable bit and its APU's mode
\* bits are cleared.
StopOf(d) ==
    /\ db' = [db EXCEPT ![d].en = FALSE]
    /\ apu' = [apu EXCEPT ![d].run = FALSE]

\* Where the output half of SNDCTL_DSP_SETTRIGGER starts, if the file
\* writes, with PCM_ENABLE_OUTPUT set (out) or not.
TrigOut(f, out) == IF "W" \notin ModeOf[f] THEN "open" ELSE IF out THEN "tw1" ELSE "tw0"

\* The output half: a playback buffer not ready is programmed
\* (prog_dmabuf) before start_dac; output disabled stops the DAC.
OutHalf(f, out) ==
    IF out
    THEN IF db["dac"].ready
         THEN StartWith("dac", db["dac"]) /\ pc' = [pc EXCEPT ![f] = "open"]
         ELSE ProgDmabuf(f, "dac", "to_prog")
    ELSE StopOf("dac") /\ pc' = [pc EXCEPT ![f] = "open"]

\* SNDCTL_DSP_SETTRIGGER with PCM_ENABLE_INPUT (in) and PCM_ENABLE_OUTPUT
\* (out): for a reader, input enabled programs a buffer not ready
\* (prog_dmabuf, whose -ENOMEM ends the ioctl) and starts the ADC, input
\* disabled stops it; then the output half for a writer.
DspSetTrigger(f, in, out) ==
    /\ pc[f] = "open"
    /\ IF "R" \in ModeOf[f]
       THEN IF in
            THEN IF db["adc"].ready
                 THEN /\ StartWith("adc", db["adc"])
                      /\ pc' = [pc EXCEPT ![f] = TrigOut(f, out)]
                 ELSE ProgDmabuf(f, "adc", IF out THEN "ti1_prog" ELSE "ti0_prog")
            ELSE StopOf("adc") /\ pc' = [pc EXCEPT ![f] = TrigOut(f, out)]
       ELSE OutHalf(f, out)
    /\ UNCHANGED <<alive, openMode, bob, left, cnt, sw, dst, woken>>

\* The rest of SNDCTL_DSP_SETTRIGGER for a reader: start_adc after
\* prog_dmabuf; the output half; start_dac after prog_dmabuf.
TrigStep(f) ==
    /\ pc[f] \in TrigLabels
    /\ CASE pc[f] \in {"ti1_start", "ti0_start"} ->
              /\ StartWith("adc", db["adc"])
              /\ pc' = [pc EXCEPT ![f] = TrigOut(f, pc[f] = "ti1_start")]
         [] pc[f] \in {"tw1", "tw0"} -> OutHalf(f, pc[f] = "tw1")
         [] pc[f] = "to_start" ->
              StartWith("dac", db["dac"]) /\ pc' = [pc EXCEPT ![f] = "open"]
    /\ UNCHANGED <<alive, openMode, bob, left, cnt, sw, dst, woken>>

\* ess_poll: ess_update_ptr under the lock.
Poll(f) ==
    /\ pc[f] = "open"
    /\ Update
    /\ UNCHANGED <<alive, openMode, bob, pc, left, cnt, sw, dst>>

-----------------------------------------------------------------------------

\* The steps of a file's process other than ess_open and ess_release.
FileStep(f) ==
    \/ \E n \in 1..MaxXfer : WriteCall(f, n) \/ ReadCall(f, n)
    \/ ProgAlloc(f)
    \/ WLoop(f) \/ WCopy(f) \/ WSleep(f)
    \/ RLoop(f) \/ RCopy(f) \/ RSleep(f)
    \/ DspReset(f) \/ DspSpeed(f) \/ \E d \in DBs : DspGetSpace(f, d)
    \/ SpaceUpdate(f) \/ Poll(f)
    \/ DspSync(f) \/ DspGetBlkSize(f) \/ \E d \in DBs : DspGetPtr(f, d)
    \/ \E in \in {"R" \in ModeOf[f], FALSE}, out \in BOOLEAN : DspSetTrigger(f, in, out)
    \/ TrigStep(f)

Next ==
    \/ Interrupt
    \/ \E f \in Files :
          \/ Open(f) \/ OpenSignal(f) \/ Release(f) \/ DrainEnd(f) \/ DrainSignal(f)
          \/ FileStep(f)

Spec == Init /\ [][Next]_vars

-----------------------------------------------------------------------------
(* Properties *)

TypeOK ==
    /\ db \in [DBs -> Buf]
    /\ apu \in [DBs -> [run : BOOLEAN, pos : 0..(DmaSize - 1), base : Chunks \cup {NoChunk}]]
    /\ alive \subseteq Chunks \X DBs
    /\ openMode \subseteq {"R", "W"}
    /\ bob \in 0..Cardinality(Files)
    /\ pc \in [Files -> Labels]
    /\ left \in [Files -> 0..MaxXfer]
    /\ cnt \in [Files -> 0..DmaSize]
    /\ sw \in [Files -> 0..(DmaSize - 1)]
    /\ dst \in [Files -> Chunks \cup {NoChunk}]
    /\ woken \subseteq Files

\* The files between a successful ess_open and the end of their ess_release.
InUse(f) == pc[f] \notin {"closed", "o_wait"}

\* ess_open admits a file only when none of its modes is in open_mode, and
\* ess_release takes the file's modes out again: files in use never share
\* a mode, open_mode is the union of their modes, and bob_running counts
\* them (so bob runs exactly while a file is open).
OpenExclusive ==
    LET used == {f \in Files : InUse(f)}
    IN /\ \A f, g \in used : f # g => ModeOf[f] \cap ModeOf[g] = {}
       /\ openMode = UNION {ModeOf[f] : f \in used}
       /\ bob = Cardinality(used)

\* The APUs and the copies of ess_write / ess_read only touch live memory:
\* a running APU plays or records the allocation it was set up with, and
\* that half has not been freed by dealloc_dmabuf; a copy_from_user or
\* copy_to_user in progress targets a live half of its own direction.
\* Not checked by a passing run: it needs two files that split the modes,
\* and then TLC finds it violated (README, maestro.c:2851).
DmaOnLiveBuffers ==
    /\ \A d \in DBs : apu[d].run => <<apu[d].base, d>> \in alive
    /\ \A f \in Files : pc[f] = "w_copy" => <<dst[f], "dac">> \in alive
    /\ \A f \in Files : pc[f] = "r_copy" => <<dst[f], "adc">> \in alive

\* Every allocation of prog_dmabuf stays reachable until dealloc_dmabuf
\* frees it: each live half is the rawbuf of its buffer.  Not checked by a
\* passing run: two files that split the modes violate it (maestro.c:1644).
NoLeakedBuffer ==
    \A h \in alive : db[h[2]].buf = h[1]

\* Outside a copy of ess_write, the playback pointers agree: the data
\* queued run from hwptr for count units to swptr.
PlaybackPointersAgree ==
    (db["dac"].ready /\ \A f \in Files : pc[f] # "w_copy")
        => (db["dac"].hw + db["dac"].count) % DmaSize = db["dac"].sw

====
