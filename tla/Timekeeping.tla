---------------------------- MODULE Timekeeping ----------------------------
(***************************************************************************)
(* Reading the time: the timekeeper (core/time/timekeeping.c) behind its   *)
(* seqcount (seqlock.h), sched_clock() behind its latch (sched_clock.c),   *)
(* and the clocksources (clocksource.c).                                   *)
(*                                                                         *)
(* Readers take no lock.  A writer is inside for several stores, so a      *)
(* reader meets every mixture of old and new fields: a load or a store is  *)
(* a step.  The hardware counter wraps at Modulus; `cycles` is what it     *)
(* would show if it did not, and tells what time it is.                    *)
(***************************************************************************)
EXTENDS Integers, Sequences, FiniteSets
LOCAL INSTANCE SequencesExt
LOCAL INSTANCE FiniteSetsExt

CONSTANTS
  TimeReaders,  \* CPUs that read the time
  NsecPerSec,   \* NSEC_PER_SEC
  Modulus,      \* the counter's mask + 1
  Mult, Shift,  \* a cycle is Mult / 2^Shift nanoseconds
  FirstCycle,   \* the counter when the timekeeper is set up
  MaxCycles,    \* bound on the cycles that pass
  TimesOfDay,   \* given to do_settimeofday64, in nanoseconds
  MaxUpdates    \* bound on the updates

ASSUME TimekeepingAssumption ==
  /\ NsecPerSec \in Nat \ {0} /\ Modulus \in Nat \ {0} /\ Mult \in Nat \ {0} /\ Shift \in Nat
  /\ FirstCycle \in Nat /\ MaxCycles \in Nat /\ MaxUpdates \in Nat

VARIABLES
  cycles,   \* the cycles counted
  tk,       \* tk_core; at: the cycles when cycle_last was read
  writer,   \* what the holder of timekeeper_lock still has to do, and its locals
  asked,    \* a call of ktime_get and the like; from: the cycles when it began
            \* (a coarse read: at the update before)
  updates   \* updates made

tkVars == <<cycles, tk, writer, asked, updates>>

counter == cycles % Modulus
Second == NsecPerSec * 2^Shift
clocksource_delta(now, last) == (now - last) % Modulus

\* Nanoseconds from the set-up of the timekeeper to cycle c.
TimeAt(c) == ((c - FirstCycle) * Mult) \div 2^Shift

\* timekeeping_get_ns on top of the seconds: the time the fields give when the
\* counter shows now.
TimeOf(f, now) ==
  f.sec * NsecPerSec + (clocksource_delta(now, f.last) * Mult + f.nsec) \div 2^Shift

\* tk_xtime: the time of the last update.
CoarseOf(f) == f.sec * NsecPerSec + f.nsec \div 2^Shift

----------------------------------------------------------------------------
(* The writers, store by store, with timekeeper_lock held                   *)

NoWriter == [todo |-> <<>>, now |-> 0, at |-> 0, ts |-> 0]

timekeeping_forward_now == <<"clock", "last", "nsec", "normalize">>
update_wall_time == <<"begin">> \o timekeeping_forward_now \o <<"end">>
do_settimeofday64 == <<"begin">> \o timekeeping_forward_now \o <<"end", "get", "offs">>

\* A tick of tick_do_timer_cpu, or a new time of day, takes the lock.
LockTimekeeper ==
  /\ writer.todo = <<>> /\ updates < MaxUpdates /\ updates' = updates + 1
  /\ \/ writer' = [NoWriter EXCEPT !.todo = update_wall_time]
     \/ \E ts \in TimesOfDay : writer' = [NoWriter EXCEPT !.todo = do_settimeofday64, !.ts = ts]
  /\ UNCHANGED <<cycles, tk, asked>>

Doing(s) == writer.todo # <<>> /\ Head(writer.todo) = s
Did(w) == writer' = IF Len(w.todo) = 1 THEN NoWriter ELSE [w EXCEPT !.todo = Tail(@)]

write_seqcount_begin == Doing("begin") /\ tk' = [tk EXCEPT !.seq = @ + 1] /\ Did(writer)
write_seqcount_end == Doing("end") /\ tk' = [tk EXCEPT !.seq = @ + 1] /\ Did(writer)

\* tk_clock_read; then now becomes the delta, cycle_last being overwritten.
ForwardClock == Doing("clock") /\ Did([writer EXCEPT !.now = counter, !.at = cycles]) /\ UNCHANGED tk
ForwardLast ==
  /\ Doing("last") /\ tk' = [tk EXCEPT !.last = writer.now, !.at = writer.at]
  /\ Did([writer EXCEPT !.now = clocksource_delta(@, tk.last)])
ForwardNsec == Doing("nsec") /\ tk' = [tk EXCEPT !.nsec = @ + writer.now * Mult] /\ Did(writer)

\* The loop of tk_normalize_xtime: two stores a turn.
tk_normalize_xtime ==
  \/ /\ Doing("normalize") /\ tk.nsec >= Second
     /\ tk' = [tk EXCEPT !.nsec = @ - Second] /\ writer' = [writer EXCEPT !.todo = <<"sec">> \o @]
  \/ Doing("sec") /\ tk' = [tk EXCEPT !.sec = @ + 1] /\ Did(writer)
  \/ Doing("normalize") /\ tk.nsec < Second /\ Did(writer) /\ UNCHANGED tk

\* After write_seqcount_end.  The lock keeps other writers out, so this ktime_get
\* does not retry; readers see the old offset until the new one is stored.
tk_set_xtime ==
  \/ Doing("get") /\ Did([writer EXCEPT !.now = TimeOf(tk, counter), !.at = cycles]) /\ UNCHANGED tk
  \/ /\ Doing("offs")
     /\ tk' = [tk EXCEPT !.offs = writer.ts - writer.now, !.set = [ts |-> writer.ts, at |-> writer.at]]
     /\ Did(writer)

WriterStep ==
  /\ \/ write_seqcount_begin \/ write_seqcount_end \/ ForwardClock \/ ForwardLast \/ ForwardNsec
     \/ tk_normalize_xtime \/ tk_set_xtime
  /\ UNCHANGED <<cycles, asked, updates>>

----------------------------------------------------------------------------
(* The readers, load by load.  A read section is "begin" ... "retry"; frames *)
(* holds the sections open: the count they began with, and where to go back.*)

Sections(f) ==
  CASE f = "ktime_get" -> <<"begin", "sec", "clock", "last", "nsec", "retry">>
    [] f = "ktime_get_real" -> <<"begin", "sec", "clock", "last", "nsec", "offs", "retry">>
    [] f = "ktime_get_coarse" -> <<"begin", "sec", "nsec", "retry">>
    [] f = "ktime_get_coarse_real" -> <<"begin", "sec", "nsec", "offs", "retry">>
    [] f = "ktime_get_update_offsets_now" ->
         <<"begin", "begin", "sec", "clock", "last", "nsec", "retry", "offs", "retry">>

TimeCalls == {"ktime_get", "ktime_get_real", "ktime_get_coarse", "ktime_get_coarse_real",
              "ktime_get_update_offsets_now"}

NoFields == [sec |-> 0, now |-> 0, last |-> 0, nsec |-> 0, offs |-> 0]
NoCall == [f |-> "none", todo |-> <<>>, frames |-> <<>>, rd |-> NoFields, from |-> 0]

AskTime(r) ==
  /\ asked[r].todo = <<>>
  /\ \E f \in TimeCalls :
       asked' = [asked EXCEPT ![r] = [NoCall EXCEPT !.f = f, !.todo = Sections(f),
                                     !.from = IF f = "ktime_get_coarse" THEN tk.at ELSE cycles]]
  /\ UNCHANGED <<cycles, tk, writer, updates>>

Reading(r, s) == asked[r].todo # <<>> /\ Head(asked[r].todo) = s

\* Waits for an even count.
read_seqcount_begin(r) ==
  /\ Reading(r, "begin") /\ tk.seq % 2 = 0
  /\ asked' = [asked EXCEPT ![r].frames = <<[seq |-> tk.seq, back |-> asked[r].todo]>> \o @,
                            ![r].todo = Tail(@), ![r].rd = NoFields]

\* A mutant: the count is not compared.
RetryNever(r) ==
  /\ Reading(r, "retry")
  /\ asked' = [asked EXCEPT ![r] =
       IF Len(@.todo) = 1 THEN NoCall ELSE [@ EXCEPT !.frames = Tail(@), !.todo = Tail(@)]]

\* Another count: the section starts again.  The end of the last section is the
\* end of the call.
read_seqcount_retry(r) ==
  /\ Reading(r, "retry")
  /\ LET frame == Head(asked[r].frames) IN
     asked' = [asked EXCEPT ![r] =
       IF tk.seq # frame.seq THEN [@ EXCEPT !.frames = Tail(@), !.todo = frame.back, !.rd = NoFields]
       ELSE IF Len(@.todo) = 1 THEN NoCall ELSE [@ EXCEPT !.frames = Tail(@), !.todo = Tail(@)]]

LoadField(r) ==
  /\ asked[r].todo # <<>>
  /\ LET s == Head(asked[r].todo) IN
     /\ s \in {"sec", "clock", "last", "nsec", "offs"}
     /\ asked' = [asked EXCEPT ![r].todo = Tail(@),
                    ![r].rd = IF s = "clock" THEN [@ EXCEPT !.now = counter] ELSE [@ EXCEPT ![s] = tk[s]]]

ReaderStep(r) ==
  /\ read_seqcount_begin(r) \/ read_seqcount_retry(r) \/ LoadField(r)
  /\ UNCHANGED <<cycles, tk, writer, updates>>

\* ktime_get_ts64 and ktime_get_real_ts64 differ in the form of the result.
ResultOf(c) ==
  CASE c.f \in {"ktime_get", "ktime_get_update_offsets_now"} -> TimeOf(c.rd, c.rd.now)
    [] c.f = "ktime_get_real" -> TimeOf(c.rd, c.rd.now) + c.rd.offs
    [] c.f = "ktime_get_coarse" -> CoarseOf(c.rd)
    [] c.f = "ktime_get_coarse_real" -> CoarseOf(c.rd) + c.rd.offs

----------------------------------------------------------------------------
\* The counter runs on, never a whole round ahead of cycle_last: the tick comes
\* more often than the counter wraps (max_idle_ns, 50% margin).
Count ==
  /\ cycles < FirstCycle + MaxCycles /\ cycles + 1 - tk.at < Modulus
  /\ cycles' = cycles + 1
  /\ UNCHANGED <<tk, writer, asked, updates>>

\* timekeeping_init with no persistent clock: tk_setup_internals, then the offset
\* that makes the time of day 0.
TkInit ==
  /\ \E late \in 0..1 :
       /\ cycles = FirstCycle + late
       /\ tk = [seq |-> 2, last |-> FirstCycle % Modulus, at |-> FirstCycle, nsec |-> 0, sec |-> 0,
                offs |-> -TimeAt(cycles), set |-> [ts |-> 0, at |-> cycles]]
  /\ writer = NoWriter /\ asked = [r \in TimeReaders |-> NoCall] /\ updates = 0

TkNext == LockTimekeeper \/ WriterStep \/ Count \/ \E r \in TimeReaders : AskTime(r) \/ ReaderStep(r)

TkSpec == TkInit /\ [][TkNext]_tkVars

Returning(r, fs) == asked[r].f \in fs /\ asked'[r] = NoCall

\* Whatever updates a call overlaps, ktime_get returns the time of a moment
\* between its call and its return: it is never torn, never late, and two calls
\* one after the other, on any CPUs, never go backwards.
MonotonicReads(r) ==
  Returning(r, {"ktime_get", "ktime_get_update_offsets_now"}) =>
    ResultOf(asked[r]) \in TimeAt(asked[r].from)..TimeAt(cycles)

\* The coarse time is the time of an update no older than the last one before the
\* call.
CoarseReads(r) ==
  Returning(r, {"ktime_get_coarse"}) =>
    \E c \in asked[r].from..tk.at : ResultOf(asked[r]) = TimeAt(c)

\* A read of the time of day adds the offset to a time of its own call.
RealReads(r) ==
  Returning(r, {"ktime_get_real"}) =>
    ResultOf(asked[r]) - asked[r].rd.offs \in TimeAt(asked[r].from)..TimeAt(cycles)

TimeRead == \A r \in TimeReaders : MonotonicReads(r) /\ CoarseReads(r) /\ RealReads(r)

\* The offset is the time of day that was set less the time at which
\* do_settimeofday64 read the clock, though it reads it after its update.
OffsetRight == tk.offs = tk.set.ts - TimeAt(tk.set.at)

----------------------------------------------------------------------------
(* sched_clock(): two copies of the data, the count's last bit says which    *)
(* one to read.  Updates are made by one CPU, with its interrupts off.       *)

VARIABLES
  cd,      \* clock_data; at, since: the cycles when the counter was registered,
           \* and at the epoch that is published
  latch,   \* the update in progress: the new data, and the stores to come
  calls    \* calls of sched_clock

latchVars == <<cycles, cd, latch, calls, updates>>

cyc_to_ns(cyc, mult) == (cyc * mult) \div 2^Shift

\* read_sched_clock: jiffies stands still until the ticks have begun.
ReadBy(fn) == IF fn = "jiffies" THEN 0 ELSE counter

\* sched_clock's result: bits = 0 is a mask of 0.
ClockOf(rd, now) ==
  rd.ns + cyc_to_ns(IF rd.bits = 0 THEN 0 ELSE (now - rd.cyc) % Modulus, rd.mult)

\* The structure assignments of update_clock_read_data, a field at a time.
Stores(copy) == <<[copy |-> copy, field |-> "ns"], [copy |-> copy, field |-> "cyc"],
                  [copy |-> copy, field |-> "bits"], [copy |-> copy, field |-> "fn"],
                  [copy |-> copy, field |-> "mult"]>>
Latched == [copy |-> 2, field |-> "seq"]
update_clock_read_data == Stores(1) \o <<Latched>> \o Stores(0) \o <<Latched>>

NoLatch == [todo |-> <<>>, at |-> 0, rd |-> [ns |-> 0, cyc |-> 0, bits |-> 0, fn |-> "jiffies", mult |-> 0]]

LatchStep ==
  /\ latch.todo # <<>>
  /\ LET st == Head(latch.todo) IN
     cd' = IF st = Latched THEN [cd EXCEPT !.seq = @ + 1, !.since = latch.at]
           ELSE [cd EXCEPT !.copy[st.copy][st.field] = latch.rd[st.field]]
  /\ latch' = IF Len(latch.todo) = 1 THEN NoLatch ELSE [latch EXCEPT !.todo = Tail(@)]
  /\ UNCHANGED <<cycles, calls, updates>>

\* sched_clock_poll's update_sched_clock; the first one is
\* generic_sched_clock_init's, which comes after the registration.
update_sched_clock ==
  /\ latch.todo = <<>> /\ cd.actual = "counter" /\ updates < MaxUpdates /\ updates' = updates + 1
  /\ latch' = [todo |-> update_clock_read_data, at |-> cycles,
               rd |-> [cd.copy[0] EXCEPT !.ns = ClockOf(cd.copy[0], ReadBy(cd.actual)),
                                         !.cyc = ReadBy(cd.actual)]]
  /\ UNCHANGED <<cycles, cd, calls>>

ClockLoads == <<"seq", "fn", "cyc", "bits", "ns", "mult", "retry">>
NotAsked == [todo |-> <<>>, seq |-> 0, rd |-> NoLatch.rd, now |-> 0, from |-> 0]

\* The counter takes over from jiffies at boot: one CPU, its interrupts off, so
\* nobody reads.  (A slower clock than the one in use would be ignored.)
sched_clock_register ==
  /\ latch.todo = <<>> /\ cd.actual = "jiffies" /\ \A r \in TimeReaders : calls[r] = NotAsked
  /\ LET rd == [ns |-> ClockOf(cd.copy[0], ReadBy(cd.actual)), cyc |-> counter, bits |-> 1,
                fn |-> "counter", mult |-> Mult]
     IN cd' = [seq |-> cd.seq + 2, copy |-> [i \in 0..1 |-> rd], actual |-> "counter",
               at |-> cycles, since |-> cycles]
  /\ UNCHANGED <<cycles, latch, calls, updates>>

AskClock(r) ==
  /\ calls[r].todo = <<>>
  /\ calls' = [calls EXCEPT ![r] = [NotAsked EXCEPT !.todo = ClockLoads, !.from = cycles]]
  /\ UNCHANGED <<cycles, cd, latch, updates>>

sched_clock(r) ==
  /\ calls[r].todo # <<>>
  /\ LET c == calls[r]
         s == Head(c.todo)
         next == [c EXCEPT !.todo = Tail(@)]
         copy == cd.copy[c.seq % 2]
     IN calls' = [calls EXCEPT ![r] =
          CASE s = "seq" -> [next EXCEPT !.seq = cd.seq]
            [] s = "fn" -> [next EXCEPT !.now = ReadBy(copy.fn)]
            [] s \in {"cyc", "bits", "ns", "mult"} -> [next EXCEPT !.rd[s] = copy[s]]
            [] s = "retry" /\ cd.seq # c.seq ->
                 [NotAsked EXCEPT !.todo = ClockLoads, !.from = c.from]
            [] OTHER -> NotAsked]
  /\ UNCHANGED <<cycles, cd, latch, updates>>

\* wrap_kt is half of what the counter can cover, so the poll comes in time.
LatchCount ==
  /\ cycles < FirstCycle + MaxCycles /\ (cd.actual = "counter" => cycles + 1 - cd.since < Modulus)
  /\ cycles' = cycles + 1
  /\ UNCHANGED <<cd, latch, calls, updates>>

LatchInit ==
  /\ cycles = FirstCycle
  /\ cd = [seq |-> 0, copy |-> [i \in 0..1 |-> NoLatch.rd], actual |-> "jiffies", at |-> 0, since |-> 0]
  /\ latch = NoLatch /\ calls = [r \in TimeReaders |-> NotAsked] /\ updates = 0

LatchNext ==
  \/ LatchStep \/ update_sched_clock \/ sched_clock_register \/ LatchCount
  \/ \E r \in TimeReaders : AskClock(r) \/ sched_clock(r)

\* The time since the counter was registered.
ClockAt(c) == IF cd.actual = "jiffies" THEN 0 ELSE ((c - cd.at) * Mult) \div 2^Shift

\* "sched_clock() will never observe mis-matched data": what it returns is the time
\* of a moment of the call, less at most a nanosecond for each update so far,
\* which rounds its epoch down (so a call can come out 1 ns before the last one).
ClockRead ==
  \A r \in TimeReaders : LET c == calls[r] IN
    c.todo # <<>> /\ calls'[r] = NotAsked =>
      /\ ClockOf(c.rd, c.now) <= ClockAt(cycles)
      /\ ClockOf(c.rd, c.now) >= ClockAt(c.from) - updates

LatchSpec == LatchInit /\ [][LatchNext]_latchVars

----------------------------------------------------------------------------
(* clocksource.c: the factors that make nanoseconds of cycles, and the list  *)
(* of clocksources, best rating first.                                       *)

CONSTANTS
  Width,      \* the bits of a u32; a u64 has twice as many
  CounterMasks, \* the counters' masks
  Freqs,      \* their frequencies
  LongSleep,  \* the 600 seconds of __clocksource_update_freq_scale
  Sources,    \* the clocksources
  HresOnes,   \* those with CLOCK_SOURCE_IS_CONTINUOUS
  Ratings,
  NoSource    \* NULL

\* The best shift whose factor leaves room for maxsec seconds.  The loop leaves
\* the factor of shift 1 when none does.
clocks_calc_mult_shift(from, to, maxsec) ==
  LET sftacc == Width - Min({b \in 0..Width : (maxsec * from) \div 2^Width < 2^b})
      factor(sft) == ((to * 2^sft + from \div 2) % 2^(2 * Width)) \div from
      fits == {sft \in 1..Width : factor(sft) \div 2^sftacc = 0}
  IN IF fits = {} THEN [mult |-> factor(1) % 2^Width, shift |-> 0]
     ELSE [mult |-> factor(Max(fits)) % 2^Width, shift |-> Max(fits)]

clocksource_max_adjustment(mult) == (mult * 11) \div 100

clocks_calc_max_cycles(mult, maxadj, mask) ==
  Min({(2^(2 * Width) - 1) \div ((mult + maxadj) % 2^Width), mask})

clocks_calc_max_nsecs(mult, shift, maxadj, mask) ==
  (((clocks_calc_max_cycles(mult, maxadj, mask) * (mult - maxadj)) % 2^(2 * Width)) \div 2^shift) \div 2

\* The seconds the counter covers, at most LongSleep for a wide one.
SecondsCovered(mask, freq) ==
  IF mask \div freq = 0 THEN 1
  ELSE IF mask \div freq > LongSleep /\ mask >= 2^Width THEN LongSleep ELSE mask \div freq

\* __clocksource_update_freq_scale with scale 1: mult is halved until an
\* adjustment by 11% does not overflow.
__clocksource_update_freq_scale(mask, freq) ==
  LET f == clocks_calc_mult_shift(freq, NsecPerSec, SecondsCovered(mask, freq))
      k == Min({h \in 0..Width :
                  f.mult \div 2^h + clocksource_max_adjustment(f.mult \div 2^h) < 2^Width})
  IN [mult |-> f.mult \div 2^k, shift |-> f.shift - k,
      maxadj |-> clocksource_max_adjustment(f.mult \div 2^k)]

VARIABLES
  cs,     \* the clocksources: list, rating, curr_clocksource
  oneshot \* tick_oneshot_mode_active()

sourceVars == <<cs, oneshot>>

clocksource_enqueue(list, rating, c) ==
  LET higher == SelectSeq(list, LAMBDA t : rating[t] >= rating[c])
  IN higher \o <<c>> \o SubSeq(list, Len(higher) + 1, Len(list))

\* clocksource_find_best; the loop for an override then comes to the same source.
__clocksource_select(list, curr, skipcur) ==
  LET able == SelectSeq(list, LAMBDA t : (skipcur => t # curr) /\ (oneshot => t \in HresOnes))
  IN IF able = <<>> THEN curr ELSE Head(able)

__clocksource_register_scale(c) ==
  /\ c \notin ToSet(cs.list)
  /\ \E r \in Ratings :
       LET rating == [cs.rating EXCEPT ![c] = r]
           list == clocksource_enqueue(cs.list, rating, c)
       IN cs' = [list |-> list, rating |-> rating, curr |-> __clocksource_select(list, cs.curr, FALSE)]
  /\ UNCHANGED oneshot

clocksource_change_rating(c) ==
  /\ c \in ToSet(cs.list)
  /\ \E r \in Ratings :
       LET rating == [cs.rating EXCEPT ![c] = r]
           list == clocksource_enqueue(SelectSeq(cs.list, LAMBDA t : t # c), rating, c)
       IN cs' = [list |-> list, rating |-> rating, curr |-> __clocksource_select(list, cs.curr, FALSE)]
  /\ UNCHANGED oneshot

\* -EBUSY when nothing can replace the one in use.
clocksource_unregister(c) ==
  /\ c \in ToSet(cs.list)
  /\ LET curr == IF c = cs.curr THEN __clocksource_select(cs.list, cs.curr, TRUE) ELSE cs.curr
     IN IF curr = c THEN UNCHANGED cs
        ELSE cs' = [cs EXCEPT !.curr = curr, !.list = SelectSeq(@, LAMBDA t : t # c)]
  /\ UNCHANGED oneshot

\* hrtimers_prepare_cpu: tick_init_highres, whatever the clocksource can
\* do; time_init has registered one.
tick_init_highres == ~oneshot /\ cs.list # <<>> /\ oneshot' = TRUE /\ UNCHANGED cs

SourcesInit ==
  /\ cs = [list |-> <<>>, rating |-> [c \in Sources |-> 0], curr |-> NoSource]
  /\ oneshot = FALSE

SourcesNext ==
  \/ tick_init_highres
  \/ \E c \in Sources :
       \/ __clocksource_register_scale(c) \/ clocksource_change_rating(c) \/ clocksource_unregister(c)

\* The clocksource in use is registered, and the best one that will do: of the
\* highest rating and, among equals, the first to come.  In oneshot mode one that
\* cannot do it is in use only if it was before or nothing else is there.
BestInUse ==
  LET hres == SelectSeq(cs.list, LAMBDA t : t \in HresOnes) IN
  /\ \A i \in 2..Len(cs.list) : cs.rating[cs.list[i - 1]] >= cs.rating[cs.list[i]]
  /\ cs.list # <<>> => cs.curr \in ToSet(cs.list)
  /\ ~oneshot /\ cs.list # <<>> => cs.curr = Head(cs.list)
  /\ oneshot /\ cs.curr \in HresOnes => cs.curr = Head(hres)

\* When some shift fits: mult / 2^shift is the period of the counter to half a
\* unit of mult, what maxsec seconds count can be multiplied in a u64, and so can
\* max_cycles, even after an adjustment.  clocks_calc_max_nsecs is at most half
\* of the time it stands for.
FactorsRight ==
  \A mask \in CounterMasks, freq \in Freqs :
    LET sec == SecondsCovered(mask, freq)
        f == clocks_calc_mult_shift(freq, NsecPerSec, sec)
        g == __clocksource_update_freq_scale(mask, freq)
        most == clocks_calc_max_cycles(g.mult, g.maxadj, mask)
        ns == clocks_calc_max_nsecs(g.mult, g.shift, g.maxadj, mask)
    IN f.shift > 0 /\ g.mult > 0 /\ g.shift >= 0 =>
         /\ f.mult * freq - NsecPerSec * 2^f.shift \in -(freq \div 2)..(freq \div 2)
         /\ sec * freq * f.mult < 2^(2 * Width)
         /\ g.mult + g.maxadj < 2^Width
         /\ most * (g.mult + g.maxadj) < 2^(2 * Width)
         /\ 2 * ns * 2^g.shift <= most * g.mult
=============================================================================
