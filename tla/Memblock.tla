------------------------------ MODULE Memblock ------------------------------
(***************************************************************************)
(* The boot memory allocator (lib/memalloc/src/memblock.c): two bounded    *)
(* arrays of regions, sorted by address, for memory and for what is        *)
(* reserved.  An array is never empty: without regions it has one of size  *)
(* 0.  MemblockSpec says what the arrays mean.                             *)
(***************************************************************************)
EXTENDS Integers, Sequences, FiniteSets, SequencesExt, FiniteSetsExt

CONSTANTS
  AddrMax,     \* PHYS_ADDR_MAX
  PageSize,
  Sizes,       \* sizes and alignments of requests
  Aligns,
  MaxRegions,  \* INIT_MEMBLOCK_REGIONS
  Flags,       \* the attributes set and cleared in ranges
  Bounds,      \* lower and upper bounds of allocations
  NoMem

VARIABLES memory, reserved  \* regions and total_size

mbVars == <<memory, reserved>>

Addr == 0 .. AddrMax - 1

Region(b, s, f) == [base |-> b, size |-> s, flags |-> f]
End(r) == r.base + r.size
Dummy == <<Region(0, 0, {})>>

\* memblock_cap_size, and the end of the range.
CapEnd(b, s) == b + Min({s, AddrMax - b})

(***************************************************************************)
(* memblock_add_range: the parts of [b, e) that no region covers are       *)
(* inserted where they belong, then neighbours are merged.                 *)
(***************************************************************************)
Insert(acc, e, f) ==
  [base |-> e, n |-> acc.n + 1, out |-> Append(acc.out, Region(acc.base, e - acc.base, f))]

AddWalk(regions, b, e, f) ==
  LET Visit(acc, r) ==
        LET before == IF acc.base < e /\ r.base > acc.base /\ (r.base >= e \/ End(r) > acc.base)
                      THEN Insert(acc, Min({r.base, e}), f) ELSE acc
        IN [before EXCEPT !.out = Append(@, r),
                          !.base = IF r.base < e /\ End(r) > @ THEN Min({End(r), e}) ELSE @]
      walk == FoldLeft(Visit, [base |-> b, n |-> 0, out |-> <<>>], regions)
  IN IF walk.base < e THEN Insert(walk, e, f) ELSE walk

\* A merge that looks at the addresses only.
MergeAnyFlags(regions) ==
  LET Join(out, r) ==
        IF out # <<>> /\ End(out[Len(out)]) = r.base
        THEN [out EXCEPT ![Len(out)].size = @ + r.size]
        ELSE Append(out, r)
  IN FoldLeft(Join, <<>>, regions)

Merge(regions) ==
  LET Join(out, r) ==
        IF out # <<>> /\ End(out[Len(out)]) = r.base /\ out[Len(out)].flags = r.flags
        THEN [out EXCEPT ![Len(out)].size = @ + r.size]
        ELSE Append(out, r)
  IN FoldLeft(Join, <<>>, regions)

AddRange(t, b, s, f) ==
  LET e == CapEnd(b, s)
      walk == AddWalk(t.regions, b, e, f)
  IN IF e = b THEN [t |-> t, ok |-> TRUE]
     ELSE IF t.regions[1].size = 0
     THEN [t |-> [regions |-> <<Region(b, e - b, f)>>, total |-> e - b], ok |-> TRUE]
     ELSE IF walk.n = 0 THEN [t |-> t, ok |-> TRUE]
     ELSE IF Len(t.regions) + walk.n > MaxRegions THEN [t |-> t, ok |-> FALSE]
     ELSE LET added == MapThenSumSet(LAMBDA i : walk.out[i].size, DOMAIN walk.out)
                       - MapThenSumSet(LAMBDA i : t.regions[i].size, DOMAIN t.regions)
          IN [t |-> [regions |-> Merge(walk.out), total |-> t.total + added], ok |-> TRUE]

(***************************************************************************)
(* memblock_isolate_range: regions that cross an end of [b, e) are split.  *)
(***************************************************************************)
Split(r, b, e) ==
  LET Part(lo, hi) == IF lo < hi THEN <<Region(lo, hi - lo, r.flags)>> ELSE <<>>
  IN IF r.base >= e \/ End(r) <= b THEN <<r>>
     ELSE Part(r.base, b) \o Part(Max({r.base, b}), Min({End(r), e})) \o Part(e, End(r))

Isolate(t, b, e) ==
  LET regions == FoldLeft(LAMBDA out, r : out \o Split(r, b, e), <<>>, t.regions)
  IN [regions |-> regions,
      inside |-> {i \in DOMAIN regions : regions[i].base < e /\ End(regions[i]) > b}]

\* There must be room for two more regions before a range is isolated.
Full(t) == Len(t.regions) + 2 > MaxRegions

\* memblock_remove_region of every index in gone; the last one leaves the dummy.
RemoveRegions(t, regions, gone) ==
  LET kept == SelectSeq([i \in DOMAIN regions |-> [i |-> i, r |-> regions[i]]], LAMBDA x : x.i \notin gone)
      rest == [i \in DOMAIN kept |-> kept[i].r]
      total == t.total - MapThenSumSet(LAMBDA i : regions[i].size, gone)
  IN [regions |-> IF rest = <<>> THEN Dummy ELSE rest, total |-> total]

RemoveRange(t, b, s) ==
  LET e == CapEnd(b, s)
      iso == Isolate(t, b, e)
  IN IF e = b \/ Full(t) THEN t ELSE RemoveRegions(t, iso.regions, iso.inside)

FreeStart(ib) == IF ib = 1 THEN 0 ELSE End(reserved.regions[ib - 1])
FreeEnd(ib) == IF ib > Len(reserved.regions) THEN AddrMax ELSE reserved.regions[ib].base

RECURSIVE NextMemRange(_, _, _)
NextMemRange(f, ia, ib) ==
  IF ia > Len(memory.regions) THEN <<>>
  ELSE LET m == memory.regions[ia] IN
       IF m.flags # f \/ ib > Len(reserved.regions) + 1 THEN NextMemRange(f, ia + 1, ib)
       ELSE IF FreeStart(ib) >= End(m) THEN NextMemRange(f, ia + 1, ib)
       ELSE IF m.base >= FreeEnd(ib) THEN NextMemRange(f, ia, ib + 1)
       ELSE <<<<Max({m.base, FreeStart(ib)}), Min({End(m), FreeEnd(ib)})>>>>
            \o (IF End(m) <= FreeEnd(ib) THEN NextMemRange(f, ia + 1, ib) ELSE NextMemRange(f, ia, ib + 1))

RECURSIVE NextMemRangeRev(_, _, _)
NextMemRangeRev(f, ia, ib) ==
  IF ia < 1 THEN <<>>
  ELSE LET m == memory.regions[ia] IN
       IF m.flags # f \/ ib < 1 THEN NextMemRangeRev(f, ia - 1, ib)
       ELSE IF FreeEnd(ib) <= m.base THEN NextMemRangeRev(f, ia - 1, ib)
       ELSE IF End(m) <= FreeStart(ib) THEN NextMemRangeRev(f, ia, ib - 1)
       ELSE <<<<Max({m.base, FreeStart(ib)}), Min({End(m), FreeEnd(ib)})>>>>
            \o (IF m.base >= FreeStart(ib) THEN NextMemRangeRev(f, ia - 1, ib) ELSE NextMemRangeRev(f, ia, ib - 1))

FreeRanges(f) == NextMemRange(f, 1, 1)
FreeRangesReverse(f) == NextMemRangeRev(f, Len(memory.regions), Len(reserved.regions) + 1)

Clamp(x, lo, hi) == Max({lo, Min({x, hi})})
RoundDown(x, a) == x - (x % a)
RoundUp(x, a) == RoundDown(x + a - 1, a)

\* __memblock_find_range_bottom_up and _top_down: the first candidate, or 0.
FindBottomUp(start, end, size, align) ==
  LET cand(r) == RoundUp(Clamp(r[1], start, end), align)
      good == SelectSeq(FreeRanges({}), LAMBDA r :
                LET top == Clamp(r[2], start, end) IN cand(r) < top /\ top - cand(r) >= size)
  IN IF good = <<>> THEN 0 ELSE cand(good[1])

FindTopDown(start, end, size, align) ==
  LET cand(r) == RoundDown(Clamp(r[2], start, end) - size, align)
      good == SelectSeq(FreeRangesReverse({}), LAMBDA r :
                Clamp(r[2], start, end) >= size /\ cand(r) >= Clamp(r[1], start, end))
  IN IF good = <<>> THEN 0 ELSE cand(good[1])

\* __memblock_find_in_range; current_limit is AddrMax, end 0 asks for it.
FindInRange(size, align, lo, hi, bottomUp) ==
  LET start == Max({lo, PageSize})
      end == Max({start, IF hi = 0 THEN AddrMax ELSE hi})
      low == IF bottomUp THEN FindBottomUp(start, end, size, align) ELSE 0
  IN IF low # 0 THEN low ELSE FindTopDown(start, end, size, align)

\* memblock_search: the index of the region that has an address, or 0.
RECURSIVE SearchBetween(_, _, _, _)
SearchBetween(t, a, left, right) ==
  LET mid == (left + right) \div 2
      r == t.regions[mid + 1] IN
  IF a < r.base THEN IF left < mid THEN SearchBetween(t, a, left, mid) ELSE 0
  ELSE IF a >= End(r) THEN IF mid + 1 < right THEN SearchBetween(t, a, mid + 1, right) ELSE 0
  ELSE mid + 1

Search(t, a) == SearchBetween(t, a, 0, Len(t.regions))

IsRegionMemory(b, s) ==
  LET i == Search(memory, b) IN i # 0 /\ End(memory.regions[i]) >= CapEnd(b, s)

IsRegionReserved(b, s) ==
  \E i \in DOMAIN reserved.regions :
    b < End(reserved.regions[i]) /\ reserved.regions[i].base < CapEnd(b, s)

\* __find_max_addr: where memory of a given size ends; AddrMax if there is less.
RECURSIVE FindMaxAddr(_, _)
FindMaxAddr(i, limit) ==
  IF i > Len(memory.regions) THEN AddrMax
  ELSE IF limit <= memory.regions[i].size THEN memory.regions[i].base + limit
  ELSE FindMaxAddr(i + 1, limit - memory.regions[i].size)

(***************************************************************************)
(* The operations.                                                         *)
(***************************************************************************)
MbInit ==
  /\ memory = [regions |-> Dummy, total |-> 0]
  /\ reserved = [regions |-> Dummy, total |-> 0]

Set(m, r) == memory' = m /\ reserved' = r

MemAdd(b, s) == Set(AddRange(memory, b, s, {}).t, reserved)
MemRemove(b, s) == Set(RemoveRange(memory, b, s), reserved)
Reserve(b, s) == Set(memory, AddRange(reserved, b, s, {}).t)
Free(b, s) == Set(memory, RemoveRange(reserved, b, s))

\* memblock_setclr_flag, for the mark and clear functions.
Mark(b, s, f, set) ==
  LET e == CapEnd(b, s)
      iso == Isolate(memory, b, e)
      marked == [i \in DOMAIN iso.regions |->
                   IF i \notin iso.inside THEN iso.regions[i]
                   ELSE [iso.regions[i] EXCEPT !.flags = IF set THEN @ \union {f} ELSE @ \ {f}]]
  IN /\ e # b /\ ~Full(memory)
     /\ Set([memory EXCEPT !.regions = Merge(marked)], reserved)

\* memblock_cap_memory_range.
CapMemory(b, s) ==
  LET iso == Isolate(memory, b, CapEnd(b, s))
      gone == {i \in DOMAIN iso.regions \ iso.inside : "NOMAP" \notin iso.regions[i].flags}
  IN /\ s # 0 /\ ~Full(memory)
     /\ Set(RemoveRegions(memory, iso.regions, gone),
            RemoveRange(RemoveRange(reserved, 0, b), CapEnd(b, s), AddrMax))

\* memblock_mem_limit_remove_map and memblock_enforce_memory_limit.
MemLimitRemoveMap(limit) ==
  /\ limit # 0 /\ FindMaxAddr(1, limit) # AddrMax
  /\ CapMemory(0, FindMaxAddr(1, limit))

EnforceMemoryLimit(limit) ==
  LET top == FindMaxAddr(1, limit) IN
  /\ limit # 0 /\ top # AddrMax
  /\ Set(RemoveRange(memory, top, AddrMax), RemoveRange(reserved, top, AddrMax))

\* memblock_alloc_internal: a second search without the lower bound.
Alloc(size, align, lo, hi) ==
  LET first == FindInRange(size, align, lo, hi, FALSE)
      found == IF first = 0 /\ lo # 0 THEN FindInRange(size, align, 0, hi, FALSE) ELSE first
  IN found # 0 /\ Set(memory, AddRange(reserved, found, size, {}).t)

\* memblock_trim_memory, which nothing calls: what it makes of the memory.
Trimmed(align) ==
  LET start(r) == RoundUp(r.base, align)
      end(r) == RoundDown(End(r), align)
      cut == [i \in DOMAIN memory.regions |-> LET r == memory.regions[i] IN
                IF start(r) < end(r) THEN Region(start(r), end(r) - start(r), r.flags) ELSE r]
      gone == {i \in DOMAIN cut : start(cut[i]) >= end(cut[i]) /\ cut[i].size # 0}
  IN RemoveRegions(memory, cut, gone)

MbNext ==
  \/ \E b \in Addr, s \in Sizes :
       MemAdd(b, s) \/ MemRemove(b, s) \/ Reserve(b, s) \/ Free(b, s) \/ CapMemory(b, s)
  \/ \E b \in Addr, s \in Sizes, f \in Flags, set \in BOOLEAN : Mark(b, s, f, set)
  \/ \E limit \in Sizes : MemLimitRemoveMap(limit) \/ EnforceMemoryLimit(limit)
  \/ \E size \in Sizes, align \in Aligns, lo, hi \in Bounds : Alloc(size, align, lo, hi)

MbSpec == MbInit /\ [][MbNext]_mbVars

(***************************************************************************)
(* Properties.                                                             *)
(***************************************************************************)
Covers(t, a) == {i \in DOMAIN t.regions : t.regions[i].base <= a /\ a < End(t.regions[i])}

MemMap == [a \in Addr |-> LET i == Covers(memory, a) IN
                          IF i = {} THEN NoMem ELSE memory.regions[Min(i)].flags]
ResSet == {a \in Addr : Covers(reserved, a) # {}}

Abstract == INSTANCE MemblockSpec WITH mem <- MemMap, res <- ResSet

\* Every operation on the arrays changes the set of addresses it means the way
\* memblock's interface says, and a full array changes nothing.
Refines == Abstract!AbstractSpec

\* Types: the arrays stay within their size.
MbTypeOK ==
  \A t \in {memory, reserved} :
    /\ Len(t.regions) \in 1 .. MaxRegions /\ t.total \in Nat
    /\ \A i \in DOMAIN t.regions : End(t.regions[i]) <= AddrMax

\* The regions are sorted and disjoint and none is empty but the dummy: the
\* BUG_ON of memblock_merge_regions, and what the binary search relies on.
Sorted ==
  \A t \in {memory, reserved} :
    /\ t.regions = Dummy \/ \A i \in DOMAIN t.regions : t.regions[i].size > 0
    /\ \A i \in 1 .. Len(t.regions) - 1 : End(t.regions[i]) <= t.regions[i + 1].base

\* total_size is what the regions add up to.
TotalExact ==
  \A t \in {memory, reserved} :
    t.total = MapThenSumSet(LAMBDA i : t.regions[i].size, DOMAIN t.regions)

\* The walks over free memory return exactly the free addresses with the given
\* attributes, in order, upwards and downwards alike.
FreeWalk ==
  \A f \in {{}} \union {{x} : x \in Flags} :
    LET up == FreeRanges(f) IN
    /\ UNION {r[1] .. r[2] - 1 : r \in Range(up)} = {a \in Addr : MemMap[a] = f /\ a \notin ResSet}
    /\ \A i \in 1 .. Len(up) - 1 : up[i][1] < up[i][2] /\ up[i][2] <= up[i + 1][1]
    /\ FreeRangesReverse(f) = Reverse(up)

\* An address is found when there is one, free, aligned, within the bounds and
\* above the first page: the highest, or bottom up the lowest in its range.
FindRight ==
  \A size \in Sizes, align \in Aligns, lo, hi \in Bounds, up \in BOOLEAN :
    LET b == FindInRange(size, align, lo, hi, up)
        fit == {x \in Addr : Abstract!Fits(x, size, align, Max({lo, PageSize}),
                                           IF hi = 0 THEN AddrMax ELSE hi)}
    IN b = IF fit = {} THEN 0 ELSE IF up THEN Min(fit) ELSE Max(fit)

\* The binary search finds the region of an address when there is one, and the
\* questions about ranges are answered from the same sets.
SearchRight ==
  /\ \A t \in {memory, reserved}, a \in Addr :
       Search(t, a) = IF Covers(t, a) = {} THEN 0 ELSE Min(Covers(t, a))
  /\ \A b \in Addr, s \in Sizes :
       /\ IsRegionReserved(b, s) = (\E a \in b .. CapEnd(b, s) - 1 : a \in ResSet)
       /\ IsRegionMemory(b, s) => \A a \in b .. CapEnd(b, s) - 1 : MemMap[a] # NoMem

\* Trimming keeps the addresses of the aligned blocks that lie in one region.
TrimRight ==
  \A align \in Aligns, a \in Addr :
    Covers(Trimmed(align), a) # {} <=>
      \E i \in DOMAIN memory.regions : /\ memory.regions[i].base <= RoundDown(a, align)
                                       /\ RoundDown(a, align) + align <= End(memory.regions[i])

=============================================================================
