---------------------------- MODULE MemblockSpec ----------------------------
(***************************************************************************)
(* What memblock promises: for every address, whether it is memory and     *)
(* with which attributes, and whether it is reserved.  Operations on a     *)
(* range change exactly that range, or nothing when the tables are full;   *)
(* an allocation reserves the highest free aligned range there is.         *)
(***************************************************************************)
EXTENDS Integers, FiniteSets, FiniteSetsExt

CONSTANTS
  AddrMax,     \* PHYS_ADDR_MAX: one above the largest address
  PageSize,
  Sizes,       \* sizes and alignments of requests
  Aligns,
  Bounds,      \* lower and upper bounds of allocations; 0 is no bound
  Flags,       \* the attributes set and cleared in ranges
  NoMem

VARIABLES
  mem,   \* the attributes of every address, or NoMem
  res    \* the reserved addresses

Addr == 0 .. AddrMax - 1

\* The addresses of a range, cut off at AddrMax.
Span(b, s) == {a \in Addr : b <= a /\ a < b + s}

SpecInit == mem = [a \in Addr |-> NoMem] /\ res = {}

SpecAdd(b, s) ==
  /\ mem' = [a \in Addr |-> IF a \in Span(b, s) /\ mem[a] = NoMem THEN {} ELSE mem[a]]
  /\ UNCHANGED res

SpecRemove(b, s) ==
  /\ mem' = [a \in Addr |-> IF a \in Span(b, s) THEN NoMem ELSE mem[a]]
  /\ UNCHANGED res

SpecReserve(b, s) == res' = res \union Span(b, s) /\ UNCHANGED mem

SpecFree(b, s) == res' = res \ Span(b, s) /\ UNCHANGED mem

\* Set the attribute f in a range, or clear it.
SpecMark(b, s, f, set) ==
  /\ mem' = [a \in Addr |-> IF a \in Span(b, s) /\ mem[a] # NoMem
                            THEN IF set THEN mem[a] \union {f} ELSE mem[a] \ {f}
                            ELSE mem[a]]
  /\ UNCHANGED res

\* Keep only a range, and memory that is not mapped.  What is reserved outside
\* goes below and above the range, each part unless the table is full.
SpecCap(b, s) ==
  /\ mem' = [a \in Addr |-> IF a \in Span(b, s) \/ (mem[a] # NoMem /\ "NOMAP" \in mem[a])
                            THEN mem[a] ELSE NoMem]
  /\ res' \in {res \ (low \union high) : low \in {{}, Span(0, b)},
                                         high \in {{}, Span(b + s, AddrMax)}}

\* Drop everything from an address on; either table may be too full for it.
SpecTruncate(top) ==
  \E m, r \in BOOLEAN :
    /\ mem' = [a \in Addr |-> IF m /\ a >= top THEN NoMem ELSE mem[a]]
    /\ res' = {a \in res : r => a < top}

Fits(b, s, align, lo, hi) ==
  /\ b % align = 0 /\ b >= lo /\ b + s <= hi
  /\ \A a \in b .. b + s - 1 : mem[a] = {} /\ a \notin res

\* The first page is never given out.
SpecAlloc(s, align, lo, hi) ==
  LET fit == {b \in Addr : Fits(b, s, align, Max({lo, PageSize}), IF hi = 0 THEN AddrMax ELSE hi)} IN
  fit # {} /\ SpecReserve(Max(fit), s)

SpecNext ==
  \/ \E b \in Addr, s \in Sizes :
       SpecAdd(b, s) \/ SpecRemove(b, s) \/ SpecReserve(b, s) \/ SpecFree(b, s) \/ SpecCap(b, s)
  \/ \E b \in Addr, s \in Sizes, f \in Flags, set \in BOOLEAN : SpecMark(b, s, f, set)
  \/ \E top \in Addr : SpecTruncate(top) \/ SpecCap(0, top)
  \/ \E s \in Sizes, align \in Aligns, lo, hi \in Bounds : SpecAlloc(s, align, lo, hi)

AbstractSpec == SpecInit /\ [][SpecNext]_<<mem, res>>
=============================================================================
