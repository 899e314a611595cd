------------------------------- MODULE Bitmap -------------------------------
(***************************************************************************)
(* The bitmap library (lib/base: bitmap.c, bitmap.h, find_bit.c, the bit   *)
(* operations) and the cpumasks built on it.  A bitmap of NBits bits is an *)
(* array of words of W bits.  A word is the set of its one bits, so masks, *)
(* shifts and boolean operations are operations on sets of positions.  The *)
(* bits of the last word behind NBits are "don't care": operations may     *)
(* leave anything there and must not be influenced by it.                  *)
(***************************************************************************)
EXTENDS Integers, FiniteSets, FiniteSetsExt, SequencesExt

CONSTANTS
  W,          \* BITS_PER_LONG
  NBits,      \* the number of bits, a compile-time constant when it fits a word
  Operands,   \* the bitmaps used as second operands
  MaxOrder    \* the largest order of a region

ASSUME BitmapAssumption == W \in Nat \ {0} /\ NBits \in Nat \ {0}

VARIABLE map

Bit == 0 .. W - 1
Pos == 0 .. NBits - 1
Longs(n) == (n + W - 1) \div W
Word == 0 .. Longs(NBits) - 1
Maps == [Word -> SUBSET Bit]

Shl(w, k) == {b + k : b \in w} \intersect Bit
Shr(w, k) == {b - k : b \in w} \intersect Bit
Inv(w) == Bit \ w
Xor(v, w) == (v \ w) \union (w \ v)
FirstWordMask(start) == {b \in Bit : b >= start % W}
LastWordMask(n) == {b \in Bit : b < W - ((0 - n) % W)}

(***************************************************************************)
(* One bit.                                                                *)
(***************************************************************************)
TestBit(m, n) == (n % W) \in m[n \div W]
SetBit(m, n) == [m EXCEPT ![n \div W] = @ \union {n % W}]
ClearBit(m, n) == [m EXCEPT ![n \div W] = @ \ {n % W}]
ChangeBit(m, n) == [m EXCEPT ![n \div W] = Xor(@, {n % W})]

FindNext(m, m2, n, start, invert) ==
  LET first == start \div W
      Tmp(k) == Xor(m[k] \intersect m2[k], IF invert THEN Bit ELSE {}) \intersect
                (IF k = first THEN FirstWordMask(start) ELSE Bit)
      hits == {k \in first .. Longs(n) - 1 : Tmp(k) # {}}
  IN IF start >= n \/ hits = {} THEN n ELSE Min({Min(hits) * W + Min(Tmp(Min(hits))), n})

Ones == [k \in Word |-> Bit]
FindNextBit(m, n, start) == FindNext(m, Ones, n, start, FALSE)
FindNextZeroBit(m, n, start) == FindNext(m, Ones, n, start, TRUE)
FindNextAndBit(m, m2, n, start) == FindNext(m, m2, n, start, FALSE)

FindFirst(m, n, Hit(_)) ==
  LET hits == {k \in 0 .. Longs(n) - 1 : Hit(m[k]) # {}}
  IN IF hits = {} THEN n ELSE Min({Min(hits) * W + Min(Hit(m[Min(hits)])), n})
FindFirstBit(m, n) == FindFirst(m, n, LAMBDA w : w)
FindFirstZeroBit(m, n) == FindFirst(m, n, Inv)

FindLastBit(m, n) ==
  LET Val(k) == m[k] \intersect (IF k = (n - 1) \div W THEN LastWordMask(n) ELSE Bit)
      hits == {k \in 0 .. (n - 1) \div W : Val(k) # {}}
  IN IF n = 0 \/ hits = {} THEN n ELSE Max(hits) * W + Max(Val(Max(hits)))

\* for_each_set_bit and for_each_clear_bit: the positions in the order visited.
Walk(from, n, Next(_)) ==
  LET visit[p \in 0 .. n] == IF p >= n THEN <<>> ELSE <<p>> \o visit[Next(p + 1)] IN visit[from]
SetBits(m, n) == Walk(FindFirstBit(m, n), n, LAMBDA p : FindNextBit(m, n, p))
ClearBits(m, n) == Walk(FindFirstZeroBit(m, n), n, LAMBDA p : FindNextZeroBit(m, n, p))

(***************************************************************************)
(* Whole bitmaps.  A bitmap that fits one word and whose size is constant  *)
(* takes the inline path of bitmap.h, the others the loops of bitmap.c.    *)
(***************************************************************************)
Small == NBits <= W

Zero == [k \in Word |-> {}]
CopyClearTail(m) == [k \in Word |-> IF k = NBits \div W THEN m[k] \intersect LastWordMask(NBits) ELSE m[k]]

\* dst[k] = f of the source words; the last word is masked when it is partial.
Masked(Val(_)) ==
  [k \in Word |-> IF Small \/ k >= NBits \div W THEN Val(k) \intersect LastWordMask(NBits) ELSE Val(k)]
And(a, b) == Masked(LAMBDA k : a[k] \intersect b[k])
AndNot(a, b) == Masked(LAMBDA k : a[k] \ b[k])
Or(a, b) == [k \in Word |-> a[k] \union b[k]]
XorMap(a, b) == [k \in Word |-> Xor(a[k], b[k])]
Complement(a) == [k \in Word |-> Inv(a[k])]

\* The comparisons and the weight stop at the last whole word and mask the rest.
NoBit(Val(_)) == \A k \in Word : Masked(Val)[k] = {}
Equal(a, b) == NoBit(LAMBDA k : Xor(a[k], b[k]))
Intersects(a, b) == ~NoBit(LAMBDA k : a[k] \intersect b[k])
Subset(a, b) == NoBit(LAMBDA k : a[k] \ b[k])
Empty(a) == IF Small THEN NoBit(LAMBDA k : a[k]) ELSE FindFirstBit(a, NBits) = NBits
Full(a) == IF Small THEN NoBit(LAMBDA k : Inv(a[k])) ELSE FindFirstZeroBit(a, NBits) = NBits
Weight(a, n) ==
  MapThenSumSet(LAMBDA k : Cardinality(a[k]), 0 .. n \div W - 1) +
  (IF n % W = 0 THEN 0 ELSE Cardinality(a[n \div W] \intersect LastWordMask(n)))

ShiftRight(m, shift) ==
  LET lim == Longs(NBits)
      off == shift \div W
      rem == shift % W
      Src(k) == IF k >= lim THEN {}
                ELSE IF k = lim - 1 THEN m[k] \intersect LastWordMask(NBits) ELSE m[k]
  IN [k \in Word |-> Shr(Src(off + k), rem) \union
                     (IF rem = 0 THEN {} ELSE Shl(Src(off + k + 1), W - rem))]

ShiftLeft(m, shift) ==
  LET off == shift \div W
      rem == shift % W
      Src(k) == IF k < 0 THEN {} ELSE m[k]
      wide == [k \in Word |-> Shl(Src(k - off), rem) \union
                              (IF rem = 0 THEN {} ELSE Shr(Src(k - off - 1), W - rem))]
  IN IF Small THEN CopyClearTail(wide) ELSE wide

\* __bitmap_set and __bitmap_clear: the mask of word k for len bits at start; a
\* last word that is filled to its end is not masked again.
RangeMask(k, start, len) ==
  LET first == start \div W
      size == start + len
      end == size \div W
      mask == IF k = first THEN FirstWordMask(start) ELSE Bit
  IN CASE k < first \/ k > end -> {}
       [] k >= first /\ k < end -> mask
       [] OTHER -> IF len = 0 \/ size % W = 0 THEN {} ELSE mask \intersect LastWordMask(size)
SetRange(m, start, len) == [k \in Word |-> m[k] \union RangeMask(k, start, len)]
ClearRange(m, start, len) == [k \in Word |-> m[k] \ RangeMask(k, start, len)]

\* bitmap_find_next_zero_area_off: from the next zero, aligned, as long as a one
\* turns up before the area's end.
AlignMask(x, align) == ((x + align - 1) \div align) * align
FindNextZeroArea(m, size, from, nr, align, offset) ==
  LET area[start \in 0 .. size] ==
        LET index == AlignMask(FindNextZeroBit(m, size, start) + offset, align) - offset
            end == index + nr
            i == FindNextBit(m, end, index)
        IN IF end > size THEN end ELSE IF i < end THEN area[i + 1] ELSE index
  IN area[from]

\* __reg_op: the words of a region of 2^order bits and its mask in each of them.
RegWords(pos, order) == pos \div W .. (pos \div W) + Longs(2^order) - 1
RegMask(pos, order) == Shl(0 .. Min({2^order, W}) - 1, pos % W)
IsFree(m, pos, order) == \A k \in RegWords(pos, order) : m[k] \intersect RegMask(pos, order) = {}
RegAlloc(m, pos, order) ==
  [k \in Word |-> IF k \in RegWords(pos, order) THEN m[k] \union RegMask(pos, order) ELSE m[k]]
RegRelease(m, pos, order) ==
  [k \in Word |-> IF k \in RegWords(pos, order) THEN m[k] \ RegMask(pos, order) ELSE m[k]]
Regions(order) == {pos \in Pos : pos % 2^order = 0 /\ pos + 2^order <= NBits}
FindFreeRegion(m, order) ==
  LET free == {pos \in Regions(order) : IsFree(m, pos, order)}
  IN IF free = {} THEN [ret |-> -1, map |-> m]
     ELSE [ret |-> Min(free), map |-> RegAlloc(m, Min(free), order)]
AllocateRegion(m, pos, order) ==
  IF IsFree(m, pos, order) THEN [ret |-> 0, map |-> RegAlloc(m, pos, order)] ELSE [ret |-> -1, map |-> m]

(***************************************************************************)
(* Maps between bit positions.                                             *)
(***************************************************************************)
PosToOrd(m, pos) == IF pos >= NBits \/ ~TestBit(m, pos) THEN -1 ELSE Weight(m, pos)
OrdToPos(m, ord) == IF ord < Len(SetBits(m, NBits)) THEN SetBits(m, NBits)[ord + 1] ELSE NBits
BitRemap(pos, old, new) ==
  LET w == Weight(new, NBits)
      n == PosToOrd(old, pos)
  IN IF n < 0 \/ w = 0 THEN pos ELSE OrdToPos(new, n % w)
Remap(src, old, new) ==
  FoldLeft(LAMBDA dst, p : SetBit(dst, BitRemap(p, old, new)), Zero, SetBits(src, NBits))
Onto(orig, rel) ==
  LET rels == SetBits(rel, NBits)
  IN FoldLeft(LAMBDA dst, i : IF TestBit(orig, i - 1) THEN SetBit(dst, rels[i]) ELSE dst,
              Zero, [i \in DOMAIN rels |-> i])
Fold(orig, sz) == FoldLeft(LAMBDA dst, p : SetBit(dst, p % sz), Zero, SetBits(orig, NBits))

(***************************************************************************)
(* Copies from and to arrays of half words (u32 on a 64-bit machine).      *)
(***************************************************************************)
Half == W \div 2
Halves == 0 .. (NBits + Half - 1) \div Half - 1
LowBits == 0 .. Half - 1
FromArr32(buf) ==
  [k \in Word |->
    LET low == buf[2 * k]
        high == IF 2 * k + 1 \in Halves THEN Shl(buf[2 * k + 1], Half) ELSE {}
    IN (low \union high) \intersect
       (IF NBits % W # 0 /\ k = Max(Halves) \div 2 THEN LastWordMask(NBits) ELSE Bit)]
ToArr32(m) ==
  [i \in Halves |->
    (IF i % 2 = 0 THEN m[i \div 2] \intersect LowBits ELSE Shr(m[i \div 2], Half)) \intersect
    (IF NBits % W # 0 /\ i = Max(Halves)
     THEN {b \in LowBits : b < Half - ((0 - NBits) % Half)} ELSE LowBits)]

(***************************************************************************)
(* The operations that write a bitmap, one after the other.                *)
(***************************************************************************)
Init == map = Zero

OneBit(n) == map' \in {SetBit(map, n), ClearBit(map, n), ChangeBit(map, n)}
Whole == map' \in {Zero, Ones, Complement(map), CopyClearTail(map)}
Algebra(src) == map' \in {src, And(map, src), Or(map, src), XorMap(map, src), AndNot(map, src)}
Range1(start, len) == map' \in {SetRange(map, start, len), ClearRange(map, start, len)}
Shift(n) == map' \in {ShiftRight(map, n), ShiftLeft(map, n)}
RegionOp(order, pos) ==
  map' \in {FindFreeRegion(map, order).map, AllocateRegion(map, pos, order).map, RegRelease(map, pos, order)}
\* The result of a remap goes to another bitmap, which becomes the one at hand.
RemapOp(old, new) == map' \in {Remap(map, old, new), Onto(map, old)}
FoldOp(sz) == map' = Fold(map, sz)
Array32 == map' = FromArr32(ToArr32(map))

Next ==
  \/ \E n \in Pos : OneBit(n)
  \/ Whole
  \/ \E src \in Operands : Algebra(src)
  \/ \E start \in Pos : \E len \in 0 .. NBits - start : Range1(start, len)
  \/ \E n \in 0 .. NBits : Shift(n)
  \/ \E order \in 0 .. MaxOrder : \E pos \in Regions(order) : RegionOp(order, pos)
  \/ \E old, new \in Operands : RemapOp(old, new)
  \/ \E sz \in 1 .. NBits : FoldOp(sz)
  \/ Array32

Spec == Init /\ [][Next]_map

(***************************************************************************)
(* Properties: the set of numbers a bitmap stands for, and every operation *)
(* against the same operation on sets, whatever the bits behind the last.  *)
(***************************************************************************)
Bits(m) == {p \in Pos : TestBit(m, p)}
OrdIn(set, p) == Cardinality({q \in set : q < p})
NthOf(set, n) == CHOOSE p \in set : OrdIn(set, p) = n

\* Types.
TypeOK == map \in Maps

\* The boolean operations and comparisons are those of sets.
AlgebraRight ==
  \A b \in Operands :
    LET x == Bits(map)
        y == Bits(b)
    IN /\ Bits(And(map, b)) = x \intersect y
       /\ Bits(Or(map, b)) = x \union y
       /\ Bits(XorMap(map, b)) = (x \ y) \union (y \ x)
       /\ Bits(AndNot(map, b)) = x \ y
       /\ Bits(Complement(map)) = Pos \ x
       /\ Bits(CopyClearTail(map)) = x
       /\ Equal(map, b) = (x = y)
       /\ Intersects(map, b) = (x \intersect y # {})
       /\ Subset(map, b) = (x \subseteq y)
       /\ Empty(map) = (x = {}) /\ Full(map) = (x = Pos)
       /\ \A n \in 0 .. NBits : Weight(map, n) = Cardinality({p \in x : p < n})

\* The searches return the first, next or last position and the size if there
\* is none; the loops built on them visit every position once, upwards.
SearchRight ==
  /\ \A n \in 0 .. NBits :
       LET x == {p \in Bits(map) : p < n}
           First(set) == IF set = {} THEN n ELSE Min(set)
       IN /\ FindFirstBit(map, n) = First(x)
          /\ FindFirstZeroBit(map, n) = First(0 .. n - 1 \ x)
          /\ FindLastBit(map, n) = IF x = {} THEN n ELSE Max(x)
          /\ \A s \in 0 .. NBits :
               /\ FindNextBit(map, n, s) = First({p \in x : p >= s})
               /\ FindNextZeroBit(map, n, s) = First({p \in 0 .. n - 1 \ x : p >= s})
               /\ \A b \in Operands :
                    FindNextAndBit(map, b, n, s) = First({p \in x \intersect Bits(b) : p >= s})
  /\ SetBits(map, NBits) = SetToSortSeq(Bits(map), <)
  /\ ClearBits(map, NBits) = SetToSortSeq(Pos \ Bits(map), <)

\* Shifts move every bit by the same distance and feed zeros, across words.
ShiftsRight ==
  \A n \in 0 .. NBits :
    /\ Bits(ShiftRight(map, n)) = {p - n : p \in Bits(map)} \intersect Pos
    /\ Bits(ShiftLeft(map, n)) = {p + n : p \in Bits(map)} \intersect Pos

\* Setting and clearing a range touches its bits and no other, not even behind
\* the last; the area found is the first free one that is aligned.
RangesRight ==
  /\ \A start \in Pos : \A len \in 0 .. NBits - start :
       LET r == start .. start + len - 1
       IN /\ Bits(SetRange(map, start, len)) = Bits(map) \union r
          /\ Bits(ClearRange(map, start, len)) = Bits(map) \ r
          /\ \A k \in Word, b \in Bit :
               k * W + b >= NBits => (b \in SetRange(map, start, len)[k]) = (b \in map[k])
  /\ \A start \in Pos, nr \in 1 .. NBits, align \in {1, 2, 4}, off \in 0 .. 1 :
       LET found == FindNextZeroArea(map, NBits, start, nr, align, off)
           fit == {p \in start .. NBits - nr : /\ (p + off) % align = 0
                                               /\ p .. p + nr - 1 \intersect Bits(map) = {}}
       IN IF fit = {} THEN found > NBits ELSE found = Min(fit)

\* Regions of a power of two bits: the first free one is allocated, an occupied
\* one is refused, and nothing outside the region changes.
RegionsRight ==
  \A order \in 0 .. MaxOrder :
    /\ FindFreeRegion(map, order).ret = -1 <=>
         \A pos \in Regions(order) : pos .. pos + 2^order - 1 \intersect Bits(map) # {}
    /\ \A pos \in Regions(order) :
         LET r == pos .. pos + 2^order - 1
         IN /\ IsFree(map, pos, order) = (r \intersect Bits(map) = {})
            /\ Bits(RegAlloc(map, pos, order)) = Bits(map) \union r
            /\ Bits(RegRelease(map, pos, order)) = Bits(map) \ r

\* bitmap_remap, bitmap_onto and bitmap_fold do what the comments before them
\* promise; the loop that bitmap_onto calls its equivalent is another function.
RemapRight ==
  \A old, new \in Operands :
    LET x == Bits(map)
        o == Bits(old)
        n == Bits(new)
        To(p) == IF p \notin o \/ n = {} THEN p ELSE NthOf(n, OrdIn(o, p) % Cardinality(n))
    IN /\ Bits(Remap(map, old, new)) = {To(p) : p \in x}
       /\ Bits(Onto(map, old)) = {p \in o : OrdIn(o, p) \in x}
       /\ \A sz \in 1 .. NBits : Bits(Fold(map, sz)) = {p % sz : p \in x}

\* A bitmap survives the copy to half words and back, its tail cleared.
Arr32Right ==
  /\ \A i \in Halves, b \in LowBits :
       (b \in ToArr32(map)[i]) = (i * Half + b \in Bits(map))
  /\ FromArr32(ToArr32(map)) = CopyClearTail(map)

-----------------------------------------------------------------------------
(***************************************************************************)
(* Sets of CPUs: cpumask.h and cpumask.c over the bitmaps.  A CPU number   *)
(* of NBits or more means "none".                                          *)
(***************************************************************************)

CpumaskNext(n, mask) == FindNextBit(mask, NBits, n + 1)
CpumaskNextZero(n, mask) == FindNextZeroBit(mask, NBits, n + 1)
CpumaskNextAnd(n, mask1, mask2) == FindNextAndBit(mask1, mask2, NBits, n + 1)

\* for_each_cpu and its variants: the CPUs in the order visited.
ForEachCpu(mask) == Walk(CpumaskNext(-1, mask), NBits, LAMBDA c : CpumaskNext(c - 1, mask))
ForEachCpuNot(mask) == Walk(CpumaskNextZero(-1, mask), NBits, LAMBDA c : CpumaskNextZero(c - 1, mask))
ForEachCpuAnd(mask1, mask2) ==
  Walk(CpumaskNextAnd(-1, mask1, mask2), NBits, LAMBDA c : CpumaskNextAnd(c - 1, mask1, mask2))

FirstSuch(cpus, Ok(_)) ==
  IF \E i \in DOMAIN cpus : Ok(cpus[i]) THEN cpus[Min({i \in DOMAIN cpus : Ok(cpus[i])})] ELSE NBits
CpumaskAnyBut(mask, cpu) == FirstSuch(ForEachCpu(mask), LAMBDA c : c # cpu)
CpumaskAnyOnline(mask, online) == FirstSuch(ForEachCpu(mask), LAMBDA c : TestBit(online, c))

CpumaskNextWrap(n, mask, start, wrap) ==
  LET next == CpumaskNext(n, mask)
      again == CpumaskNext(-1, mask)
  IN CASE wrap /\ n < start /\ next >= start -> NBits
       [] ~(wrap /\ n < start /\ next >= start) /\ next >= NBits ->
            IF again >= start THEN NBits ELSE again
       [] OTHER -> next
\* The CPU at hand after k rounds of for_each_cpu_wrap.
WrapStep(mask, start) ==
  LET cpu[k \in 0 .. NBits] ==
        IF k = 0 THEN CpumaskNextWrap(start - 1, mask, start, FALSE)
        ELSE IF cpu[k - 1] >= NBits THEN NBits
        ELSE CpumaskNextWrap(cpu[k - 1], mask, start, TRUE)
  IN cpu

\* cpu_bit_bitmap, row after row: row r has bit r - 1 in its first word.
CpuBitBitmap(i) ==
  LET len == Longs(NBits) IN IF i >= len /\ i % len = 0 THEN {(i \div len) - 1} ELSE {}
GetCpuMask(cpu) ==
  [k \in Word |-> CpuBitBitmap((1 + (cpu % W)) * Longs(NBits) - (cpu \div W) + k)]

\* The loops over CPUs visit the CPUs of the mask, or out of it, or of both
\* masks, once each and upwards; the choices return such a CPU or none; and the
\* mask of one CPU that is cut out of the shared table holds that CPU alone.
LoopsRight ==
  LET x == Bits(map) IN
  /\ ForEachCpu(map) = SetToSortSeq(x, <)
  /\ ForEachCpuNot(map) = SetToSortSeq(Pos \ x, <)
  /\ \A b \in Operands :
       /\ ForEachCpuAnd(map, b) = SetToSortSeq(x \intersect Bits(b), <)
       /\ LET c == CpumaskAnyOnline(map, b)
          IN IF x \intersect Bits(b) = {} THEN c = NBits ELSE c \in x \intersect Bits(b)
  /\ \A cpu \in Pos :
       /\ GetCpuMask(cpu) = SetBit(Zero, cpu)
       /\ LET c == CpumaskAnyBut(map, cpu) IN IF x \ {cpu} = {} THEN c = NBits ELSE c \in x \ {cpu}

\* for_each_cpu_wrap ends, and visits every CPU of the mask once: from start
\* upwards, then from the lowest up to start.
WrapRight ==
  \A start \in Pos :
    LET cpu == WrapStep(map, start)
        x == Bits(map)
        order == SetToSortSeq({c \in x : c >= start}, <) \o SetToSortSeq({c \in x : c < start}, <)
    IN [k \in 1 .. NBits + 1 |-> cpu[k - 1]] =
       [k \in 1 .. NBits + 1 |-> IF k \in DOMAIN order THEN order[k] ELSE NBits]

-----------------------------------------------------------------------------
(***************************************************************************)
(* The parsers of bitmaps: __bitmap_parse reads groups of digits separated *)
(* by commas, each group worth ChunkBits bits, __bitmap_parselist a list   *)
(* of numbers and ranges.  Digits of the first are worth one bit (four in  *)
(* the code), those of the second are decimal.  The text grows by one      *)
(* character a step and is parsed anew each time.                          *)
(***************************************************************************)

CONSTANTS
  ChunkBits,   \* CHUNKSZ
  Chars,       \* the characters that occur in texts
  MaxLen,      \* the longest text
  List         \* whether texts are lists or groups of digits

VARIABLES text, ret

Digit == [d \in {"0", "1", "2", "3"} |-> CASE d = "0" -> 0 [] d = "1" -> 1 [] d = "2" -> 2 [] OTHER -> 3]
IsDigit(c) == c \in DOMAIN Digit
IsSpace(c) == c = " "
EndsItem(c) == c \in {"NUL", ","}

ToWord(v) == {b \in Bit : (v \div 2^b) % 2 = 1}
Fls(v) == IF v = 0 THEN 0 ELSE 1 + Max({b \in 0 .. ChunkBits - 1 : 2^b <= v})

(***************************************************************************)
(* __bitmap_parse.  A parser's state: the last character, whether digits   *)
(* were seen at all and in this chunk, the chunk, how many chunks and bits *)
(* there are, and the result, set when the function returns.               *)
(***************************************************************************)
ParseStart == [c |-> "", seen |-> FALSE, digits |-> FALSE, chunk |-> 0, nchunks |-> 0, nbits |-> 0,
               map |-> Zero, ret |-> "none", done |-> FALSE]

Return(p, r) == [p EXCEPT !.ret = r, !.done = TRUE]

EndChunk(p) ==
  LET shifted == ShiftLeft(p.map, ChunkBits)
      nbits == p.nbits + (IF p.nchunks = 0 THEN Fls(p.chunk) ELSE ChunkBits)
      next == [p EXCEPT !.map = [shifted EXCEPT ![0] = @ \union ToWord(p.chunk)],
                        !.nchunks = @ + 1, !.nbits = nbits, !.chunk = 0, !.digits = FALSE]
  IN IF ~p.digits THEN Return(p, "EINVAL")
     ELSE IF p.nchunks = 0 /\ p.chunk = 0 THEN [p EXCEPT !.digits = FALSE]
     ELSE IF nbits > NBits THEN Return(next, "EOVERFLOW") ELSE next

ParseChar(p, c) ==
  LET q == [p EXCEPT !.c = c]
      end == EndChunk(q)
  IN CASE p.done -> p
       [] IsSpace(c) -> q
       [] ~IsSpace(c) /\ p.seen /\ c # "NUL" /\ IsSpace(p.c) -> Return(q, "EINVAL")
       [] EndsItem(c) /\ ~(p.seen /\ c # "NUL" /\ IsSpace(p.c)) ->
            IF end.done \/ c = "," THEN end ELSE Return(end, "ok")
       [] OTHER -> IF ~IsDigit(c) \/ Digit[c] > 1 THEN Return(q, "EINVAL")
                   ELSE IF p.chunk >= 2^(ChunkBits - 1) THEN Return(q, "EOVERFLOW")
                   ELSE [q EXCEPT !.chunk = 2 * @ + Digit[c], !.seen = TRUE, !.digits = TRUE]

\* At the end of the buffer the chunk at hand ends, unless a comma was last.
Finish(p, End(_)) ==
  IF p.done THEN p
  ELSE IF p.c = "," THEN Return(p, "ok")
  ELSE IF End(p).done THEN End(p) ELSE Return(End(p), "ok")
Parse(t) == Finish(FoldLeft(ParseChar, ParseStart, t), EndChunk)

(***************************************************************************)
(* __bitmap_parselist.                                                     *)
(***************************************************************************)
ItemStart == [atStart |-> TRUE, inRange |-> FALSE, partial |-> FALSE, a |-> 0, b |-> 0, digits |-> FALSE]
ListStart == [c |-> "", item |-> ItemStart, oldA |-> 0, oldB |-> 0, used |-> 0, group |-> 0,
              map |-> Zero, ret |-> "none", done |-> FALSE]

\* The while loop: used bits of every group of the range, the last one cut.
SetGroups(m, from, b, used, group) ==
  LET set[i \in 0 .. b - from + 1] ==
        LET a == from + i * group
        IN IF a > b THEN m ELSE SetRange(set[i + 1], a, Min({b - a + 1, used}))
  IN set[0]

EndItem(p) ==
  LET i == p.item
      a == IF i.partial THEN p.oldA ELSE i.a
      b == IF i.partial THEN p.oldB ELSE i.b
      group == IF i.partial THEN i.a ELSE i.b - i.a + 1
      used == IF i.partial THEN p.used ELSE group
      next == [p EXCEPT !.item = ItemStart, !.used = used, !.group = group,
                        !.oldA = IF i.partial THEN 0 ELSE @, !.oldB = IF i.partial THEN 0 ELSE @]
  IN IF ~i.digits THEN [p EXCEPT !.item = ItemStart]
     ELSE IF i.atStart /\ i.inRange THEN Return(next, "EINVAL")
     ELSE IF a > b \/ group = 0 \/ used > group THEN Return(next, "EINVAL")
     ELSE IF b >= NBits THEN Return(next, "ERANGE")
     ELSE [next EXCEPT !.map = SetGroups(@, a, b, used, group)]

ListChar(p, c) ==
  LET i == p.item
      q == [p EXCEPT !.c = c]
      restart == [i EXCEPT !.atStart = TRUE, !.inRange = FALSE, !.a = 0, !.b = 0]
      end == EndItem(q)
      v == i.b * 10 + Digit[c]
  IN CASE p.done -> p
       [] IsSpace(c) -> q
       [] EndsItem(c) -> IF end.done \/ c = "," THEN end ELSE Return(end, "ok")
       [] ~IsSpace(c) /\ ~EndsItem(c) /\ i.digits /\ IsSpace(p.c) -> Return(q, "EINVAL")
       [] OTHER ->
            CASE c = "/" -> [q EXCEPT !.used = i.a, !.item = restart]
              [] c = ":" -> [q EXCEPT !.oldA = i.a, !.oldB = i.b, !.item = [restart EXCEPT !.partial = TRUE]]
              [] c = "-" -> IF i.atStart \/ i.inRange THEN Return(q, "EINVAL")
                            ELSE [q EXCEPT !.item.b = 0, !.item.inRange = TRUE, !.item.atStart = TRUE]
              [] c \notin {"/", ":", "-"} /\ ~IsDigit(c) -> Return(q, "EINVAL")
              [] OTHER -> [q EXCEPT !.item = [i EXCEPT !.b = v, !.a = IF i.inRange THEN @ ELSE v,
                                                       !.atStart = FALSE, !.digits = TRUE]]
ParseList(t) == Finish(FoldLeft(ListChar, ListStart, t), EndItem)

(***************************************************************************)
(* The text grows and is parsed.                                           *)
(***************************************************************************)
Outcome(t) == IF List THEN ParseList(t) ELSE Parse(t)

ParseInit == text = <<>> /\ map = Outcome(<<>>).map /\ ret = Outcome(<<>>).ret
\* What follows an error is not read.
Type(c) ==
  /\ Len(text) < MaxLen
  /\ ~(IF List THEN FoldLeft(ListChar, ListStart, text) ELSE FoldLeft(ParseChar, ParseStart, text)).done
  /\ text' = Append(text, c)
  /\ map' = Outcome(text').map
  /\ ret' = Outcome(text').ret
ParseNext == \E c \in Chars : Type(c)
ParseSpec == ParseInit /\ [][ParseNext]_<<map, text, ret>>

(***************************************************************************)
(* Properties: what the texts mean, by cutting them into pieces.           *)
(***************************************************************************)
Split(t, sep) ==
  FoldLeft(LAMBDA acc, c : IF c = sep THEN Append(acc, <<>>) ELSE [acc EXCEPT ![Len(acc)] = Append(@, c)],
           <<<<>>>>, t)
Trim(s) ==
  LET black == {i \in DOMAIN s : s[i] # " "}
  IN IF black = {} THEN <<>> ELSE SubSeq(s, Min(black), Max(black))
BeforeNul(t) == Split(t, "NUL")[1]
Number(s, base) == FoldLeft(LAMBDA v, c : v * base + Digit[c], 0, s)
IsNumber(s) == s # <<>> /\ \A i \in DOMAIN s : IsDigit(s[i])

\* A comma at the very end is no separator.
Items(t) == LET items == Split(t, ",") IN IF t # <<>> /\ Last(t) = "," THEN Front(items) ELSE items
TailClear == \A k \in Word : \A b \in map[k] : k * W + b < NBits

\* Groups of digits are read exactly when they are well formed and fit, and
\* the bits are those of the number the groups spell, none behind the last.
ParseRight ==
  LET t == Trim(BeforeNul(text))
      items == Items(t)
      value == FoldLeft(LAMBDA v, s : v * 2^ChunkBits + Number(s, 2), 0, items)
      Bin(s) == s # <<>> /\ \A i \in DOMAIN s : s[i] \in {"0", "1"}
      good == /\ t # <<>> /\ (Last(t) = "," => Last(text) = ",")
              /\ \A i \in DOMAIN items : Bin(items[i])
              /\ \A i \in DOMAIN items : Number(items[i], 2) < 2^ChunkBits
              /\ value < 2^NBits
  IN /\ (ret = "ok") = good
     /\ ret = "ok" => Bits(map) = {p \in Pos : (value \div 2^p) % 2 = 1} /\ TailClear

\* A list's item: range, or range:used/group.
Range0(s) == Split(Split(s, ":")[1], "-")
Groups(s) == Split(Split(s, ":")[2], "/")
Partial(s) == Len(Split(s, ":")) = 2
WellFormed(s) ==
  /\ Len(Split(s, ":")) <= 2 /\ Len(Range0(s)) <= 2
  /\ \A i \in DOMAIN Range0(s) : IsNumber(Range0(s)[i])
  /\ Partial(s) => Len(Groups(s)) = 2 /\ \A i \in 1 .. 2 : IsNumber(Groups(s)[i])
From(s) == Number(Range0(s)[1], 10)
To(s) == Number(Last(Range0(s)), 10)
Used(s) == IF Partial(s) THEN Number(Groups(s)[1], 10) ELSE 1
Group(s) == IF Partial(s) THEN Number(Groups(s)[2], 10) ELSE 1
Denoted(s) == {p \in From(s) .. To(s) : (p - From(s)) % Group(s) < Used(s)}
Valid(s) == From(s) <= To(s) /\ To(s) < NBits /\ Group(s) > 0 /\ Used(s) <= Group(s)

ListItems == {x \in {Trim(Items(text)[i]) : i \in DOMAIN Items(text)} : x # <<>>}

\* A list of well-formed items is read exactly when all are valid, and sets the
\* numbers they denote; no text sets a bit behind the last.
ListRight ==
  /\ TailClear
  /\ (\A s \in ListItems : WellFormed(s)) =>
       /\ (ret = "ok") = (\A s \in ListItems : Valid(s))
       /\ ret = "ok" => Bits(map) = UNION {Denoted(s) : s \in ListItems}

=============================================================================
