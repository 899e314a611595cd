------------------------------- MODULE ArmLib -------------------------------
(***************************************************************************)
(* The arm64 memory routines: memcpy, memmove and memset (lib/base), the   *)
(* page copies and the copies to and from user memory (kernel/arch/arm64). *)
(* A routine is the straight line of loads and stores it executes for its  *)
(* alignment and length, its plan; the plan is executed one instruction a  *)
(* step, and an access to user memory may fault at any of them.            *)
(* A byte of memory is named by its address until it is written.           *)
(* Then the string functions, those in assembly and those in C.            *)
(***************************************************************************)
EXTENDS Integers, Sequences, FiniteSets, TLC, Bitwise

CONSTANTS
  Calls,        \* the calls made: records [f, src, dst, n, val, zva]
  PageSize      \* PAGE_SIZE

VARIABLES
  asmCall,         \* the call being executed
  plan,         \* the instructions left
  regs,         \* the registers A, B, C, D and tmp1: sequences of bytes
  srcReg, dstReg,\* the pointers
  written,            \* the bytes written so far: address -> value
  asmRet           \* "idle", "run" or the value returned

armCopyVars == <<asmCall, plan, regs, srcReg, dstReg, written, asmRet>>

Zero == 0                                   \* the byte stored by dc zva / xzr
UserRead == {"raw_copy_from_user", "copy_from_user"}
UserWrite == {"copy_to_user", "clear_user"}

----------------------------------------------------------------------------
(* Plans: copies                                                            *)

Ld(r, n) == [op |-> "ld", r |-> r, n |-> n]
St(r, n) == [op |-> "st", r |-> r, n |-> n]
Pair(n) == <<Ld("tmp", n), St("tmp", n)>>
Bit(x, b) == (x \div 2^b) % 2 = 1
Opt(x, b) == IF Bit(x, b) THEN Pair(2^b) ELSE <<>>

RECURSIVE Times(_, _)
Times(k, s) == IF k = 0 THEN <<>> ELSE s \o Times(k - 1, s)

\* Reach source alignment with 1, 2, 4 and 8 byte accesses.
AlignSrc(a) == Opt(a, 0) \o Opt(a, 1) \o Opt(a, 2) \o Opt(a, 3)

Tiny15(count) == Opt(count, 3) \o Opt(count, 2) \o Opt(count, 1) \o Opt(count, 0)

Tail63(count) == Times((count \div 16) % 4, <<Ld("A", 16), St("A", 16)>>) \o Tiny15(count)

\* 64 to 127 bytes: 64 here, then the tail.
Over64(count) ==
  <<Ld("A", 16), St("A", 16), Ld("B", 16), Ld("C", 16), St("B", 16), St("C", 16),
    Ld("D", 16), St("D", 16)>> \o Tail63(count % 64)

LoadABCD == <<Ld("A", 16), Ld("B", 16), Ld("C", 16), Ld("D", 16)>>
StoreABCD == <<St("A", 16), St("B", 16), St("C", 16), St("D", 16)>>
StoreLoadABCD ==
  <<St("A", 16), Ld("A", 16), St("B", 16), Ld("B", 16), St("C", 16), Ld("C", 16),
    St("D", 16), Ld("D", 16)>>

\* 128 bytes and more: the loads run one 64 byte block ahead of the stores.
BodyLarge(count) ==
  LoadABCD \o Times((count - 128) \div 64 + 1, StoreLoadABCD) \o StoreABCD \o Tail63(count % 64)

\* copy_template.S: the source is aligned first, then blocks are copied. `a'
\* is the number of bytes to the alignment boundary.
CopyTemplate(a, count) ==
  IF count < 16 THEN Tiny15(count)
  ELSE LET c == count - a IN
       AlignSrc(a) \o (IF c < 64 THEN Tail63(c) ELSE IF c < 128 THEN Over64(c) ELSE BodyLarge(c))

\* memmove copies backwards, from the end, when the destination lies inside
\* the source, and calls memcpy otherwise.
Backwards(c) == c.f = "memmove" /\ c.dst >= c.src /\ c.dst < c.src + c.n

MemmovePlan(c) ==
  IF Backwards(c) THEN CopyTemplate((c.src + c.n) % 16, c.n) ELSE CopyTemplate((-c.src) % 16, c.n)

\* copy_page: 128 bytes in registers, the next block loaded as one is stored.
PageRegs == <<"A", "B", "C", "D", "E", "F", "G", "H">>
Lds(i) == Ld(PageRegs[i], 16)
Sts(i) == St(PageRegs[i], 16)
CopyPagePlan ==
  [i \in 1..8 |-> Lds(i)]
    \o Times((PageSize - 128) \div 128, [i \in 1..16 |-> IF i % 2 = 1 THEN Sts((i + 1) \div 2) ELSE Lds(i \div 2)])
    \o [i \in 1..8 |-> Sts(i)]

----------------------------------------------------------------------------
(* Plans: memset                                                            *)

SetAt(a, n) == [op |-> "set", at |-> a, n |-> n]
Fill16(d, k) == [i \in 1..k |-> SetAt(d + 16 * (i - 1), 16)]

\* The last 16 bytes are written with one store that repeats earlier ones.
SetTail63(d, c) ==
  LET k == (c \div 16) % 4
      r == c % 16
  IN Fill16(d, k) \o (IF r = 0 THEN <<>> ELSE <<SetAt(d + 16 * k + r - 16, 16)>>)

NotShort(d, c) ==
  LET m == c \div 64 IN
  Fill16(d, 4 * m) \o (IF c % 64 = 0 THEN <<>> ELSE SetTail63(d + 64 * m, c % 64))

TailMaybeLong(d, c) == IF c >= 64 THEN NotShort(d, c) ELSE SetTail63(d, c)

\* Whole lines with dc zva, then the tail.
ZvaLines(d, c, zva) ==
  LET m == c \div zva IN
  [i \in 1..m |-> SetAt(d + zva * (i - 1), zva)]
    \o (IF c % zva = 0 THEN <<>> ELSE TailMaybeLong(d + zva * m, c % zva))

\* Stores of 64 bytes up to the line's alignment may overrun it: there must be
\* at least 64 bytes, and a line, after it. zva = 0: dc zva is prohibited.
ZeroMem(d, c, zva) ==
  IF c <= 63 THEN SetTail63(d, c)
  ELSE IF c < 128 \/ zva = 0 \/ zva % 64 # 0 \/ c < zva THEN NotShort(d, c)
  ELSE LET t == (-d) % zva IN
       IF t = 0 THEN ZvaLines(d, c, zva)
       ELSE IF c - t < 64 \/ c - t < zva THEN NotShort(d, c)
       ELSE Fill16(d, 4 * (t \div 64 + 1)) \o ZvaLines(d + t, c - t, zva)

SetOpt(d, c, b) ==
  IF Bit(c, b) THEN <<SetAt(d + (c \div 2^(b + 1)) * 2^(b + 1), 2^b)>> ELSE <<>>

MemsetPlan(d, c, zero, zva) ==
  IF c <= 15 THEN SetOpt(d, c, 3) \o SetOpt(d, c, 2) \o SetOpt(d, c, 1) \o SetOpt(d, c, 0)
  ELSE LET t == (-d) % 16
           head == IF t = 0 THEN <<>> ELSE <<SetAt(d, 16)>>
       IN head \o (IF zero THEN ZeroMem(d + t, c - t, zva) ELSE TailMaybeLong(d + t, c - t))

ClearPagePlan(d, zva) == [i \in 1..(PageSize \div zva) |-> SetAt(d + zva * (i - 1), zva)]

ClearUserPlan(d, c) ==
  [i \in 1..(c \div 8) |-> SetAt(d + 8 * (i - 1), 8)]
    \o SetOpt(d, c, 2) \o SetOpt(d, c, 1) \o SetOpt(d, c, 0)

PlanOf(c) ==
  CASE c.f \in {"memcpy", "raw_copy_from_user", "copy_from_user", "copy_to_user"} ->
         CopyTemplate((-c.src) % 16, c.n)
    [] c.f = "memmove"    -> MemmovePlan(c)
    [] c.f = "memset"     -> MemsetPlan(c.dst, c.n, c.val = Zero, c.zva)
    [] c.f = "copy_page"  -> CopyPagePlan
    [] c.f = "clear_page" -> ClearPagePlan(c.dst, c.zva)
    [] c.f = "clear_user" -> ClearUserPlan(c.dst, c.n)

----------------------------------------------------------------------------
(* Execution                                                                *)

Mem(a) == IF a \in DOMAIN written THEN written[a] ELSE a
Bytes(a, n) == [i \in 0..(n - 1) |-> Mem(a + i)]
Written(a, bytes, k) == [x \in a..(a + k - 1) |-> bytes[x - a]] @@ written

\* A pointer moves up after an access, or down before it.
Step(p, n) == IF Backwards(asmCall) THEN p - n ELSE p + n
CopyBase(p, n) == IF Backwards(asmCall) THEN p - n ELSE p

Fetch == plan' = Tail(plan)
Running == asmRet = "run" /\ plan # <<>>

Load ==
  /\ Running /\ plan[1].op = "ld"
  /\ LET i == plan[1] IN
     /\ regs' = (i.r :> Bytes(CopyBase(srcReg, i.n), i.n)) @@ regs
     /\ srcReg' = Step(srcReg, i.n)
  /\ Fetch /\ UNCHANGED <<asmCall, dstReg, written, asmRet>>

Store ==
  /\ Running /\ plan[1].op = "st"
  /\ LET i == plan[1] IN
     /\ written' = Written(CopyBase(dstReg, i.n), regs[i.r], i.n)
     /\ dstReg' = Step(dstReg, i.n)
  /\ Fetch /\ UNCHANGED <<asmCall, regs, srcReg, asmRet>>

Set ==
  /\ Running /\ plan[1].op = "set"
  /\ written' = Written(plan[1].at, [x \in 0..(plan[1].n - 1) |-> asmCall.val], plan[1].n)
  /\ Fetch /\ UNCHANGED <<asmCall, regs, srcReg, dstReg, asmRet>>

\* _copy_from_user zeroes the bytes it did not copy.
ZeroRest(left) ==
  plan' = IF asmCall.f = "copy_from_user"
          THEN MemsetPlan(asmCall.dst + asmCall.n - left, left, TRUE, asmCall.zva) ELSE <<>>

\* The fixup of the user copies: the bytes between the destination pointer and
\* the end were not copied. A load of user memory faults before it is done, a
\* store may have written its first k bytes.
Left == asmCall.dst + asmCall.n - dstReg
AccessUser ==
  /\ Running
  /\ \/ plan[1].op = "ld" /\ asmCall.f \in UserRead
     \/ plan[1].op = "st" /\ asmCall.f \in UserWrite
     \/ plan[1].op = "set" /\ asmCall.f = "clear_user"

FaultBytes == IF plan[1].op = "ld" THEN {0} ELSE 0..(plan[1].n - 1)
FaultWrites(k) ==
  CASE plan[1].op = "ld"  -> written
    [] plan[1].op = "st"  -> Written(dstReg, regs[plan[1].r], k)
    [] plan[1].op = "set" -> Written(plan[1].at, [x \in 0..(k - 1) |-> Zero], k)

\* __arch_clear_user returns the size it was given.
FixupReturn == IF asmCall.f = "clear_user" THEN asmCall.n ELSE Left

Fault ==
  /\ AccessUser
  /\ \E k \in FaultBytes : written' = FaultWrites(k)
  /\ ZeroRest(Left)
  /\ asmRet' = IF asmCall.f = "copy_from_user" THEN "zero" ELSE "done"
  /\ asmCall' = [asmCall EXCEPT !.left = FixupReturn]
  /\ UNCHANGED <<regs, srcReg, dstReg>>

\* The memset of _copy_from_user.
ZeroTail ==
  /\ asmRet = "zero" /\ plan # <<>>
  /\ written' = Written(plan[1].at, [x \in 0..(plan[1].n - 1) |-> Zero], plan[1].n)
  /\ Fetch /\ UNCHANGED <<asmCall, regs, srcReg, dstReg, asmRet>>

Finish ==
  /\ asmRet \in {"run", "zero"} /\ plan = <<>>
  /\ asmRet' = "done"
  /\ UNCHANGED <<asmCall, plan, regs, srcReg, dstReg, written>>

----------------------------------------------------------------------------

NoCall == [f |-> "none", src |-> 0, dst |-> 0, n |-> 0, val |-> 0, zva |-> 0, left |-> 0]

Begin(c) ==
  /\ asmRet = "idle"
  /\ asmCall' = c @@ [left |-> 0]
  /\ plan' = PlanOf(c)
  /\ srcReg' = IF Backwards(c) THEN c.src + c.n ELSE c.src
  /\ dstReg' = IF Backwards(c) THEN c.dst + c.n ELSE c.dst
  /\ regs' = <<>> /\ written' = <<>> /\ asmRet' = "run"

CopyReturn ==
  /\ asmRet = "done"
  /\ asmCall' = NoCall /\ plan' = <<>> /\ regs' = <<>> /\ srcReg' = 0 /\ dstReg' = 0 /\ written' = <<>>
  /\ asmRet' = "idle"

ArmCopyInit ==
  asmCall = NoCall /\ plan = <<>> /\ regs = <<>> /\ srcReg = 0 /\ dstReg = 0 /\ written = <<>> /\ asmRet = "idle"

ArmCopyNext ==
  \/ \E c \in Calls : Begin(c)
  \/ Load \/ Store \/ Set \/ Fault \/ ZeroTail \/ Finish \/ CopyReturn

ArmCopySpec == ArmCopyInit /\ [][ArmCopyNext]_armCopyVars

----------------------------------------------------------------------------
(* Properties                                                               *)

Target == asmCall.dst..(asmCall.dst + asmCall.n - 1)
Source == asmCall.src..(asmCall.src + asmCall.n - 1)
Copies == {"memcpy", "memmove", "copy_page", "copy_to_user"} \cup UserRead

ArmCopyTypeOK ==
  /\ asmRet \in {"idle", "run", "zero", "done"}
  /\ asmRet = "idle" <=> asmCall = NoCall
  /\ asmCall.left \in 0..asmCall.n
  /\ \A r \in DOMAIN regs : DOMAIN regs[r] \in {0..(k - 1) : k \in {1, 2, 4, 8, 16}}

\* No routine writes a byte outside its destination, whatever the overlap of
\* its stores (memset repeats the last 16 bytes, overruns the line alignment).
WritesInside == DOMAIN written \subseteq Target

\* No load leaves the source, although the large loop loads ahead.
ReadsInside ==
  Running /\ plan[1].op = "ld" =>
    CopyBase(srcReg, plan[1].n)..(CopyBase(srcReg, plan[1].n) + plan[1].n - 1) \subseteq Source

\* A copy that did not fault gives every byte the value the source had when it
\* was called, source and destination overlapping or not; a fill fills.
CopiedExactly ==
  asmRet = "done" /\ asmCall.left = 0 =>
    \A i \in 0..(asmCall.n - 1) :
      Mem(asmCall.dst + i) = IF asmCall.f \in Copies THEN asmCall.src + i ELSE asmCall.val

\* After a fault the bytes not reported as left were copied, and copy_from_user
\* leaves zeroes in all the others: nothing of the old buffer remains.
FaultAccounted ==
  asmRet = "done" /\ asmCall.left > 0 /\ asmCall.f \in Copies =>
    /\ asmCall.left <= asmCall.n
    /\ \A i \in 0..(asmCall.n - asmCall.left - 1) : Mem(asmCall.dst + i) = asmCall.src + i
    /\ asmCall.f = "copy_from_user" =>
         \A i \in (asmCall.n - asmCall.left)..(asmCall.n - 1) : Mem(asmCall.dst + i) = Zero

-----------------------------------------------------------------------------
(***************************************************************************)
(* The arm64 string routines of lib/base: strlen, strnlen, strcmp, strncmp,*)
(* memcmp, strchr, strrchr and memchr. They work on words of 8 bytes (16   *)
(* for the lengths), read before the start and past the end of a string,   *)
(* and mask what they must not look at. Bytes have their width; a word is  *)
(* a function from 0..7, byte 0 the least significant (little endian).     *)
(***************************************************************************)

CONSTANTS
  Inputs        \* the inputs tried: a sequence of sets of records, see Byte

VARIABLES
  in,           \* the arguments of the call
  out           \* [f, r, b]: the function, its result, the blocks it read

armStrVars == <<in, out>>

None == -1
Base == 64
Block == 16     \* a page boundary is at a multiple of it

\* String i: alignment al[i], NUL at len[i], one byte that may differ at d;
\* other bytes before the start and after the NUL.
Fill(k) == IF k % 3 = 1 THEN 200 ELSE 1
Start(i) == Base + in.al[i]
Byte(i, a) ==
  LET k == a - Start(i) IN
  IF k < 0 THEN in.before[i]
  ELSE IF k = in.len[i] THEN 0
  ELSE IF k > in.len[i] THEN in.after[i]
  ELSE IF k = in.d THEN in.v[i] ELSE Fill(k)

Word(i, a) == [k \in 0..7 |-> Byte(i, a + k)]
Touch(i, a, n) == {<<i, x>> : x \in (a \div Block)..((a + n - 1) \div Block)}
Both(x, y, n) == Touch(1, x, n) \cup Touch(2, y, n)
Result(r, b) == [r |-> r, b |-> b]

----------------------------------------------------------------------------
(* Words                                                                    *)

\* (X - 1) & ~(X | 0x7f) on a whole word: the subtraction borrows, so a 0x01
\* after a NUL is flagged too, never one before it.
HasNul(w) ==
  LET borrow[k \in 0..7] == IF k = 0 THEN 0 ELSE IF w[k - 1] < 1 + borrow[k - 1] THEN 1 ELSE 0
  IN [k \in 0..7 |-> IF (w[k] - 1 - borrow[k]) % 256 >= 128 /\ w[k] < 128 THEN 128 ELSE 0]

Zeroes == [k \in 0..7 |-> 0]
Eor(w1, w2) == [k \in 0..7 |-> w1[k] ^^ w2[k]]
Orr(w1, w2) == [k \in 0..7 |-> w1[k] | w2[k]]

\* The bytes before the start become 0xff; those from the limit on become 0.
MaskLow(w, m) == [k \in 0..7 |-> IF k < m THEN 255 ELSE w[k]]
MaskHigh(w, m) == [k \in 0..7 |-> IF k < m THEN w[k] ELSE 0]
HighOnes(m) == [k \in 0..7 |-> IF k < m THEN 0 ELSE 255]

FirstByte(w) == CHOOSE k \in 0..7 : w[k] # 0 /\ \A j \in 0..(k - 1) : w[j] = 0
Clz8(x) == CHOOSE z \in 0..7 : x >= 2^(7 - z) /\ x < 2^(8 - z)

\* .Lcal_cmpresult: the eight bits from the first bit of the syndrome on,
\* which need not start at a byte.
EightBits(w, k, z) == ((w[k] * 256 + (IF k < 7 THEN w[k + 1] ELSE 0)) \div 2^(8 - z)) % 256

CalCmpResult(w1, w2, syn) ==
  LET k == FirstByte(syn)
      z == Clz8(syn[k])
  IN EightBits(w1, k, z) - EightBits(w2, k, z)

\* Compare up to n bytes one by one: the first index that ends it, or n.
TinyCmp(x, y, n, nul) ==
  LET stops == {k \in 0..(n - 1) : Byte(1, x + k) # Byte(2, y + k) \/ (nul /\ Byte(1, x + k) = 0)} IN
  IF stops = {} THEN n ELSE CHOOSE k \in stops : \A j \in stops : k <= j

ByteDiff(x, y, k) == Byte(1, x + k) - Byte(2, y + k)
ToAlign(a) == 8 - (a % 8)

----------------------------------------------------------------------------
(* strlen, strnlen                                                          *)

\* The first 16 bytes, those before the start forced to 0xff. A whole first
\* word before the start is all ones.
Misaligned(t, w1, w2) ==
  IF t <= 8 THEN <<MaskLow(w1, t), w2>> ELSE <<MaskLow(w1, 8), MaskLow(w2, t - 8)>>

NulAt(n1, n2) == IF n1 # Zeroes THEN FirstByte(n1) ELSE 8 + FirstByte(n2)

RECURSIVE StrlenLoop(_, _, _, _)
StrlenLoop(src, w1, w2, b) ==
  LET n1 == HasNul(w1)
      n2 == HasNul(w2)
  IN IF n1 = Zeroes /\ n2 = Zeroes
     THEN StrlenLoop(src + 16, Word(1, src), Word(1, src + 8), b \cup Touch(1, src, 16))
     ELSE Result((src - 16 - Start(1)) + NulAt(n1, n2), b)

StrLen ==
  LET t == Start(1) % 16
      src == Start(1) - t
      w == Misaligned(t, Word(1, src), Word(1, src + 8))
  IN StrlenLoop(src + 16, w[1], w[2], Touch(1, src, 16))

RECURSIVE StrnlenLoop(_, _, _, _, _)
StrnlenLoop(src, w1, w2, wd, b) ==
  LET n1 == HasNul(w1)
      n2 == HasNul(w2)
      len == (src - 16 - Start(1)) + NulAt(n1, n2)
  IN IF n1 = Zeroes /\ n2 = Zeroes
     THEN IF wd - 1 >= 0
          THEN StrnlenLoop(src + 16, Word(1, src), Word(1, src + 8), wd - 1, b \cup Touch(1, src, 16))
          ELSE Result(in.n, b)
     ELSE Result(IF len <= in.n THEN len ELSE in.n, b)

\* The number of 16 byte blocks less one, without computing limit + offset.
BlocksOf(t) == (in.n - 1) \div 16 + (((in.n - 1) % 16) + t) \div 16

StrnLen ==
  LET t == Start(1) % 16
      src == Start(1) - t
      w == Misaligned(t, Word(1, src), Word(1, src + 8))
  IN IF in.n = 0 THEN Result(0, {})
     ELSE StrnlenLoop(src + 16, w[1], w[2], BlocksOf(t), Touch(1, src, 16))

----------------------------------------------------------------------------
(* strcmp                                                                   *)

StrSyndrome(w1, w2) == Orr(Eor(w1, w2), HasNul(w1))

RECURSIVE StrcmpAligned(_, _, _, _, _)
StrcmpAligned(x, y, w1, w2, b) ==
  LET syn == StrSyndrome(w1, w2) IN
  IF syn # Zeroes THEN Result(CalCmpResult(w1, w2, syn), b)
  ELSE StrcmpAligned(x + 8, y + 8, Word(1, x), Word(2, y), b \cup Both(x, y, 8))

\* Words at the alignment of src2 (pos before the pointers), then at src1's.
RECURSIVE StrcmpLoop(_, _, _, _)
StrcmpLoop(x, y, pos, b) ==
  LET u1 == Word(1, x + pos)
      u2 == Word(2, y + pos)
      w1 == Word(1, x)
      w2 == Word(2, y)
      bu == b \cup Both(x + pos, y + pos, 8)
      bw == bu \cup Both(x, y, 8)
  IN IF StrSyndrome(u1, u2) # Zeroes THEN Result(CalCmpResult(u1, u2, StrSyndrome(u1, u2)), bu)
     ELSE IF StrSyndrome(w1, w2) # Zeroes THEN Result(CalCmpResult(w1, w2, StrSyndrome(w1, w2)), bw)
     ELSE StrcmpLoop(x + 8, y + 8, pos, bw)

\* src1 not aligned yet: step back to its boundary and compare a word there.
StrcmpStartAlign(x, y, t3, b) ==
  LET w1 == Word(1, x + t3)
      w2 == Word(2, y + t3)
      bw == b \cup Both(x + t3, y + t3, 8)
  IN IF x % 8 = 0 THEN StrcmpLoop(x, y, -t3, b)
     ELSE IF StrSyndrome(w1, w2) # Zeroes THEN Result(CalCmpResult(w1, w2, StrSyndrome(w1, w2)), bw)
     ELSE StrcmpLoop(x + t3 + 8, y + t3 + 8, -(t3 % 8), bw)

StrcmpMisaligned(x, y) ==
  LET t3 == ToAlign(x) - ToAlign(y)
      pos == IF t3 > 0 THEN ToAlign(x) ELSE ToAlign(y)
      k == TinyCmp(x, y, pos, TRUE)
  IN IF k < pos THEN Result(ByteDiff(x, y, k), Both(x, y, k + 1))
     ELSE StrcmpStartAlign(x + pos, y + pos, t3, Both(x, y, pos))

StrCmp ==
  LET x == Start(1)
      y == Start(2)
      m == x % 8
  IN IF (x - y) % 8 # 0 THEN StrcmpMisaligned(x, y)
     ELSE StrcmpAligned(x - m + 8, y - m + 8, MaskLow(Word(1, x - m), m), MaskLow(Word(2, y - m), m),
                        Both(x - m, y - m, 8))

----------------------------------------------------------------------------
(* strncmp                                                                  *)

Limits(m) == (in.n - 1) \div 8 + (((in.n - 1) % 8) + m) \div 8      \* words less one

\* The last word: what lies past the limit is masked and marked as a NUL.
RECURSIVE StrncmpAligned(_, _, _, _, _, _, _)
StrncmpAligned(x, y, w1, w2, wd, lim, b) ==
  LET diff == Eor(w1, w2)
      nul == HasNul(w1)
      last == wd - 1 < 0
      m == lim % 8
  IN IF nul = Zeroes /\ ~last /\ diff = Zeroes
     THEN StrncmpAligned(x + 8, y + 8, Word(1, x), Word(2, y), wd - 1, lim, b \cup Both(x, y, 8))
     ELSE IF ~last \/ m = 0
     THEN Result(IF Orr(diff, nul) = Zeroes THEN 0 ELSE CalCmpResult(w1, w2, Orr(diff, nul)), b)
     ELSE Result(CalCmpResult(MaskHigh(w1, m), MaskHigh(w2, m), Orr(diff, Orr(nul, HighOnes(m)))), b)

\* .Lremain8 and .Ltiny8proc: the bytes after the last whole word.
StrncmpRemain(x, y, m, b) ==
  LET k == TinyCmp(x, y, m, TRUE)
      e == IF k = m THEN m - 1 ELSE k
  IN IF m = 0 THEN Result(0, b) ELSE Result(ByteDiff(x, y, e), b \cup Both(x, y, e + 1))

StrncmpUnequal(x, y, w1, w2, lim, b) ==
  LET syn == StrSyndrome(w1, w2) IN
  IF syn = Zeroes THEN StrncmpRemain(x, y, lim % 8, b) ELSE Result(CalCmpResult(w1, w2, syn), b)

RECURSIVE StrncmpLoop(_, _, _, _, _, _)
StrncmpLoop(x, y, pos, wd, lim, b) ==
  LET u1 == Word(1, x + pos)
      u2 == Word(2, y + pos)
      w1 == Word(1, x)
      w2 == Word(2, y)
      bu == b \cup Both(x + pos, y + pos, 8)
      bw == bu \cup Both(x, y, 8)
  IN IF StrSyndrome(u1, u2) # Zeroes THEN StrncmpUnequal(x, y, u1, u2, lim, bu)
     ELSE IF StrSyndrome(w1, w2) # Zeroes \/ wd - 1 = 0 THEN StrncmpUnequal(x + 8, y + 8, w1, w2, lim, bw)
     ELSE StrncmpLoop(x + 8, y + 8, pos, wd - 1, lim, bw)

StrncmpStartAlign(x, y, t3, lim, b) ==
  LET w1 == Word(1, x + t3)
      w2 == Word(2, y + t3)
      wd == (lim - t3) \div 8
      bw == b \cup Both(x + t3, y + t3, 8)
  IN IF lim \div 8 = 0 THEN StrncmpRemain(x, y, lim % 8, b)
     ELSE IF x % 8 = 0 THEN StrncmpLoop(x, y, -t3, lim \div 8, lim, b)
     ELSE IF StrSyndrome(w1, w2) # Zeroes \/ wd - 1 = 0
     THEN StrncmpUnequal(x + t3 + 8, y + t3 + 8, w1, w2, lim - t3, bw)
     ELSE StrncmpLoop(x + t3 + 8, y + t3 + 8, -(t3 % 8), wd - 1, lim - t3, bw)

StrncmpMisaligned(x, y) ==
  LET t3 == ToAlign(x) - ToAlign(y)
      pos == IF t3 > 0 THEN ToAlign(x) ELSE ToAlign(y)
      k == TinyCmp(x, y, pos, TRUE)
  IN IF in.n < 8 THEN StrncmpRemain(x, y, in.n, {})
     ELSE IF k < pos THEN Result(ByteDiff(x, y, k), Both(x, y, k + 1))
     ELSE StrncmpStartAlign(x + pos, y + pos, t3, in.n - pos, Both(x, y, pos))

StrnCmp ==
  LET x == Start(1)
      y == Start(2)
      m == x % 8
  IN IF in.n = 0 THEN Result(0, {})
     ELSE IF (x - y) % 8 # 0 THEN StrncmpMisaligned(x, y)
     ELSE StrncmpAligned(x - m + 8, y - m + 8, MaskLow(Word(1, x - m), m), MaskLow(Word(2, y - m), m),
                         Limits(m), in.n + m, Both(x - m, y - m, 8))

----------------------------------------------------------------------------
(* memcmp                                                                   *)

RECURSIVE MemcmpAligned(_, _, _, _, _, _, _)
MemcmpAligned(x, y, w1, w2, wd, lim, b) ==
  LET diff == Eor(w1, w2)
      last == wd - 1 < 0
      m == lim % 8
  IN IF ~last /\ diff = Zeroes
     THEN MemcmpAligned(x + 8, y + 8, Word(1, x), Word(2, y), wd - 1, lim, b \cup Both(x, y, 8))
     ELSE IF ~last \/ m = 0 THEN Result(IF diff = Zeroes THEN 0 ELSE CalCmpResult(w1, w2, diff), b)
     ELSE Result(CalCmpResult(MaskHigh(w1, m), MaskHigh(w2, m), Orr(diff, HighOnes(m))), b)

MemcmpRemain(x, y, m, b) ==
  LET k == TinyCmp(x, y, m, FALSE)
      e == IF k = m THEN m - 1 ELSE k
  IN IF m = 0 THEN Result(0, b) ELSE Result(ByteDiff(x, y, e), b \cup Both(x, y, e + 1))

MemcmpUnequal(x, y, w1, w2, lim, b) ==
  IF Eor(w1, w2) = Zeroes THEN MemcmpRemain(x, y, lim % 8, b)
  ELSE Result(CalCmpResult(w1, w2, Eor(w1, w2)), b)

RECURSIVE MemcmpLoop(_, _, _, _, _, _)
MemcmpLoop(x, y, pos, wd, lim, b) ==
  LET u1 == Word(1, x + pos)
      u2 == Word(2, y + pos)
      w1 == Word(1, x)
      w2 == Word(2, y)
      bu == b \cup Both(x + pos, y + pos, 8)
      bw == bu \cup Both(x, y, 8)
  IN IF u1 # u2 THEN Result(CalCmpResult(u1, u2, Eor(u1, u2)), bu)
     ELSE IF w1 # w2 \/ wd - 1 = 0 THEN MemcmpUnequal(x + 8, y + 8, w1, w2, lim, bw)
     ELSE MemcmpLoop(x + 8, y + 8, pos, wd - 1, lim, bw)

MemcmpStartAlign(x, y, t3, lim, b) ==
  LET w1 == Word(1, x + t3)
      w2 == Word(2, y + t3)
      wd == (lim - t3) \div 8
      bw == b \cup Both(x + t3, y + t3, 8)
  IN IF lim \div 8 = 0 THEN MemcmpRemain(x, y, lim % 8, b)
     ELSE IF x % 8 = 0 THEN MemcmpLoop(x, y, -t3, lim \div 8, lim, b)
     ELSE IF wd = 0 THEN MemcmpRemain(x + t3, y + t3, (lim - t3) % 8, b)
     ELSE IF w1 # w2 \/ wd - 1 = 0
     THEN MemcmpUnequal(x + t3 + 8, y + t3 + 8, w1, w2, lim - t3, bw)
     ELSE MemcmpLoop(x + t3 + 8, y + t3 + 8, -(t3 % 8), wd - 1, lim - t3, bw)

MemcmpMisaligned(x, y) ==
  LET t3 == ToAlign(x) - ToAlign(y)
      pos == IF t3 > 0 THEN ToAlign(x) ELSE ToAlign(y)
      k == TinyCmp(x, y, pos, FALSE)
  IN IF in.n < 8 THEN MemcmpRemain(x, y, in.n, {})
     ELSE IF k < pos THEN Result(ByteDiff(x, y, k), Both(x, y, k + 1))
     ELSE MemcmpStartAlign(x + pos, y + pos, t3, in.n - pos, Both(x, y, pos))

MemCmp ==
  LET x == Start(1)
      y == Start(2)
      m == x % 8
  IN IF in.n = 0 THEN Result(0, {})
     ELSE IF (x - y) % 8 # 0 THEN MemcmpMisaligned(x, y)
     ELSE MemcmpAligned(x - m + 8, y - m + 8, MaskLow(Word(1, x - m), m), MaskLow(Word(2, y - m), m),
                        Limits(m), in.n + m, Both(x - m, y - m, 8))

----------------------------------------------------------------------------
(* strchr, strrchr, memchr: a byte at a time. The result is an offset.      *)

RECURSIVE StrchrFrom(_, _)
StrchrFrom(a, b) ==
  IF Byte(1, a) = in.c THEN Result(a - Start(1), b \cup Touch(1, a, 1))
  ELSE IF Byte(1, a) = 0 THEN Result(None, b \cup Touch(1, a, 1))
  ELSE StrchrFrom(a + 1, b \cup Touch(1, a, 1))

RECURSIVE StrrchrFrom(_, _, _)
StrrchrFrom(a, found, b) ==
  IF Byte(1, a) = 0 THEN Result(found, b \cup Touch(1, a, 1))
  ELSE StrrchrFrom(a + 1, IF Byte(1, a) = in.c THEN a - Start(1) ELSE found, b \cup Touch(1, a, 1))

RECURSIVE MemchrFrom(_, _, _)
MemchrFrom(a, n, b) ==
  IF n = 0 THEN Result(None, b)
  ELSE IF Byte(1, a) = in.c THEN Result(a - Start(1), b \cup Touch(1, a, 1))
  ELSE MemchrFrom(a + 1, n - 1, b \cup Touch(1, a, 1))

----------------------------------------------------------------------------

NoResult == [f |-> "none", r |-> 0, b |-> {}]
Call(f, res) ==
  /\ out = NoResult /\ in.f = f
  /\ out' = [f |-> f, r |-> res.r, b |-> res.b]
  /\ UNCHANGED in

Return == out # NoResult /\ out' = NoResult /\ UNCHANGED in

ArmStrInit == (\E i \in DOMAIN Inputs : in \in Inputs[i]) /\ out = NoResult

ArmStrNext ==
  \/ Call("strlen", StrLen)
  \/ Call("strnlen", StrnLen)
  \/ Call("strcmp", StrCmp)
  \/ Call("strncmp", StrnCmp)
  \/ Call("memcmp", MemCmp)
  \/ Call("strchr", StrchrFrom(Start(1), {}))
  \/ Call("strrchr", StrrchrFrom(Start(1), None, {}))
  \/ Call("memchr", MemchrFrom(Start(1), in.n, {}))
  \/ Return

ArmStrSpec == ArmStrInit /\ [][ArmStrNext]_armStrVars

----------------------------------------------------------------------------
(* Properties                                                               *)

At(i, k) == Byte(i, Start(i) + k)
Sign(x) == IF x < 0 THEN -1 ELSE IF x > 0 THEN 1 ELSE 0
Least(S, default) == IF S = {} THEN default ELSE CHOOSE k \in S : \A j \in S : k <= j
Shorter(a, b) == IF a < b THEN a ELSE b

\* The C definition of a comparison of at most n bytes.
CompareRef(n, nul) ==
  LET k == Least({j \in 0..(n - 1) : At(1, j) # At(2, j) \/ (nul /\ At(1, j) = 0)}, None) IN
  IF k = None THEN 0 ELSE Sign(At(1, k) - At(2, k))

ArmStrTypeOK ==
  out.r \in Int /\ out.f \in {"none", in.f} /\ \A x \in out.b : x[1] \in {1, 2} /\ x[2] \in Nat

\* The lengths are those of the byte by byte definition, for every alignment
\* and although a 0x01 follows the NUL.
LengthRight ==
  /\ out.f = "strlen" => out.r = in.len[1]
  /\ out.f = "strnlen" => out.r = Shorter(in.len[1], in.n)

\* A comparison has the sign of the first difference, for every alignment of
\* the two strings, every limit, and whatever surrounds the strings.
CompareRight ==
  /\ out.f = "strcmp" => Sign(out.r) = CompareRef(in.len[1] + 1, TRUE)
  /\ out.f = "strncmp" => Sign(out.r) = CompareRef(in.n, TRUE)
  /\ out.f = "memcmp" => Sign(out.r) = CompareRef(in.n, FALSE)

\* The searches find the first (last) occurrence, the terminator included in
\* strchr only.
FoundRight ==
  /\ out.f = "strchr" => out.r = Least({k \in 0..in.len[1] : At(1, k) = in.c}, None)
  /\ out.f = "strrchr" =>
       LET S == {k \in 0..(in.len[1] - 1) : At(1, k) = in.c} IN
       IF S = {} THEN out.r = None ELSE out.r \in S /\ \A k \in S : k <= out.r
  /\ out.f = "memchr" => out.r = Least({k \in 0..(in.n - 1) : At(1, k) = in.c}, None)

\* "all the accesses are in the thread/task space" (strcmp.S): a word read
\* lies in a block that holds a byte of the string, up to its NUL or the
\* limit, so no page is touched that the string is not in.
Extent(i) ==
  IF out.f \in {"strlen", "strcmp", "strchr", "strrchr"} THEN in.len[i]
  ELSE IF out.f \in {"strnlen", "strncmp"} THEN Shorter(in.len[i], in.n - 1)
  ELSE in.n - 1

ReadsInsideBlocks ==
  \A x \in out.b : x \in Touch(x[1], Start(x[1]), Extent(x[1]) + 1)

----------------------------------------------------------------------------
(* The C string functions of lib/base/src/string.c that arm64 does not      *)
(* replace by assembly.  A buffer of Size bytes is rewritten by any sequence*)
(* of calls; the searches are applied to every buffer reached.  Character 0 *)
(* is NUL.                                                                  *)

CONSTANTS
  Size,         \* bytes of the buffer
  Words,        \* the source strings: sequences of characters other than NUL
  Chars         \* the characters of the words

VARIABLES
  buf,          \* the buffer: [0..Size - 1 -> characters]
  rest,         \* the pointer strsep keeps, NoPos when it is NULL
  tokens,       \* the tokens strsep has returned
  whole         \* the string strsep was started on

strVars == <<buf, rest, tokens, whole>>

NoPos == -1
Space == 32
isspace(c) == c = Space
tolower(c) == IF c \in 65..90 THEN c + 32 ELSE c

ByteOf(s, i) == IF i < Len(s) THEN s[i + 1] ELSE 0          \* s as a C string
Terminated(b) == \E i \in 0..(Size - 1) : b[i] = 0
strlen(b) == CHOOSE i \in 0..(Size - 1) : b[i] = 0 /\ \A j \in 0..(i - 1) : b[j] # 0
Str(b) == [i \in 1..strlen(b) |-> b[i - 1]]
StrFrom(b, p) == SubSeq(Str(b), p + 1, strlen(b))

----------------------------------------------------------------------------
(* Copies. Each is the buffer it leaves and the value it returns.           *)

\* while ((*dest++ = *src++) != 0)
CopyAt(b, p, s, n) == [i \in 0..(Size - 1) |-> IF i >= p /\ i < p + n THEN ByteOf(s, i - p) ELSE b[i]]

strcpy(b, s) == CopyAt(b, 0, s, Len(s) + 1)

\* NUL padded, and not terminated when the source is too long.
strncpy(b, s, count) == CopyAt(b, 0, s, count)

strlcpy(b, s, size) ==
  LET ret == Len(s)
      len == IF ret >= size THEN size - 1 ELSE ret
  IN [b |-> IF size = 0 THEN b ELSE [CopyAt(b, 0, s, len) EXCEPT ![len] = 0], r |-> ret]

strcat(b, s) == CopyAt(b, strlen(b), s, Len(s) + 1)

\* The loop ends at the NUL it copied, or writes one after count characters.
strncat(b, s, count) ==
  IF count = 0 THEN b
  ELSE IF Len(s) < count THEN CopyAt(b, strlen(b), s, Len(s) + 1)
  ELSE [CopyAt(b, strlen(b), s, count) EXCEPT ![strlen(b) + count] = 0]

\* BUG_ON(dsize >= count)
strlcatAllowed(b, count) == strlen(b) < count

strlcat(b, s, count) ==
  LET dsize == strlen(b)
      room == count - dsize
      len == IF Len(s) >= room THEN room - 1 ELSE Len(s)
  IN [b |-> [CopyAt(b, dsize, s, len) EXCEPT ![dsize + len] = 0], r |-> dsize + Len(s)]

----------------------------------------------------------------------------
(* In place                                                                 *)

RECURSIVE skip_spaces(_, _)
skip_spaces(b, p) == IF isspace(b[p]) THEN skip_spaces(b, p + 1) ELSE p

RECURSIVE LastNonSpace(_, _)
LastNonSpace(b, e) == IF e >= 0 /\ isspace(b[e]) THEN LastNonSpace(b, e - 1) ELSE e

strim(b) ==
  LET size == strlen(b)
      c == [b EXCEPT ![LastNonSpace(b, size - 1) + 1] = 0]
  IN IF size = 0 THEN [b |-> b, r |-> 0] ELSE [b |-> c, r |-> skip_spaces(c, 0)]

RECURSIVE strreplaceFrom(_, _, _, _)
strreplaceFrom(b, p, old, new) ==
  IF b[p] = 0 THEN b
  ELSE strreplaceFrom(IF b[p] = old THEN [b EXCEPT ![p] = new] ELSE b, p + 1, old, new)

strreplace(b, old, new) == strreplaceFrom(b, 0, old, new)

\* strpbrk: the first character of b from p on that is in ct.
RECURSIVE strpbrk(_, _, _)
strpbrk(b, p, ct) ==
  IF b[p] = 0 THEN NoPos
  ELSE IF \E i \in DOMAIN ct : ct[i] = b[p] THEN p ELSE strpbrk(b, p + 1, ct)

memzero_explicit(b, n) == [i \in 0..(Size - 1) |-> IF i < n THEN 0 ELSE b[i]]

----------------------------------------------------------------------------
(* Searches and comparisons                                                 *)

RECURSIVE strchrnul(_, _, _)
strchrnul(b, p, c) == IF b[p] # 0 /\ b[p] # c THEN strchrnul(b, p + 1, c) ELSE p

RECURSIVE strnchr(_, _, _, _)
strnchr(b, p, count, c) ==
  IF count = 0 \/ b[p] = 0 THEN NoPos ELSE IF b[p] = c THEN p ELSE strnchr(b, p + 1, count - 1, c)

RECURSIVE strspn(_, _, _)
strspn(b, p, accept) ==
  IF b[p] = 0 \/ ~\E i \in DOMAIN accept : accept[i] = b[p] THEN p ELSE strspn(b, p + 1, accept)

RECURSIVE strcspn(_, _, _)
strcspn(b, p, reject) ==
  IF b[p] = 0 \/ \E i \in DOMAIN reject : reject[i] = b[p] THEN p ELSE strcspn(b, p + 1, reject)

RECURSIVE memscan(_, _, _, _)
memscan(b, p, c, size) == IF size = 0 \/ b[p] = c THEN p ELSE memscan(b, p + 1, c, size - 1)

MemEqual(b, p, s, n) == \A i \in 0..(n - 1) : b[p + i] = ByteOf(s, i)

RECURSIVE strstrFrom(_, _, _, _)
strstrFrom(b, p, l1, s) ==
  IF l1 < Len(s) THEN NoPos ELSE IF MemEqual(b, p, s, Len(s)) THEN p ELSE strstrFrom(b, p + 1, l1 - 1, s)

strstr(b, s) == IF Len(s) = 0 THEN 0 ELSE strstrFrom(b, 0, strlen(b), s)

\* Does not look for the NUL: len bytes are searched.
strnstr(b, s, len) == IF Len(s) = 0 THEN 0 ELSE strstrFrom(b, 0, len, s)

RECURSIVE strcasecmpFrom(_, _, _)
strcasecmpFrom(b, p, s) ==
  LET c1 == tolower(b[p])
      c2 == tolower(ByteOf(s, p))
  IN IF c1 = c2 /\ c1 # 0 THEN strcasecmpFrom(b, p + 1, s) ELSE c1 - c2

\* The characters are lowered only when they differ.
RECURSIVE strncasecmpFrom(_, _, _, _)
strncasecmpFrom(b, p, s, len) ==
  LET c1 == b[p]
      c2 == ByteOf(s, p)
  IN IF c1 = 0 \/ c2 = 0 THEN c1 - c2
     ELSE IF c1 # c2 /\ tolower(c1) # tolower(c2) THEN tolower(c1) - tolower(c2)
     ELSE IF len - 1 > 0 THEN strncasecmpFrom(b, p + 1, s, len - 1)
     ELSE IF c1 = c2 THEN 0 ELSE tolower(c1) - tolower(c2)

strncasecmp(b, s, len) == IF len = 0 THEN 0 ELSE strncasecmpFrom(b, 0, s, len)

\* n is the length of the array, or more for an array that ends in NULL.
Null == <<0>>
RECURSIVE match_string(_, _, _, _)
match_string(array, n, i, b) ==
  IF i >= n \/ array[i + 1] = Null THEN NoPos
  ELSE IF Str(b) = array[i + 1] THEN i ELSE match_string(array, n, i + 1, b)

\* memchr_inv reads words of 8 bytes (scaled to WordBytes) once aligned.
WordBytes == 2
RECURSIVE check_bytes8(_, _, _, _)
check_bytes8(b, p, c, n) ==
  IF n = 0 THEN NoPos ELSE IF b[p] # c THEN p ELSE check_bytes8(b, p + 1, c, n - 1)

RECURSIVE memchr_invWords(_, _, _, _, _)
memchr_invWords(b, p, c, words, n) ==
  IF words = 0 THEN check_bytes8(b, p, c, n % WordBytes)
  ELSE IF \E i \in 0..(WordBytes - 1) : b[p + i] # c THEN check_bytes8(b, p, c, WordBytes)
  ELSE memchr_invWords(b, p + WordBytes, c, words - 1, n)

memchr_inv(b, c, n, align) ==
  LET prefix == IF align = 0 THEN 0 ELSE WordBytes - align
      m == n - prefix
  IN IF n <= 2 * WordBytes THEN check_bytes8(b, 0, c, n)
     ELSE IF check_bytes8(b, 0, c, prefix) # NoPos THEN check_bytes8(b, 0, c, prefix)
     ELSE memchr_invWords(b, prefix, c, m \div WordBytes, m)

----------------------------------------------------------------------------
(* The buffer's life                                                        *)

Quiet == UNCHANGED <<rest, tokens, whole>>
Free == rest = NoPos /\ tokens = <<>>                 \* no strsep under way
Usable == Free /\ Terminated(buf)

DoStrcpy(s) == Free /\ Len(s) < Size /\ buf' = strcpy(buf, s) /\ Quiet
DoStrncpy(s, n) == Free /\ buf' = strncpy(buf, s, n) /\ Quiet
DoStrlcpy(s, n) == Free /\ buf' = strlcpy(buf, s, n).b /\ Quiet
DoStrcat(s) == Usable /\ strlen(buf) + Len(s) < Size /\ buf' = strcat(buf, s) /\ Quiet
DoStrncat(s, n) == Usable /\ strlen(buf) + n < Size /\ buf' = strncat(buf, s, n) /\ Quiet
DoStrlcat(s, n) == Usable /\ strlcatAllowed(buf, n) /\ buf' = strlcat(buf, s, n).b /\ Quiet
DoStrim == Usable /\ buf' = strim(buf).b /\ Quiet
DoReplace(c, d) == Usable /\ buf' = strreplace(buf, c, d) /\ Quiet
DoZero(n) == Free /\ buf' = memzero_explicit(buf, n) /\ Quiet

\* A caller splits the buffer with strsep, until it returns NULL.
SepBegin == Usable /\ rest' = 0 /\ whole' = Str(buf) /\ UNCHANGED <<buf, tokens>>

Sep(ct) ==
  /\ rest # NoPos
  /\ LET e == strpbrk(buf, rest, ct)
         cut == IF e = NoPos THEN buf ELSE [buf EXCEPT ![e] = 0]
         token == [i \in 1..((CHOOSE j \in rest..(Size - 1) :
                                cut[j] = 0 /\ \A k \in rest..(j - 1) : cut[k] # 0) - rest) |-> cut[rest + i - 1]]
     IN /\ buf' = cut
        /\ rest' = IF e = NoPos THEN NoPos ELSE e + 1
        /\ tokens' = Append(tokens, token)
  /\ UNCHANGED whole

SepEnd == rest = NoPos /\ tokens # <<>> /\ tokens' = <<>> /\ whole' = <<>> /\ UNCHANGED <<buf, rest>>

StrInit == buf = [i \in 0..(Size - 1) |-> 0] /\ rest = NoPos /\ tokens = <<>> /\ whole = <<>>

SepChars == <<Space>>

StrNext ==
  \/ \E s \in Words : DoStrcpy(s) \/ DoStrcat(s)
  \/ \E s \in Words, n \in 0..Size :
       DoStrncpy(s, n) \/ DoStrlcpy(s, n) \/ DoStrncat(s, n) \/ DoStrlcat(s, n)
  \/ DoStrim
  \/ \E c \in Chars, d \in Chars : DoReplace(c, d)
  \/ \E n \in 0..Size : DoZero(n)
  \/ SepBegin \/ Sep(SepChars) \/ SepEnd

StrSpec == StrInit /\ [][StrNext]_strVars

----------------------------------------------------------------------------
(* Properties                                                               *)

Prefix(s, n) == SubSeq(s, 1, IF n < Len(s) THEN n ELSE Len(s))
Idx == 0..(Size - 1)
First(S, default) == IF S = {} THEN default ELSE CHOOSE i \in S : \A j \in S : i <= j
Sgn(x) == IF x < 0 THEN -1 ELSE IF x > 0 THEN 1 ELSE 0

StrTypeOK ==
  /\ buf \in [Idx -> Chars \cup {0}] /\ rest \in {NoPos} \cup Idx
  /\ \A i \in DOMAIN tokens : \A j \in DOMAIN tokens[i] : tokens[i][j] \in Chars

\* What strlcpy, strlcat and strncat leave is a terminated string, the longest
\* prefix of the whole that fits, and the value returned tells of truncation;
\* nothing past the limit is written.
BoundedCopies ==
  \A s \in Words, n \in 0..Size :
    /\ n > 0 => LET x == strlcpy(buf, s, n) IN
         /\ Str(x.b) = Prefix(s, n - 1) /\ (x.r >= n <=> Str(x.b) # s)
         /\ \A i \in n..(Size - 1) : x.b[i] = buf[i]
    /\ Terminated(buf) /\ strlcatAllowed(buf, n) => LET x == strlcat(buf, s, n) IN
         /\ Str(x.b) = Prefix(Str(buf) \o s, n - 1) /\ (x.r >= n <=> Str(x.b) # Str(buf) \o s)
         /\ \A i \in n..(Size - 1) : x.b[i] = buf[i]
    /\ Terminated(buf) /\ strlen(buf) + n < Size =>
         Str(strncat(buf, s, n)) = Str(buf) \o Prefix(s, n)

\* strim leaves no white space at either end and loses nothing else.
TrimExact ==
  Terminated(buf) =>
    LET x == strim(buf)
        t == StrFrom(x.b, x.r)
        black == {i \in DOMAIN Str(buf) : ~isspace(Str(buf)[i])}
    IN IF black = {} THEN t = <<>>
       ELSE t = SubSeq(Str(buf), First(black, 0), CHOOSE i \in black : \A j \in black : j <= i)

\* The tokens of strsep, joined by the separators it overwrote, are the string
\* it was given: an empty token between two separators is not lost.
RECURSIVE Join(_)
Join(ts) == IF Len(ts) = 1 THEN ts[1] ELSE ts[1] \o <<Space>> \o Join(Tail(ts))
TokensJoin ==
  tokens # <<>> =>
    /\ Join(tokens) = Prefix(whole, Len(Join(tokens)))
    /\ rest = NoPos => Join(tokens) = whole
    /\ \A i \in DOMAIN tokens : \A j \in DOMAIN tokens[i] : tokens[i][j] # Space

\* The searches agree with their definition on every buffer reached.
SearchesExact ==
  Terminated(buf) =>
    \A c \in Chars, s \in Words :
      LET set == {s[i] : i \in DOMAIN s}
          here == {i \in 0..(strlen(buf) - 1) : buf[i] = c}
          among == {i \in 0..(strlen(buf) - 1) : buf[i] \in set}
          outside == {i \in 0..(strlen(buf) - 1) : buf[i] \notin set}
          occurs == {i \in 0..(strlen(buf) - Len(s)) : SubSeq(Str(buf), i + 1, i + Len(s)) = s}
      IN /\ strchrnul(buf, 0, c) = First(here, strlen(buf))
         /\ \A n \in 0..Size : strnchr(buf, 0, n, c) = First({i \in here : i < n}, NoPos)
         /\ strspn(buf, 0, s) = First(outside, strlen(buf))
         /\ strcspn(buf, 0, s) = First(among, strlen(buf))
         /\ strpbrk(buf, 0, s) = First(among, NoPos)
         /\ strstr(buf, s) = First(occurs, NoPos)
         /\ \A n \in 0..strlen(buf) : strnstr(buf, s, n) = First({i \in occurs : i + Len(s) <= n}, NoPos)
         /\ \A n \in 0..Size : memscan(buf, 0, c, n) = First({i \in 0..(n - 1) : buf[i] = c}, n)
         /\ match_string(<<s, <<c>>, Null>>, Size, 0, buf) =
              IF Str(buf) = s THEN 0 ELSE IF Str(buf) = <<c>> THEN 1 ELSE NoPos

\* memchr_inv finds the first other byte for every length and alignment.
InverseSearchExact ==
  \A c \in Chars \cup {0}, n \in 0..Size, a \in 0..(WordBytes - 1) :
    memchr_inv(buf, c, n, a) = First({i \in 0..(n - 1) : buf[i] # c}, NoPos)

\* Comparing without case is comparing the lowered strings, and strncasecmp of
\* the whole length agrees with strcasecmp.
CaseCompareExact ==
  Terminated(buf) =>
    \A s \in Words :
      LET lower(t) == [i \in DOMAIN t |-> tolower(t[i])] IN
      /\ strcasecmpFrom(buf, 0, s) = 0 <=> lower(Str(buf)) = lower(s)
      /\ Sgn(strncasecmp(buf, s, Size + 1)) = Sgn(strcasecmpFrom(buf, 0, s))
      /\ \A n \in 0..Size : strncasecmp(buf, s, n) = 0 <=> Prefix(lower(Str(buf)), n) = Prefix(lower(s), n)
=============================================================================
