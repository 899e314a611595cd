------------------------------- MODULE Printf -------------------------------
(***************************************************************************)
(* The conversions of strings to integers: lib/base/src/kstrtox.c and the  *)
(* simple_strto functions of vsprintf.c. An unsigned long long has W bits, *)
(* an unsigned long too, the shorter types fewer; characters are codes and *)
(* a string is a sequence of them, NUL not included.                       *)
(***************************************************************************)
EXTENDS Integers, Sequences, FiniteSets

CONSTANTS
  W,            \* bits of unsigned long long (64)
  MaxLen,       \* bound on the length of the strings tried
  Alphabet      \* the characters tried

VARIABLES
  str           \* the string the conversions are applied to

EINVAL == 22
ERANGE == 34
Newline == 10
Plus == 43
Minus == 45

At(s, i) == IF i < Len(s) THEN s[i + 1] ELSE 0              \* s[i] of a C string
From(s, i) == SubSeq(s, i + 1, Len(s))

M == 2^W
isdigit(c) == c \in 48..57
LowerBit(c) == IF (c \div 32) % 2 = 1 THEN c ELSE c + 32     \* c | 0x20
isxdigit(c) == isdigit(c) \/ LowerBit(c) \in 97..102
Signed(x) == IF x >= M \div 2 THEN x - M ELSE x              \* (long long)x

----------------------------------------------------------------------------

\* The base that s is in and the number of characters of its prefix.
FixupRadix(s, base) ==
  LET b == IF base # 0 THEN base
           ELSE IF At(s, 0) # 48 THEN 10
           ELSE IF LowerBit(At(s, 1)) = 120 /\ isxdigit(At(s, 2)) THEN 16 ELSE 8
  IN [base |-> b, skip |-> IF b = 16 /\ At(s, 0) = 48 /\ LowerBit(At(s, 1)) = 120 THEN 2 ELSE 0]

DigitValue(c) ==
  IF isdigit(c) THEN c - 48 ELSE IF LowerBit(c) \in 97..102 THEN LowerBit(c) - 87 ELSE 99

\* Overflow is looked for only when the top four bits of the result are in use.
RECURSIVE ParseFrom(_, _, _, _)
ParseFrom(s, base, res, p) ==
  LET val == DigitValue(At(s, p.n)) IN
  IF val >= base THEN [n |-> p.n, over |-> p.over, val |-> res]
  ELSE LET over == res >= 2^(W - 4) /\ res > (M - 1 - val) \div base
       IN ParseFrom(s, base, (res * base + val) % M, [n |-> p.n + 1, over |-> p.over \/ over])

ParseInteger(s, base) == ParseFrom(s, base, 0, [n |-> 0, over |-> FALSE])

Err(e) == [err |-> e, val |-> 0]
Ok(v) == [err |-> 0, val |-> v]

WholeNumber(t, p) ==
  IF p.over THEN Err(ERANGE)
  ELSE IF p.n = 0 \/ At(t, IF At(t, p.n) = Newline THEN p.n + 1 ELSE p.n) # 0 THEN Err(EINVAL)
  ELSE Ok(p.val)
ParsedAs(t, base) == WholeNumber(t, ParseInteger(t, base))
AfterRadix(s, fix) == ParsedAs(From(s, fix.skip), fix.base)
RawKstrtoull(s, base) == AfterRadix(s, FixupRadix(s, base))

kstrtoull(s, base) == RawKstrtoull(IF At(s, 0) = Plus THEN From(s, 1) ELSE s, base)

\* -tmp is computed on W bits: only a positive (long long)-tmp is too large.
Negated(r) ==
  IF r.err # 0 THEN r ELSE IF Signed((M - r.val) % M) > 0 THEN Err(ERANGE) ELSE Ok(Signed((M - r.val) % M))
AsSigned(r) == IF r.err # 0 THEN r ELSE IF Signed(r.val) < 0 THEN Err(ERANGE) ELSE Ok(Signed(r.val))
kstrtoll(s, base) ==
  IF At(s, 0) = Minus THEN Negated(RawKstrtoull(From(s, 1), base)) ELSE AsSigned(kstrtoull(s, base))

\* kstrtouint, kstrtou16, kstrtou8: tmp != (type)tmp
Narrow(r, w) == IF r.err = 0 /\ r.val # r.val % 2^w THEN Err(ERANGE) ELSE r
kstrtounsigned(s, base, w) == Narrow(kstrtoull(s, base), w)

\* kstrtoint, kstrtos16, kstrtos8
Cast(v, w) == LET u == v % 2^w IN IF u >= 2^(w - 1) THEN u - 2^w ELSE u
NarrowSigned(r, w) == IF r.err = 0 /\ r.val # Cast(r.val, w) THEN Err(ERANGE) ELSE r
kstrtosigned(s, base, w) == NarrowSigned(kstrtoll(s, base), w)

\* The value and the number of characters used; overflow is not reported.
Taken(skip, p) == [val |-> p.val, end |-> skip + p.n]
Prefixed(s, fix) == Taken(fix.skip, ParseInteger(From(s, fix.skip), fix.base))
simple_strtoull(s, base) == Prefixed(s, FixupRadix(s, base))

Negative(r) == [val |-> Signed((M - r.val) % M), end |-> r.end + 1]
Positive(r) == [val |-> Signed(r.val), end |-> r.end]
simple_strtoll(s, base) ==
  IF At(s, 0) = Minus THEN Negative(simple_strtoull(From(s, 1), base)) ELSE Positive(simple_strtoull(s, base))

----------------------------------------------------------------------------

StrtoxInit == str = <<>>
Append1(c) == Len(str) < MaxLen /\ str' = Append(str, c)
Clear == str # <<>> /\ str' = <<>>
StrtoxNext == (\E c \in Alphabet : Append1(c)) \/ Clear
StrtoxSpec == StrtoxInit /\ [][StrtoxNext]_str

----------------------------------------------------------------------------
(* Properties                                                               *)

Bases == {0, 2, 8, 10, 16}
Widths == {3, 5}

RECURSIVE Value(_, _)
Value(s, base) ==
  IF s = <<>> THEN 0 ELSE Value(SubSeq(s, 1, Len(s) - 1), base) * base + DigitValue(s[Len(s)])

\* The grammar the comments give: the prefix of the base, digits, one newline.
IsHex(s) == Len(s) >= 2 /\ s[1] = 48 /\ s[2] \in {120, 88}
BaseOf(s, base) ==
  IF base # 0 THEN base
  ELSE IF IsHex(s) /\ Len(s) >= 3 /\ isxdigit(s[3]) THEN 16 ELSE IF s # <<>> /\ s[1] = 48 THEN 8 ELSE 10
Stem(s) == IF s # <<>> /\ s[Len(s)] = Newline THEN SubSeq(s, 1, Len(s) - 1) ELSE s
Digits(s, base) == IF BaseOf(s, base) = 16 /\ IsHex(s) THEN From(Stem(s), 2) ELSE Stem(s)
NumberIn(digits, base) == digits # <<>> /\ \A i \in DOMAIN digits : DigitValue(digits[i]) < base
Number(s, base) == NumberIn(Digits(s, base), BaseOf(s, base))
NumberValue(s, base) == Value(Digits(s, base), BaseOf(s, base))
Unsign(s) == IF s # <<>> /\ s[1] = Plus THEN From(s, 1) ELSE s

StrtoxTypeOK == str \in Seq(Alphabet) /\ Len(str) <= MaxLen

\* kstrtoull succeeds on exactly the numbers that fit, and gives their value:
\* no overflow escapes the check of the top four bits.
ExactIn(r, number, v, min, max) ==
  /\ r.err = 0 <=> number /\ v >= min /\ v < max
  /\ r.err = 0 => r.val = v
Overflows(r, number, v) == number /\ v >= M => r.err = ERANGE
UnsignedExact ==
  \A b \in Bases :
    /\ ExactIn(kstrtoull(str, b), Number(Unsign(str), b), NumberValue(Unsign(str), b), 0, M)
    /\ Overflows(kstrtoull(str, b), Number(Unsign(str), b), NumberValue(Unsign(str), b))

\* kstrtoll succeeds on exactly the numbers of the signed range, the most
\* negative one included.
HasMinus == str # <<>> /\ str[1] = Minus
Bare == IF HasMinus THEN From(str, 1) ELSE Unsign(str)
SignedValue(v) == IF HasMinus THEN -v ELSE v
SignedExact ==
  \A b \in Bases :
    ExactIn(kstrtoll(str, b), Number(Bare, b), SignedValue(NumberValue(Bare, b)), -(M \div 2), M \div 2)

\* The narrow conversions accept what the wide one accepts and fits.
NarrowsTo(r, wide, min, max) == r.err = 0 <=> wide.err = 0 /\ wide.val >= min /\ wide.val < max
NarrowExact ==
  \A b \in Bases, w \in Widths :
    /\ NarrowsTo(kstrtounsigned(str, b, w), kstrtoull(str, b), 0, 2^w)
    /\ NarrowsTo(kstrtosigned(str, b, w), kstrtoll(str, b), -(2^(w - 1)), 2^(w - 1))

\* Where both accept a string they agree, and simple_strtoull never runs past
\* its end nor, after a prefix, stops before it.
AgreesWith(k, s) ==
  /\ (k.err = 0 /\ At(str, 0) # Plus) => s.val = k.val /\ s.end >= Len(Stem(str))
  /\ At(str, 0) # Minus => s.end <= IF IsHex(str) THEN Len(str) ELSE Len(Stem(str))
SimpleAgrees == \A b \in Bases : AgreesWith(kstrtoll(str, b), simple_strtoll(str, b))

-----------------------------------------------------------------------------
(***************************************************************************)
(* vsnprintf, number and vsscanf of lib/base/src/vsprintf.c. A format is a *)
(* sequence of character codes and is parsed as the code does; what a      *)
(* format prints is a sequence of characters, of which a buffer of `size'  *)
(* bytes takes the part that fits. Integers have the widths of Kstrtox.    *)
(***************************************************************************)

CONSTANTS
  WInt, WShort, \* bits of int and short
  WChar,        \* bits of char, as an integer type
  Formats,      \* the formats tried, each with one argument
  Numbers,      \* the integer arguments
  Strings,      \* the string arguments
  Sizes         \* the buffer sizes

VARIABLES
  fmt, arg,     \* the call's format and argument
  size,         \* the buffer's size
  done          \* "printed" once vsnprintf has run: [buf, len, all]

printfVars == <<fmt, arg, size, done>>

Larger(a, b) == IF a > b THEN a ELSE b
Smaller(a, b) == IF a < b THEN a ELSE b
blank(c) == c = 32
Pad(c, n) == [i \in 1..Larger(n, 0) |-> c]

----------------------------------------------------------------------------
(* put_dec: decimal digits, least significant first                         *)

\* Multiplications and shifts in place of divisions, q in 0..99999.
Nibbles(q) ==
  LET d1 == (q \div 16) % 16
      d2 == (q \div 256) % 16
      d3 == q \div 4096
      s0 == 6 * (d3 + d2 + d1) + (q % 16)
      q0 == (s0 * 205) \div 2048
      s1 == q0 + 9 * d3 + 5 * d2 + d1
      q1 == (s1 * 205) \div 2048
      s2 == q1 + 2 * d2
      q2 == (s2 * 13) \div 128
      s3 == q2 + 4 * d3
      q3 == (s3 * 205) \div 2048
  IN [s1 |-> s1, more2 |-> s2 # 0 \/ d3 # 0, s3 |-> s3, q3 |-> q3,
      d |-> <<s0 - 10 * q0, s1 - 10 * q1, s2 - 10 * q2, s3 - 10 * q3, q3>>]

put_dec_trunc(q) ==
  LET x == Nibbles(q)
      n == IF x.s1 = 0 THEN 1 ELSE IF ~x.more2 THEN 2 ELSE IF x.s3 = 0 THEN 3 ELSE IF x.q3 = 0 THEN 4 ELSE 5
  IN SubSeq(x.d, 1, n)

put_dec_full(q) == Nibbles(q).d

RECURSIVE put_dec(_)
put_dec(num) ==
  IF num < 100000 THEN put_dec_trunc(num) ELSE put_dec_full(num % 100000) \o put_dec(num \div 100000)

----------------------------------------------------------------------------
(* number                                                                   *)

RECURSIVE DigitsOf(_, _)
DigitsOf(num, base) ==
  IF num < base THEN <<num>> ELSE <<num % base>> \o DigitsOf(num \div base, base)

DigitChar(d, large) == IF d < 10 THEN 48 + d ELSE IF large THEN 55 + d ELSE 87 + d
DigitChars(tmp, large) == [i \in 1..Len(tmp) |-> DigitChar(tmp[Len(tmp) + 1 - i], large)]

IsNegative(num, flags) == "SIGN" \in flags /\ Signed(num) < 0
SignChar(num, flags) ==
  IF IsNegative(num, flags) THEN <<45>>
  ELSE IF "SIGN" \notin flags THEN <<>>
  ELSE IF "PLUS" \in flags THEN <<43>> ELSE IF "SPACE" \in flags THEN <<32>> ELSE <<>>
BasePrefix(base, flags) ==
  IF "SPECIAL" \notin flags \/ base = 10 THEN <<>>
  ELSE IF base = 16 THEN <<48, IF "LARGE" \in flags THEN 88 ELSE 120>> ELSE <<48>>
Magnitude(num, flags) == IF IsNegative(num, flags) THEN (M - num) % M ELSE num
BaseDigits(n, base) == IF base = 10 THEN put_dec(n) ELSE DigitsOf(n, base)

\* Blanks or zeros make up the width; LEFT takes ZEROPAD away.
InField(lead, digits, width, flags) ==
  LET pad == width - Len(lead) - Len(digits) IN
  IF "LEFT" \in flags THEN lead \o digits \o Pad(32, pad)
  ELSE IF "ZEROPAD" \in flags THEN lead \o Pad(48, pad) \o digits
  ELSE Pad(32, pad) \o lead \o digits
AtLeast(precision, digits) == Pad(48, precision - Len(digits)) \o digits
number(num, base, width, precision, flags) ==
  InField(SignChar(num, flags) \o BasePrefix(base, flags),
          AtLeast(precision, DigitChars(BaseDigits(Magnitude(num, flags), base), "LARGE" \in flags)),
          width, flags)

----------------------------------------------------------------------------
(* vsnprintf                                                                *)

FlagOf(c) ==
  CASE c = 45 -> "LEFT" [] c = 43 -> "PLUS" [] c = 32 -> "SPACE" [] c = 35 -> "SPECIAL"
    [] c = 48 -> "ZEROPAD" [] OTHER -> "none"

RECURSIVE FlagsFrom(_, _, _)
FlagsFrom(f, i, flags) ==
  IF FlagOf(At(f, i)) = "none" THEN [i |-> i, flags |-> flags]
  ELSE FlagsFrom(f, i + 1, flags \cup {FlagOf(At(f, i))})

RECURSIVE skip_atoi(_, _, _)
skip_atoi(f, i, n) == IF isdigit(At(f, i)) THEN skip_atoi(f, i + 1, n * 10 + At(f, i) - 48) ELSE [i |-> i, n |-> n]

\* Width and precision: digits, or the next argument (star), or absent (-1).
FieldWidth(f, i, star) ==
  IF isdigit(At(f, i)) THEN LET a == skip_atoi(f, i, 0) IN [i |-> a.i, w |-> a.n, left |-> FALSE]
  ELSE IF At(f, i) = 42 THEN [i |-> i + 1, w |-> IF star < 0 THEN -star ELSE star, left |-> star < 0]
  ELSE [i |-> i, w |-> -1, left |-> FALSE]

Precision(f, i, star) ==
  IF At(f, i) # 46 THEN [i |-> i, p |-> -1]
  ELSE IF isdigit(At(f, i + 1)) THEN LET a == skip_atoi(f, i + 1, 0) IN [i |-> a.i, p |-> a.n]
  ELSE IF At(f, i + 1) = 42 THEN [i |-> i + 2, p |-> Larger(star, 0)]
  ELSE [i |-> i + 1, p |-> 0]

Qualifier(f, i) ==
  IF At(f, i) \notin {104, 108, 76, 90, 122, 116} THEN [i |-> i, q |-> -1]
  ELSE IF At(f, i) = 108 /\ At(f, i + 1) = 108 THEN [i |-> i + 2, q |-> 76]
  ELSE [i |-> i + 1, q |-> At(f, i)]

\* The integer argument, converted by its qualifier and the sign of its format.
Fetched(a, q, signed) ==
  CASE q = 104 -> IF signed THEN Cast(a, WShort) % M ELSE a % 2^WShort
    [] q = -1 -> IF signed THEN Cast(a, WInt) % M ELSE a % 2^WInt
    [] OTHER -> a % M

\* A pointer into the first page prints as <NULL>.
NullString == <<0>>
StringAt(a) == IF a = NullString THEN <<60, 78, 85, 76, 76, 62>> ELSE a

Text(s, width, precision, left) ==
  LET len == IF precision < 0 THEN Len(s) ELSE Smaller(Len(s), precision)
      pad == Pad(32, width - len)
      t == SubSeq(s, 1, len)
  IN IF left THEN t \o pad ELSE pad \o t

\* The fields of the specification, one after the other.
Decoded(f, i, flags, width, precision, q) ==
  [i |-> i, type |-> At(f, i), flags |-> flags, width |-> width, precision |-> precision, q |-> q]
ReadQualifier(f, flags, width, precision, q) == Decoded(f, q.i, flags, width, precision, q.q)
ReadPrecision(f, flags, width, p) == ReadQualifier(f, flags, width, p.p, Qualifier(f, p.i))
ReadWidth(f, flags, w, star) ==
  ReadPrecision(f, flags \cup (IF w.left THEN {"LEFT"} ELSE {}), w.w, Precision(f, w.i, star))
ReadFlags(f, fl, star) == ReadWidth(f, fl.flags, FieldWidth(f, fl.i, star), star)
ReadSpec(f, i, star) == ReadFlags(f, FlagsFrom(f, i, {}), star)

IsSigned(type) == type \in {100, 105}                                 \* d and i
NumberBase(type) == IF type = 111 THEN 8 ELSE IF type \in {88, 120} THEN 16 ELSE 10
TypeFlags(type) == (IF type = 88 THEN {"LARGE"} ELSE {}) \cup (IF IsSigned(type) THEN {"SIGN"} ELSE {})

\* One conversion: what it prints and where the format goes on.
Converted(spec, a) ==
  [i |-> IF spec.type = 0 THEN spec.i ELSE spec.i + 1, n |-> spec.type = 110,
   out |-> CASE spec.type = 99 -> Text(<<a % 256>>, spec.width, -1, "LEFT" \in spec.flags)                \* c
             [] spec.type = 115 -> Text(StringAt(a), spec.width, spec.precision, "LEFT" \in spec.flags)  \* s
             [] spec.type = 112 ->                                                                        \* p
                  number(a % M, 16, IF spec.width = -1 THEN W \div 4 ELSE spec.width, spec.precision,
                         spec.flags \cup IF spec.width = -1 THEN {"ZEROPAD"} ELSE {})
             [] spec.type = 110 -> <<>>                                                                   \* n
             [] spec.type = 37 -> <<37>>
             [] spec.type \in {100, 105, 111, 117, 88, 120} ->
                  number(Fetched(a, spec.q, IsSigned(spec.type)), NumberBase(spec.type), spec.width,
                         spec.precision, spec.flags \cup TypeFlags(spec.type))
             [] spec.type = 0 -> <<37>>
             [] OTHER -> <<37, spec.type>>]

\* The characters printed and what %n stored: the characters before it.
RECURSIVE Formatted(_, _, _, _, _)
Printing(f, c, a, star, acc) ==
  Formatted(f, c.i, a, star, [out |-> acc.out \o c.out, n |-> IF c.n THEN Len(acc.out) ELSE acc.n])
Formatted(f, i, a, star, acc) ==
  IF At(f, i) = 0 THEN acc
  ELSE IF At(f, i) # 37 THEN Formatted(f, i + 1, a, star, [acc EXCEPT !.out = Append(@, At(f, i))])
  ELSE Printing(f, Converted(ReadSpec(f, i + 1, star), a), a, star, acc)

Nothing == [out |-> <<>>, n |-> -1]
Output(f, a, star) == Formatted(f, 0, a, star, Nothing).out

\* Characters past the end are counted and not stored; the last one stored
\* makes room for the NUL. A size that is negative as an int is refused.
Untouched == -1
vsnprintfNoRoom(n, all) ==
  IF n >= 2^(WInt - 1) THEN [buf |-> [i \in 0..(n - 1) |-> -1], len |-> 0]
  ELSE [buf |-> [i \in 0..(n - 1) |->
                   IF i = Len(all) THEN 0 ELSE IF i < Len(all) THEN all[i + 1] ELSE -1],
        len |-> Len(all)]

vsnprintf(n, all) ==
  IF n >= 2^(WInt - 1) THEN [buf |-> [i \in 0..(n - 1) |-> Untouched], len |-> 0]
  ELSE [buf |-> [i \in 0..(n - 1) |->
                   IF i = Smaller(Len(all), n - 1) THEN 0
                   ELSE IF i < Len(all) THEN all[i + 1] ELSE Untouched],
        len |-> Len(all)]

vscnprintf(n, all) == LET i == vsnprintf(n, all).len IN IF i >= n THEN n - 1 ELSE i

----------------------------------------------------------------------------
(* vsscanf                                                                  *)

RECURSIVE SkipSpaces(_, _)
SkipSpaces(s, i) == IF blank(At(s, i)) THEN SkipSpaces(s, i + 1) ELSE i

RECURSIVE SkipBlack(_, _)
SkipBlack(s, i) == IF ~blank(At(s, i)) /\ At(s, i) # 0 THEN SkipBlack(s, i + 1) ELSE i

ScanQualifier(f, i) ==
  IF At(f, i) \notin {104, 108, 76, 90, 122} THEN [i |-> i, q |-> -1]
  ELSE IF At(f, i) = At(f, i + 1) /\ At(f, i) = 104 THEN [i |-> i + 2, q |-> 72]
  ELSE IF At(f, i) = At(f, i + 1) /\ At(f, i) = 108 THEN [i |-> i + 2, q |-> 76]
  ELSE [i |-> i + 1, q |-> At(f, i)]

ScanBase(c) == IF c = 111 THEN 8 ELSE IF c \in {120, 88} THEN 16 ELSE IF c = 105 THEN 0 ELSE 10

\* The first digit must be one of the base.
ScanDigit(s, k, base, signed) ==
  LET d == IF signed /\ At(s, k) = 45 THEN At(s, k + 1) ELSE At(s, k) IN
  /\ d # 0
  /\ IF base = 16 THEN isxdigit(d) ELSE isdigit(d) /\ (base = 8 => d <= 55)

ScanWidth(q) == CASE q = 72 -> WChar [] q = 104 -> WShort [] q = -1 -> WInt [] OTHER -> W

ScanValue(r, k, q, signed) ==
  [k |-> k + r.end, val |-> IF signed THEN Cast(r.val, ScanWidth(q)) ELSE r.val % 2^ScanWidth(q)]
ScanNumber(s, k, q, base, signed) ==
  IF signed /\ q \notin {90, 122} THEN ScanValue(simple_strtoll(From(s, k), base), k, q, TRUE)
  ELSE ScanValue(simple_strtoull(From(s, k), base), k, q, FALSE)

\* The conversions stored (vals) and what %n stored (pos). The format is at i
\* and the input at k when the loop is left; a %n there is still filled.
Finish(f, i, k, acc) == IF At(f, i) = 37 /\ At(f, i + 1) = 110 THEN [acc EXCEPT !.pos = k] ELSE acc

RECURSIVE Scan(_, _, _, _, _)
Store(f, i, s, e, acc, v) == Scan(f, i, s, e, [acc EXCEPT !.vals = Append(@, v)])
StoreChars(f, i, s, k, e, acc) == Store(f, i, s, e, acc, SubSeq(s, k + 1, e))
StoreNumber(f, i, s, n, acc) == Store(f, i, s, n.k, acc, <<n.val>>)
\* The conversion c with width w and qualifier q; the format goes on at i, the
\* input is at k, and at b behind its blanks.
ScanOne(f, i, s, k, b, c, w, q, acc) ==
  CASE c = 99 -> StoreChars(f, i, s, k, Smaller(Len(s), k + Larger(w, 1)), acc)
    [] c = 115 -> StoreChars(f, i, s, b, IF w = -1 THEN SkipBlack(s, b) ELSE Smaller(SkipBlack(s, b), b + w), acc)
    [] c = 110 -> Scan(f, i, s, k, [acc EXCEPT !.pos = k])
    [] c = 37 -> IF At(s, k) # 37 THEN acc ELSE Scan(f, i, s, k + 1, acc)
    [] c \in {111, 120, 88, 105, 100, 117} ->
         IF ScanDigit(s, b, ScanBase(c), IsSigned(c))
         THEN StoreNumber(f, i, s, ScanNumber(s, b, q, ScanBase(c), IsSigned(c)), acc)
         ELSE Finish(f, i, b, acc)
    [] OTHER -> acc
ScanConversion(f, q, w, s, k, acc) ==
  IF At(f, q.i) = 0 \/ At(s, k) = 0 THEN Finish(f, q.i, k, acc)
  ELSE ScanOne(f, q.i + 1, s, k, SkipSpaces(s, k), At(f, q.i), w, q.q, acc)
ScanField(f, w, s, k, acc) == ScanConversion(f, ScanQualifier(f, w.i), w.n, s, k, acc)
ScanAt(f, i, s, k, acc) ==
  IF At(f, i) = 0 THEN acc
  ELSE IF At(f, i) # 37
  THEN IF At(f, i) # At(s, k) THEN Finish(f, i + 1, k + 1, acc) ELSE Scan(f, i + 1, s, k + 1, acc)
  ELSE IF At(f, i + 1) = 42 THEN Scan(f, SkipBlack(f, i + 1), s, SkipBlack(s, k), acc)
  ELSE ScanField(f, IF isdigit(At(f, i + 1)) THEN skip_atoi(f, i + 1, 0) ELSE [i |-> i + 1, n |-> -1], s, k, acc)
Scan(f, i, s, k, acc) ==
  IF At(f, i) = 0 \/ At(s, k) = 0 THEN Finish(f, i, k, acc)
  ELSE IF blank(At(f, i)) THEN ScanAt(f, SkipSpaces(f, i), s, SkipSpaces(s, k), acc)
  ELSE ScanAt(f, i, s, k, acc)

vsscanf(s, f) == Scan(f, 0, s, 0, [vals |-> <<>>, pos |-> -1])

----------------------------------------------------------------------------

NotYet == [buf |-> <<>>, len |-> -1, all |-> <<>>]
TakesString(f) == \E i \in DOMAIN f : f[i] = 115
ConvOf(f) == f[Len(f)]
Printed == done # NotYet

\* The arguments after a `*' are the width or precision and the value.
Star == -3

Result(r, all) == [buf |-> r.buf, len |-> r.len, all |-> all]
DoneWith(all) == done' = Result(vsnprintf(size, all), all)
DoPrint == ~Printed /\ DoneWith(Output(fmt, arg, Star)) /\ UNCHANGED <<fmt, arg, size>>

Again == Printed /\ done' = NotYet /\ UNCHANGED <<fmt, arg, size>>

PrintfInit ==
  /\ fmt \in Formats /\ size \in Sizes /\ done = NotYet
  /\ arg \in IF TakesString(fmt) THEN Strings ELSE Numbers

PrintfNext == DoPrint \/ Again

PrintfSpec == PrintfInit /\ [][PrintfNext]_printfVars

----------------------------------------------------------------------------
(* Properties                                                               *)

Accepted == Printed /\ size < 2^(WInt - 1)

\* What is stored is the longest prefix that leaves room for the NUL, nothing
\* is stored past it, and "If the return is greater than or equal to @size,
\* the resulting string is truncated" (vsnprintf), and only then.
BufferHoldsPrefix ==
  Accepted /\ size > 0 =>
    LET n == Smaller(done.len, size - 1) IN
    /\ done.buf[n] = 0 /\ \A i \in 0..(n - 1) : done.buf[i] = done.all[i + 1]
    /\ \A i \in (n + 1)..(size - 1) : done.buf[i] = Untouched
    /\ done.len >= size <=> n < Len(done.all)

\* vscnprintf "returns the number of characters which have been written into
\* the @buf not including the trailing NUL" (here for a buffer with room).
CountedWritten ==
  Accepted /\ size > 0 => vscnprintf(size, done.all) = Cardinality({i \in 0..(size - 1) : done.buf[i] # Untouched}) - 1

\* The width and the flags of the format, and the format without them.
Flags == FlagsFrom(fmt, 1, {})
WidthPart == FieldWidth(fmt, Flags.i, Star)
Width == WidthPart.w
Narrowest == SubSeq(fmt, 1, Flags.i) \o SubSeq(fmt, WidthPart.i + 1, Len(fmt))

\* A field is as wide as its width asks and its text needs, no more and no
\* less: the sign and the prefix are taken from the padding.
WidthKept ==
  Printed /\ fmt[1] = 37 /\ Width # -1 /\ ConvOf(fmt) # 37 =>
    LET bare == Len(Output(Narrowest, arg, Star)) IN
    ConvOf(fmt) \notin {112, 110} => Len(done.all) = Larger(Width, bare)

Has(c) == \E i \in DOMAIN fmt : fmt[i] = c
Integer == fmt[1] = 37 /\ ConvOf(fmt) \in {100, 117, 111, 120, 88}
Length == IF Has(108) THEN <<108>> ELSE IF Has(104) THEN <<104>> ELSE <<>>
Bits == IF Has(108) THEN W ELSE IF Has(104) THEN WShort ELSE WInt
ValueOf == IF ConvOf(fmt) = 100 THEN Cast(arg, Bits) ELSE arg % 2^Bits

\* A number printed with d, u, o, x or X and read back by sscanf with the same
\* conversion is the number, whatever the flags, width and precision (a plus
\* sign apart, which sscanf does not read), the most negative one included.
ScanReadsPrint ==
  Printed /\ Integer /\ ~Has(43) =>
    vsscanf(done.all, <<37>> \o Length \o <<ConvOf(fmt)>>).vals = << <<ValueOf>> >>

----------------------------------------------------------------------------
(* put_dec over the numbers of five digits, a block of ten at a time        *)

RECURSIVE Decimal(_)
Decimal(q) == IF q < 10 THEN <<q>> ELSE <<q % 10>> \o Decimal(q \div 10)

\* "Formats correctly any integer in [0,99999]. Outputs from one to five digits
\* depending on input" (put_dec_trunc), "Always emits five digits"
\* (put_dec_full), and put_dec joins them at any length.
DecimalExact ==
  Printed /\ ~TakesString(fmt) =>
    \A q \in (64 * arg)..(64 * arg + 63) :
      /\ q < 100000 => put_dec_trunc(q) = Decimal(q)
      /\ q < 100000 => put_dec_full(q) = Decimal(q) \o [i \in 1..(5 - Len(Decimal(q))) |-> 0]
      /\ put_dec(q * 9973) = Decimal(q * 9973)
=============================================================================
