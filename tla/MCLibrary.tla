------------------------------ MODULE MCLibrary ------------------------------
(***************************************************************************)
(* The base library on small instances.  A behaviour runs one part; the     *)
(* state of the others stays initial.                                       *)
(*   map, small       bitmaps of two words of four bits, the last partial,  *)
(*                    and of a part of one word of eight                    *)
(*   parse, items     texts read as groups of digits and as lists           *)
(*   list, alone      two heads and two entries, and one with three         *)
(*   tree, shared     nodes with a time each, and nodes that share times    *)
(*   copy, user       the copies of the kernel, and those to and from users *)
(*   asm              the string functions over 8 byte words                *)
(*   string           the string functions over bytes                       *)
(*   number           numbers read from texts                               *)
(*   print, decimal   formats, and the numbers of up to five digits         *)
(***************************************************************************)
EXTENDS Bitmap

CONSTANTS Parts, h1, h2, e1, e2, e3, Poison1, Poison2, NoNode

VARIABLES
  part,
  mem, live, loop, lists,                                     \* List
  tree, next, expires, q,                                     \* RbTree
  asmCall, plan, regs, srcReg, dstReg, written, asmRet,       \* ArmLib, copies
  in, out,                                                    \* ArmLib, strings
  buf, rest, tokens, whole,                                   \* ArmLib, C strings
  str,                                                        \* Printf, reading
  fmt, arg, size, done                                        \* Printf, printing

mapVars == <<map, text, ret>>
listVars == <<mem, live, loop, lists>>
treeVars == <<tree, next, expires, q>>
copyVars == <<asmCall, plan, regs, srcReg, dstReg, written, asmRet>>
asmVars == <<in, out>>
strVars == <<buf, rest, tokens, whole>>
printVars == <<fmt, arg, size, done>>
vars == <<part, mapVars, listVars, treeVars, copyVars, asmVars, strVars, str, printVars>>

----------------------------------------------------------------------------
(* Bitmaps                                                                  *)

\* Operands with and without bits behind the last.
OperandsOver(words, bits) ==
  {[k \in words |-> IF k % 2 = 0 THEN v ELSE w] : v \in {{}, {0, 2}, bits}, w \in {{}, {1}, bits \ {0}}}
TwoWords == OperandsOver(0..1, 0..3)
FewOperands == TwoWords
OneWord == OperandsOver(0..0, 0..7)

Sm == INSTANCE Bitmap WITH W <- 8, NBits <- 7, Operands <- OneWord
It == INSTANCE Bitmap WITH List <- TRUE, Chars <- {"1", "2", ",", "-", ":", "/"}

(* Lists and trees                                                          *)

Ls == INSTANCE List WITH Heads <- {h1, h2}, Entries <- {e1, e2}, None <- NoNode
Alone == INSTANCE List WITH Heads <- {h1}, Entries <- {e1, e2, e3}, None <- NoNode

OwnTime(n) == {n}
SharedTimes(n) == {1, 2}
Rb == INSTANCE RbTree WITH x <- tree, N <- 8, ExpiresOf <- OwnTime, Replacing <- FALSE
Shared == INSTANCE RbTree WITH x <- tree, N <- 5, ExpiresOf <- SharedTimes, Replacing <- TRUE

----------------------------------------------------------------------------
(* Copies: every alignment and the lengths around each branch               *)

CallOf(f, s, d, n, v, z) == [f |-> f, src |-> s, dst |-> d, n |-> n, val |-> v, zva |-> z]
Far == 4096                                  \* a destination that does not overlap

Aligns == {0, 1, 8, 15}
Lengths == {0, 1, 15, 16, 17, 31, 63, 64, 65, 80, 127, 128, 143, 192, 208, 271}
Overlaps == {-65, -16, -8, -1, 0, 1, 15, 17, 80}

CopyCalls == {CallOf("memcpy", 512 + a, 512 + Far, n, 1, 64) : a \in Aligns, n \in Lengths}
MoveCalls == {CallOf("memmove", 512 + a, 512 + a + o, n, 1, 64) : a \in Aligns, o \in Overlaps, n \in Lengths}
PageCalls == {CallOf("copy_page", 0, Far, 384, 1, 64), CallOf("clear_page", 0, 0, 384, 0, 64),
              CallOf("clear_page", 0, 0, 384, 0, 16)}
SetCalls == {CallOf("memset", 0, 512 + a, n, v, z) :
               a \in {0, 1, 15, 48, 63, 65}, n \in Lengths \cup {129, 320}, v \in {0, 1}, z \in {0, 64, 128}}
UserCalls == {CallOf(f, 512 + a, 512 + Far + b, n, 0, 64) :
                f \in {"raw_copy_from_user", "copy_from_user", "copy_to_user"}, a \in {0, 1, 15}, b \in {0, 3},
                n \in {0, 1, 15, 17, 31, 64, 80, 128, 145, 208}}
ClearCalls == {CallOf("clear_user", 0, 512 + a, n, 0, 64) : a \in {0, 1}, n \in {0, 1, 7, 8, 15, 16, 31}}
KernelCalls == CopyCalls \cup MoveCalls \cup PageCalls \cup SetCalls
UserCopies == UserCalls \cup ClearCalls

(* Strings read by words: lengths, differences and limits around a word     *)

Arg(f, a1, a2, z1, z2, d, v, n, c) ==
  [f |-> f, al |-> <<a1, a2>>, len |-> <<z1, z2>>, d |-> d, v |-> v, n |-> n, c |-> c,
   before |-> <<0, 3>>, after |-> <<1, 0>>]

Same == <<1, 1>>
Differ == {<<1, 129>>, <<200, 72>>, <<200, 201>>}

LenArgs ==
  {Arg("strlen", a, 0, z, 0, -1, Same, 0, 1) : a \in {0, 1, 7, 8, 9, 15}, z \in 0..34}
    \cup {Arg("strnlen", a, 0, z, 0, -1, Same, n, 1) :
            a \in {0, 1, 8, 15}, z \in {0, 1, 7, 8, 15, 16, 17, 33}, n \in {0, 1, 7, 8, 9, 15, 16, 24, 34}}
FindArgs ==
  {Arg(f, a, 0, z, 0, 3, <<9, 9>>, n, c) :
     f \in {"strchr", "strrchr", "memchr"}, a \in {0, 5}, z \in {0, 2, 6, 20}, n \in {0, 3, 4, 21},
     c \in {0, 1, 9, 200, 50}}
CmpEqual(f, limits) ==
  {Arg(f, a1, a2, z, z, -1, Same, n, 1) : a1, a2 \in {0, 1, 4, 7}, z \in {0, 7, 8, 13, 17, 26}, n \in limits}
CmpPrefix ==
  {Arg("strcmp", a1, a2, z[1], z[2], -1, Same, 0, 1) :
     a1, a2 \in {0, 1, 4, 7}, z \in {<<0, 6>>, <<5, 2>>, <<5, 11>>, <<12, 9>>, <<19, 25>>}}
CmpDiffer(f, z, limits) ==
  {Arg(f, a1, a2, z, z, d, v, n, 1) :
     a1, a2 \in {0, 1, 4, 7}, d \in {0, 7, 8, 14, 17, 27}, v \in Differ, n \in limits}
Ns == {0, 1, 8, 9, 15, 18, 24, 28}
AllInputs ==
  <<LenArgs, FindArgs, CmpEqual("strcmp", {0}) \cup CmpPrefix, CmpDiffer("strcmp", 28, {0}),
    CmpEqual("strncmp", Ns), CmpDiffer("strncmp", 28, Ns), CmpDiffer("memcmp", 100, Ns),
    CmpEqual("memcmp", Ns)>>

(* Strings read by bytes                                                    *)

SomeWords == {<<>>, <<97>>, <<32>>, <<65, 32>>, <<32, 97, 65>>, <<97, 32, 32, 65>>, <<65, 97, 65, 97, 32, 97, 65>>}

Copy == INSTANCE ArmLib WITH Calls <- KernelCalls, PageSize <- 384, Inputs <- AllInputs,
          Size <- 6, Words <- SomeWords, Chars <- {32, 65, 97}
User == INSTANCE ArmLib WITH Calls <- UserCopies, PageSize <- 384, Inputs <- <<>>,
          Size <- 6, Words <- {}, Chars <- {}


----------------------------------------------------------------------------
(* Numbers and formats: at most two flags, a width, a precision, a length   *)
(* and a conversion, with the numbers at the edges of the integer types     *)

\* 0 1 6 9 a x + - newline z
Digits == {48, 49, 54, 57, 97, 120, 43, 45, 10, 122}

FlagParts == {<<>>} \cup {<<a>> : a \in {45, 43, 32, 35, 48}} \cup {<<45, 48>>, <<43, 32>>, <<35, 48>>}
WidthParts == {<<>>, <<54>>, <<42>>}                 \* none, 6, *
PrecParts == {<<>>, <<46>>, <<46, 52>>}              \* none, ., .4
Integers1 == {<<37>> \o f \o w \o p \o l \o <<c>> :
               f \in FlagParts, w \in WidthParts, p \in PrecParts, l \in {<<>>, <<108>>, <<104>>},
               c \in {100, 117, 111, 120, 88}}
Texts == {<<37>> \o f \o w \o p \o <<115>> : f \in {<<>>, <<45>>}, w \in WidthParts, p \in PrecParts}
Others == {<<37, 99>>, <<37, 51, 99>>, <<37, 45, 51, 99>>, <<97, 37, 37, 98>>, <<37, 122>>, <<37>>,
           <<37, 112>>, <<37, 54, 112>>, <<97, 98, 37, 110, 99>>}
AllFormats == Integers1 \cup Texts \cup Others
SomeStrings == {<<>>, <<97>>, <<97, 98, 99>>, <<97, 32>>, <<97, 98, 99, 100, 101>>, <<0>>}

Pf == INSTANCE Printf WITH W <- 6, MaxLen <- 4, Alphabet <- Digits, WInt <- 5, WShort <- 4, WChar <- 3,
        Formats <- AllFormats, Numbers <- {0, 9, 32, 63}, Strings <- SomeStrings, Sizes <- {0, 1, 4, 16}
Dec == INSTANCE Printf WITH W <- 11, MaxLen <- 4, Alphabet <- Digits, WInt <- 10, WShort <- 4, WChar <- 3,
        Formats <- {<<37, 117>>}, Numbers <- 0..1562, Strings <- {}, Sizes <- {16}

----------------------------------------------------------------------------
LibraryInit ==
  /\ part \in Parts
  /\ CASE part = "parse" -> ParseInit
       [] part = "items" -> It!ParseInit
       [] OTHER -> text = <<>> /\ ret = "ok" /\ map = IF part = "small" THEN Sm!Zero ELSE Zero
  /\ IF part = "alone" THEN Alone!Init ELSE Ls!Init
  /\ IF part = "shared" THEN Shared!Init ELSE Rb!Init
  /\ Copy!ArmCopyInit
  /\ IF part = "asm" THEN Copy!ArmStrInit ELSE in = <<>> /\ out = Copy!NoResult
  /\ Copy!StrInit
  /\ Pf!StrtoxInit
  /\ CASE part = "print" -> Pf!PrintfInit
       [] part = "decimal" -> Dec!PrintfInit
       [] OTHER -> fmt = <<37>> /\ arg = 0 /\ size = 0 /\ done = Pf!NotYet

OnMap(p, A) ==
  part = p /\ A /\ UNCHANGED <<part, listVars, treeVars, copyVars, asmVars, strVars, str, printVars>>
OnList(p, A) ==
  part = p /\ A /\ UNCHANGED <<part, mapVars, treeVars, copyVars, asmVars, strVars, str, printVars>>
OnTree(p, A) ==
  part = p /\ A /\ UNCHANGED <<part, mapVars, listVars, copyVars, asmVars, strVars, str, printVars>>
OnCopy(p, A) ==
  part = p /\ A /\ UNCHANGED <<part, mapVars, listVars, treeVars, asmVars, strVars, str, printVars>>
OnAsm(A) ==
  part = "asm" /\ A /\ UNCHANGED <<part, mapVars, listVars, treeVars, copyVars, strVars, str, printVars>>
OnString(A) ==
  part = "string" /\ A /\ UNCHANGED <<part, mapVars, listVars, treeVars, copyVars, asmVars, str, printVars>>
OnNumber(A) ==
  part = "number" /\ A /\ UNCHANGED <<part, mapVars, listVars, treeVars, copyVars, asmVars, strVars, printVars>>
OnPrint(p, A) ==
  part = p /\ A /\ UNCHANGED <<part, mapVars, listVars, treeVars, copyVars, asmVars, strVars, str>>

LibraryNext ==
  \/ OnMap("map", Next /\ UNCHANGED <<text, ret>>)
  \/ OnMap("small", Sm!Next /\ UNCHANGED <<text, ret>>)
  \/ OnMap("parse", ParseNext)
  \/ OnMap("items", It!ParseNext)
  \/ OnList("list", Ls!Next)
  \/ OnList("alone", Alone!Next)
  \/ OnTree("tree", Rb!Next)
  \/ OnTree("shared", Shared!Next)
  \/ OnCopy("copy", Copy!ArmCopyNext)
  \/ OnCopy("user", User!ArmCopyNext)
  \/ OnAsm(Copy!ArmStrNext)
  \/ OnString(Copy!StrNext)
  \/ OnNumber(Pf!StrtoxNext)
  \/ OnPrint("print", Pf!PrintfNext)
  \/ OnPrint("decimal", Dec!PrintfNext)

LibrarySpec == LibraryInit /\ [][LibraryNext]_vars

----------------------------------------------------------------------------
\* Lists, queues and bitmaps are what their operations say they hold.  A list
\* read forwards and backwards is the same, a call turns the lists into what its
\* comment promises and touches no other, and a loop that deletes, moves or adds
\* entries visits those it owes (list.h).  A timer queue is in the order
\* of its times, red-black, with the cached first node its first, and a reader
\* in the middle of a rotation never meets a loop (rbtree.c, timerqueue.c).
\* Every bitmap operation is the operation on the set of its bits, whatever
\* lies behind the last bit, and texts set the bits they spell (bitmap.c);
\* bitmap_onto is the mapping its leading comment defines, not the loop given
\* inside it, which looks for ordinals in "orig" (bitmap.c:791-797).
ContainersSound ==
  /\ part = "map" =>
       /\ TypeOK /\ AlgebraRight /\ SearchRight /\ ShiftsRight /\ RangesRight /\ RegionsRight
       /\ RemapRight /\ Arr32Right /\ LoopsRight /\ WrapRight
  /\ part = "small" => Sm!AlgebraRight /\ Sm!ShiftsRight
  /\ part = "parse" => ParseRight
  /\ part = "items" => It!ListRight
  /\ part = "list" => Ls!TypeOK /\ Ls!LinksAgree /\ Ls!PredicatesRight /\ Ls!LoopOnCourse
  /\ part = "alone" => Alone!LinksAgree /\ Alone!LoopOnCourse
  /\ part = "tree" =>
       /\ Rb!QueueKept /\ Rb!RedBlack /\ Rb!FirstIsCached /\ Rb!WalksVisitAll /\ Rb!AugmentExact
       /\ Rb!NoTemporaryLoops
  /\ part = "shared" => Shared!QueueKept /\ Shared!FirstIsCached
ContainersHold ==
  /\ []ContainersSound
  /\ [][part = "list" => Ls!CallsAsPromised]_vars
  /\ [][part = "alone" => Alone!CallsAsPromised]_vars

\* The copies write the bytes asked for and no others, whichever order their
\* loads and stores overlap in, and after a fault count the bytes left
\* (memcpy.S, memmove.S, memset.S, copy_template.S).  The string functions find
\* what a byte at a time would, and read no word of a page the string does not
\* reach (strlen.S, strcmp.S, ...; string.c).  A number is read exactly when it
\* fits its type, and printed in its field so that reading it back gives it
\* again (kstrtox.c, vsprintf.c).
TextExact ==
  /\ part = "copy" => Copy!WritesInside /\ Copy!ReadsInside /\ Copy!CopiedExactly
  /\ part = "user" => User!WritesInside /\ User!CopiedExactly /\ User!FaultAccounted
  /\ part = "asm" => Copy!LengthRight /\ Copy!CompareRight /\ Copy!FoundRight /\ Copy!ReadsInsideBlocks
  /\ part = "string" =>
       /\ Copy!BoundedCopies /\ Copy!TrimExact /\ Copy!TokensJoin /\ Copy!SearchesExact
       /\ Copy!InverseSearchExact /\ Copy!CaseCompareExact
  /\ part = "number" => Pf!UnsignedExact /\ Pf!SignedExact /\ Pf!NarrowExact /\ Pf!SimpleAgrees
  /\ part = "print" => Pf!BufferHoldsPrefix /\ Pf!CountedWritten /\ Pf!WidthKept /\ Pf!ScanReadsPrint
  /\ part = "decimal" => Dec!DecimalExact

=============================================================================
