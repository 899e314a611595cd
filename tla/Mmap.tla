-------------------------------- MODULE Mmap --------------------------------
(***************************************************************************)
(* User address spaces: areas and page tables (kernel/mm/mmap.c) and the   *)
(* system task's operations on them: brk and sbrk (system/brk.c), mmap of  *)
(* the initial ramdisk (system/mmap.c), mprotect (system/mprotect.c) and   *)
(* exec (system/exec.c).                                                   *)
(*                                                                         *)
(* All of these run in the system task, one request after the other, so an *)
(* operation is one step, except exec, which builds its new address space  *)
(* area by area.  An allocation may fail wherever the code makes one.  A   *)
(* page-table page is named by its level (1: ptes, 2: pmds, 3: puds) and   *)
(* its place; it is there while its reference count is not 0.  An address  *)
(* space is a record, and an operation on it an operator that returns the  *)
(* new record; the field bug names the BUG_ONs that have fired, and there  *)
(* the run ends.  The field hole is history: a shrinking brk has left an   *)
(* area of the heap in place above one that it freed.                      *)
(*                                                                         *)
(* Four sections follow: the address spaces, the copies between them, the  *)
(* access to user memory, and the switch of address spaces, which runs on  *)
(* every CPU at once.                                                      *)
(***************************************************************************)
EXTENDS Integers, Sequences, SequencesExt, FiniteSets, FiniteSetsExt

CONSTANTS
  Page,      \* PAGE_SIZE
  Fan,       \* entries of a page-table page
  NPages,    \* size of the user address space, in pages (TASK_SIZE)
  StackSize, \* pages of a stack
  Initrd,    \* pages of the initial ramdisk
  Images,    \* programs: areas in pages, and the end of their data in bytes
  Brks,      \* arguments of brk
  Incs,      \* arguments of sbrk
  Prots,     \* ranges of pages given to mprotect
  MaxLost,   \* bound: pages lost by error paths that do not free them
  NoVma

ASSUME MmapAssumption ==
  /\ Page \in Nat \ {0} /\ Fan \in Nat \ {0, 1} /\ NPages \in Nat /\ StackSize \in Nat
  /\ MaxLost \in Nat

VARIABLES
  mm,     \* the address space of the process
  new,    \* exec: the address space being built, or None
  segs,   \* exec: areas still to map
  eimg,   \* exec: the program
  used,   \* pages taken from the page allocator
  lost    \* of these, pages no data structure refers to any more

mmVars == <<mm, new, segs, eimg, used, lost>>

Up(a) == (a + Page - 1) \div Page          \* PAGE_ALIGN, as a page number
Span(l) == Fan ^ l
Levels == 1 .. 3
Tables == UNION {{<<l, i>> : i \in 0 .. ((NPages - 1) \div Span(l))} : l \in Levels}
Covers(t) == t[2] * Span(t[1]) .. (t[2] + 1) * Span(t[1]) - 1
Above(t) == {u \in Tables : u[1] > t[1] /\ Covers(t) \subseteq Covers(u)}

\* An area holds the pages s .. e - 1; its pages are its own unless
\* VM_PRIVATE_SHARE is set.
UserPages(v) == v.s .. v.e - 1
Area(s, e) == [s |-> s, e |-> e, own |-> TRUE]
Size(v) == v.e - v.s

\* BUG_ON(c) at a place named by w
BugOn(c, w) == IF c THEN {w} ELSE {}

\* mmap_alloc_mm_struct
EmptyMm ==
  [vmas |-> {}, rec |-> <<>>, ref |-> [t \in Tables |-> 0], pte |-> [p \in 0 .. NPages - 1 |-> FALSE],
   base |-> NPages, start |-> 0, brk |-> 0, bug |-> {}, hole |-> FALSE]

-----------------------------------------------------------------------------
(***************************************************************************)
(* vmap_page_range and its inverse.                                        *)
(***************************************************************************)

Touched(v) == {t \in Tables : Covers(t) \cap UserPages(v) # {}}
Before(t, u) ==
  LET a == t[2] * Span(t[1])  b == u[2] * Span(u[1])
  IN  a < b \/ (a = b /\ t[1] > u[1])

\* vma_find_*_table: the tables an area has a record of
Rec(m, v) == IF v \in DOMAIN m.rec THEN m.rec[v] ELSE {}
SetRec(m, v, T) == [w \in DOMAIN m.rec \cup {v} |-> IF w = v THEN T ELSE m.rec[w]]

\* pud_alloc, pmd_alloc and pte_alloc for the tables of D, and the ptes in them
TakeTables(m, v, D) ==
  [m EXCEPT !.ref = [t \in Tables |-> m.ref[t] + IF t \in D THEN 1 ELSE 0],
            !.rec = SetRec(m, v, D),
            !.pte = [p \in DOMAIN m.pte |->
                       m.pte[p] \/ (p \in UserPages(v) /\ \E t \in D : t[1] = 1 /\ p \in Covers(t))]]

\* The tables of the range that a walk down the present entries finds
Walk(m, v) == {t \in Touched(v) : \A u \in Above(t) \cup {t} : m.ref[u] > 0}

\* The walk clears the ptes and drops one reference of each table in D.
DropTables(m, v, D) ==
  [m EXCEPT !.ref = [t \in Tables |-> m.ref[t] - IF t \in D THEN 1 ELSE 0],
            !.rec = SetRec(m, v, Rec(m, v) \ D),
            !.pte = [p \in DOMAIN m.pte |->
                       m.pte[p] /\ ~(p \in UserPages(v) /\ \E t \in Walk(m, v) : t[1] = 1 /\ p \in Covers(t))]]

\* vmap_free_bad_area: only tables the area has a record of are dropped.
VmapFreeBadArea(m, v) == DropTables(m, v, Walk(m, v) \cap Rec(m, v))

\* vmap_page_range when the allocation for table f fails (None: none does)
VmapPageRange(m, v, f) ==
  IF f = NoVma
  THEN TakeTables(m, v, Touched(v))
  ELSE VmapFreeBadArea(TakeTables(m, v, {t \in Touched(v) : Before(t, f)}), v)

\* vumap_page_range: BUG_ON a table without a record
VumapPageRange(m, v) ==
  LET walked == Walk(m, v)
  IN  [DropTables(m, v, walked) EXCEPT !.bug = @ \cup BugOn(~(walked \subseteq Rec(m, v)), "mmap")]

-----------------------------------------------------------------------------
(***************************************************************************)
(* Areas.                                                                  *)
(***************************************************************************)

\* Mutant: an area that starts below another is not compared with it.
OverlapsAbove(m, v) == \E w \in m.vmas : w.s <= v.s /\ v.s < w.e

\* __insert_vma_area fails
Overlaps(m, v) == \E w \in m.vmas : v.s < w.e /\ w.s < v.e

\* mmap_find_vma_area, for a byte address
Find(m, a) ==
  LET F == {w \in m.vmas : a \div Page \in UserPages(w)} IN IF F = {} THEN NoVma ELSE CHOOSE w \in F : TRUE

\* mmap_free_vmap_area: BUG_ON records left
MmapFreeVmapArea(m, v) ==
  [m EXCEPT !.vmas = @ \ {v}, !.rec = [w \in DOMAIN m.rec \ {v} |-> m.rec[w]],
            !.bug = @ \cup BugOn(Rec(m, v) # {}, "mmap")]

\* mmap_get_vmap_area and vmap_page_range as all callers use them, for an area
\* that does not overlap: on failure (f # None) the area is freed again.
MapArea(m, v, f) ==
  LET n == VmapPageRange([m EXCEPT !.vmas = @ \cup {v}], v, f)
  IN  IF f = NoVma THEN n ELSE MmapFreeVmapArea(n, v)

UnmapArea(m, v) == MmapFreeVmapArea(VumapPageRange(m, v), v)
UnmapAll(m, V) == FoldSet(LAMBDA v, n : UnmapArea(n, v), m, V)

\* mmap_destroy_mm and mmap_free_mm_struct, with the BUG_ON(mm_pgtables_bytes)
MmDestroy(m) ==
  LET n == UnmapAll(m, m.vmas)
  IN  [n EXCEPT !.bug = @ \cup BugOn(\E t \in Tables : n.ref[t] # 0, "mmap")]

\* Page allocator pages an address space holds: the pgd, its page tables and
\* the pages of its areas
Footprint(m) ==
  1 + Cardinality({t \in Tables : m.ref[t] > 0})
    + MapThenSumSet(Size, {v \in m.vmas : v.own})

SetMm(m) == mm' = m /\ used' = used + Footprint(m) - Footprint(mm)

-----------------------------------------------------------------------------
(***************************************************************************)
(* brk and sbrk.  The heap is the run of areas from start to brk.          *)
(***************************************************************************)

\* Failure points of a mapping: none, a page of the area (level 0), or a table
NoUserPage == <<0, 0>>
Failures(v) == Touched(v) \cup {NoVma, NoUserPage}

\* brk_mmap_heap after the area of the current break, and the new break b
Grow(b) ==
  LET w == Find(mm, mm.brk - 1)
      v == Area(w.e, Up(b - w.e * Page) + w.e)
  IN  IF w = NoVma THEN SetMm([mm EXCEPT !.bug = {"brk"}]) /\ UNCHANGED lost
      ELSE IF Overlaps(mm, v)
      THEN /\ lost + Size(v) <= MaxLost
           /\ lost' = lost + Size(v) /\ used' = used + Size(v) /\ mm' = mm
      ELSE /\ \E f \in Failures(v) :
                SetMm(IF f = NoUserPage THEN mm
                      ELSE [MapArea(mm, v, f) EXCEPT !.brk = IF f = NoVma THEN b ELSE @])
           /\ UNCHANGED lost

\* The break moves to b, over what is mapped or onto a new area.
MoveUp(b) ==
  IF Find(mm, b - 1) # NoVma
  THEN SetMm([mm EXCEPT !.brk = b]) /\ UNCHANGED lost
  ELSE Grow(b)

Sbrk(i) ==
  /\ new = NoVma /\ mm.brk + i < mm.base * Page
  /\ MoveUp(mm.brk + i)
  /\ UNCHANGED <<new, segs, eimg>>

\* The areas the loop of a shrinking brk frees: those after v, up to the first
\* one that ends at mmap_base or above
Shrunk(v) ==
  {w \in mm.vmas : w.s >= v.e /\ \A x \in mm.vmas : (x.s >= v.e /\ x.s <= w.s) => x.e < mm.base}

\* The loop frees an area and stops at one of the heap: the two tests of
\* mmap_base do not agree on an area that ends there.
LeavesHole(v) == Shrunk(v) # {} /\ \E w \in mm.vmas : w.s >= v.e /\ w.e = mm.base

Brk(b) ==
  /\ new = NoVma /\ mm.start <= b /\ b < mm.base * Page /\ b # mm.brk
  /\ IF b > mm.brk THEN MoveUp(b)
     ELSE LET v == Find(mm, b - 1)
          IN  /\ SetMm(IF v = NoVma THEN [mm EXCEPT !.bug = {"brk"}]
                       ELSE [UnmapAll(mm, Shrunk(v)) EXCEPT !.brk = b, !.hole = @ \/ LeavesHole(v)])
              /\ UNCHANGED lost
  /\ UNCHANGED <<new, segs, eimg>>

-----------------------------------------------------------------------------
(***************************************************************************)
(* mmap of the ramdisk, mprotect.                                          *)
(***************************************************************************)

\* mmap_initrd: shared pages below mmap_base
MmapInitrd ==
  LET v == [s |-> mm.base - Initrd, e |-> mm.base, own |-> FALSE] IN
  /\ new = NoVma /\ Initrd > 0 /\ mm.base > Initrd
  /\ IF Overlaps(mm, v) THEN SetMm(mm)
     ELSE \E f \in Touched(v) \cup {NoVma} :
            SetMm([MapArea(mm, v, f) EXCEPT !.base = IF f = NoVma THEN v.s ELSE @])
  /\ UNCHANGED <<new, segs, eimg, lost>>

\* mmap_mprotect_fixup: BUG_ON a table that is not there.  A range that is
\* not within the area of its first page is refused.
Mprotect(s, e) ==
  LET v == Find(mm, s * Page) IN
  /\ new = NoVma /\ v # NoVma /\ s < e /\ e <= v.e
  /\ mm' = [mm EXCEPT !.bug = @ \cup BugOn(\E t \in Touched(Area(s, e)) : mm.ref[t] = 0, "mmap")]
  /\ UNCHANGED <<new, segs, eimg, used, lost>>

-----------------------------------------------------------------------------
(***************************************************************************)
(* exec                                                                    *)
(***************************************************************************)

\* The areas of a program, then its stack, then the page of its arguments
Layout(g) ==
  [i \in 1 .. Len(g.segs) |-> Area(g.segs[i][1], g.segs[i][2])]
    \o <<Area(NPages - StackSize, NPages), Area(NPages - StackSize - 1, NPages - StackSize)>>

\* The fields exec sets in the new address space
WithBreak(m, g) == [m EXCEPT !.base = NPages - StackSize - 1, !.start = Up(g.brk) * Page, !.brk = Up(g.brk) * Page]

\* The new address space is made (or cannot be).
ExecStart(g) ==
  /\ new = NoVma
  /\ new' = EmptyMm /\ segs' = Layout(g) /\ eimg' = g /\ used' = used + 1
  /\ UNCHANGED <<mm, lost>>

\* free_mm with an error: the new address space goes.
ExecAbort(m) ==
  LET d == MmDestroy(m) IN
  /\ used' = used - Footprint(new)
  /\ mm' = [mm EXCEPT !.bug = @ \cup d.bug]
  /\ new' = NoVma /\ segs' = <<>> /\ eimg' = NoVma

\* One area: refused, failed, or mapped
ExecArea ==
  LET v == Head(segs) IN
  /\ new # NoVma /\ segs # <<>>
  /\ IF Overlaps(new, v)
     THEN /\ lost + Size(v) <= MaxLost /\ lost' = lost + Size(v)
          /\ LET d == MmDestroy(new) IN
             /\ used' = used - Footprint(new) + Size(v)
             /\ mm' = [mm EXCEPT !.bug = @ \cup d.bug]
             /\ new' = NoVma /\ segs' = <<>> /\ eimg' = NoVma
     ELSE /\ \E f \in Failures(v) :
               IF f = NoVma
               THEN LET n == MapArea(new, v, f) IN
                    /\ new' = n /\ segs' = Tail(segs)
                    /\ used' = used + Footprint(n) - Footprint(new)
                    /\ UNCHANGED <<mm, eimg>>
               ELSE ExecAbort(IF f = NoUserPage THEN new ELSE MapArea(new, v, f))
          /\ lost' = lost

\* A descriptor that cannot be read or that ends above USER_DS goes to
\* free_filename: the new address space is forgotten.
ExecForget ==
  /\ new # NoVma /\ Len(segs) > 2 /\ lost + Footprint(new) <= MaxLost
  /\ lost' = lost + Footprint(new)
  /\ new' = NoVma /\ segs' = <<>> /\ eimg' = NoVma
  /\ UNCHANGED <<mm, used>>

\* The arguments cannot be copied: free_tmp_buf.
ExecFail ==
  /\ new # NoVma /\ Len(segs) < 2 /\ ExecAbort(new) /\ UNCHANGED lost

\* The process gets the new address space and the old one goes.
ExecDone ==
  /\ new # NoVma /\ segs = <<>>
  /\ LET d == MmDestroy(mm) IN
       /\ mm' = [WithBreak(new, eimg) EXCEPT !.bug = @ \cup d.bug]
       /\ used' = used - Footprint(mm)
  /\ new' = NoVma /\ segs' = <<>> /\ eimg' = NoVma /\ UNCHANGED lost

-----------------------------------------------------------------------------
RECURSIVE Build(_, _)
Build(m, s) == IF s = <<>> THEN m ELSE Build(MapArea(m, Head(s), NoVma), Tail(s))

\* A process that runs a program whose areas do not overlap
MmInit ==
  /\ \E g \in Images :
       /\ \A i, j \in DOMAIN g.segs : i # j => UserPages(Layout(g)[i]) \cap UserPages(Layout(g)[j]) = {}
       /\ mm = WithBreak(Build(EmptyMm, Layout(g)), g)
  /\ new = NoVma /\ segs = <<>> /\ eimg = NoVma /\ used = Footprint(mm) /\ lost = 0

MmStep ==
  \/ \E b \in Brks : Brk(b)
  \/ \E i \in Incs : Sbrk(i)
  \/ MmapInitrd
  \/ \E r \in Prots : Mprotect(r[1], r[2])
  \/ \E g \in Images : ExecStart(g)
  \/ ExecArea \/ ExecForget \/ ExecFail \/ ExecDone

MmNext == mm.bug = {} /\ MmStep

MmSpec == MmInit /\ [][MmNext]_mmVars

-----------------------------------------------------------------------------
Mms == {mm} \cup (IF new = NoVma THEN {} ELSE {new})

MmTypeOK ==
  /\ \A m \in Mms :
       /\ \A v \in m.vmas : v.s \in 0 .. NPages /\ v.e \in 1 .. NPages /\ v.s < v.e
       /\ DOMAIN m.rec = m.vmas
       /\ m.ref \in [Tables -> Nat] /\ m.pte \in [0 .. NPages - 1 -> BOOLEAN]
       /\ m.base \in 0 .. NPages
  /\ used \in Nat /\ lost \in 0 .. MaxLost

\* A page-table page has one reference for each area that has a record of it,
\* and is there exactly while an area reaches into its range, also after
\* operations that failed half-way (pte_alloc ... vmap_free_bad_area).
RefCounts ==
  \A m \in Mms : \A t \in Tables :
    /\ m.ref[t] = Cardinality({v \in m.vmas : t \in Rec(m, v)})
    /\ m.ref[t] > 0 <=> \E v \in m.vmas : t \in Touched(v)

\* The ptes that are set are those of the areas, and areas are disjoint: no
\* operation unmaps a page of another area or leaves one mapped.
PtesExact ==
  \A m \in Mms :
    /\ \A p \in 0 .. NPages - 1 : m.pte[p] <=> \E v \in m.vmas : p \in UserPages(v)
    /\ \A v, w \in m.vmas : v # w => UserPages(v) \cap UserPages(w) = {}

\* Every page taken from the allocator belongs to an address space, or was lost
\* on one of the two error paths that free nothing (a refused area, a bad
\* descriptor in exec).
MemoryExact ==
  used = lost + Footprint(mm) + (IF new = NoVma THEN 0 ELSE Footprint(new))

\* The heap is mapped: what brk and sbrk grant can be used, unless a shrinking
\* brk has left the heap's last area, which ends at mmap_base, above one that
\* it freed (brk.c:130): a break that moves up again into the last area is
\* granted over the hole.
HeapMapped ==
  mm.hole \/ \A a \in mm.start .. mm.brk - 1 : mm.pte[a \div Page]

\* No BUG_ON of mmap.c and exec.c fires, and those of brk.c fire only over such
\* a hole (brk.c:127).
NoBug == mm.bug \subseteq BugOn(mm.hole, "brk")

-----------------------------------------------------------------------------
(***************************************************************************)
(* Copies between the kernel and the areas of a process, page by page:     *)
(* __mmap_memcpy_vma and mmap_strnlen_vma of kernel/mm/mmap.c, as          *)
(* message_memcpy and message_strlen of kernel/core/system/string.c call   *)
(* them.                                                                   *)
(*                                                                         *)
(* An area is a pair <<vm_start, vm_end>>, page aligned.  The bytes a page *)
(* step touches are logged by their user addresses, which stand for the    *)
(* page (vma->pages[i]) and the offset in it.                              *)
(***************************************************************************)
CONSTANTS
  UserPage,     \* PAGE_SIZE
  Layouts,  \* sequences of disjoint areas, in ascending order
  Addrs,    \* addresses asked for
  Sizes,    \* sizes asked for
  Nuls      \* sets of addresses that hold a NUL, for strnlen

ASSUME VmaCopyAssumption == UserPage \in Nat \ {0} /\ Sizes \subseteq Nat \ {0}

VARIABLES
  mode,     \* "copy" or "len"
  areas, uaddr, usize, nul,      \* the input
  copyPc,
  currVma,    \* index of curr_vma
  vma,        \* index of vma
  pg,        \* page index in the area
  ustart, uend, cp,              \* start, end, cp_size
  touchedPages,      \* the addresses touched, in order
  result       \* the result

copyVars == <<mode, areas, uaddr, usize, nul, copyPc, currVma, vma, pg, ustart, uend, cp, touchedPages, result>>
input == <<mode, areas, uaddr, usize, nul>>

\* mmap_find_vma_area, as an index; after the last area if there is none
FindArea(a) ==
  LET F == {k \in DOMAIN areas : areas[k][1] <= a /\ a < areas[k][2]}
  IN  IF F = {} THEN Len(areas) + 1 ELSE CHOOSE k \in F : TRUE

CopyInit ==
  /\ mode \in {"copy", "len"} /\ areas \in Layouts /\ uaddr \in Addrs /\ usize \in Sizes
  /\ nul \in IF mode = "len" THEN Nuls ELSE {{}}
  /\ currVma = FindArea(uaddr) /\ vma = currVma
  /\ ustart = uaddr /\ uend = uaddr + usize /\ cp = usize
  /\ pg = 0 /\ touchedPages = <<>> /\ result = 0 /\ copyPc = "area"

VStart == areas[vma][1]
VEnd == areas[vma][2]

\* Index of the last page to visit.  end - 1 - vm_start may be -1: unsigned
\* long, shifted and stored in an int it is -1 again.
EndIndex(e) == (e - 1 - VStart) \div UserPage

\* for_each_curr_vm_area, up to the loop over the pages
NextArea ==
  /\ copyPc = "area" /\ vma <= Len(areas) /\ (vma = currVma \/ ustart = VStart)
  /\ pg' = (ustart - VStart) \div UserPage
  /\ uend' = IF mode = "len" \/ uend > VEnd THEN VEnd ELSE uend
  /\ copyPc' = "page"
  /\ UNCHANGED <<input, currVma, vma, ustart, cp, touchedPages, result>>

\* No area left, or a hole
CopyFinish ==
  /\ copyPc = "area" /\ ~(vma <= Len(areas) /\ (vma = currVma \/ ustart = VStart))
  /\ result' = IF mode = "copy" THEN usize - cp ELSE Len(touchedPages) + 1
  /\ copyPc' = "done"
  /\ UNCHANGED <<input, currVma, vma, pg, ustart, uend, cp, touchedPages>>

\* Offset of the first byte in page i, and the bytes to take from it
StartIndex == (ustart - VStart) \div UserPage
Offset == IF pg = StartIndex THEN (ustart - VStart) % UserPage ELSE 0

CurrSize ==
  IF pg = EndIndex(uend) /\ mode = "copy" THEN uend - ((uend - 1) \div UserPage) * UserPage - Offset
  ELSE UserPage - Offset

Bytes(n) == [k \in 1 .. n |-> VStart + pg * UserPage + Offset + k - 1]

\* One page of __mmap_memcpy_vma
CopyPage ==
  /\ copyPc = "page" /\ mode = "copy" /\ pg < EndIndex(uend) + 1
  /\ touchedPages' = touchedPages \o Bytes(CurrSize)
  /\ cp' = cp - CurrSize /\ pg' = pg + 1
  /\ UNCHANGED <<input, copyPc, currVma, vma, ustart, uend, result>>

\* One page of mmap_strnlen_vma: strnlen, and the end when it found a NUL
LenPage ==
  LET b == Bytes(CurrSize)
      n == {k \in DOMAIN b : b[k] \in nul}
      s == IF n = {} THEN CurrSize ELSE (CHOOSE k \in n : \A l \in n : k <= l) - 1
  IN
  /\ copyPc = "page" /\ mode = "len" /\ pg < EndIndex(uend) + 1
  /\ touchedPages' = touchedPages \o SubSeq(b, 1, s)
  /\ IF s < CurrSize THEN copyPc' = "done" /\ result' = Len(touchedPages') + 1
                     ELSE UNCHANGED <<copyPc, result>>
  /\ pg' = pg + 1
  /\ UNCHANGED <<input, currVma, vma, ustart, uend, cp>>

AreaDone ==
  /\ copyPc = "page" /\ pg >= EndIndex(uend) + 1
  /\ vma' = vma + 1 /\ copyPc' = "area"
  /\ ustart' = uend /\ uend' = IF mode = "copy" THEN uend + cp ELSE uend
  /\ UNCHANGED <<input, currVma, pg, cp, touchedPages, result>>

CopyNext == NextArea \/ CopyFinish \/ CopyPage \/ LenPage \/ AreaDone

CopySpec == CopyInit /\ [][CopyNext]_copyVars
CopyFairSpec == CopySpec /\ WF_copyVars(CopyNext)

-----------------------------------------------------------------------------
Mapped(a) == \E k \in DOMAIN areas : areas[k][1] <= a /\ a < areas[k][2]

\* Bytes from addr on that are mapped without a hole
Run == CHOOSE n \in 0 .. 100 : ~Mapped(uaddr + n) /\ \A k \in 0 .. n - 1 : Mapped(uaddr + k)
Least(a, b) == IF a < b THEN a ELSE b

CopyTypeOK ==
  /\ copyPc \in {"area", "page", "done"}
  /\ currVma \in 1 .. Len(areas) + 1 /\ vma \in currVma .. Len(areas) + 1
  /\ ustart \in Nat /\ uend \in Nat /\ cp \in 0 .. usize /\ result \in Nat

\* Whatever the areas, no byte outside them is touched, and the bytes touched
\* are consecutive user addresses from addr on: the offset arithmetic never
\* skips, repeats or leaves a page.
InOrder == \A k \in DOMAIN touchedPages : touchedPages[k] = uaddr + k - 1 /\ Mapped(touchedPages[k])

\* __mmap_memcpy_vma copies and returns the mapped part of the range, up to the
\* first hole: message_memcpy takes a result other than size as an error.
CopyResult == (copyPc = "done" /\ mode = "copy") => result = Least(usize, Run) /\ Len(touchedPages) = result

\* mmap_strnlen_vma returns the length of the string with its NUL; a string
\* that meets a hole before a NUL ends there.
LenResult ==
  (copyPc = "done" /\ mode = "len") =>
    result = 1 + (IF \E k \in 0 .. Run - 1 : uaddr + k \in nul
               THEN CHOOSE k \in 0 .. Run - 1 : uaddr + k \in nul /\ \A l \in 0 .. k - 1 : uaddr + l \notin nul
               ELSE Run)

-----------------------------------------------------------------------------
(***************************************************************************)
(* The checks around an access to user memory: access_ok (__range_ok),     *)
(* uaccess_mask_ptr, get_user, put_user, the copies and clear_user, and    *)
(* probe_kernel_read. Words are W bits wide. A byte of memory may be       *)
(* unmapped; a copy that meets one stops at or before it (module ArmCopy). *)
(***************************************************************************)

CONSTANTS
  W,            \* bits of an address (64)
  UserDS,       \* USER_DS, the address limit of a user task: 2^k - 1
  AccessSizes,        \* sizeof(*ptr) of get_user and put_user
  MappedSets    \* the sets of mapped addresses tried

VARIABLES
  limit,        \* current_thread_info()->addr_limit
  mapped,       \* the addresses that do not fault
  access,       \* what the last call did: see NoAccess
  saved         \* old_fs of a probe_kernel_read under way, or NoFs

accessVars == <<limit, mapped, access, saved>>

M == 2^W
Word == 0..(M - 1)
KernelDS == M - 1
NoFs == -1
EFAULT == 14

NoAccess == [f |-> "none", at |-> 0, n |-> 0, touched |-> {}, ret |-> 0, good |-> 0, zero |-> 0]

----------------------------------------------------------------------------

\* __range_ok: four instructions on W bit words and the carry flag.
RangeOk(addr, size, lim) ==
  LET x == addr + size                                     \* adds
      carry == x >= M
      hi == carry /\ x % M # 0
      c == IF hi THEN 0 ELSE lim                           \* csel
      y == IF carry THEN M - 1 ELSE x % M                  \* csinv
      z == y + (M - 1 - c) + (IF carry THEN 1 ELSE 0)      \* sbcs
  IN z < M \/ z % M = 0                                    \* ls

\* __uaccess_mask_ptr: a pointer with a bit outside the limit becomes NULL.
\* The limits are masks.
MaskPtr(ptr, lim) == IF ptr \div (lim + 1) = 0 THEN ptr ELSE 0

BytesFrom(a, n) == {(a + i) % M : i \in 0..(n - 1)}
FirstFault(a, n) ==
  LET bad == {i \in 0..(n - 1) : (a + i) % M \notin mapped} IN
  IF bad = {} THEN n ELSE CHOOSE i \in bad : \A j \in bad : i <= j

Did(f, a, n, touched, ret, good, zero) ==
  access' = [f |-> f, at |-> a, n |-> n, touched |-> touched, ret |-> ret, good |-> good, zero |-> zero]

NoCall == saved = NoFs /\ access = NoAccess

\* get_user: the value read, or zero and -EFAULT. One instruction: all or nothing.
GetUser(a, n) ==
  /\ NoCall
  /\ LET p == MaskPtr(a, limit) IN
     IF ~RangeOk(a, n, limit) THEN Did("get_user", a, n, {}, -EFAULT, 0, n)
     ELSE IF FirstFault(p, n) < n THEN Did("get_user", a, n, BytesFrom(p, n), -EFAULT, 0, n)
     ELSE Did("get_user", a, n, BytesFrom(p, n), 0, n, 0)
  /\ UNCHANGED <<limit, mapped, saved>>

PutUser(a, n) ==
  /\ NoCall
  /\ LET p == MaskPtr(a, limit) IN
     IF ~RangeOk(a, n, limit) THEN Did("put_user", a, n, {}, -EFAULT, 0, 0)
     ELSE IF FirstFault(p, n) < n THEN Did("put_user", a, n, BytesFrom(p, n), -EFAULT, 0, 0)
     ELSE Did("put_user", a, n, BytesFrom(p, n), 0, n, 0)
  /\ UNCHANGED <<limit, mapped, saved>>

\* raw_copy_*_user: k bytes are copied before the fault, n - k are reported.
Copied(p, n) == IF FirstFault(p, n) = n THEN {n} ELSE 0..FirstFault(p, n)

\* copy_from_user: the bytes not copied are zeroed, unless the size check
\* against the object (sz, -1 when unknown) stopped the call.
CheckCopySize(sz, n) == ~(sz >= 0 /\ sz < n)

CopyFromUser(a, n, sz) ==
  /\ NoCall
  /\ LET p == MaskPtr(a, limit) IN
     IF ~CheckCopySize(sz, n) THEN Did("refused", a, n, {}, n, 0, 0)
     ELSE IF ~RangeOk(a, n, limit) THEN Did("copy_from_user", a, n, {}, n, 0, n)
     ELSE \E k \in Copied(p, n) : Did("copy_from_user", a, n, BytesFrom(p, n), n - k, k, n - k)
  /\ UNCHANGED <<limit, mapped, saved>>

CopyToUser(a, n, sz) ==
  /\ NoCall
  /\ LET p == MaskPtr(a, limit) IN
     IF ~CheckCopySize(sz, n) THEN Did("refused", a, n, {}, n, 0, 0)
     ELSE IF ~RangeOk(a, n, limit) THEN Did("copy_to_user", a, n, {}, n, 0, 0)
     ELSE \E k \in Copied(p, n) : Did("copy_to_user", a, n, BytesFrom(p, n), n - k, k, 0)
  /\ UNCHANGED <<limit, mapped, saved>>

\* clear_user: __arch_clear_user reports the whole size after a fault.
ClearUser(a, n) ==
  /\ NoCall
  /\ LET p == MaskPtr(a, limit) IN
     IF ~RangeOk(a, n, limit) THEN Did("clear_user", a, n, {}, n, 0, 0)
     ELSE \E k \in Copied(p, n) :
            Did("clear_user", a, n, BytesFrom(p, n), IF k = n THEN 0 ELSE n, 0, k)
  /\ UNCHANGED <<limit, mapped, saved>>

\* probe_kernel_read: the limit is raised around an unchecked copy.
ProbeBegin ==
  /\ NoCall /\ saved' = limit /\ limit' = KernelDS /\ UNCHANGED <<mapped, access>>

ProbeRead(a, n) ==
  /\ saved # NoFs
  /\ LET p == MaskPtr(a, limit) IN
     \E k \in Copied(p, n) :
       Did("probe", a, n, BytesFrom(p, n), IF k = n THEN 0 ELSE -EFAULT, k, 0)
  /\ limit' = saved /\ saved' = NoFs /\ UNCHANGED mapped

SetFs(l) ==
  /\ NoCall /\ limit' = l /\ UNCHANGED <<mapped, access, saved>>

\* The caller takes the result.
Return ==
  /\ access # NoAccess /\ access' = NoAccess /\ UNCHANGED <<limit, mapped, saved>>

----------------------------------------------------------------------------

AccessInit == limit = UserDS /\ mapped \in MappedSets /\ access = NoAccess /\ saved = NoFs

AccessNext ==
  \/ \E l \in {UserDS, KernelDS} : SetFs(l)
  \/ \E a \in Word, n \in AccessSizes : GetUser(a, n) \/ PutUser(a, n)
  \/ \E a \in Word, n \in Word, sz \in {-1, 2} : CopyFromUser(a, n, sz) \/ CopyToUser(a, n, sz)
  \/ \E a \in Word, n \in Word : ClearUser(a, n) \/ ProbeRead(a, n)
  \/ ProbeBegin \/ Return

AccessSpec == AccessInit /\ [][AccessNext]_accessVars

----------------------------------------------------------------------------
(* Properties                                                               *)

AccessTypeOK ==
  /\ limit \in {UserDS, KernelDS} /\ saved \in {NoFs, UserDS, KernelDS}
  /\ access.touched \subseteq Word /\ access.good + access.zero <= access.n

\* __range_ok is "equivalent to the following test: (u65)addr + (u65)size <=
\* (u65)current->addr_limit + 1" (uaccess.h), for every address and size.
RangeOkExact == \A a \in Word, n \in Word : RangeOk(a, n, limit) <=> a + n <= limit + 1

\* What a checked access touches is exactly what was asked for: the pointer
\* that passed access_ok is never replaced by NULL, and no access wraps.
TouchesWhatWasAsked ==
  access.f # "none" /\ access.touched # {} =>
    access.touched = access.at..(access.at + access.n - 1) \/ access.f = "probe"

\* A call that reports success moved every byte, and through mapped memory.
SuccessIsComplete ==
  access.f # "none" /\ access.ret = 0 =>
    /\ access.touched \subseteq mapped
    /\ access.n = IF access.f = "clear_user" THEN access.zero ELSE access.good

\* get_user and copy_from_user leave no byte of their result undefined.
ResultDefined ==
  access.f \in {"get_user", "copy_from_user"} => access.good + access.zero = access.n

-----------------------------------------------------------------------------
(* The ASID allocator of arch/arm64/mm/context.c and the switch of address *)
(* spaces that calls it (context_switch, mmu_context.h, proc.S).           *)
(*                                                                         *)
(* An ASID is an 8 or 16 bit tag that the hardware puts on every TLB entry *)
(* so that switching address spaces need not flush.  There are fewer ASIDs *)
(* than address spaces over time: when they run out the allocator starts a *)
(* new generation, keeps the ASIDs that are in use on some CPU, and has    *)
(* every CPU flush its TLB at its next switch.                             *)
(*                                                                         *)
(* An action is a step between two accesses to state that other CPUs use:  *)
(* the fast path of check_and_switch_context reads active_asids and        *)
(* asid_generation without cpu_asid_lock, so a rollover that holds the     *)
(* lock is visible to it CPU by CPU.                                       *)

CONSTANTS
  NumCpus,       \* CONFIG_NR_CPUS
  NumAsids,      \* NUM_USER_ASIDS; ASID 0 is the one of init_mm
  Mm,            \* address spaces of user tasks
  Kernel,        \* init_mm
  Gone,          \* page tables whose mm_struct has been freed
  MaxGeneration  \* bound on asid_generation

CPU == 0 .. NumCpus - 1

\* asids_init warns unless there is one more ASID than CPUs
ASSUME AsidAssumption ==
  /\ NumCpus \in Nat \ {0} /\ NumAsids \in Nat /\ NumAsids - 1 > NumCpus
  /\ MaxGeneration \in Nat \ {0}
  /\ IsFiniteSet(Mm) /\ Kernel \notin Mm /\ Gone \notin Mm /\ Kernel # Gone

VARIABLES
  generation,    \* asid_generation
  map,           \* asid_map, as a set of indices
  curIdx,        \* cur_idx
  active,        \* active_asids[cpu]
  asidReserved,      \* reserved_asids[cpu]
  flushPending,  \* tlb_flush_pending
  lock,          \* holder of cpu_asid_lock, or NumCpus
  ctx,           \* mm->context.id
  curr,          \* mm of the current thread of a CPU
  next,          \* mm of the thread a CPU switches to
  asid,          \* local asid of check_and_switch_context
  old,           \* local old_active_asid
  flushed,       \* flush_context has done the CPUs below this one
  hw,            \* what TTBR0 and TTBR1 hold: page tables and ASID
  tlb,           \* entries a CPU may hold: [mm, idx]
  asidPc

allocVars == <<generation, map, curIdx, asidReserved, flushPending, lock, ctx, flushed>>
hwVars == <<hw, tlb>>
asidVars == <<generation, map, curIdx, active, asidReserved, flushPending, lock, ctx, curr, next,
          asid, old, flushed, hw, tlb, asidPc>>

\* An ASID as mm->context.id stores it, the generation above the index
Asids == [gen : 0 .. MaxGeneration, idx : 0 .. NumAsids - 1]

\* The value 0: no ASID
NoAsid == [gen |-> 0, idx |-> 0]

PCs == {"run", "check", "cmpxchg", "lock", "roll", "finish", "ttbr"}

AsidInit ==
  /\ generation = 1 /\ map = {} /\ curIdx = 1
  /\ active = [c \in CPU |-> NoAsid] /\ asidReserved = [c \in CPU |-> NoAsid]
  /\ flushPending = {} /\ lock = NumCpus
  /\ ctx = [m \in Mm |-> NoAsid]
  /\ curr = [c \in CPU |-> Kernel] /\ next = [c \in CPU |-> Kernel]
  /\ asid = [c \in CPU |-> NoAsid] /\ old = [c \in CPU |-> NoAsid]
  /\ flushed = 0
  /\ hw = [c \in CPU |-> [mm |-> Kernel, idx |-> 0]]
  /\ tlb = [c \in CPU |-> {}]
  /\ asidPc = [c \in CPU |-> "run"]

AsidGoto(c, l) == asidPc' = [asidPc EXCEPT ![c] = l]

-----------------------------------------------------------------------------
(***************************************************************************)
(* context_switch.                                                         *)
(***************************************************************************)

\* To a thread of user space m, with interrupts off.  One task owns m and runs
\* on one CPU.  context.id changes only on the CPU that switches to it.  Every
\* switch may need a rollover: the first guard keeps MaxGeneration.
SwitchTo(c, m) ==
  /\ generation + Cardinality({d \in CPU : asidPc[d] # "run"}) < MaxGeneration
  /\ asidPc[c] = "run" /\ curr[c] # m
  /\ \A d \in CPU : m \notin {curr[d], next[d]}
  /\ next' = [next EXCEPT ![c] = m]
  /\ asid' = [asid EXCEPT ![c] = ctx[m]]
  /\ old' = [old EXCEPT ![c] = active[c]]
  /\ AsidGoto(c, IF active[c] # NoAsid THEN "check" ELSE "lock")
  /\ UNCHANGED <<allocVars, active, curr, hwVars>>

\* To a kernel thread: enter_lazy_tlb leaves TTBR0 and the ASID as they are.
SwitchToKernel(c) ==
  /\ asidPc[c] = "run" /\ curr[c] # Kernel
  /\ curr' = [curr EXCEPT ![c] = Kernel] /\ next' = [next EXCEPT ![c] = Kernel]
  /\ UNCHANGED <<allocVars, active, asid, old, hwVars, asidPc>>

CheckGeneration(c) ==
  /\ asidPc[c] = "check"
  /\ AsidGoto(c, IF asid[c].gen = generation THEN "cmpxchg" ELSE "lock")
  /\ UNCHANGED <<allocVars, active, curr, next, asid, old, hwVars>>

\* Mutant: a plain store instead of the cmpxchg.
CmpxchgStore(c) ==
  /\ asidPc[c] = "cmpxchg"
  /\ active' = [active EXCEPT ![c] = asid[c]]
  /\ AsidGoto(c, "ttbr")
  /\ UNCHANGED <<allocVars, curr, next, asid, old, hwVars>>

\* atomic64_cmpxchg_relaxed returns what it found; 0 means a rollover passed.
Cmpxchg(c) ==
  /\ asidPc[c] = "cmpxchg"
  /\ active' = IF active[c] = old[c] THEN [active EXCEPT ![c] = asid[c]] ELSE active
  /\ AsidGoto(c, IF active[c] # NoAsid THEN "ttbr" ELSE "lock")
  /\ UNCHANGED <<allocVars, curr, next, asid, old, hwVars>>

-----------------------------------------------------------------------------
(***************************************************************************)
(* new_context and flush_context, under cpu_asid_lock.                     *)
(***************************************************************************)

\* find_next_zero_bit
ZeroBits(from, taken) == {i \in from .. NumAsids - 1 : i \notin taken}

\* The CPUs on which check_update_reserved_asid finds id
ReservedBy(id) == {c \in CPU : asidReserved[c] = id}

\* bitmap_clear(asid_map, 0, n)
BitmapClear(n) == map \ (0 .. n - 1)

\* new_context returns id: it becomes context.id of the next address space.
Assign(c, id) ==
  /\ ctx' = [ctx EXCEPT ![next[c]] = id]
  /\ asid' = [asid EXCEPT ![c] = id]
  /\ AsidGoto(c, "finish")

\* new_context without a rollover: the same index again if the old ASID is
\* reserved, or still free; otherwise the next free index.
NewContext(c) ==
  LET id == ctx[next[c]]
      renewed == [gen |-> generation, idx |-> id.idx]
      free == ZeroBits(curIdx, map)
      hit == id # NoAsid /\ ReservedBy(id) # {}
      reuse == id # NoAsid /\ ~hit /\ id.idx \notin map
  IN  \/ /\ hit
         /\ asidReserved' = [d \in CPU |-> IF d \in ReservedBy(id) THEN renewed ELSE asidReserved[d]]
         /\ Assign(c, renewed) /\ UNCHANGED <<map, curIdx, generation, flushed>>
      \/ /\ reuse
         /\ map' = map \cup {id.idx}
         /\ Assign(c, renewed) /\ UNCHANGED <<curIdx, generation, asidReserved, flushed>>
      \/ /\ ~hit /\ ~reuse /\ free # {}
         /\ map' = map \cup {Min(free)} /\ curIdx' = Min(free)
         /\ Assign(c, [gen |-> generation, idx |-> Min(free)])
         /\ UNCHANGED <<generation, asidReserved, flushed>>
      \/ /\ ~hit /\ ~reuse /\ free = {}
         /\ generation' = generation + 1
         /\ map' = BitmapClear(NumAsids) /\ flushed' = 0
         /\ AsidGoto(c, "roll")
         /\ UNCHANGED <<curIdx, asidReserved, ctx, asid>>

\* The slow path takes the lock and compares the generation again.
Lock(c) ==
  /\ asidPc[c] = "lock" /\ lock = NumCpus
  /\ lock' = c
  /\ IF ctx[next[c]].gen = generation
     THEN /\ asid' = [asid EXCEPT ![c] = ctx[next[c]]] /\ AsidGoto(c, "finish")
          /\ UNCHANGED <<generation, map, curIdx, asidReserved, ctx, flushed>>
     ELSE NewContext(c)
  /\ UNCHANGED <<active, flushPending, curr, next, old, hwVars>>

\* flush_context, one CPU: its active ASID, or the one it has in reserve
FlushContext(c) ==
  /\ asidPc[c] = "roll" /\ flushed < NumCpus
  /\ LET id == IF active[flushed] = NoAsid THEN asidReserved[flushed] ELSE active[flushed]
     IN  /\ asidReserved' = [asidReserved EXCEPT ![flushed] = id]
         /\ map' = map \cup {id.idx}
  /\ active' = [active EXCEPT ![flushed] = NoAsid]
  /\ flushed' = flushed + 1
  /\ UNCHANGED <<generation, curIdx, flushPending, lock, ctx, curr, next, asid, old, hwVars, asidPc>>

\* Mutant: the flush is queued for the other CPUs only.
RolloverOthers(c) ==
  /\ asidPc[c] = "roll" /\ flushed = NumCpus
  /\ flushPending' = CPU \ {c}
  /\ LET i == Min(ZeroBits(1, map))
     IN  /\ map' = map \cup {i} /\ curIdx' = i
         /\ Assign(c, [gen |-> generation, idx |-> i])
  /\ UNCHANGED <<generation, active, asidReserved, lock, curr, next, old, flushed, hwVars>>

\* The end of flush_context, and the index that must then be free
Rollover(c) ==
  /\ asidPc[c] = "roll" /\ flushed = NumCpus
  /\ flushPending' = CPU
  /\ LET i == Min(ZeroBits(1, map))
     IN  /\ map' = map \cup {i} /\ curIdx' = i
         /\ Assign(c, [gen |-> generation, idx |-> i])
  /\ UNCHANGED <<generation, active, asidReserved, lock, curr, next, old, flushed, hwVars>>

\* Rest of the locked section.  TTBR0 still holds the old page tables, so the
\* hardware may refill from them after local_flush_tlb_all.
AsidFinish(c) ==
  /\ asidPc[c] = "finish"
  /\ tlb' = IF c \in flushPending
            THEN [tlb EXCEPT ![c] = IF hw[c].mm = Kernel THEN {} ELSE {hw[c]}] ELSE tlb
  /\ flushPending' = flushPending \ {c}
  /\ active' = [active EXCEPT ![c] = asid[c]]
  /\ lock' = NumCpus
  /\ AsidGoto(c, "ttbr")
  /\ UNCHANGED <<generation, map, curIdx, asidReserved, ctx, curr, next, asid, old, flushed, hw>>

\* cpu_switch_mm: cpu_do_switch_mm reads mm->context.id again.  From here on
\* the TLB may hold an entry of the new space.  The locals are dead.
SwitchMm(c) ==
  /\ asidPc[c] = "ttbr"
  /\ hw' = [hw EXCEPT ![c] = [mm |-> next[c], idx |-> ctx[next[c]].idx]]
  /\ tlb' = [tlb EXCEPT ![c] = @ \cup {hw'[c]}]
  /\ curr' = [curr EXCEPT ![c] = next[c]]
  /\ asid' = [asid EXCEPT ![c] = NoAsid] /\ old' = [old EXCEPT ![c] = NoAsid]
  /\ AsidGoto(c, "run")
  /\ UNCHANGED <<allocVars, active, next>>

\* An exit or an exec frees the space m of a task that runs nowhere, and a new
\* one takes its name.  Nothing is flushed: what TLBs and an idle CPU's TTBR0
\* hold of the old page tables stays, as Gone.
AsidDestroy(m) ==
  /\ \A c \in CPU : m \notin {curr[c], next[c]}
  /\ ctx' = [ctx EXCEPT ![m] = NoAsid]
  /\ hw' = [c \in CPU |-> IF hw[c].mm = m THEN [hw[c] EXCEPT !.mm = Gone] ELSE hw[c]]
  /\ tlb' = [c \in CPU |-> {IF e.mm = m THEN [e EXCEPT !.mm = Gone] ELSE e : e \in tlb[c]}]
  /\ UNCHANGED <<generation, map, curIdx, active, asidReserved, flushPending, lock, curr, next,
                 asid, old, flushed, asidPc>>

Switching(c) ==
  \/ CheckGeneration(c) \/ Cmpxchg(c) \/ Lock(c) \/ FlushContext(c) \/ Rollover(c)
  \/ AsidFinish(c) \/ SwitchMm(c)

AsidNext ==
  \/ \E c \in CPU : Switching(c) \/ SwitchToKernel(c) \/ \E m \in Mm : SwitchTo(c, m)
  \/ \E m \in Mm : AsidDestroy(m)

AsidSpec == AsidInit /\ [][AsidNext]_asidVars

-----------------------------------------------------------------------------
(***************************************************************************)
(* Properties.                                                             *)
(***************************************************************************)

AsidTypeOK ==
  /\ generation \in 1 .. MaxGeneration /\ map \in SUBSET (0 .. NumAsids - 1)
  /\ curIdx \in 1 .. NumAsids - 1
  /\ active \in [CPU -> Asids] /\ asidReserved \in [CPU -> Asids]
  /\ flushPending \in SUBSET CPU /\ lock \in 0 .. NumCpus /\ flushed \in 0 .. NumCpus
  /\ ctx \in [Mm -> Asids] /\ asid \in [CPU -> Asids] /\ old \in [CPU -> Asids]
  /\ curr \in [CPU -> Mm \cup {Kernel}] /\ next \in [CPU -> Mm \cup {Kernel}]
  /\ hw \in [CPU -> [mm : Mm \cup {Kernel, Gone}, idx : 0 .. NumAsids - 1]]
  /\ \A c \in CPU : tlb[c] \subseteq [mm : Mm \cup {Gone}, idx : 0 .. NumAsids - 1]
  /\ asidPc \in [CPU -> PCs]

\* A user task never hits a translation of another address space, nor of one
\* that has been freed: no entry of its CPU's TLB carries its ASID and comes
\* from other page tables (what check_and_switch_context is for).
NoStaleHit ==
  \A c \in CPU : curr[c] \in Mm /\ asidPc[c] = "run" =>
    \A e \in tlb[c] : e.idx = hw[c].idx => e.mm = curr[c]

\* Two CPUs that run different address spaces use different ASIDs, also while a
\* rollover is under way or has passed one of them (reserved_asids).
UniqueAsid ==
  \A c, d \in CPU : c # d /\ {curr[c], curr[d]} \subseteq Mm /\ asidPc[c] = "run" /\ asidPc[d] = "run"
                  => hw[c].idx # hw[d].idx

=============================================================================
