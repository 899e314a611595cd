----------------------------- MODULE PageAlloc -----------------------------
(***************************************************************************)
(* The page allocator (kernel/mm/page_alloc.c): a buddy system per zone,   *)
(* under the zone's lock, behind lists of single pages per CPU and zone.   *)
(* At boot the free ranges of memblock are handed over piece by piece;     *)
(* afterwards CPUs allocate, share (get_page) and free blocks.             *)
(*                                                                         *)
(* A CPU works on its own page list with interrupts off and on another's   *)
(* when it drains it.  Either is two steps, going in and doing the work,   *)
(* so that two CPUs can be on one list.  Nothing keeps them apart: what    *)
(* they do may fall one after the other, or tear the list, and then the    *)
(* model ends, as anything may follow.  Work under the zone's lock is one  *)
(* step.  The data in a page, its address and the wording of        *)
(* reports are left out.  BUG_ON and bad_page set the variable "bad".      *)
(***************************************************************************)
EXTENDS Integers, Sequences, FiniteSets, SequencesExt, FiniteSetsExt

CONSTANTS
  Pages,       \* the page frame numbers for which pfn_valid holds
  MaxOrder,    \* MAX_ORDER
  Cpu,         \* the online CPUs, as numbers
  Zone,        \* the zones
  InitialZone, \* the zone __init_single_page gives every page
  Ranges,      \* the free ranges memblock hands over, in order: <<first, end>>
  Reserved,    \* pages memblock has reserved
  Batchsize,   \* zone_batchsize of every zone
  HighFactor,  \* pcp->high is this many batches: 6 in the code
  MaxRefs,     \* bound on the references to a page
  NoPage

Orders == 0 .. MaxOrder - 1

ASSUME LayoutAssumption ==
  /\ Pages \subseteq Nat \ {0} /\ Reserved \subseteq Pages
  /\ InitialZone \in [Pages -> Zone]
  /\ \A r \in Range(Ranges) : r[1] .. r[2] - 1 \subseteq Pages \ Reserved

VARIABLES
  mem,     \* area: the free lists; nr: their nr_free; buddy: the order of the
           \* free block a page heads, from PageBuddy and page_private, or -1
  refs,    \* _refcount
  order,   \* the compound order of a head page, -1 without PG_head
  head,    \* the head page a tail page points to, NoPage without the tail bit
  reserved,\* pages with PG_reserved
  managed, \* managed_pages of a zone
  pcp,     \* the page lists: list and count
  boot,    \* what memblock_free_all has still to hand over
  held,    \* the blocks <<page, order>> that callers own
  cpu,     \* what a CPU is doing
  bad,     \* a BUG_ON or bad_page was reached
  torn     \* two CPUs wrote one page list at once

buddyVars == <<mem, refs, order, head, reserved, managed, pcp, boot, held, cpu, bad, torn>>

(***************************************************************************)
(* The buddy system.                                                       *)
(***************************************************************************)
BuddyPfn(p, o) == IF (p \div 2^o) % 2 = 0 THEN p + 2^o ELSE p - 2^o

IsBuddy(m, p, b, o) ==
  b \in Pages /\ m.buddy[b] = o /\ InitialZone[p] = InitialZone[b]

Unlink(m, z, p, o) ==
  [m EXCEPT !.area[z][o] = Remove(@, p), !.nr[z][o] = @ - 1, !.buddy[p] = -1]

\* A merge that stops after one step.
MergeOnce(m, z, p, o) ==
  LET b == BuddyPfn(p, o) IN
  IF o < MaxOrder - 1 /\ IsBuddy(m, p, b, o)
  THEN [m |-> Unlink(m, z, b, o), p |-> Min({p, b}), o |-> o + 1]
  ELSE [m |-> m, p |-> p, o |-> o]

\* The block that p, of order o, grows to, with its buddies unlinked.
RECURSIVE Merge(_, _, _, _)
Merge(m, z, p, o) ==
  LET b == BuddyPfn(p, o) IN
  IF o < MaxOrder - 1 /\ IsBuddy(m, p, b, o)
  THEN Merge(Unlink(m, z, b, o), z, Min({p, b}), o + 1)
  ELSE [m |-> m, p |-> p, o |-> o]

\* Whether the block's pair could soon merge one order higher.
GoesToTail(m, p, o) ==
  LET b == BuddyPfn(p, o)
      c == Min({p, b}) IN
  /\ o < MaxOrder - 2 /\ b \in Pages
  /\ IsBuddy(m, c, BuddyPfn(c, o + 1), o + 1)

FreeOnePage(m, z, p, o) ==
  LET r == Merge(m, z, p, o)
      l == r.m.area[z][r.o] IN
  [r.m EXCEPT !.area[z][r.o] = IF GoesToTail(r.m, r.p, r.o)
                               THEN Append(l, r.p) ELSE <<r.p>> \o l,
              !.nr[z][r.o] = @ + 1,
              !.buddy[r.p] = r.o]

\* The upper halves of p, from order high down to low, go back on the lists.
Expand(m, z, p, low, high) ==
  LET Half(o, n) == [n EXCEPT !.area[z][o] = <<p + 2^o>> \o @,
                              !.nr[z][o] = @ + 1, !.buddy[p + 2^o] = o]
  IN FoldSet(Half, m, low .. high - 1)

RmqueueSmallest(m, z, o) ==
  LET found == {q \in Orders : q >= o /\ m.area[z][q] # <<>>} IN
  IF found = {} THEN [page |-> NoPage, m |-> m]
  ELSE LET q == Min(found)
           p == m.area[z][q][1]
       IN [page |-> p, m |-> Expand(Unlink(m, z, p, q), z, p, o, q)]

\* Up to n single pages, in the order they are added to the caller's list.
RECURSIVE RmqueueBulk(_, _, _)
RmqueueBulk(m, z, n) ==
  LET r == RmqueueSmallest(m, z, 0) IN
  IF n = 0 \/ r.page = NoPage THEN [list |-> <<>>, m |-> m]
  ELSE LET rest == RmqueueBulk(r.m, z, n - 1)
       IN [list |-> <<r.page>> \o rest.list, m |-> rest.m]

(***************************************************************************)
(* The page lists of the CPUs.                                             *)
(***************************************************************************)
Batch(z) == Max({1, Batchsize[z]})
High(z) == HighFactor * Batchsize[z]

\* The last n pages of list c go to the buddy system, the last one first.
FreePcppagesBulk(m, lists, c, z, n) ==
  LET l == lists[c][z].list
      keep == Len(l) - n
      Give(p, x) == FreeOnePage(x, z, p, 0)
  IN [m |-> FoldRight(Give, SubSeq(l, keep + 1, Len(l)), m),
      pcp |-> [lists EXCEPT ![c][z] = [list |-> SubSeq(l, 1, keep), count |-> @.count - n]]]

\* free_unref_page_commit: p goes on the list, and at the high mark a batch leaves it.
FreeUnrefPageCommit(m, lists, c, p) ==
  LET z == InitialZone[p]
      new == [lists EXCEPT ![c][z] = [list |-> <<p>> \o @.list, count |-> @.count + 1]]
  IN IF new[c][z].count >= High(z) THEN FreePcppagesBulk(m, new, c, z, Batch(z))
     ELSE [m |-> m, pcp |-> new]

\* __rmqueue_pcplist: an empty list is filled with a batch first.
RmqueuePcplist(m, lists, c, z) ==
  LET l == lists[c][z]
      bulk == IF l.list = <<>> THEN RmqueueBulk(m, z, Batch(z)) ELSE [list |-> l.list, m |-> m]
      n == IF l.list = <<>> THEN l.count + Len(bulk.list) ELSE l.count
  IN IF bulk.list = <<>> THEN [page |-> NoPage, m |-> m, pcp |-> lists]
     ELSE [page |-> bulk.list[1], m |-> bulk.m,
           pcp |-> [lists EXCEPT ![c][z] = [list |-> Tail(bulk.list), count |-> n - 1]]]

(***************************************************************************)
(* The states of a page.                                                   *)
(***************************************************************************)
Block(p, o) == p .. p + 2^o - 1

\* page_expected_state: not mapped and not in the buddy system, unreferenced.
ExpectedState(p) == mem.buddy[p] = -1 /\ refs[p] = 0

\* check_new_pages: the state a page must have when it is handed out.
NewPageOK(p, m) ==
  m.buddy[p] = -1 /\ refs[p] = 0 /\ order[p] = -1 /\ p \notin reserved

\* free_pages_prepare, with the reference already dropped: the checks it makes,
\* and the flags and head pointers it clears.
FreePrepareOK(p, o) ==
  /\ head[p] = NoPage /\ mem.buddy[p] = -1 /\ p \in Pages
  /\ o > 0 /\ order[p] # -1 => order[p] = o
  /\ \A q \in Block(p, o) \ {p} :
       /\ q \in Pages /\ ExpectedState(q)
       /\ order[p] # -1 => head[q] = p

FreePrepareClear(p, o) ==
  /\ order' = [q \in Pages |-> IF q \in Block(p, o) THEN -1 ELSE order[q]]
  /\ head' = [q \in Pages |-> IF q \in Block(p, o) \ {p} /\ order[p] # -1 THEN NoPage ELSE head[q]]

\* prep_new_page: one reference, and a compound page above order 0.
PrepNewPage(p, o) ==
  /\ refs' = [q \in Pages |-> IF q = p THEN 1 ELSE IF q \in Block(p, o) THEN 0 ELSE refs[q]]
  /\ order' = [order EXCEPT ![p] = IF o > 0 THEN o ELSE @]
  /\ head' = [q \in Pages |-> IF q \in Block(p, o) \ {p} THEN p ELSE head[q]]

BuddyIdle == [at |-> "idle", zone |-> InitialZone[Min(Pages)], order |-> 0,
         page |-> NoPage, todo |-> {}]

(***************************************************************************)
(* Boot: memblock_free_all hands over each range in naturally aligned      *)
(* blocks that fit.                                                        *)
(***************************************************************************)
BuddyInit ==
  /\ mem = [area |-> [z \in Zone |-> [o \in Orders |-> <<>>]],
            nr |-> [z \in Zone |-> [o \in Orders |-> 0]],
            buddy |-> [p \in Pages |-> -1]]
  /\ refs = [p \in Pages |-> 1]
  /\ order = [p \in Pages |-> -1]
  /\ head = [p \in Pages |-> NoPage]
  /\ reserved = Reserved
  /\ managed = [z \in Zone |-> 0]
  /\ pcp = [c \in Cpu |-> [z \in Zone |-> [list |-> <<>>, count |-> 0]]]
  /\ boot = Ranges
  /\ held = {}
  /\ cpu = [c \in Cpu |-> BuddyIdle]
  /\ bad = FALSE /\ torn = FALSE

BootOrder(start, end) ==
  Max({o \in Orders : start % 2^o = 0 /\ start + 2^o <= end})

FreeBoot ==
  /\ boot # <<>>
  /\ LET start == boot[1][1]
         end == boot[1][2]
         o == BootOrder(start, end)
         z == InitialZone[start]
         r == IF o = 0 THEN FreeUnrefPageCommit(mem, pcp, Min(Cpu), start)
              ELSE [m |-> FreeOnePage(mem, z, start, o), pcp |-> pcp]
     IN /\ boot' = IF start + 2^o < end THEN <<<<start + 2^o, end>>>> \o Tail(boot) ELSE Tail(boot)
        /\ reserved' = reserved \ Block(start, o)
        /\ refs' = [p \in Pages |-> IF p \in Block(start, o) THEN 0 ELSE refs[p]]
        /\ managed' = [managed EXCEPT ![z] = @ + 2^o]
        /\ mem' = r.m /\ pcp' = r.pcp
        /\ bad' = (bad \/ start % 2^o # 0)
  /\ UNCHANGED <<order, head, held, cpu>>

(***************************************************************************)
(* __alloc_pages.                                                          *)
(***************************************************************************)
Running == boot = <<>>

\* rmqueue: an allocation of order 0 goes to work on the CPU's own list.
Alloc(c, z) ==
  /\ Running /\ cpu[c] = BuddyIdle
  /\ cpu' = [cpu EXCEPT ![c] = [BuddyIdle EXCEPT !.at = "rmqueue", !.zone = z]]
  /\ UNCHANGED <<mem, refs, order, head, reserved, managed, pcp, boot, held, bad>>

\* The page comes from the list or, above order 0, at once from the buddy system
\* and is prepared.  Without one the lists of the other CPUs are drained.
Rmqueue(c, z, o) ==
  LET s == RmqueueSmallest(mem, z, o)
      r == IF o = 0 THEN RmqueuePcplist(mem, pcp, c, z)
           ELSE [page |-> s.page, m |-> s.m, pcp |-> pcp]
  IN /\ \/ cpu[c].at = "rmqueue" /\ cpu[c].zone = z /\ cpu[c].order = o
        \/ Running /\ cpu[c] = BuddyIdle /\ o > 0
     /\ mem' = r.m /\ pcp' = r.pcp
     /\ IF r.page = NoPage
        THEN /\ cpu' = [cpu EXCEPT ![c] = IF Cpu = {c} THEN BuddyIdle
                          ELSE [BuddyIdle EXCEPT !.at = "drain", !.zone = z, !.order = o, !.todo = Cpu \ {c}]]
             /\ UNCHANGED <<refs, order, head, held, bad>>
        ELSE /\ PrepNewPage(r.page, o)
             /\ held' = held \union {<<r.page, o>>}
             /\ cpu' = [cpu EXCEPT ![c] = BuddyIdle]
             /\ bad' = (bad \/ \E p \in Block(r.page, o) : ~NewPageOK(p, r.m))
     /\ UNCHANGED <<reserved, managed, boot>>

\* drain_pages_zone of the next CPU, from the CPU that found no page.  Only what
\* the last CPU gave decides whether the allocation is tried again.
Drain(c) ==
  LET z == cpu[c].zone
      d == Min(cpu[c].todo)
      n == pcp[d][z].count
      r == FreePcppagesBulk(mem, pcp, d, z, n)
      rest == cpu[c].todo \ {d}
  IN /\ cpu[c].at = "drain"
     /\ mem' = r.m /\ pcp' = r.pcp
     /\ bad' = (bad \/ n > Len(pcp[d][z].list))
     /\ cpu' = [cpu EXCEPT ![c] =
                  IF rest # {} THEN [@ EXCEPT !.todo = rest]
                  ELSE IF n > 0 THEN [@ EXCEPT !.at = "rmqueue", !.todo = {}]
                  ELSE BuddyIdle]
     /\ UNCHANGED <<refs, order, head, reserved, managed, boot, held>>

(***************************************************************************)
(* References and freeing.                                                 *)
(***************************************************************************)
\* get_page, through any page of a block that is in use.
GetPage(b, p) ==
  LET h == IF head[p] = NoPage THEN p ELSE head[p] IN
  /\ Running /\ b \in held /\ p \in Block(b[1], b[2])
  /\ refs[h] < MaxRefs
  /\ refs' = [refs EXCEPT ![h] = @ + 1]
  /\ bad' = (bad \/ refs[h] <= 0)
  /\ UNCHANGED <<mem, order, head, reserved, managed, pcp, boot, held, cpu>>

\* The last reference to p is gone: order 0 goes to the CPU's page list, in a
\* step of its own, larger blocks to the buddy system.
FreeThePage(c, p, o) ==
  /\ bad' = (bad \/ ~FreePrepareOK(p, o))
  /\ FreePrepareClear(p, o)
  /\ IF o = 0
     THEN /\ cpu' = [cpu EXCEPT ![c] = [BuddyIdle EXCEPT !.at = "free", !.page = p, !.zone = InitialZone[p]]]
          /\ UNCHANGED <<mem, pcp>>
     ELSE /\ mem' = FreeOnePage(mem, InitialZone[p], p, o)
          /\ UNCHANGED <<cpu, pcp>>

\* put_page through any page of the block, or __free_pages by the owner: what
\* counts is the reference on the head page, and the order it was allocated with.
PutPage(c, b, p) ==
  LET h == IF head[p] = NoPage THEN p ELSE head[p]
      o == IF order[h] = -1 THEN 0 ELSE order[h] IN
  /\ Running /\ cpu[c] = BuddyIdle /\ b \in held /\ p \in Block(b[1], b[2])
  /\ refs' = [refs EXCEPT ![h] = @ - 1]
  /\ IF refs[h] = 1
     THEN /\ FreeThePage(c, h, o)
          /\ held' = held \ {b}
     ELSE /\ bad' = (bad \/ refs[h] = 0)
          /\ UNCHANGED <<mem, order, head, pcp, held, cpu>>
  /\ UNCHANGED <<reserved, managed, boot>>

\* free_unref_page, once interrupts are off.
FreeCommit(c) ==
  LET r == FreeUnrefPageCommit(mem, pcp, c, cpu[c].page) IN
  /\ cpu[c].at = "free"
  /\ mem' = r.m /\ pcp' = r.pcp
  /\ cpu' = [cpu EXCEPT ![c] = BuddyIdle]
  /\ UNCHANGED <<refs, order, head, reserved, managed, boot, held, bad>>

\* free_reserved_area: the pages of the init section, one after another.
FreeReserved(c, p) ==
  /\ Running /\ cpu[c] = BuddyIdle /\ p \in reserved
  /\ reserved' = reserved \ {p}
  /\ managed' = [managed EXCEPT ![InitialZone[p]] = @ + 1]
  /\ refs' = [refs EXCEPT ![p] = 0]
  /\ FreeThePage(c, p, 0)
  /\ UNCHANGED <<boot, held>>

\* The CPU and zone of the page list a CPU works on.
WorksOn(c) ==
  CASE cpu[c].at = "rmqueue" /\ cpu[c].order = 0 -> {<<c, cpu[c].zone>>}
    [] cpu[c].at = "free" -> {<<c, cpu[c].zone>>}
    [] cpu[c].at = "drain" -> {<<Min(cpu[c].todo), cpu[c].zone>>}
    [] OTHER -> {}

\* drain_pages_zone takes no lock and masks only its own CPU's interrupts: it
\* and the owner of the list, or a second drain, write the list at once.
TearList(c) ==
  /\ cpu[c].at = "drain"
  /\ \E d \in Cpu \ {c} : WorksOn(c) \cap WorksOn(d) # {}
  /\ torn' = TRUE
  /\ UNCHANGED <<mem, refs, order, head, reserved, managed, pcp, boot, held, cpu, bad>>

BuddyStep ==
  \/ FreeBoot
  \/ \E b \in held : \E p \in Block(b[1], b[2]) : GetPage(b, p)
  \/ \E c \in Cpu :
       \/ \E z \in Zone : Alloc(c, z)
       \/ \E z \in Zone, o \in Orders : Rmqueue(c, z, o)
       \/ Drain(c) \/ FreeCommit(c)
       \/ \E b \in held : \E p \in Block(b[1], b[2]) : PutPage(c, b, p)
       \/ \E p \in reserved : FreeReserved(c, p)

BuddyNext ==
  /\ ~torn
  /\ \/ BuddyStep /\ UNCHANGED torn
     \/ \E c \in Cpu : TearList(c)

BuddySpec == BuddyInit /\ [][BuddyNext]_buddyVars

(***************************************************************************)
(* Properties.                                                             *)
(***************************************************************************)
\* Types.
BuddyTypeOK ==
  /\ mem.area \in [Zone -> [Orders -> Seq(Pages)]]
  /\ mem.nr \in [Zone -> [Orders -> Nat]]
  /\ mem.buddy \in [Pages -> Orders \union {-1}]
  /\ refs \in [Pages -> 0 .. MaxRefs]
  /\ order \in [Pages -> Orders \union {-1}]
  /\ head \in [Pages -> Pages \union {NoPage}]
  /\ reserved \subseteq Reserved
  /\ managed \in [Zone -> Nat]
  /\ pcp \in [Cpu -> [Zone -> [list : Seq(Pages), count : Nat]]]
  /\ held \subseteq Pages \X Orders
  /\ \A c \in Cpu : cpu[c].at \in {"idle", "rmqueue", "drain", "free"} /\ cpu[c].page \in Pages \union {NoPage}
  /\ bad \in BOOLEAN /\ torn \in BOOLEAN

\* No BUG_ON and no bad_page report of the allocator is ever reached, by callers
\* that only free what they hold: page_is_buddy, __free_one_page,
\* free_pages_prepare, check_new_page, put_page_testzero, set_page_refcounted.
NoBuddyBug == ~bad

\* The number of places that hold a page: free blocks, page lists, allocated
\* blocks, and CPUs that are taking it to their list.
Places(p) ==
  Cardinality({q \in Pages : mem.buddy[q] # -1 /\ p \in Block(q, mem.buddy[q])})
  + Cardinality({c \in Cpu : p \in Range(pcp[c][InitialZone[p]].list)})
  + Cardinality({b \in held : p \in Block(b[1], b[2])})
  + Cardinality({c \in Cpu : cpu[c].page = p})

NotYetFree == reserved \union UNION {r[1] .. r[2] - 1 : r \in Range(boot)}

\* A page is in one place: it is never handed out twice, never both free and in
\* use, and none is lost by a merge, a split, a bulk or a drain.
OnePlace ==
  \A p \in UNION {r[1] .. r[2] - 1 : r \in Range(Ranges)} \union Reserved :
    Places(p) = IF p \in NotYetFree THEN 0 ELSE 1

\* PageBuddy marks exactly the first pages of the blocks on the free lists, with
\* their order, on the lists of the zone of every page of the block; no list has
\* a page twice, and nr_free and pcp->count are the lengths of their lists.
ListsExact ==
  /\ \A z \in Zone, o \in Orders :
       /\ mem.nr[z][o] = Len(mem.area[z][o])
       /\ IsInjective(mem.area[z][o])
       /\ \A p \in Range(mem.area[z][o]) :
            /\ mem.buddy[p] = o /\ p % 2^o = 0
            /\ \A q \in Block(p, o) : q \in Pages /\ InitialZone[q] = z
  /\ \A p \in Pages : mem.buddy[p] # -1 => p \in Range(mem.area[InitialZone[p]][mem.buddy[p]])
  /\ \A c \in Cpu, z \in Zone :
       /\ pcp[c][z].count = Len(pcp[c][z].list) /\ IsInjective(pcp[c][z].list)
       /\ \A p \in Range(pcp[c][z].list) : InitialZone[p] = z

\* Free memory is merged as far as it goes: two free buddies of a zone are
\* always one block (__free_one_page merges, expand never leaves a pair).
Coalesced ==
  \A z \in Zone, o \in Orders \ {MaxOrder - 1} :
    \A p \in Range(mem.area[z][o]) : BuddyPfn(p, o) \notin Range(mem.area[z][o])

\* A page list never reaches its high mark between two operations, so a bulk
\* always finds the pages it is asked for.
ListsBounded ==
  \A c \in Cpu, z \in Zone : pcp[c][z].count < Max({1, High(z), Batch(z)})

ZoneFree(z) == MapThenSumSet(LAMBDA o : mem.nr[z][o] * 2^o, Orders)

ZonePercpu(z) == MapThenSumSet(LAMBDA c : pcp[c][z].count, Cpu)

\* What the counters say adds up: a zone's managed pages are its free ones, the
\* ones on page lists, the ones in use and the ones on their way to a list.
Accounted ==
  \A z \in Zone :
    managed[z] = ZoneFree(z) + ZonePercpu(z)
      + MapThenSumSet(LAMBDA b : 2^b[2], {b \in held : InitialZone[b[1]] = z})
      + Cardinality({c \in Cpu : cpu[c].page # NoPage /\ cpu[c].zone = z})

\* The compound pages are the blocks above order 0 in use: the tail pages of a
\* block point to its head and every other page's head pointer is clear.
CompoundExact ==
  \A p \in Pages :
    LET owner == {b \in held : p \in Block(b[1], b[2]) /\ b[2] > 0} IN
    /\ (order[p] # -1) = (\E b \in owner : b[1] = p /\ order[p] = b[2])
    /\ head[p] = IF \E b \in owner : b[1] # p THEN (CHOOSE b \in owner : TRUE)[1] ELSE NoPage
=============================================================================
