-------------------------------- MODULE Slub --------------------------------
(***************************************************************************)
(* Objects of one slab cache (kernel/mm/slub.c).  A slab is a page of      *)
(* Objects objects with a list of free ones and a bit lock.  A CPU owns at *)
(* most one slab, frozen, and a list of free objects of it that it uses    *)
(* without a lock.  Slabs with some free objects that no CPU owns are on   *)
(* the partial list.  Interrupts are off in an operation, so that a CPU    *)
(* runs one at a time, while operations of the CPUs interleave wherever a  *)
(* lock is taken or released.  A list of free objects is the sequence its  *)
(* pointers spell.                                                         *)
(***************************************************************************)
EXTENDS Naturals, FiniteSets, SequencesExt, Integers

CONSTANTS
  CPUs, SlabPages, Objects,
  MinPartial,      \* MIN_PARTIAL
  SlubNone

ASSUME SizesAssumption == Objects \in Nat \ {0} /\ MinPartial \in Nat

VARIABLES
  page,        \* page[p]: the struct page of p, and whether it is a slab
  slubCpu,         \* cpu[c]: kmem_cache_cpu: the slab and the lockless freelist
  partial,     \* kmem_cache_node.partial
  nrPartial, nrSlabs,
  listLock,    \* the CPU that holds list_lock, or None
  run,         \* run[c]: where c's operation is
  user,        \* the objects in the hands of callers
  cache        \* "open", then "quiet" (no more calls), "closing", "closed"

slubVars == <<page, slubCpu, partial, nrPartial, nrSlabs, listLock, run, user, cache>>

SlabObjects(p) == {p} \X (1 .. Objects)
PageOf(o) == o[1]
NotSlab == [slab |-> FALSE, free |-> <<>>, inuse |-> 0, frozen |-> FALSE, lock |-> SlubNone]

(***************************************************************************)
(* An operation at rest, and one at a place `at`: the page and object it   *)
(* works on, its position in a scan of the partial list, whether a page is *)
(* to be added at the list's tail, and what follows deactivate_slab.       *)
(***************************************************************************)
Idle == [at |-> "idle", page |-> SlubNone, obj |-> SlubNone, i |-> 0, tail |-> FALSE, then |-> "idle"]
At(at) == [Idle EXCEPT !.at = at]
SlubGoto(c, r) == run' = [run EXCEPT ![c] = r]

SlubInit ==
  /\ page = [p \in SlabPages |-> NotSlab]
  /\ slubCpu = [c \in CPUs |-> [page |-> SlubNone, free |-> <<>>]]
  /\ partial = <<>> /\ nrPartial = 0 /\ nrSlabs = 0 /\ listLock = SlubNone
  /\ run = [c \in CPUs |-> Idle]
  /\ user = {}
  /\ cache = "open"

(***************************************************************************)
(* slab_alloc: the first free object, or __slab_alloc.                     *)
(***************************************************************************)
SlabAlloc(c) ==
  /\ run[c].at = "idle" /\ cache = "open"
  /\ IF slubCpu[c].free # <<>>
     THEN /\ user' = user \union {Head(slubCpu[c].free)}
          /\ slubCpu' = [slubCpu EXCEPT ![c].free = Tail(@)]
          /\ UNCHANGED run
     ELSE /\ SlubGoto(c, At(IF slubCpu[c].page = SlubNone THEN "new_slab" ELSE "alloc_lock"))
          /\ UNCHANGED <<user, slubCpu>>
  /\ UNCHANGED <<page, partial, nrPartial, nrSlabs, listLock, cache>>

\* slab_lock(c->page)
AllocLock(c) ==
  /\ run[c].at = "alloc_lock"
  /\ page[slubCpu[c].page].lock = SlubNone
  /\ page' = [page EXCEPT ![slubCpu[c].page].lock = c]
  /\ SlubGoto(c, At("load_freelist"))
  /\ UNCHANGED <<slubCpu, partial, nrPartial, nrSlabs, listLock, user, cache>>

InuseLoaded(p) == Objects

LoadFreelist(c) ==
  LET p == slubCpu[c].page
      free == page[p].free
  IN /\ run[c].at = "load_freelist"
     /\ IF free # <<>>
        THEN /\ slubCpu' = [slubCpu EXCEPT ![c].free = Tail(free)]
             /\ page' = [page EXCEPT ![p].inuse = InuseLoaded(p), ![p].free = <<>>, ![p].lock = SlubNone]
             /\ user' = user \union {Head(free)}
             /\ SlubGoto(c, Idle)
        ELSE /\ SlubGoto(c, [At("deactivate") EXCEPT !.then = "new_slab"])
             /\ UNCHANGED <<slubCpu, page, user>>
     /\ UNCHANGED <<partial, nrPartial, nrSlabs, listLock, cache>>

(***************************************************************************)
(* deactivate_slab and unfreeze_slab: the lockless freelist goes back to   *)
(* the slab, object by object, and the slab to the partial list, or to     *)
(* the page allocator, or nowhere when it is full.                         *)
(***************************************************************************)
KeepEmpty == nrPartial < MinPartial

\* The lockless freelist is dropped.
MergedFreelistLost(c) == page[slubCpu[c].page].free
MergedFreelist(c) == Reverse(slubCpu[c].free) \o page[slubCpu[c].page].free

Deactivate(c) ==
  LET p == slubCpu[c].page
      free == MergedFreelist(c)
      inuse == page[p].inuse - Len(slubCpu[c].free)
      then == run[c].then
      Put(lock) == page' = [page EXCEPT ![p] = [@ EXCEPT !.free = free, !.inuse = inuse,
                                                         !.frozen = FALSE, !.lock = lock]]
  IN /\ run[c].at = "deactivate"
     /\ slubCpu' = [slubCpu EXCEPT ![c] = [page |-> SlubNone, free |-> <<>>]]
     /\ \/ inuse > 0 /\ free # <<>> /\ Put(c)
           /\ SlubGoto(c, [At("add_partial") EXCEPT !.page = p, !.then = then])
        \/ inuse > 0 /\ free = <<>> /\ Put(SlubNone) /\ SlubGoto(c, At(then))
        \/ inuse = 0 /\ KeepEmpty /\ Put(c)
           /\ SlubGoto(c, [At("add_partial") EXCEPT !.page = p, !.tail = TRUE, !.then = then])
        \/ inuse = 0 /\ ~KeepEmpty /\ Put(SlubNone)
           /\ SlubGoto(c, [At("discard") EXCEPT !.page = p, !.then = then])
     /\ UNCHANGED <<partial, nrPartial, nrSlabs, listLock, user, cache>>

\* add_partial and add_partial_tail, then slab_unlock.
AddPartial(c) ==
  LET p == run[c].page
  IN /\ run[c].at = "add_partial"
     /\ listLock = SlubNone
     /\ nrPartial' = nrPartial + 1
     /\ partial' = IF run[c].tail THEN Append(partial, p) ELSE <<p>> \o partial
     /\ page' = [page EXCEPT ![p].lock = SlubNone]
     /\ SlubGoto(c, At(run[c].then))
     /\ UNCHANGED <<slubCpu, nrSlabs, listLock, user, cache>>

\* discard_slab, after slab_unlock.
Discard(c) ==
  /\ run[c].at = "discard"
  /\ nrSlabs' = nrSlabs - 1
  /\ page' = [page EXCEPT ![run[c].page] = NotSlab]
  /\ SlubGoto(c, At(run[c].then))
  /\ UNCHANGED <<slubCpu, partial, nrPartial, listLock, user, cache>>

(***************************************************************************)
(* get_partial: a racy look at nr_partial, then a scan of the list, under  *)
(* its lock, for a slab whose lock is free.                                *)
(***************************************************************************)
NewSlab(c) ==
  /\ run[c].at = "new_slab"
  /\ SlubGoto(c, At(IF nrPartial = 0 THEN "allocate" ELSE "list_lock"))
  /\ UNCHANGED <<page, slubCpu, partial, nrPartial, nrSlabs, listLock, user, cache>>

ListLock(c) ==
  /\ run[c].at = "list_lock"
  /\ listLock = SlubNone
  /\ listLock' = c
  /\ SlubGoto(c, [At("scan") EXCEPT !.i = 1])
  /\ UNCHANGED <<page, slubCpu, partial, nrPartial, nrSlabs, user, cache>>

SlabTrylockFails(p) == page[p].lock # SlubNone
ScanPartial(c) ==
  LET i == run[c].i
      p == partial[i]
  IN /\ run[c].at = "scan"
     /\ \/ /\ i > Len(partial)
           /\ listLock' = SlubNone
           /\ SlubGoto(c, At("allocate"))
           /\ UNCHANGED <<page, slubCpu, partial, nrPartial>>
        \/ /\ i <= Len(partial) /\ SlabTrylockFails(p)
           /\ SlubGoto(c, [run[c] EXCEPT !.i = i + 1])
           /\ UNCHANGED <<page, slubCpu, partial, nrPartial, listLock>>
        \/ /\ i <= Len(partial) /\ page[p].lock = SlubNone
           /\ page' = [page EXCEPT ![p].lock = c, ![p].frozen = TRUE]
           /\ partial' = RemoveAt(partial, i)
           /\ nrPartial' = nrPartial - 1
           /\ listLock' = SlubNone
           /\ slubCpu' = [slubCpu EXCEPT ![c].page = p]
           /\ SlubGoto(c, At("load_freelist"))
     /\ UNCHANGED <<nrSlabs, user, cache>>

(***************************************************************************)
(* new_slab: the page allocator may have no page; no interrupt has come    *)
(* since the CPU's slab went, so that there is none to flush.              *)
(***************************************************************************)
Allocate(c) ==
  /\ run[c].at = "allocate"
  /\ \/ SlubGoto(c, Idle) /\ UNCHANGED <<page, slubCpu, nrSlabs>>
     \/ \E p \in SlabPages :
          /\ ~page[p].slab
          /\ page' = [page EXCEPT ![p] = [slab |-> TRUE, free |-> [i \in 1 .. Objects |-> <<p, i>>],
                                          inuse |-> 0, frozen |-> TRUE, lock |-> c]]
          /\ nrSlabs' = nrSlabs + 1
          /\ slubCpu' = [slubCpu EXCEPT ![c].page = p]
          /\ SlubGoto(c, At("load_freelist"))
  /\ UNCHANGED <<partial, nrPartial, listLock, user, cache>>

(***************************************************************************)
(* slab_free: to the lockless freelist of the CPU that owns the slab, else *)
(* __slab_free under the lock of the slab.                                 *)
(***************************************************************************)
SlabFree(c, o) ==
  /\ run[c].at = "idle" /\ cache = "open"
  /\ o \in user
  /\ user' = user \ {o}
  /\ IF PageOf(o) = slubCpu[c].page
     THEN slubCpu' = [slubCpu EXCEPT ![c].free = <<o>> \o @] /\ UNCHANGED run
     ELSE SlubGoto(c, [At("free_lock") EXCEPT !.page = PageOf(o), !.obj = o]) /\ UNCHANGED slubCpu
  /\ UNCHANGED <<page, partial, nrPartial, nrSlabs, listLock, cache>>

FreeLock(c) ==
  /\ run[c].at = "free_lock"
  /\ page[run[c].page].lock = SlubNone
  /\ page' = [page EXCEPT ![run[c].page].lock = c]
  /\ SlubGoto(c, [run[c] EXCEPT !.at = "free"])
  /\ UNCHANGED <<slubCpu, partial, nrPartial, nrSlabs, listLock, user, cache>>

WasFull(prior) == prior = <<>>

WasPartial(prior) == prior # <<>>

SlabFreeSlow(c) ==
  LET p == run[c].page
      prior == page[p].free
      inuse == page[p].inuse - 1
      Put(lock) == page' = [page EXCEPT ![p] = [@ EXCEPT !.free = <<run[c].obj>> \o prior,
                                                         !.inuse = inuse, !.lock = lock]]
  IN /\ run[c].at = "free"
     /\ \/ (page[p].frozen \/ (inuse > 0 /\ ~WasFull(prior))) /\ Put(SlubNone) /\ SlubGoto(c, Idle)
        \/ ~page[p].frozen /\ inuse > 0 /\ WasFull(prior) /\ Put(c)
           /\ SlubGoto(c, [At("add_partial") EXCEPT !.page = p, !.tail = TRUE])
        \/ ~page[p].frozen /\ inuse = 0 /\ WasPartial(prior) /\ Put(c)
           /\ SlubGoto(c, [At("remove_partial") EXCEPT !.page = p])
        \/ ~page[p].frozen /\ inuse = 0 /\ ~WasPartial(prior) /\ Put(SlubNone)
           /\ SlubGoto(c, [At("discard") EXCEPT !.page = p])
     /\ UNCHANGED <<slubCpu, partial, nrPartial, nrSlabs, listLock, user, cache>>

\* remove_partial, then slab_unlock.
RemovePartial(c) ==
  LET p == run[c].page
  IN /\ run[c].at = "remove_partial"
     /\ listLock = SlubNone
     /\ partial' = SelectSeq(partial, LAMBDA x : x # p)
     /\ nrPartial' = nrPartial - 1
     /\ page' = [page EXCEPT ![p].lock = SlubNone]
     /\ SlubGoto(c, [At("discard") EXCEPT !.page = p])
     /\ UNCHANGED <<slubCpu, nrSlabs, listLock, user, cache>>

(***************************************************************************)
(* kmem_cache_destroy of the last reference: nobody uses the cache any     *)
(* more, every CPU flushes its slab in an interrupt, and then the empty    *)
(* slabs of the partial list go.  nr_partial drops by the number of slabs  *)
(* that stay.                                                              *)
(***************************************************************************)
Quiesce == cache = "open" /\ cache' = "quiet"
           /\ UNCHANGED <<page, slubCpu, partial, nrPartial, nrSlabs, listLock, run, user>>
SlubDestroy ==
  /\ cache = "quiet"
  /\ \A c \in CPUs : run[c].at = "idle"
  /\ cache' = "closing"
  /\ UNCHANGED <<page, slubCpu, partial, nrPartial, nrSlabs, listLock, run, user>>

FlushCpuSlab(c) ==
  /\ cache = "closing" /\ run[c].at = "idle" /\ slubCpu[c].page # SlubNone
  /\ page[slubCpu[c].page].lock = SlubNone
  /\ page' = [page EXCEPT ![slubCpu[c].page].lock = c]
  /\ SlubGoto(c, At("deactivate"))
  /\ UNCHANGED <<slubCpu, partial, nrPartial, nrSlabs, listLock, user, cache>>

Flushed == \A c \in CPUs : run[c].at = "idle" /\ slubCpu[c].page = SlubNone
FreeList ==
  LET empty == {p \in Range(partial) : page[p].inuse = 0}
  IN /\ cache = "closing" /\ Flushed
     /\ page' = [p \in SlabPages |-> IF p \in empty THEN NotSlab ELSE page[p]]
     /\ partial' = SelectSeq(partial, LAMBDA p : p \notin empty)
     /\ nrSlabs' = nrSlabs - Cardinality(empty)
     /\ nrPartial' = nrPartial - Len(partial')
     /\ cache' = "closed"
     /\ UNCHANGED <<slubCpu, listLock, run, user>>

Step(c) ==
  \/ AllocLock(c) \/ LoadFreelist(c) \/ Deactivate(c) \/ AddPartial(c) \/ Discard(c)
  \/ NewSlab(c) \/ ListLock(c) \/ ScanPartial(c) \/ Allocate(c)
  \/ FreeLock(c) \/ SlabFreeSlow(c) \/ RemovePartial(c)
Closed == cache = "closed" /\ UNCHANGED slubVars
SlubNext ==
  \/ \E c \in CPUs : Step(c) \/ SlabAlloc(c) \/ FlushCpuSlab(c)
  \/ \E c \in CPUs, o \in user : SlabFree(c, o)
  \/ Quiesce \/ SlubDestroy \/ FreeList \/ Closed

\* An operation runs with interrupts off, and a flush in an interrupt: the
\* CPU goes on as long as its next step can be taken.
SlubFairness ==
  /\ \A c \in CPUs : WF_slubVars(Step(c)) /\ WF_slubVars(FlushCpuSlab(c))
  /\ WF_slubVars(SlubDestroy) /\ WF_slubVars(FreeList)
SlubSpec == SlubInit /\ [][SlubNext]_slubVars
SlubFairSpec == SlubSpec /\ SlubFairness

-----------------------------------------------------------------------------
SlubTypeOK ==
  /\ page \in [SlabPages -> [slab : BOOLEAN, free : Seq(SlabPages \X (1 .. Objects)), inuse : 0 .. Objects,
                         frozen : BOOLEAN, lock : CPUs \union {SlubNone}]]
  /\ \A c \in CPUs : slubCpu[c].page \in SlabPages \union {SlubNone}
  /\ nrPartial \in Nat /\ nrSlabs \in Nat
  /\ user \subseteq SlabPages \X (1 .. Objects)

Slabs == {p \in SlabPages : page[p].slab}
Owners(p) == {c \in CPUs : slubCpu[c].page = p}
Copies(o) ==
  (IF o \in user THEN 1 ELSE 0)
  + Cardinality({c \in CPUs : run[c].obj = o})
  + Cardinality({i \in DOMAIN page[PageOf(o)].free : page[PageOf(o)].free[i] = o})
  + Cardinality({<<c, i>> \in CPUs \X (1 .. Objects) : i \in DOMAIN slubCpu[c].free /\ slubCpu[c].free[i] = o})

\* slub.c never hands an object out twice and loses none: every object of a
\* slab is at one place, with a caller, on its way back, on the slab's
\* freelist or on the lockless freelist of the CPU that owns the slab; and
\* no page goes back to the page allocator with an object in use.
ObjectsConserved ==
  \A p \in SlabPages : \A o \in SlabObjects(p) :
    /\ Copies(o) = IF page[p].slab THEN 1 ELSE 0
    /\ \A c \in CPUs : o \in Range(slubCpu[c].free) => slubCpu[c].page = p

\* page->inuse counts the objects that are not on the slab's own freelist,
\* through every order of frees, loads and deactivations on the CPUs.
InuseExact == \A p \in Slabs : page[p].inuse = Objects - Len(page[p].free)

\* A slab whose lock is free is frozen exactly when a CPU owns it, one CPU
\* at most; it is on the partial list exactly when it has a free object and
\* no CPU owns it: __slab_free infers from the freelist which slabs it
\* must add and remove.  Lists and counts agree.
Discarding(p) == \E c \in CPUs : run[c].at = "discard" /\ run[c].page = p
PartialExact ==
  /\ IsInjective(partial)
  /\ cache # "closed" => nrPartial = Len(partial)
  /\ nrSlabs = Cardinality(Slabs)
  /\ \A p \in Slabs :
       /\ Cardinality(Owners(p)) <= 1
       /\ page[p].lock = SlubNone =>
            /\ page[p].frozen <=> Owners(p) # {}
            /\ (~page[p].frozen /\ page[p].free # <<>> /\ ~Discarding(p)) <=> p \in Range(partial)

\* Destroying a cache no object of which is in use frees all of its slabs.
DestroyFreesAll == (cache = "closed" /\ user = {}) => nrSlabs = 0 /\ Slabs = {}

-----------------------------------------------------------------------------
(***************************************************************************)
(* The caches of kernel/mm/slub.c: their layout, their creation, merging   *)
(* and destruction, and the choice of a cache by kmalloc.  A cache is the  *)
(* record of its struct kmem_cache; slab_caches lists caches, the newest   *)
(* first.  Each CPU has a pool of NrCpuStructs kmem_cache_cpu structures;  *)
(* when it is empty the structure comes from kmalloc, which may fail.      *)
(***************************************************************************)

CONSTANTS
  CacheCPUs,              \* the CPUs online, in the order of for_each_online_cpu
  NrCpuStructs,      \* NR_KMEM_CACHE_CPU
  Requests,          \* what kmem_cache_create is called with
  MaxCaches,         \* bound: caches created on top of those of kmalloc
  PointerSize, PageShift, CacheLine, MinAlign, KmallocMinSize,
  MinObjects, MaxSlabOrder, CachesMaxOrder

ASSUME PowersAssumption ==
  /\ {PointerSize, CacheLine, MinAlign, KmallocMinSize} \subseteq {2^i : i \in 0 .. 12}
  /\ PageShift \in 4 .. 16 /\ MinObjects \in Nat \ {0}

PageSize == 2^PageShift
AlignUp(x, a) == ((x + a - 1) \div a) * a
Fls(x) == IF x <= 0 THEN 0 ELSE 1 + Max({i \in 0 .. 30 : 2^i <= x})
KmallocShiftLow == Fls(KmallocMinSize) - 1

VARIABLES
  caches,      \* slab_caches
  pool,        \* pool[c]: kmem_cache_cpu_free[c]
  slabState

cachesVars == <<caches, pool, slabState>>

(***************************************************************************)
(* slab_order and calculate_order: the smallest order up to maxOrder that  *)
(* holds minObjects objects and wastes at most one fract-th of the slab,   *)
(* or maxOrder + 1.                                                        *)
(***************************************************************************)
SlabOrder(size, minObjects, maxOrder, fract) ==
  LET first == Max({0, Fls(minObjects * size - 1) - PageShift})
      Fits(order) == /\ PageSize * 2^order >= minObjects * size
                     /\ (PageSize * 2^order) % size <= (PageSize * 2^order) \div fract
      fitting == {order \in first .. maxOrder : Fits(order)}
  IN IF fitting # {} THEN Min(fitting) ELSE Max({first, maxOrder + 1})

\* The attempts in order: fewer objects step by step, and for each number
\* of objects first an eighth, then a fourth, of the slab wasted.
RECURSIVE Attempts(_)
Attempts(minObjects) ==
  IF minObjects <= 1 THEN <<<<1, MaxSlabOrder, 1>>, <<1, CachesMaxOrder, 1>>>>
  ELSE <<<<minObjects, MaxSlabOrder, 8>>, <<minObjects, MaxSlabOrder, 4>>>>
       \o Attempts(minObjects \div 2)
CalculateOrder(size) ==
  LET tries == Attempts(MinObjects)
      Good(i) == SlabOrder(size, tries[i][1], tries[i][2], tries[i][3]) <= tries[i][2]
      good == {i \in DOMAIN tries : Good(i)}
      first == tries[Min(good)]
  IN IF good = {} THEN -1 ELSE SlabOrder(size, first[1], first[2], first[3])

CalculateAlignment(flags, align, size) ==
  CASE "HWCACHE_ALIGN" \in flags /\ size > CacheLine \div 2 -> Max({align, CacheLine})
    [] ~("HWCACHE_ALIGN" \in flags /\ size > CacheLine \div 2) /\ align < MinAlign -> MinAlign
    [] OTHER -> AlignUp(align, PointerSize)

FreePointerOutside(flags, ctor) == "POISON" \in flags \/ ctor

CalculateSizes(r) ==
  LET inuse == AlignUp(r.size, PointerSize)
      outside == FreePointerOutside(r.flags, r.ctor)
      size == AlignUp(inuse + (IF outside THEN PointerSize ELSE 0), CalculateAlignment(r.flags, r.align, r.size))
      order == CalculateOrder(size)
  IN [objsize |-> r.size, inuse |-> inuse, offset |-> IF outside THEN inuse ELSE 0, size |-> size,
      order |-> order, objects |-> IF order < 0 THEN 0 ELSE (PageSize * 2^order) \div size]

(***************************************************************************)
(* alloc_kmem_cache_cpus and free_kmem_cache_cpus.  A structure from the   *)
(* pool is its number, one from kmalloc is 0.  A failure on one CPU gives  *)
(* back what the CPUs before it took.                                      *)
(***************************************************************************)
OrderOf(c) == SelectInSeq(CacheCPUs, LAMBDA x : x = c)
FreeCpuStructs(p, structs) ==
  [c \in DOMAIN p |-> IF c \in DOMAIN structs /\ structs[c] # 0 THEN <<structs[c]>> \o p[c] ELSE p[c]]
AllocCpuStructs(failAt) ==
  LET failing == {i \in DOMAIN CacheCPUs : i = failAt /\ pool[CacheCPUs[i]] = <<>>}
      got == {c \in Range(CacheCPUs) : \A i \in failing : OrderOf(c) < i}
      structs == [c \in got |-> IF pool[c] = <<>> THEN 0 ELSE Head(pool[c])]
      taken == [c \in DOMAIN pool |-> IF c \in got /\ pool[c] # <<>> THEN Tail(pool[c]) ELSE pool[c]]
  IN IF failing = {} THEN [ok |-> TRUE, structs |-> structs, pool |-> taken]
     ELSE [ok |-> FALSE, structs |-> <<>>, pool |-> FreeCpuStructs(taken, structs)]

(***************************************************************************)
(* A cache: its layout, its flags, its reference count and its per-CPU     *)
(* structures.  `users` records the requests it serves, kmalloc's first.   *)
(***************************************************************************)
Cache(id, r, structs) ==
  CalculateSizes(r) @@ [id |-> id, flags |-> r.flags, ctor |-> r.ctor, refcount |-> 1,
                        structs |-> structs, users |-> <<r>>]

(***************************************************************************)
(* kmem_cache_init: the caches of kmalloc.                                 *)
(***************************************************************************)
KmallocSizes ==
  (IF KmallocMinSize <= 64 THEN <<<<1, 96>>>> ELSE <<>>)
  \o (IF KmallocMinSize <= 128 THEN <<<<2, 192>>>> ELSE <<>>)
  \o [i \in 1 .. PageShift - KmallocShiftLow |-> <<KmallocShiftLow + i - 1, 2^(KmallocShiftLow + i - 1)>>]
KmallocRequest(size) == [size |-> size, align |-> KmallocMinSize, flags |-> {}, ctor |-> FALSE]
KmemCacheInit ==
  LET n == Len(KmallocSizes)
  IN /\ slabState = "down"
     /\ slabState' = "up"
     /\ caches' = Reverse([i \in 1 .. n |->
          Cache(KmallocSizes[i][1], KmallocRequest(KmallocSizes[i][2]), [c \in Range(CacheCPUs) |-> pool[c][i]])])
     /\ pool' = [c \in DOMAIN pool |-> SubSeq(pool[c], n + 1, Len(pool[c]))]

(***************************************************************************)
(* get_slab and kmalloc_index: the cache for a size.                       *)
(***************************************************************************)
SizeIndexTable == <<3, 4, 5, 5, 6, 6, 6, 6, 1, 1, 1, 1, 7, 7, 7, 7, 2, 2, 2, 2, 2, 2, 2, 2>>
SizeIndex(j) == IF 8 * (j + 1) < KmallocMinSize THEN KmallocShiftLow ELSE SizeIndexTable[j + 1]
GetSlab(size) == IF size <= 192 THEN SizeIndex((size - 1) \div 8) ELSE Fls(size - 1)
KmallocIndex(size) ==
  CASE size <= KmallocMinSize -> KmallocShiftLow
    [] size > KmallocMinSize /\ size > 64 /\ size <= 96 -> 1
    [] size > KmallocMinSize /\ size > 128 /\ size <= 192 -> 2
    [] OTHER -> Min({i \in 3 .. 21 : size <= 2^i})

(***************************************************************************)
(* find_mergeable: the first cache in the list whose objects serve.        *)
(***************************************************************************)
NeverMerge(flags) == flags \intersect {"RED_ZONE", "POISON", "STORE_USER"} # {}
SlabUnmergeable(s) == NeverMerge(s.flags) \/ s.ctor \/ s.refcount < 0
MergeSame(flags) == flags \intersect {"CACHE_DMA"}
AlignmentCompatible(s, align) == s.size % align = 0
MergeableWith(s, r) ==
  LET align == CalculateAlignment(r.flags, r.align, AlignUp(r.size, PointerSize))
      size == AlignUp(AlignUp(r.size, PointerSize), align)
  IN /\ ~SlabUnmergeable(s)
     /\ size <= s.size
     /\ MergeSame(r.flags) = MergeSame(s.flags)
     /\ AlignmentCompatible(s, align)
     /\ s.size - size < PointerSize
FindMergeable(r) ==
  IF NeverMerge(r.flags) \/ r.ctor THEN {}
  ELSE LET found == {i \in DOMAIN caches : MergeableWith(caches[i], r)}
       IN IF found = {} THEN {} ELSE {Min(found)}

UserIds == {caches[i].id : i \in DOMAIN caches} \ (0 .. PageShift)
NewId == Min((100 .. 100 + MaxCaches) \ UserIds)
Users == FoldLeft(LAMBDA n, s : n + Len(s.users), 0, caches)

Merged(s, r) == Max({s.objsize, r.size})
KmemCacheCreate(r) ==
  /\ slabState = "up"
  /\ Users < Len(KmallocSizes) + MaxCaches
  /\ \/ \E i \in FindMergeable(r) :
          /\ caches' = [caches EXCEPT ![i] =
               [@ EXCEPT !.refcount = @ + 1, !.objsize = Merged(caches[i], r),
                         !.inuse = Max({@, AlignUp(r.size, PointerSize)}), !.users = Append(@, r)]]
          /\ UNCHANGED pool
     \/ \E failAt \in 0 .. Len(CacheCPUs) :
          LET got == AllocCpuStructs(failAt)
          IN /\ FindMergeable(r) = {}
             /\ CalculateSizes(r).objects > 0
             /\ caches' = IF got.ok THEN <<Cache(NewId, r, got.structs)>> \o caches ELSE caches
             /\ pool' = got.pool
     \/ /\ FindMergeable(r) = {} /\ CalculateSizes(r).objects = 0
        /\ UNCHANGED <<caches, pool>>
  /\ UNCHANGED slabState

\* One of the users of a cache, but not kmalloc itself, gives it up.
KmemCacheDestroy(i, u) ==
  LET s == caches[i]
  IN /\ s.id <= PageShift => u > 1
     /\ IF s.refcount = 1
        THEN /\ caches' = RemoveAt(caches, i)
             /\ pool' = FreeCpuStructs(pool, s.structs)
        ELSE /\ caches' = [caches EXCEPT ![i] = [@ EXCEPT !.refcount = @ - 1, !.users = RemoveAt(@, u)]]
             /\ UNCHANGED pool
     /\ UNCHANGED slabState

CachesInit ==
  /\ caches = <<>>
  /\ pool = [c \in Range(CacheCPUs) |-> [i \in 1 .. NrCpuStructs |-> i]]
  /\ slabState = "down"

CachesNext ==
  \/ KmemCacheInit
  \/ \E r \in Requests : KmemCacheCreate(r)
  \/ \E i \in DOMAIN caches : \E u \in DOMAIN caches[i].users : KmemCacheDestroy(i, u)
CachesSpec == CachesInit /\ [][CachesNext]_cachesVars

-----------------------------------------------------------------------------
\* calculate_sizes: objects follow each other in the slab and fit it, an
\* object holds its free pointer, and the pointer lies outside of objects
\* that a constructor or the poison makes untouchable.  Only an object that
\* needs more pages than that gets a slab of more than slub_max_order.
LayoutRight ==
  \A i \in DOMAIN caches :
    LET s == caches[i]
    IN /\ s.objects > 0 /\ s.objects * s.size <= PageSize * 2^s.order
       /\ PageSize * 2^s.order - s.objects * s.size < s.size
       /\ s.order <= MaxSlabOrder \/ s.size > PageSize * 2^MaxSlabOrder
       /\ s.size % PointerSize = 0 /\ s.offset % PointerSize = 0 /\ s.offset + PointerSize <= s.size
       /\ (s.ctor \/ "POISON" \in s.flags) => s.offset >= s.objsize

\* A cache serves everybody it was merged for: each request fits an object,
\* its alignment holds for every object of the slab, kzalloc clears at
\* least what was asked for and never past the object.
MergeSafe ==
  \A i \in DOMAIN caches :
    LET s == caches[i]
    IN /\ s.refcount = Len(s.users)
       /\ s.objsize <= s.size
       /\ \A u \in Range(s.users) :
            /\ u.size <= s.objsize
            /\ s.size % Max({u.align, MinAlign}) = 0
            /\ ("HWCACHE_ALIGN" \in u.flags /\ u.size > CacheLine \div 2) => s.size % CacheLine = 0
            /\ MergeSame(u.flags) = MergeSame(s.flags)

\* A per-CPU structure serves one cache or lies in its CPU's pool, also
\* after an allocation failed half way or a cache was destroyed.
StructsConserved ==
  \A c \in Range(CacheCPUs) :
    LET used == [i \in DOMAIN caches |-> caches[i].structs[c]]
        fromPool == SelectSeq(used, LAMBDA n : n # 0) \o pool[c]
    IN IsInjective(fromPool) /\ Range(fromPool) = 1 .. NrCpuStructs

\* kmalloc finds a cache by table or by its constant size, always the same
\* one, which exists and whose objects are large enough and aligned for DMA.
Boundaries == {n \in UNION {{2^i - 1, 2^i, 2^i + 1} : i \in 1 .. PageShift - 1} \union {95, 96, 97, 191, 192, 193} :
               n > 0 /\ n <= PageSize \div 2}
KmallocRight ==
  slabState = "up" =>
    \A size \in Boundaries :
      /\ GetSlab(size) = KmallocIndex(size)
      /\ \E i \in DOMAIN caches : caches[i].id = GetSlab(size) /\ caches[i].objsize >= size
                                  /\ caches[i].size % KmallocMinSize = 0
=============================================================================
