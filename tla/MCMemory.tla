------------------------------ MODULE MCMemory ------------------------------
(***************************************************************************)
(* Memory management.  A behaviour runs one part; the state of the others  *)
(* stays initial.                                                          *)
(*   buddy   a block of four pages in one zone, its last page released     *)
(*           late, when its buddies may be free already                    *)
(*   zones   four pages around the border of two zones, one of them too    *)
(*           small for batches                                             *)
(*   slab    two CPUs and two slabs of two objects                         *)
(*   single  two CPUs and four slabs of one object                         *)
(*   one     one CPU and three slabs of two objects                        *)
(*   caches  kmem_cache_create on top of the caches of kmalloc             *)
(*   mmap    16 pages of 2 bytes, tables of two entries: areas share tables*)
(*           at every level                                                *)
(*   copy    areas of one to three pages of four bytes, adjacent or not    *)
(*   access  addresses of four bits                                        *)
(*   asid    two CPUs, the fewest ASIDs that asids_init accepts            *)
(***************************************************************************)
EXTENDS PageAlloc, Slub, Mmap

CONSTANT Parts

VARIABLE part

Block4 == 4 .. 7
Block4Zone == [p \in Block4 |-> "NORMAL"]
Block4Ranges == <<<<4, 7>>>>
Block4Batchsize == [z \in {"NORMAL"} |-> 3]

BorderZone == [p \in 2 .. 5 |-> IF p = 2 THEN "DMA" ELSE "NORMAL"]
Border == INSTANCE PageAlloc WITH
  Pages <- 2 .. 5, Zone <- {"DMA", "NORMAL"}, InitialZone <- BorderZone, Ranges <- <<<<3, 5>>, <<2, 3>>>>,
  Reserved <- {5}, Batchsize <- [z \in {"DMA", "NORMAL"} |-> IF z = "DMA" THEN 0 ELSE 1], HighFactor <- 2

Single == INSTANCE Slub WITH SlabPages <- 1 .. 4, Objects <- 1
One == INSTANCE Slub WITH CPUs <- {"c1"}, SlabPages <- 1 .. 3

TwoCPUs == <<0, 1>>
Request(size, align, flags, ctor) == [size |-> size, align |-> align, flags |-> flags, ctor |-> ctor]
\* Small and large objects, ones a cache of kmalloc serves, ones that only
\* just do not fit, and one no slab can hold.
SampleRequests ==
  { Request(1, 0, {}, FALSE), Request(20, 8, {}, FALSE), Request(24, 0, {}, FALSE), Request(20, 16, {"CACHE_DMA"}, FALSE),
    Request(100, 0, {"HWCACHE_ALIGN"}, FALSE), Request(124, 64, {}, FALSE), Request(250, 0, {}, FALSE),
    Request(252, 0, {"POISON"}, FALSE), Request(256, 512, {}, FALSE), Request(24, 0, {}, TRUE),
    Request(700, 256, {}, TRUE), Request(3000, 0, {}, FALSE), Request(5000, 0, {}, FALSE),
    Request(40000, 0, {}, FALSE), Request(10000000, 0, {}, FALSE) }

\* A program in one area, one in two areas that share tables, and one whose
\* areas overlap
TheImages == {[segs |-> <<<<1, 4>>>>, brk |-> 7],
              [segs |-> <<<<1, 2>>, <<3, 6>>>>, brk |-> 12],
              [segs |-> <<<<4, 6>>, <<2, 5>>>>, brk |-> 12]}

\* Ranges within an area, at its end, and across two areas
TheProts == {<<1, 2>>, <<3, 5>>, <<5, 8>>}

TheLayouts == {<<>>, <<<<4, 8>>>>, <<<<4, 16>>>>, <<<<4, 8>>, <<8, 16>>>>, <<<<4, 12>>, <<12, 16>>, <<16, 20>>>>,
               <<<<4, 8>>, <<12, 20>>>>, <<<<4, 12>>, <<12, 16>>, <<20, 24>>>>}
TheNuls == {{}, {5}, {7}, {11, 14}, {15}, {12, 19}}

TheMapped == {Word, {}, {0, 1, 3, 4, 5, 6, 7}, 6..15}

vars == <<part, buddyVars, slubVars, cachesVars, mmVars, copyVars, accessVars, asidVars>>

Init ==
  /\ part \in Parts
  /\ IF part = "zones" THEN Border!BuddyInit ELSE BuddyInit
  /\ CASE part = "single" -> Single!SlubInit [] part = "one" -> One!SlubInit [] OTHER -> SlubInit
  /\ CachesInit
  /\ MmInit /\ (part = "mmap" \/ mm.start = 8)
  /\ CopyInit /\ (part = "copy" \/ (mode = "copy" /\ areas = <<>> /\ uaddr = 3 /\ usize = 1))
  /\ AccessInit /\ (part = "access" \/ mapped = {})
  /\ AsidInit

OnBuddy(p, A) == part = p /\ A /\ UNCHANGED <<part, slubVars, cachesVars, mmVars, copyVars, accessVars, asidVars>>
OnSlab(p, A) == part = p /\ A /\ UNCHANGED <<part, buddyVars, cachesVars, mmVars, copyVars, accessVars, asidVars>>
OnCaches(A) == part = "caches" /\ A /\ UNCHANGED <<part, buddyVars, slubVars, mmVars, copyVars, accessVars, asidVars>>
OnMmap(A) == part = "mmap" /\ A /\ UNCHANGED <<part, buddyVars, slubVars, cachesVars, copyVars, accessVars, asidVars>>
OnCopy(A) == part = "copy" /\ A /\ UNCHANGED <<part, buddyVars, slubVars, cachesVars, mmVars, accessVars, asidVars>>
OnAccess(A) == part = "access" /\ A /\ UNCHANGED <<part, buddyVars, slubVars, cachesVars, mmVars, copyVars, asidVars>>
OnAsid(A) == part = "asid" /\ A /\ UNCHANGED <<part, buddyVars, slubVars, cachesVars, mmVars, copyVars, accessVars>>

Next ==
  \/ OnBuddy("buddy", BuddyNext) \/ OnBuddy("zones", Border!BuddyNext)
  \/ OnSlab("slab", SlubNext) \/ OnSlab("single", Single!SlubNext) \/ OnSlab("one", One!SlubNext)
  \/ OnCaches(CachesNext)
  \/ OnMmap(MmNext)
  \/ OnCopy(CopyNext)
  \/ OnAccess(AccessNext)
  \/ OnAsid(AsidNext)

Spec == Init /\ [][Next]_vars

-----------------------------------------------------------------------------
\* Until a drain and another CPU tear a page list (drain_pages_zone takes no
\* lock, page_alloc.c:752), through every order of allocations, frees, batches,
\* drains and the late release of boot memory, a page is in one place, free
\* memory is merged as far as it goes, the lists, counters and compound heads
\* agree, and no BUG_ON is reached (__free_one_page, expand,
\* free_pcppages_bulk).
PagesSound ==
  ~torn =>
    /\ part = "buddy" => NoBuddyBug /\ OnePlace /\ Coalesced /\ ListsBounded /\ Accounted /\ CompoundExact
    /\ part = "zones" => Border!NoBuddyBug /\ Border!OnePlace /\ Border!ListsExact /\ Border!Accounted

\* No object is handed out twice or lost, a slab's count, its place on the
\* partial list and its owner agree, and a cache whose objects are all free can
\* be destroyed without leaving a slab (slab_alloc, __slab_alloc, __slab_free,
\* deactivate_slab, kmem_cache_close).  Every user of a cache, merged or not, gets
\* objects that are large enough and aligned, kmalloc's two ways to find a cache
\* agree, and the per-CPU structures are conserved (calculate_sizes,
\* find_mergeable, get_slab, alloc_kmem_cache_cpus).
SlabsSound ==
  /\ part = "slab" => ObjectsConserved /\ InuseExact /\ PartialExact /\ DestroyFreesAll
  /\ part = "single" => Single!ObjectsConserved /\ Single!InuseExact /\ Single!PartialExact /\ Single!DestroyFreesAll
  /\ part = "one" => One!ObjectsConserved /\ One!InuseExact /\ One!PartialExact /\ One!DestroyFreesAll
  /\ part = "caches" => StructsConserved /\ LayoutRight /\ MergeSafe /\ KmallocRight

\* Page tables, their reference counts, areas and the page allocator's count
\* agree after every brk, mmap, mprotect and exec, the ones that fail half-way
\* included.  The heap is mapped and no BUG_ON fires, unless a shrinking brk has
\* left the heap's last area, ending at mmap_base, above one that it freed
\* (brk.c:130; then the BUG_ON of brk.c:127 can fire).  The kernel touches
\* exactly the user bytes it was asked to, in order, up to the first hole and
\* below the address limit, and reports what it copied (__mmap_memcpy_vma,
\* mmap_strnlen_vma, __range_ok, copy_from_user, get_user).
UserMemorySound ==
  /\ part = "mmap" => NoBug /\ RefCounts /\ PtesExact /\ MemoryExact /\ HeapMapped
  /\ part = "copy" => InOrder /\ CopyResult /\ LenResult
  /\ part = "access" => RangeOkExact /\ TouchesWhatWasAsked /\ SuccessIsComplete /\ ResultDefined

\* While CPUs switch address spaces, take new ASIDs and roll over, two CPUs in
\* different spaces use different ASIDs, and no task hits a translation of
\* another address space, or of one that has been freed
\* (check_and_switch_context, new_context, flush_context).
AsidsSound == part = "asid" => UniqueAsid /\ NoStaleHit
=============================================================================
