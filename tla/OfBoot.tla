------------------------------- MODULE OfBoot -------------------------------
(***************************************************************************)
(* From the device tree to the memory the kernel may use: the scans of     *)
(* src/kernel/drivers/of/fdt.c, arm64_memblock_init of                     *)
(* src/kernel/arch/arm64/mm/init.c, and the reserved regions of            *)
(* src/kernel/drivers/of/of_reserved_mem.c.                                *)
(*                                                                         *)
(* memblock is used through what it promises: a set of addresses that are  *)
(* memory and a set that is reserved (MemblockSpec), with tables that are   *)
(* large enough.  A step of a scan is one call of its callback.            *)
(***************************************************************************)
EXTENDS OfTree, Integers, Sequences, FiniteSets, SequencesExt

CONSTANTS
    Blobs,
    MapAddrMax,              \* addresses are below it
    PAGE_SIZE,
    PhysMax,              \* 1 << PHYS_MASK_SHIFT
    linear_region_size,
    ARM64_MEMSTART_ALIGN,
    KernelStart, KernelEnd,
    DtStart, DtSize,
    MAX_RESERVED_REGIONS,
    SMP_CACHE_BYTES

VARIABLES
    blob,
    mapPc,
    offset, depth,     \* of of_scan_flat_dt
    m,                 \* memblock_kernel: memory and reserved
    cells,             \* dt_root_addr_cells and dt_root_size_cells
    initrd,            \* phys_initrd_start and _size
    memstart,          \* memstart_addr
    found,             \* /reserved-memory was seen
    rmem,              \* reserved_mem
    i,                 \* of fdt_init_reserved_mem
    noticed            \* an overlap was reported

mapVars == <<blob, mapPc, offset, depth, m, cells, initrd, memstart, found, rmem, i, noticed>>

----------------------------------------------------------------------------
(* memblock *)

MapAddr == 0..MapAddrMax - 1
Span(b, s) == {a \in MapAddr : b <= a /\ a < b + s}

memblock_add(k, b, s) == [k EXCEPT !.mem = @ \cup Span(b, s)]
memblock_remove(k, b, s) == [k EXCEPT !.mem = @ \ Span(b, s)]
memblock_reserve(k, b, s) == [k EXCEPT !.res = @ \cup Span(b, s)]
memblock_free(k, b, s) == [k EXCEPT !.res = @ \ Span(b, s)]
memblock_cap_memory_range(k, b, s) == [k EXCEPT !.mem = @ \cap Span(b, s), !.res = @ \cap Span(b, s)]
memblock_start_of_DRAM(k) == CHOOSE a \in k.mem : \A x \in k.mem : a <= x
memblock_end_of_DRAM(k) == (CHOOSE a \in k.mem : \A x \in k.mem : x <= a) + 1

\* The highest free range below an address; 0 for none.  The first page is not given out.
memblock_alloc_base(k, size, align, end) ==
    LET fit == {b \in MapAddr : /\ b % align = 0 /\ b >= PAGE_SIZE /\ b + size <= end
                             /\ Span(b, size) \subseteq k.mem \ k.res}
    IN  IF fit = {} THEN 0 ELSE CHOOSE b \in fit : \A c \in fit : c <= b

----------------------------------------------------------------------------
(* The tables of the device tree *)

MapRoundDown(x, a) == x - (x % a)
MapRoundUp(x, a) == MapRoundDown(x + a - 1, a)

Flat(node, name) == fdt_getprop(blob, node, name)
Has(node, name) == Flat(node, name).len >= 0

\* The pairs of a property of addresses and sizes, as many as are complete.
Pairs(v) ==
    LET na == cells.na
        one == na + cells.ns
    IN  [k \in 1..(Len(v) \div one) |->
          [base |-> of_read_number(v, (k - 1) * one + 1, na), size |-> of_read_number(v, (k - 1) * one + na + 1, cells.ns)]]

\* Whole pages of a range.
early_init_dt_add_memory_arch(k, b, s) ==
    LET off == b % PAGE_SIZE
        base == MapRoundUp(b, PAGE_SIZE)
        size == MapRoundDown(IF off = 0 THEN s ELSE s - (PAGE_SIZE - off), PAGE_SIZE)
    IN  IF s < PAGE_SIZE - off THEN k ELSE memblock_add(k, base, size)

RECURSIVE AddAll(_, _)
AddAll(k, pairs) ==
    IF pairs = <<>> THEN k
    ELSE AddAll(IF pairs[1].size = 0 THEN k ELSE early_init_dt_add_memory_arch(k, pairs[1].base, pairs[1].size), Tail(pairs))

early_init_dt_reserve_memory_arch(k, b, s, nomap) ==
    IF nomap THEN memblock_remove(k, b, s) ELSE memblock_reserve(k, b, s)

RECURSIVE ReserveAll(_, _, _)
ReserveAll(k, pairs, nomap) ==
    IF pairs = <<>> THEN k
    ELSE ReserveAll(early_init_dt_reserve_memory_arch(k, pairs[1].base, pairs[1].size, nomap), Tail(pairs), nomap)

\* One more entry of reserved_mem, unless it is full.
fdt_reserved_mem_save_node(node, base, size) ==
    IF Len(rmem) = MAX_RESERVED_REGIONS THEN rmem
    ELSE Append(rmem, [node |-> node, base |-> base, size |-> size])

\* The memory with a region reserved in a window, and its base; 0 for none.
early_init_dt_alloc_reserved_memory_arch(k, size, align, start, end, nomap) ==
    LET base == memblock_alloc_base(k, size, IF align = 0 THEN SMP_CACHE_BYTES ELSE align, IF end = 0 THEN MapAddrMax ELSE end)
        taken == memblock_reserve(k, base, size)
    IN  IF base = 0 \/ base < start THEN [k |-> k, base |-> 0]
        ELSE [k |-> IF nomap THEN memblock_remove(taken, base, size) ELSE taken, base |-> base]

RECURSIVE AllocInRanges(_, _, _, _, _)
AllocInRanges(k, size, align, pairs, nomap) ==
    IF pairs = <<>> THEN [k |-> k, base |-> 0]
    ELSE LET r == early_init_dt_alloc_reserved_memory_arch(k, size, align, pairs[1].base, pairs[1].base + pairs[1].size, nomap) IN
         IF r.base # 0 THEN r ELSE AllocInRanges(k, size, align, Tail(pairs), nomap)

SIZE == <<"size">>
ALIGNMENT == <<"alignment">>
ALLOC_RANGES == <<"alloc-ranges">>
NO_MAP == <<"no-map">>
INITRD_START == <<"linux,initrd-start">>
INITRD_END == <<"linux,initrd-end">>
USABLE_RANGE == <<"linux,usable-memory-range">>
USABLE == <<"linux,usable-memory">>
RANGES == <<"ranges">>

\* [k, base, size], with base = 0 for a node that gets no memory.
NoRegion(k) == [k |-> k, base |-> 0, size |-> 0]
Sized(r, k, size) == IF r.base = 0 THEN NoRegion(k) ELSE [k |-> r.k, base |-> r.base, size |-> size]
AllocSized(k, size, align, ranges, nomap) ==
    Sized(IF ranges.len >= 0 THEN AllocInRanges(k, size, align, Pairs(ranges.val), nomap)
          ELSE early_init_dt_alloc_reserved_memory_arch(k, size, align, 0, 0, nomap), k, size)

\* The values of "size", "alignment" and "alloc-ranges"; a negative length is none.
AllocRegion(k, size, align, ranges, nomap) ==
    IF size.len # 4 * cells.ns THEN NoRegion(k)
    ELSE IF align.len >= 0 /\ align.len # 4 * cells.na THEN NoRegion(k)
    ELSE IF ranges.len >= 0 /\ ranges.len % (4 * (cells.na + cells.ns)) # 0 THEN NoRegion(k)
    ELSE AllocSized(k, of_read_number(size.val, 1, cells.ns),
                    IF align.len >= 0 THEN of_read_number(align.val, 1, cells.na) ELSE 0, ranges, nomap)

__reserved_mem_alloc_size(k, node) ==
    AllocRegion(k, Flat(node, SIZE), Flat(node, ALIGNMENT), Flat(node, ALLOC_RANGES), Has(node, NO_MAP))

----------------------------------------------------------------------------

MapInit ==
    /\ blob \in Blobs
    /\ mapPc = "remap"
    /\ offset = 0 /\ depth = 0
    /\ m = [mem |-> {}, res |-> {}]
    /\ cells = [na |-> 0, ns |-> 0]
    /\ initrd = [start |-> 0, size |-> 0]
    /\ memstart = -1
    /\ found = FALSE
    /\ rmem = <<>>
    /\ i = 1
    /\ noticed = FALSE

StartScan(p) == mapPc' = p /\ offset' = 0 /\ depth' = 0

\* The next node of the scan; after the last one, or when the callback broke it off, the next part.
Proceed(broke, next) ==
    LET r == fdt_next_node(blob, offset, depth, TRUE) IN
    IF broke \/ r.off < 0 \/ r.depth < 0 THEN StartScan(next)
    ELSE mapPc' = mapPc /\ offset' = r.off /\ depth' = r.depth

Uname == fdt_get_name(blob, offset)

\* fixmap_remap_fdt and early_init_dt_verify; with a bad header the boot stops here.
Remap ==
    /\ mapPc = "remap"
    /\ m' = memblock_reserve(m, DtStart, DtSize)
    /\ StartScan(IF fdt_check_header(HeaderOf(blob)) # 0 THEN "stopped" ELSE "chosen")
    /\ UNCHANGED <<blob, cells, initrd, memstart, found, rmem, i, noticed>>

ScanChosen ==
    /\ mapPc = "chosen"
    /\ LET it == depth = 1 /\ Uname \in {"chosen", "chosen@0"}
           start == of_read_number(Flat(offset, INITRD_START).val, 1, Len(Flat(offset, INITRD_START).val))
           end == of_read_number(Flat(offset, INITRD_END).val, 1, Len(Flat(offset, INITRD_END).val))
       IN  /\ initrd' = IF it /\ Has(offset, INITRD_START) /\ Has(offset, INITRD_END)
                        THEN [start |-> start, size |-> end - start] ELSE initrd
           /\ Proceed(it, "root")
    /\ UNCHANGED <<blob, m, cells, memstart, found, rmem, i, noticed>>

ScanRoot ==
    /\ mapPc = "root"
    /\ cells' = LET Cells(name) == IF Has(0, name) THEN Flat(0, name).val[1].u32 ELSE 1 IN
                [na |-> Cells(ADDRESS_CELLS), ns |-> Cells(SIZE_CELLS)]
    /\ StartScan("memory")
    /\ UNCHANGED <<blob, m, initrd, memstart, found, rmem, i, noticed>>

ScanMemory ==
    /\ mapPc = "memory"
    /\ LET reg == IF Has(offset, USABLE) THEN Flat(offset, USABLE) ELSE Flat(offset, REG)
           it == Has(offset, DEVICE_TYPE) /\ reg.len >= 0
       IN  m' = IF it THEN IF Flat(offset, DEVICE_TYPE).val[1].str = "memory" THEN AddAll(m, Pairs(reg.val)) ELSE m ELSE m
    /\ Proceed(FALSE, "usable")
    /\ UNCHANGED <<blob, cells, initrd, memstart, found, rmem, i, noticed>>

\* fdt_enforce_memory_region; the length is compared in bytes with a number of cells.
ScanUsable ==
    /\ mapPc = "usable"
    /\ LET it == depth = 1 /\ Uname = "chosen"
           reg == Flat(offset, USABLE_RANGE)
           p == Pairs(reg.val)
       IN  /\ m' = IF it /\ reg.len >= cells.na + cells.ns
                   THEN IF p[1].size # 0 THEN memblock_cap_memory_range(m, p[1].base, p[1].size) ELSE m
                   ELSE m
           /\ Proceed(it, "limits")
    /\ UNCHANGED <<blob, cells, initrd, memstart, found, rmem, i, noticed>>

\* What the linear mapping cannot cover goes, below the kernel's end first.
FitLinear(k) ==
    LET start == MapRoundDown(memblock_start_of_DRAM(k), ARM64_MEMSTART_ALIGN)
        top == IF start + linear_region_size > KernelEnd THEN start + linear_region_size ELSE KernelEnd
        cut == memblock_remove(k, top, MapAddrMax)
        moved == MapRoundUp(memblock_end_of_DRAM(cut) - linear_region_size, ARM64_MEMSTART_ALIGN)
    IN  IF start + linear_region_size < memblock_end_of_DRAM(cut)
        THEN [k |-> memblock_remove(cut, 0, moved), memstart |-> moved] ELSE [k |-> cut, memstart |-> start]

\* The initrd is added back and reserved, unless that is more than can be addressed.
AddInitrd(k) ==
    LET base == MapRoundDown(initrd.start, PAGE_SIZE)
        size == MapRoundUp(initrd.size, PAGE_SIZE)
    IN  IF initrd.size = 0 \/ base < memblock_start_of_DRAM(k) \/ base + size > memblock_start_of_DRAM(k) + linear_region_size
        THEN k ELSE memblock_reserve(memblock_add(memblock_remove(k, base, size), base, size), base, size)

\* The rest of arm64_memblock_init; memory_limit is never set.
arm64_memblock_init ==
    /\ mapPc = "limits"
    /\ LET fit == FitLinear(memblock_remove(m, PhysMax, MapAddrMax)) IN
       /\ m' = memblock_reserve(AddInitrd(fit.k), KernelStart, KernelEnd - KernelStart)
       /\ memstart' = fit.memstart
    /\ mapPc' = "rsv"
    /\ UNCHANGED <<blob, offset, depth, cells, initrd, found, rmem, i, noticed>>

\* The header's /memreserve/ entries up to the first of size 0, with the scan to come.
ReserveHeader ==
    /\ mapPc = "rsv"
    /\ LET n == fdt_num_mem_rsv(blob)
           pairs == [k \in 1..n |-> [base |-> blob.rsv[k].address, size |-> blob.rsv[k].size]]
       IN  m' = ReserveAll(m, pairs, FALSE)
    /\ StartScan("reserved")
    /\ UNCHANGED <<blob, cells, initrd, memstart, found, rmem, i, noticed>>

__reserved_mem_check_root(node) ==
    /\ Has(node, SIZE_CELLS) /\ Flat(node, SIZE_CELLS).val[1].u32 = cells.ns
    /\ Has(node, ADDRESS_CELLS) /\ Flat(node, ADDRESS_CELLS).val[1].u32 = cells.na
    /\ Has(node, RANGES)

\* All pairs of "reg" are reserved, the first is saved; a reg of odd length is skipped.
ReserveReg(node) ==
    LET pairs == Pairs(Flat(node, REG).val)
        odd == Flat(node, REG).len % (4 * (cells.na + cells.ns)) # 0
        sized == SelectSeq(pairs, LAMBDA p : p.size # 0)
    IN  /\ m' = IF odd THEN m ELSE ReserveAll(m, sized, Has(node, NO_MAP))
        /\ rmem' = IF odd \/ pairs = <<>> THEN rmem ELSE fdt_reserved_mem_save_node(node, pairs[1].base, pairs[1].size)

ScanReserved ==
    /\ mapPc = "reserved"
    /\ IF ~found
       THEN LET it == depth = 1 /\ Uname = "reserved-memory"
                ok == it /\ __reserved_mem_check_root(offset)
            IN  found' = ok /\ Proceed(it /\ ~ok, "init") /\ UNCHANGED <<m, rmem>>
       ELSE IF depth < 2 THEN StartScan("init") /\ UNCHANGED <<m, rmem, found>>
       ELSE /\ IF ~of_fdt_device_is_available(blob, offset) THEN UNCHANGED <<m, rmem>>
               ELSE IF Has(offset, REG) THEN ReserveReg(offset)
               ELSE /\ rmem' = IF Has(offset, SIZE) THEN fdt_reserved_mem_save_node(offset, 0, 0) ELSE rmem
                    /\ m' = m
            /\ Proceed(FALSE, "init")
            /\ found' = found
    /\ UNCHANGED <<blob, cells, initrd, memstart, i, noticed>>

\* sort() leaves entries of the same base in some order.
SortedByBase(s) ==
    {p \in [DOMAIN s -> Range(s)] :
       /\ \A x \in DOMAIN s, y \in DOMAIN s : x < y => p[x].base <= p[y].base
       /\ \A e \in Range(s) : Cardinality({x \in DOMAIN s : s[x] = e}) = Cardinality({x \in DOMAIN s : p[x] = e})}

OverlapsNext(s) ==
    \E k \in 1..Len(s) - 1 : s[k].base # 0 /\ s[k + 1].base # 0 /\ s[k].base + s[k].size > s[k + 1].base

\* __rmem_check_for_overlap
CheckForOverlap ==
    /\ mapPc = "init"
    /\ rmem' \in SortedByBase(rmem)
    /\ noticed' = OverlapsNext(rmem')
    /\ mapPc' = "alloc"
    /\ UNCHANGED <<blob, offset, depth, m, cells, initrd, memstart, found, i>>

PlaceRegion(r) ==
    /\ m' = r.k
    /\ rmem' = IF r.base = 0 THEN rmem ELSE [rmem EXCEPT ![i].base = r.base, ![i].size = r.size]

InitReserved ==
    /\ mapPc = "alloc"
    /\ i <= Len(rmem)
    /\ IF rmem[i].size = 0 /\ Has(rmem[i].node, SIZE)
       THEN PlaceRegion(__reserved_mem_alloc_size(m, rmem[i].node))
       ELSE UNCHANGED <<m, rmem>>
    /\ i' = i + 1
    /\ UNCHANGED <<blob, mapPc, offset, depth, cells, initrd, memstart, found, noticed>>

Finish ==
    /\ mapPc = "alloc"
    /\ i > Len(rmem)
    /\ mapPc' = "done"
    /\ UNCHANGED <<blob, offset, depth, m, cells, initrd, memstart, found, rmem, i, noticed>>

MapNext ==
    \/ Remap \/ ScanChosen \/ ScanRoot \/ ScanMemory \/ ScanUsable \/ arm64_memblock_init
    \/ ReserveHeader \/ ScanReserved \/ CheckForOverlap \/ InitReserved \/ Finish

MapSpec == MapInit /\ [][MapNext]_mapVars

----------------------------------------------------------------------------
(* The reference, from the tree the blob spells. *)

RECURSIVE NodesUnder(_)
NodesUnder(o) == {o} \cup UNION {NodesUnder(Subnodes(blob, o)[k]) : k \in DOMAIN Subnodes(blob, o)}

IsMemory(o) == Has(o, DEVICE_TYPE) /\ Flat(o, DEVICE_TYPE).val[1].str = "memory"

\* The pages that lie in a range of a memory node as a whole.
PagesIn(b, s) == {a \in MapAddr : b <= MapRoundDown(a, PAGE_SIZE) /\ MapRoundDown(a, PAGE_SIZE) + PAGE_SIZE <= b + s}

Described ==
    UNION {LET reg == IF Has(o, USABLE) THEN Flat(o, USABLE) ELSE Flat(o, REG)
               ps == Pairs(reg.val)
           IN  UNION {PagesIn(ps[k].base, ps[k].size) : k \in DOMAIN ps}
           : o \in {x \in NodesUnder(0) : IsMemory(x) /\ (Has(x, USABLE) \/ Has(x, REG))}}

Regions == LET root_ == fdt_subnode_offset(blob, 0, "reserved-memory") IN
           IF root_ < 0 THEN {}
           ELSE {o \in Range(Subnodes(blob, root_)) : __reserved_mem_check_root(root_) /\ of_fdt_device_is_available(blob, o)}

PairsOf(o) == IF Has(o, REG) /\ Flat(o, REG).len % (4 * (cells.na + cells.ns)) = 0 THEN Range(Pairs(Flat(o, REG).val)) ELSE {}

Static(o) == UNION {Span(p.base, p.size) : p \in PairsOf(o)}

Done == mapPc = "done"

\* The memory found by the scan is every whole page of every memory node, and
\* no byte of a page that is not all memory (early_init_dt_scan_memory).
MemoryIsDescribed == mapPc = "usable" => m.mem = Described

\* The pages the initrd is in, the ones arm64_memblock_init adds and reserves,
\* and what of the initrd that leaves out: its size is rounded up as if it
\* began with a page.
InitrdFirst == MapRoundDown(initrd.start, PAGE_SIZE)
InitrdEnd == MapRoundUp(initrd.start + initrd.size, PAGE_SIZE)
InitrdPages == Span(InitrdFirst, MapRoundUp(initrd.size, PAGE_SIZE))
InitrdTail == IF InitrdFirst + MapRoundUp(initrd.size, PAGE_SIZE) < InitrdEnd THEN Span(InitrdEnd - PAGE_SIZE, PAGE_SIZE) ELSE {}

Limited == mapPc \in {"rsv", "reserved", "init", "alloc", "done"}

\* Everything the kernel may use afterwards is in the linear mapping ("Remove
\* the memory that we will not be able to cover with the linear mapping"), but
\* for an initrd behind it: that may reach as far behind the start of memory
\* as the mapping is large, where the mapping begins at memstart_addr, which is
\* rounded down (arm64_memblock_init).
LinearCovers ==
    Limited =>
      \A a \in m.mem : /\ memstart <= a
                       /\ \/ a < memstart + linear_region_size
                          \/ a \in InitrdPages /\ a < memblock_start_of_DRAM(m) + linear_region_size

\* Nothing that is claimed can be given out: the blob, the kernel, the header's
\* entries and the regions of /reserved-memory are reserved or are no memory
\* (early_init_fdt_scan_reserved_mem).
ClaimsHonoured ==
    Done => /\ Span(DtStart, DtSize) \cup Span(KernelStart, KernelEnd - KernelStart) \subseteq m.res
            /\ \A k \in 1..fdt_num_mem_rsv(blob) : Span(blob.rsv[k].address, blob.rsv[k].size) \subseteq m.res
            /\ \A o \in Regions : IF Has(o, NO_MAP) THEN Static(o) \cap m.mem = {} ELSE Static(o) \subseteq m.res

\* "Register the kernel text, kernel data, initrd, and initial pagetables with
\* memblock": an initrd whose pages lie in the linear mapping, none of them
\* below the memory, is memory again and is not given out.  Of one that does
\* not begin with a page this may miss the last page, since base and size are
\* rounded each for itself (arm64_memblock_init).
InitrdKept ==
    LET kept == Span(initrd.start, initrd.size) \ InitrdTail IN
    (Limited /\ InitrdFirst >= memblock_start_of_DRAM(m) /\ InitrdEnd <= memstart + linear_region_size) =>
      /\ kept \subseteq m.res
      /\ mapPc = "rsv" => kept \subseteq m.mem

Fixed == UNION {Static(o) : o \in Regions} \cup Span(DtStart, DtSize) \cup Span(KernelStart, KernelEnd - KernelStart)

Windows(o) ==
    IF Has(o, ALLOC_RANGES) THEN {[lo |-> p.base, hi |-> p.base + p.size] : p \in Range(Pairs(Flat(o, ALLOC_RANGES).val))}
    ELSE {[lo |-> 0, hi |-> MapAddrMax]}

AlignOf(o) ==
    LET a == IF Has(o, ALIGNMENT) THEN of_read_number(Flat(o, ALIGNMENT).val, 1, cells.na) ELSE 0 IN
    IF a = 0 THEN SMP_CACHE_BYTES ELSE a

\* A region that is to be allocated gets memory of its own, in one of its
\* ranges, aligned, and goes without only where there is none: regions with an
\* address are taken first, wherever they come in the tree
\* (fdt_init_reserved_mem).
DynamicPlaced ==
    Done =>
      \A k \in DOMAIN rmem : ~Has(rmem[k].node, REG) =>
        LET e == rmem[k]
            size == of_read_number(Flat(e.node, SIZE).val, 1, cells.ns)
            own == Span(e.base, e.size)
        IN  IF e.base # 0
            THEN /\ e.size = size /\ e.base % AlignOf(e.node) = 0
                 /\ own \cap Fixed = {}
                 /\ \A j \in DOMAIN rmem \ {k} : own \cap Span(rmem[j].base, rmem[j].size) = {}
                 /\ \E w \in Windows(e.node) : w.lo <= e.base /\ e.base + e.size <= w.hi
                 /\ IF Has(e.node, NO_MAP) THEN own \cap m.mem = {} ELSE own \subseteq m.res
            ELSE \A w \in Windows(e.node), b \in MapAddr :
                   b >= PAGE_SIZE /\ b % AlignOf(e.node) = 0 /\ w.lo <= b /\ b + size <= w.hi
                     => ~(Span(b, size) \subseteq m.mem \ m.res)

\* Two saved regions that overlap are noticed, though only neighbours are
\* compared, and regions that do not are not (__rmem_check_for_overlap).
OverlapNoticed ==
    mapPc = "alloc" /\ i = 1 =>
      LET Real == {k \in DOMAIN rmem : rmem[k].base # 0}
          Sp(k) == Span(rmem[k].base, rmem[k].size)
      IN  /\ (\E a, b \in Real : a # b /\ Sp(a) \cap Sp(b) # {}) => noticed
          /\ noticed => \E a, b \in Real : a # b /\ rmem[b].base \in Sp(a)

-----------------------------------------------------------------------------
(***************************************************************************)
(* Starting the interrupt controllers, parents first: of_irq_init in       *)
(* src/kernel/drivers/of/irq.c.                                            *)
(*                                                                         *)
(* The scan of the tree is its result: the controllers found, in order,    *)
(* each with its interrupt parent (its own node counts as none).  A parent *)
(* may be a node that is no controller of the table.                       *)
(***************************************************************************)

CONSTANTS
    Intc,      \* the controllers
    Other,     \* an interrupt parent that is not among them
    NoIntc

VARIABLES
    parentOf,   \* desc->interrupt_parent
    descs,      \* intc_desc_list
    parents,    \* intc_parent_list
    intcParent,     \* whose children are started
    todo,       \* what is left of the pass over intc_desc_list
    called,     \* the controllers whose callback was called, in order
    populated,  \* OF_POPULATED
    freed,      \* descriptors given back to memblock
    initPc

ofIrqVars == <<parentOf, descs, parents, intcParent, todo, called, populated, freed, initPc>>

OfIrqStart ==
    /\ parentOf \in [Intc -> Intc \cup {Other, NoIntc}]
    /\ \A c \in Intc : parentOf[c] # c
    /\ descs \in {s \in UNION {[1..n -> Intc] : n \in 0..Cardinality(Intc)} : IsInjective(s)}
    /\ parents = <<>>
    /\ intcParent = NoIntc
    /\ todo = descs
    /\ called = <<>>
    /\ populated = {}
    /\ freed = {}
    /\ initPc = IF descs = <<>> THEN "cleanup" ELSE "pass"

Without(s, c) == SelectSeq(s, LAMBDA x : x # c)

Skip ==
    /\ initPc = "pass"
    /\ todo # <<>>
    /\ parentOf[todo[1]] # intcParent
    /\ todo' = Tail(todo)
    /\ UNCHANGED <<parentOf, descs, parents, intcParent, called, populated, freed, initPc>>

\* The callback of a child of the parent; one that fails is forgotten.
Start(ok) ==
    /\ initPc = "pass"
    /\ todo # <<>>
    /\ LET c == todo[1] IN
       /\ parentOf[c] = intcParent
       /\ descs' = Without(descs, c)
       /\ called' = Append(called, c)
       /\ populated' = IF ok THEN populated \cup {c} ELSE populated
       /\ parents' = IF ok THEN Append(parents, c) ELSE parents
       /\ freed' = IF ok THEN freed ELSE freed \cup {c}
    /\ todo' = Tail(todo)
    /\ UNCHANGED <<parentOf, intcParent, initPc>>

OneParentLess ==
    /\ initPc = "pass"
    /\ todo = <<>>
    /\ IF Len(parents) < 2 THEN initPc' = "cleanup" /\ UNCHANGED <<intcParent, parents, freed, todo>>
       ELSE /\ intcParent' = parents[1]
            /\ parents' = Tail(parents)
            /\ freed' = freed \cup {parents[1]}
            /\ initPc' = IF descs = <<>> THEN "cleanup" ELSE "pass"
            /\ todo' = descs
    /\ UNCHANGED <<parentOf, descs, called, populated>>

\* "Get the next pending parent that might have children"
NextParent ==
    /\ initPc = "pass"
    /\ todo = <<>>
    /\ IF parents = <<>> THEN initPc' = "cleanup" /\ UNCHANGED <<intcParent, parents, freed, todo>>
       ELSE /\ intcParent' = parents[1]
            /\ parents' = Tail(parents)
            /\ freed' = freed \cup {parents[1]}
            /\ initPc' = IF descs = <<>> THEN "cleanup" ELSE "pass"
            /\ todo' = descs
    /\ UNCHANGED <<parentOf, descs, called, populated>>

\* The descriptors left in both lists are given back.
Cleanup ==
    /\ initPc = "cleanup"
    /\ freed' = freed \cup Range(parents) \cup Range(descs)
    /\ parents' = <<>>
    /\ descs' = <<>>
    /\ initPc' = "done"
    /\ UNCHANGED <<parentOf, intcParent, todo, called, populated>>

OfIrqNext == Skip \/ (\E ok \in BOOLEAN : Start(ok)) \/ NextParent \/ Cleanup

OfIrqSpec == OfIrqStart /\ [][OfIrqNext]_ofIrqVars

----------------------------------------------------------------------------

\* "calls their initialization functions in order with parents first": a
\* controller is started only after its interrupt parent was, and was started
\* without an error (of_irq_init).
ParentsFirst ==
    \A k \in DOMAIN called : parentOf[called[k]] # NoIntc =>
      /\ parentOf[called[k]] \in populated
      /\ \E j \in 1..k - 1 : called[j] = parentOf[called[k]]

\* Every controller that was found and can be started is: at the end, the ones
\* that were not wait for a parent that is not running, and nobody was called
\* twice (of_irq_init, "children remain, but no parents").
AllReachable ==
    initPc = "done" =>
      /\ IsInjective(called)
      /\ \A c \in freed \ Range(called) : parentOf[c] \notin populated \cup {NoIntc}

\* At the end every descriptor was given back to memblock once and no list holds
\* one (of_irq_init).
NothingLeaked == initPc = "done" => descs = <<>> /\ parents = <<>> /\ Range(called) \subseteq freed
=============================================================================
