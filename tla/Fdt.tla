--------------------------------- MODULE Fdt ---------------------------------
(***************************************************************************)
(* The flattened device tree and the read-only half of libfdt: fdt.c,      *)
(* fdt_ro.c and fdt_addresses.c under src/lib/of/src/fdt/libfdt.           *)
(*                                                                         *)
(* A blob is a record.  Its structure block is a sequence of cells of      *)
(* FDT_TAGSIZE bytes, and an offset into it is a number of cells: the code *)
(* counts bytes and refuses an offset that is not a multiple of the cell.  *)
(* A cell is a tuple whose first element says what it holds: a tag, a part *)
(* of a node name, the length or the name offset of a property, a part of  *)
(* its data, or stale bytes ("junk").  The strings block is a sequence of  *)
(* symbols, "0" being the terminator, so that a name can be the tail of a  *)
(* longer one, as "phandle" is of "linux,phandle".  A property's value is a *)
(* sequence of parts (a 32 bit word, a terminated string, a path...), each  *)
(* with its size in bytes.  Blobs are of version 16 or 17.                 *)
(***************************************************************************)
EXTENDS Integers, Sequences, FiniteSets, SequencesExt

CONSTANTS
    BaseOf,       \* node name -> the name without its unit address
    NameLen,      \* node name -> strlen
    PHANDLE, LINUX_PHANDLE, COMPATIBLE, ADDRESS_CELLS, SIZE_CELLS, \* property names
    ALIASES,      \* the node name "aliases"
    MaxU32,       \* (uint32_t)-1 as a size or an offset
    MaxPhandle    \* (uint32_t)-1 as a phandle

NOTFOUND     == -1
EXISTS       == -2
NOSPACE      == -3
BADOFFSET    == -4
BADPATH      == -5
BADPHANDLE   == -6
BADSTATE     == -7
TRUNCATED    == -8
BADMAGIC     == -9
BADVERSION   == -10
BADSTRUCTURE == -11
BADLAYOUT    == -12
INTERNAL     == -13
BADNCELLS    == -14
BADVALUE     == -15
BADOVERLAY   == -16
NOPHANDLES   == -17

FDT_TAGSIZE == 4
HeaderBytes == 40
RsvBytes    == 16

\* FDT_TAGALIGN(n), in cells.
TagCells(n) == (n + FDT_TAGSIZE - 1) \div FDT_TAGSIZE

NameCells(n) == TagCells(NameLen[n] + 1)

----------------------------------------------------------------------------
(* Values and cells. *)

RECURSIVE ValLen(_)
ValLen(v) == IF v = <<>> THEN 0 ELSE v[1].sz + ValLen(Tail(v))

U32(x) == [sz |-> 4, u32 |-> x]

IsU32(v) == Len(v) = 1 /\ "u32" \in DOMAIN v[1]

JunkValue(n) == <<[sz |-> n, junk |-> TRUE]>>

BeginCells(name) == <<<<"BEGIN">>>> \o [i \in 1..NameCells(name) |-> <<"name", name, i>>]

DataCells(v) == [i \in 1..TagCells(ValLen(v)) |-> <<"data", v, i>>]

PropCells(nameoff, v) == <<<<"PROP">>, <<"len", ValLen(v)>>, <<"nameoff", nameoff>>>> \o DataCells(v)

StructBytes(b) == FDT_TAGSIZE * Len(b.struct)

----------------------------------------------------------------------------
(* fdt.c *)

fdt_ro_probe_(b) ==
    CASE b.magic = "fdt" -> IF b.version < 2 \/ b.last_comp > 17 THEN BADVERSION ELSE 0
      [] b.magic = "sw"  -> IF b.struct = <<>> THEN BADSTATE ELSE 0
      [] OTHER           -> BADMAGIC

fdt_header_size_(version) ==
    CASE version <= 1 -> 28 [] version = 2 -> 32 [] version <= 16 -> 36 [] OTHER -> 40

\* Offsets and sizes are 32 bit words: an end past MaxU32 wraps.
check_off_(hdrsize, total, off) == off >= hdrsize /\ off <= total

check_block_(hdrsize, total, base, size) ==
    LET end == (base + size) % (MaxU32 + 1) IN
    /\ check_off_(hdrsize, total, base)
    /\ end >= base
    /\ check_off_(hdrsize, total, end)

fdt_check_header(h) ==
    LET hdrsize == fdt_header_size_(h.version)
        structOk == IF h.version < 17
                    THEN check_off_(hdrsize, h.total, h.structoff)
                    ELSE check_block_(hdrsize, h.total, h.structoff, h.structsize)
    IN  IF h.magic # "fdt" THEN BADMAGIC
        ELSE IF h.version < 2 \/ h.last_comp > 17 \/ h.version < h.last_comp THEN BADVERSION
        ELSE IF \/ h.total < hdrsize \/ h.total > MaxU32 \div 2
                \/ ~check_off_(hdrsize, h.total, h.rsvoff)
                \/ ~structOk
                \/ ~check_block_(hdrsize, h.total, h.stringsoff, h.stringssize)
        THEN TRUNCATED ELSE 0

\* The tag at an offset and the offset of the one after it; an error is the
\* tag "END" with a negative next offset.
fdt_next_tag(b, o) ==
    LET s     == b.struct
        Bad   == [tag |-> "END", next |-> BADSTRUCTURE]
        stops == {j \in o + 2..Len(s) : s[j][1] = "name" /\ s[j][3] = NameCells(s[j][2])}
        after == o + 3 + TagCells(s[o + 2][2])
    IN  IF o >= Len(s) THEN [tag |-> "END", next |-> TRUNCATED]
        ELSE CASE s[o + 1][1] = "BEGIN" ->
                    IF stops = {} THEN Bad
                    ELSE [tag |-> "BEGIN", next |-> CHOOSE j \in stops : \A k \in stops : j <= k]
               [] s[o + 1][1] = "PROP" ->
                    IF o + 2 > Len(s) \/ after > Len(s) THEN Bad
                    ELSE [tag |-> "PROP", next |-> after]
               [] s[o + 1][1] \in {"END", "END_NODE", "NOP"} ->
                    [tag |-> s[o + 1][1], next |-> o + 1]
               [] OTHER -> Bad

Past(t, tag) == IF t.tag # tag THEN BADOFFSET ELSE t.next

CheckTag(b, o, tag) == IF o < 0 THEN BADOFFSET ELSE Past(fdt_next_tag(b, o), tag)

fdt_check_node_offset_(b, o) == CheckTag(b, o, "BEGIN")

fdt_check_prop_offset_(b, o) == CheckTag(b, o, "PROP")

\* The loop of fdt_next_node; "counting" says that the caller passed a depth.
RECURSIVE ScanNode(_, _, _, _)
ScanFrom(b, o, t, depth, counting) ==
    CASE t.tag = "BEGIN"    -> [off |-> o, depth |-> depth + 1]
      [] t.tag = "END_NODE" -> IF counting /\ depth - 1 < 0
                               THEN [off |-> t.next, depth |-> depth - 1]
                               ELSE ScanNode(b, t.next, depth - 1, counting)
      [] t.tag = "END"      -> [off |-> IF t.next >= 0 \/ (t.next = TRUNCATED /\ ~counting)
                                        THEN NOTFOUND ELSE t.next,
                                depth |-> depth]
      [] OTHER              -> ScanNode(b, t.next, depth, counting)
ScanNode(b, o, depth, counting) == ScanFrom(b, o, fdt_next_tag(b, o), depth, counting)

ScanAfter(b, first, depth, counting) ==
    IF first < 0 THEN [off |-> first, depth |-> depth] ELSE ScanNode(b, first, depth, counting)

fdt_next_node(b, o, depth, counting) ==
    ScanAfter(b, IF o >= 0 THEN fdt_check_node_offset_(b, o) ELSE 0, depth, counting)

NextNode(b, o) == fdt_next_node(b, o, 0, FALSE).off

FirstChild(r) == IF r.off < 0 \/ r.depth # 1 THEN NOTFOUND ELSE r.off

fdt_first_subnode(b, o) == FirstChild(fdt_next_node(b, o, 0, TRUE))

RECURSIVE NextAtDepth(_, _)
NextAtDepth(b, r) ==
    CASE r.off < 0 \/ r.depth < 1 -> NOTFOUND
      [] r.depth > 1 -> NextAtDepth(b, fdt_next_node(b, r.off, r.depth, TRUE))
      [] OTHER -> r.off

fdt_next_subnode(b, o) == NextAtDepth(b, fdt_next_node(b, o, 1, TRUE))

\* fdt_for_each_subnode, as the sequence of offsets it visits.
RECURSIVE SubnodesFrom(_, _)
SubnodesFrom(b, o) == IF o < 0 THEN <<>> ELSE <<o>> \o SubnodesFrom(b, fdt_next_subnode(b, o))

Subnodes(b, o) == SubnodesFrom(b, fdt_first_subnode(b, o))

\* The first place of a string table that holds s and its terminator, or -1.
fdt_find_string_(strtab, s) ==
    LET places == {p \in 0..Len(strtab) - Len(s) - 1 :
                     SubSeq(strtab, p + 1, p + Len(s) + 1) = Append(s, "0")}
    IN  IF places = {} THEN -1 ELSE CHOOSE p \in places : \A q \in places : p <= q

----------------------------------------------------------------------------
(* fdt_ro.c: names and strings *)

\* The name's cells follow the tag.
fdt_get_name(b, o) == b.struct[o + 2][2]

NodeNameEq(p, s) == p = s \/ BaseOf[p] = s

fdt_nodename_eq_(b, o, s) ==
    fdt_ro_probe_(b) = 0 /\ fdt_check_node_offset_(b, o) >= 0 /\ NodeNameEq(fdt_get_name(b, o), s)

\* A complete blob counts string offsets from the start of the block; an
\* unfinished one counts back from the end of the buffer.
fdt_get_string(b, so) ==
    LET start == IF b.magic = "fdt" THEN so ELSE Len(b.strings) + so
        ends  == {j \in start + 1..Len(b.strings) : b.strings[j] = "0"}
        end   == CHOOSE j \in ends : \A k \in ends : j <= k
        inside == IF b.magic = "fdt" THEN so >= 0 /\ so < Len(b.strings)
                  ELSE so < 0 /\ so >= -Len(b.strings)
        err == IF fdt_ro_probe_(b) # 0 THEN fdt_ro_probe_(b)
               ELSE IF ~inside THEN BADOFFSET ELSE IF ends = {} THEN TRUNCATED ELSE 0
    IN  IF err # 0 THEN [len |-> err, str |-> <<>>]
        ELSE [len |-> end - start - 1, str |-> SubSeq(b.strings, start + 1, end - 1)]

Reads(r, s) == r.len >= 0 /\ r.str = s

fdt_string_eq_(b, so, s) == Reads(fdt_get_string(b, so), s)

----------------------------------------------------------------------------
(* fdt_ro.c: the memory reservation block *)

\* Entry n, or an error past the end of the blob.
fdt_get_mem_rsv(b, n) ==
    IF fdt_ro_probe_(b) # 0 THEN [err |-> fdt_ro_probe_(b)]
    ELSE IF n >= Len(b.rsv) THEN [err |-> BADOFFSET]
    ELSE [err |-> 0, address |-> b.rsv[n + 1].address, size |-> b.rsv[n + 1].size]

fdt_num_mem_rsv(b) ==
    LET ends == {i \in 1..Len(b.rsv) : b.rsv[i].size = 0} IN
    IF ends = {} THEN TRUNCATED ELSE (CHOOSE i \in ends : \A j \in ends : i <= j) - 1

----------------------------------------------------------------------------
(* fdt_ro.c: properties *)

RECURSIVE nextprop_(_, _)
PropFrom(b, o, t) ==
    CASE t.tag = "END"  -> IF t.next >= 0 THEN BADSTRUCTURE ELSE t.next
      [] t.tag = "PROP" -> o
      [] t.tag = "NOP"  -> nextprop_(b, t.next)
      [] OTHER          -> NOTFOUND
nextprop_(b, o) == PropFrom(b, o, fdt_next_tag(b, o))

PropAfter(b, o) == IF o < 0 THEN o ELSE nextprop_(b, o)

fdt_first_property_offset(b, node) == PropAfter(b, fdt_check_node_offset_(b, node))

fdt_next_property_offset(b, prop) == PropAfter(b, fdt_check_prop_offset_(b, prop))

RECURSIVE PropsFrom(_, _)
PropsFrom(b, o) == IF o < 0 THEN <<>> ELSE <<o>> \o PropsFrom(b, fdt_next_property_offset(b, o))

\* fdt_for_each_property_offset, as the sequence of offsets it visits.
Props(b, node) == PropsFrom(b, fdt_first_property_offset(b, node))

PropLen(b, p) == b.struct[p + 2][2]

PropNameOff(b, p) == b.struct[p + 3][2]

\* The bytes of a property: a value when its cells hold one, else stale bytes.
ValueAt(b, p) ==
    LET n == PropLen(b, p)
        c == b.struct[p + 4]
    IN  IF n = 0 THEN <<>>
        ELSE IF c[1] = "data" /\ ValLen(c[2]) = n
                  /\ SubSeq(b.struct, p + 4, p + 3 + TagCells(n)) = DataCells(c[2])
        THEN c[2] ELSE JunkValue(n)

RECURSIVE FindProp(_, _, _)
FindProp(b, o, name) ==
    IF o < 0 \/ fdt_string_eq_(b, PropNameOff(b, o), name) THEN o
    ELSE FindProp(b, fdt_next_property_offset(b, o), name)

\* The offset of the named property of a node, or an error.
fdt_get_property_namelen_(b, node, name) == FindProp(b, fdt_first_property_offset(b, node), name)

\* Versions before 16 would realign the data; none is modelled.
PropAt(b, p) ==
    IF p < 0 THEN [len |-> p, val |-> <<>>] ELSE [len |-> PropLen(b, p), val |-> ValueAt(b, p)]

fdt_getprop(b, node, name) == PropAt(b, fdt_get_property_namelen_(b, node, name))

NamedProp(b, p, err, s) ==
    IF err < 0 THEN [len |-> err]
    ELSE IF s.len < 0 THEN [len |-> s.len]
    ELSE [len |-> PropLen(b, p), name |-> s.str, val |-> ValueAt(b, p)]

fdt_getprop_by_offset(b, p) ==
    NamedProp(b, p, fdt_check_prop_offset_(b, p), fdt_get_string(b, PropNameOff(b, p)))

WordOr(r, other) == IF r.len = 4 THEN r.val[1].u32 ELSE other

fdt_get_phandle(b, node) ==
    WordOr(fdt_getprop(b, node, PHANDLE), WordOr(fdt_getprop(b, node, LINUX_PHANDLE), 0))

Higher(h, best) == IF h # MaxPhandle /\ h > best THEN h ELSE best

RECURSIVE MaxPhandleFrom(_, _, _)
MaxPhandleFrom(b, o, best) ==
    CASE o = NOTFOUND -> best
      [] o < NOTFOUND -> MaxPhandle
      [] OTHER -> MaxPhandleFrom(b, NextNode(b, o), Higher(fdt_get_phandle(b, o), best))

fdt_get_max_phandle(b) == MaxPhandleFrom(b, NextNode(b, -1), 0)

----------------------------------------------------------------------------
(* fdt_ro.c: finding nodes *)

RECURSIVE FindSubnode(_, _, _)
FindSubnode(b, at, name) ==
    IF at.depth < 0 THEN NOTFOUND
    ELSE IF at.off < 0 \/ (at.depth = 1 /\ fdt_nodename_eq_(b, at.off, name)) THEN at.off
    ELSE FindSubnode(b, fdt_next_node(b, at.off, at.depth, TRUE), name)

fdt_subnode_offset(b, o, name) ==
    IF fdt_ro_probe_(b) # 0 THEN fdt_ro_probe_(b) ELSE FindSubnode(b, [off |-> o, depth |-> 0], name)

RECURSIVE Descend(_, _, _)
Descend(b, o, comps) ==
    IF o < 0 \/ comps = <<>> THEN o ELSE Descend(b, fdt_subnode_offset(b, o, comps[1]), Tail(comps))

\* A full path, as its components.
fdt_path_offset(b, comps) ==
    IF fdt_ro_probe_(b) # 0 THEN fdt_ro_probe_(b) ELSE Descend(b, 0, comps)

PropOf(b, o, name) == IF o < 0 THEN [len |-> o, val |-> <<>>] ELSE fdt_getprop(b, o, name)

fdt_get_alias(b, alias) == PropOf(b, fdt_path_offset(b, <<ALIASES>>), alias)

BehindAlias(b, r, comps) == IF r.len < 0 THEN BADPATH ELSE Descend(b, fdt_path_offset(b, r.val[1].path), comps)

\* A path that starts with an alias.
AliasPathOffset(b, alias, comps) ==
    IF fdt_ro_probe_(b) # 0 THEN fdt_ro_probe_(b) ELSE BehindAlias(b, fdt_get_alias(b, alias), comps)

\* An error of the walk, as its three callers report it.
WalkError(o) == CASE o = NOTFOUND \/ o >= 0 -> BADOFFSET [] o = BADOFFSET -> BADSTRUCTURE [] OTHER -> o

RECURSIVE PathBytes(_)
PathBytes(names) == IF names = <<>> THEN 0 ELSE NameLen[names[1]] + 1 + PathBytes(Tail(names))

\* buf holds the names pushed so far, each with its slash; pdepth is Len(buf).
RECURSIVE GetPath(_, _, _, _, _)
GetPath(b, at, buf, node, buflen) ==
    LET kept == IF Len(buf) > at.depth THEN SubSeq(buf, 1, at.depth) ELSE buf
        name == fdt_get_name(b, at.off)
        here == IF Len(kept) >= at.depth /\ PathBytes(kept) + NameLen[name] + 1 <= buflen
                THEN Append(kept, name) ELSE kept
    IN  CASE at.off < 0 \/ at.off > node -> [err |-> WalkError(at.off), path |-> <<>>]
          [] at.off = node -> IF Len(here) < at.depth + 1 THEN [err |-> NOSPACE, path |-> <<>>]
                              ELSE [err |-> 0, path |-> Tail(here)]
          [] OTHER    -> GetPath(b, fdt_next_node(b, at.off, at.depth, TRUE), here, node, buflen)

fdt_get_path(b, node, buflen) ==
    IF fdt_ro_probe_(b) # 0 THEN [err |-> fdt_ro_probe_(b), path |-> <<>>]
    ELSE IF buflen < 2 THEN [err |-> NOSPACE, path |-> <<>>]
    ELSE GetPath(b, [off |-> 0, depth |-> 0], <<>>, node, buflen)

RECURSIVE Supernode(_, _, _, _, _)
Supernode(b, at, super, node, want) ==
    LET s == IF at.depth = want THEN at.off ELSE super IN
    CASE at.off < 0 \/ at.off > node -> [off |-> WalkError(at.off), depth |-> at.depth]
      [] at.off = node -> [off |-> IF want > at.depth THEN NOTFOUND ELSE s, depth |-> at.depth]
      [] OTHER -> Supernode(b, fdt_next_node(b, at.off, at.depth, TRUE), s, node, want)

fdt_supernode_atdepth_offset(b, node, want) ==
    IF fdt_ro_probe_(b) # 0 THEN [off |-> fdt_ro_probe_(b), depth |-> 0]
    ELSE IF want < 0 THEN [off |-> NOTFOUND, depth |-> 0]
    ELSE Supernode(b, [off |-> 0, depth |-> 0], INTERNAL, node, want)

DepthIn(r) == CASE r.off < 0 -> r.off [] r.off > 0 -> INTERNAL [] OTHER -> r.depth

fdt_node_depth(b, node) == DepthIn(fdt_supernode_atdepth_offset(b, node, 0))

Above(b, node, d) == IF d < 0 THEN d ELSE fdt_supernode_atdepth_offset(b, node, d - 1).off

fdt_parent_offset(b, node) == Above(b, node, fdt_node_depth(b, node))

RECURSIVE FindByProp(_, _, _, _)
FindByProp(b, o, name, val) ==
    IF o < 0 \/ LET r == fdt_getprop(b, o, name) IN r.len = ValLen(val) /\ r.val = val THEN o
    ELSE FindByProp(b, NextNode(b, o), name, val)

fdt_node_offset_by_prop_value(b, start, name, val) ==
    IF fdt_ro_probe_(b) # 0 THEN fdt_ro_probe_(b) ELSE FindByProp(b, NextNode(b, start), name, val)

RECURSIVE FindByPhandle(_, _, _)
FindByPhandle(b, o, phandle) ==
    IF o < 0 \/ fdt_get_phandle(b, o) = phandle THEN o ELSE FindByPhandle(b, NextNode(b, o), phandle)

fdt_node_offset_by_phandle(b, phandle) ==
    IF phandle \in {0, MaxPhandle} THEN BADPHANDLE
    ELSE IF fdt_ro_probe_(b) # 0 THEN fdt_ro_probe_(b)
    ELSE FindByPhandle(b, NextNode(b, -1), phandle)

----------------------------------------------------------------------------
(* fdt_ro.c: string lists.  A part holds "str" and its terminator; a last   *)
(* part that lacks the terminator is a "frag".                              *)

Terminated(part) == "str" \in DOMAIN part

\* The byte after an unterminated list is padding or the high byte of a tag,
\* which is zero: the comparison, one byte longer than the string, then
\* accepts it.
fdt_stringlist_contains(v, s) ==
    \E i \in DOMAIN v : IF Terminated(v[i]) THEN v[i].str = s ELSE v[i].frag = s

CountIn(r) ==
    IF r.len < 0 THEN r.len
    ELSE IF \A i \in DOMAIN r.val : Terminated(r.val[i]) THEN Len(r.val) ELSE BADVALUE

fdt_stringlist_count(b, node, name) == CountIn(fdt_getprop(b, node, name))

\* The loop shared by the search for a string and by the read of string idx.
RECURSIVE ScanStrings(_, _, _, _)
ScanStrings(v, i, s, idx) ==
    IF i > Len(v) THEN NOTFOUND
    ELSE IF ~Terminated(v[i]) THEN BADVALUE
    ELSE IF v[i].str = s \/ i - 1 = idx THEN i - 1
    ELSE ScanStrings(v, i + 1, s, idx)

ScanIn(r, s, idx) == IF r.len < 0 THEN r.len ELSE ScanStrings(r.val, 1, s, idx)

fdt_stringlist_search(b, node, name, s) == ScanIn(fdt_getprop(b, node, name), s, -1)

StringIn(r, k) == IF k < 0 THEN [len |-> k, str |-> ""] ELSE [len |-> r.val[k + 1].sz - 1, str |-> r.val[k + 1].str]

fdt_stringlist_get(b, node, name, idx) ==
    LET r == fdt_getprop(b, node, name) IN StringIn(r, ScanIn(r, "no string", idx))

\* 0 when the node is compatible, 1 when not, or an error.
Matches(r, compat) == IF r.len < 0 THEN r.len ELSE IF fdt_stringlist_contains(r.val, compat) THEN 0 ELSE 1

fdt_node_check_compatible(b, node, compat) == Matches(fdt_getprop(b, node, COMPATIBLE), compat)

RECURSIVE FindCompatible(_, _, _)
CompatibleOr(b, o, err, compat) ==
    CASE err < NOTFOUND -> err
      [] err = 0 -> o
      [] OTHER -> FindCompatible(b, NextNode(b, o), compat)
FindCompatible(b, o, compat) ==
    IF o < 0 THEN o ELSE CompatibleOr(b, o, fdt_node_check_compatible(b, o, compat), compat)

fdt_node_offset_by_compatible(b, start, compat) ==
    IF fdt_ro_probe_(b) # 0 THEN fdt_ro_probe_(b) ELSE FindCompatible(b, NextNode(b, start), compat)

\* fdt_addresses.c; the largest count is FDT_MAX_NCELLS.
CellsIn(r) ==
    IF r.len < 0 THEN r.len
    ELSE IF r.len = 4 /\ r.val[1].u32 \in 1..4 THEN r.val[1].u32 ELSE BADNCELLS

fdt_cells(b, node, name) == CellsIn(fdt_getprop(b, node, name))

Default(n, d) == IF n = NOTFOUND THEN d ELSE n

fdt_address_cells(b, node) == Default(fdt_cells(b, node, ADDRESS_CELLS), 2)

fdt_size_cells(b, node) == Default(fdt_cells(b, node, SIZE_CELLS), 1)

----------------------------------------------------------------------------
HeaderOf(b) ==
    [magic |-> b.magic, version |-> b.version, last_comp |-> b.last_comp, total |-> b.total,
     rsvoff |-> b.rsvoff, structoff |-> b.structoff, structsize |-> StructBytes(b),
     stringsoff |-> b.stringsoff, stringssize |-> Len(b.strings)]

RECURSIVE CheckTags(_, _, _)
CheckTags(b, o, depth) ==
    LET t == fdt_next_tag(b, o) IN
    CASE t.tag = "END"      -> IF t.next < 0 THEN t.next ELSE IF depth # 0 THEN BADSTRUCTURE ELSE 0
      [] t.tag = "BEGIN"    -> CheckTags(b, t.next, depth + 1)
      [] t.tag = "END_NODE" -> IF depth = 0 THEN BADSTRUCTURE ELSE CheckTags(b, t.next, depth - 1)
      [] t.tag = "PROP"     -> IF fdt_getprop_by_offset(b, o).len < 0 THEN fdt_getprop_by_offset(b, o).len
                               ELSE CheckTags(b, t.next, depth)
      [] t.tag = "NOP"      -> CheckTags(b, t.next, depth)

fdt_check_full(b, bufsize) ==
    LET err == fdt_check_header(HeaderOf(b)) IN
    IF bufsize < 28 THEN TRUNCATED
    ELSE IF err # 0 THEN err
    ELSE IF bufsize < b.total THEN TRUNCATED
    ELSE IF fdt_num_mem_rsv(b) < 0 THEN fdt_num_mem_rsv(b)
    ELSE CheckTags(b, 0, 0)

-----------------------------------------------------------------------------
(***************************************************************************)
(* Editing a flattened device tree in place: fdt_rw.c and fdt_wip.c under  *)
(* src/lib/of/src/fdt/libfdt.  Every call is an operator from a blob to a  *)
(* blob and a return value; FdtEdit applies them in any order.             *)
(*                                                                         *)
(* The three blocks of the blob are fields of their own, so a memmove of   *)
(* the tail of the blob is the move of the blocks behind the splice point; *)
(* the offsets and the total size of the header are kept, because the      *)
(* probe and every test for room are about them.                           *)
(***************************************************************************)

Result(ret, blob) == [ret |-> ret, b |-> blob]

Smaller(x, y) == IF x < y THEN x ELSE y

----------------------------------------------------------------------------
fdt_blocks_misordered_(blob, rsvsize, structsize) ==
    \/ blob.rsvoff < HeaderBytes
    \/ blob.structoff < blob.rsvoff + rsvsize
    \/ blob.stringsoff < blob.structoff + structsize
    \/ blob.total < blob.stringsoff + Len(blob.strings)

\* The probe of every call; a version above 17 would be lowered to 17.
fdt_rw_probe_(blob) ==
    IF fdt_ro_probe_(blob) # 0 THEN fdt_ro_probe_(blob)
    ELSE IF blob.version < 17 THEN BADVERSION
    ELSE IF fdt_blocks_misordered_(blob, RsvBytes, StructBytes(blob)) THEN BADLAYOUT
    ELSE 0

fdt_data_size_(blob) == blob.stringsoff + Len(blob.strings)

\* The test for room of fdt_splice_; its other tests are on pointers that
\* leave the blob.
fdt_splice_(blob, oldlen, newlen) ==
    IF fdt_data_size_(blob) - oldlen + newlen > blob.total THEN NOSPACE ELSE 0

\* The memmove keeps what both lengths share; the rest of a longer region
\* holds stale bytes.
Spliced(s, p, old, new) ==
    SubSeq(s, 1, p + Smaller(old, new)) \o [i \in 1..new - old |-> <<"junk">>]
        \o SubSeq(s, p + old + 1, Len(s))

fdt_splice_mem_rsv_(blob, n, oldn, newn) ==
    LET delta == (newn - oldn) * RsvBytes
        err == fdt_splice_(blob, oldn * RsvBytes, newn * RsvBytes)
    IN  IF err # 0 THEN Result(err, blob)
        ELSE Result(0, [blob EXCEPT !.rsv = Spliced(@, n, oldn, newn),
                                    !.structoff = @ + delta, !.stringsoff = @ + delta])

\* Lengths in cells.
fdt_splice_struct_(blob, p, old, new) ==
    LET err == fdt_splice_(blob, FDT_TAGSIZE * old, FDT_TAGSIZE * new) IN
    IF err # 0 THEN Result(err, blob)
    ELSE Result(0, [blob EXCEPT !.struct = Spliced(@, p, old, new),
                                !.stringsoff = @ + FDT_TAGSIZE * (new - old)])

\* Cells written at an offset.
Store(blob, p, cells) ==
    [blob EXCEPT !.struct = SubSeq(@, 1, p) \o cells \o SubSeq(@, p + Len(cells) + 1, Len(@))]

fdt_find_add_string_(blob, s) ==
    LET p == fdt_find_string_(blob.strings, s)
        err == fdt_splice_(blob, 0, Len(s) + 1)
    IN  IF p >= 0 THEN Result(p, blob)
        ELSE IF err # 0 THEN Result(err, blob)
        ELSE Result(Len(blob.strings), [blob EXCEPT !.strings = @ \o s \o <<"0">>])

----------------------------------------------------------------------------
fdt_add_mem_rsv(blob, entry) ==
    LET n == fdt_num_mem_rsv(blob)
        r == fdt_splice_mem_rsv_(blob, n, 0, 1)
    IN  IF fdt_rw_probe_(blob) # 0 THEN Result(fdt_rw_probe_(blob), blob)
        ELSE IF r.ret # 0 THEN r
        ELSE Result(0, [r.b EXCEPT !.rsv[n + 1] = entry])

fdt_del_mem_rsv(blob, n) ==
    IF fdt_rw_probe_(blob) # 0 THEN Result(fdt_rw_probe_(blob), blob)
    ELSE IF n >= fdt_num_mem_rsv(blob) THEN Result(NOTFOUND, blob)
    ELSE fdt_splice_mem_rsv_(blob, n, 1, 0)

\* A call that makes room for a property's data also says where the property
\* is, in "at".
ResizeAt(blob, p, len) ==
    LET r == fdt_splice_struct_(blob, p + 3, TagCells(PropLen(blob, p)), TagCells(len)) IN
    IF p < 0 THEN [ret |-> p, b |-> blob, at |-> 0]
    ELSE IF r.ret # 0 THEN [ret |-> r.ret, b |-> blob, at |-> 0]
    ELSE [ret |-> 0, b |-> Store(r.b, p + 1, <<<<"len", len>>>>), at |-> p]

fdt_resize_property_(blob, node, name, len) == ResizeAt(blob, fdt_get_property_namelen_(blob, node, name), len)

AddPropAt(blob, next, name, len) ==
    LET s == fdt_find_add_string_(blob, name)
        r == fdt_splice_struct_(s.b, next, 0, 3 + TagCells(len))
        head == <<<<"PROP">>, <<"len", len>>, <<"nameoff", s.ret>>>>
    IN  IF next < 0 THEN [ret |-> next, b |-> blob, at |-> 0]
        ELSE IF s.ret < 0 THEN [ret |-> s.ret, b |-> blob, at |-> 0]
        ELSE IF r.ret # 0 THEN [ret |-> r.ret, b |-> s.b, at |-> 0]
        ELSE [ret |-> 0, b |-> Store(r.b, next, head), at |-> next]

fdt_add_property_(blob, node, name, len) == AddPropAt(blob, fdt_check_node_offset_(blob, node), name, len)

Either(r, other) == IF r.ret = NOTFOUND THEN other ELSE r

fdt_setprop_placeholder(blob, node, name, len) ==
    IF fdt_rw_probe_(blob) # 0 THEN [ret |-> fdt_rw_probe_(blob), b |-> blob, at |-> 0]
    ELSE Either(fdt_resize_property_(blob, node, name, len), fdt_add_property_(blob, node, name, len))

\* Mutant: the value is not copied into its place.
SetpropNoCopy(blob, node, name, v) ==
    LET r == fdt_setprop_placeholder(blob, node, name, ValLen(v)) IN Result(r.ret, r.b)

\* The value copied into the place that a call made.
WithValue(r, v) == IF r.ret # 0 THEN Result(r.ret, r.b) ELSE Result(0, Store(r.b, r.at + 3, DataCells(v)))

fdt_setprop(blob, node, name, v) == WithValue(fdt_setprop_placeholder(blob, node, name, ValLen(v)), v)

\* The bytes already there stay; together with the new ones they are one value.
Grown(blob, p, new) ==
    LET r == fdt_splice_struct_(blob, p + 3, TagCells(PropLen(blob, p)), TagCells(ValLen(new))) IN
    IF r.ret # 0 THEN r
    ELSE Result(0, Store(r.b, p + 1, <<<<"len", ValLen(new)>>, <<"nameoff", PropNameOff(blob, p)>>>> \o DataCells(new)))

AppendAt(blob, p, node, name, v) ==
    IF p >= 0 THEN Grown(blob, p, ValueAt(blob, p) \o v)
    ELSE WithValue(fdt_add_property_(blob, node, name, ValLen(v)), v)

fdt_appendprop(blob, node, name, v) ==
    IF fdt_rw_probe_(blob) # 0 THEN Result(fdt_rw_probe_(blob), blob)
    ELSE AppendAt(blob, fdt_get_property_namelen_(blob, node, name), node, name, v)

DeleteAt(blob, p) ==
    IF p < 0 THEN Result(p, blob) ELSE fdt_splice_struct_(blob, p, 3 + TagCells(PropLen(blob, p)), 0)

fdt_delprop(blob, node, name) ==
    IF fdt_rw_probe_(blob) # 0 THEN Result(fdt_rw_probe_(blob), blob)
    ELSE DeleteAt(blob, fdt_get_property_namelen_(blob, node, name))

fdt_set_name(blob, node, name) ==
    LET old == fdt_get_name(blob, node)
        r == fdt_splice_struct_(blob, node + 1, NameCells(old), NameCells(name))
    IN  IF fdt_rw_probe_(blob) # 0 THEN Result(fdt_rw_probe_(blob), blob)
        ELSE IF fdt_check_node_offset_(blob, node) < 0 THEN Result(BADOFFSET, blob)
        ELSE IF r.ret # 0 THEN r ELSE Result(0, Store(r.b, node, BeginCells(name)))

\* The new node goes behind the parent's properties.
RECURSIVE SkipProps(_, _)
SkipProps(blob, o) ==
    LET t == fdt_next_tag(blob, o) IN
    IF t.tag \in {"PROP", "NOP"} THEN SkipProps(blob, t.next) ELSE o

NodeInto(blob, found, o, node) ==
    LET r == fdt_splice_struct_(blob, o, 0, Len(node)) IN
    IF found >= 0 THEN Result(EXISTS, blob)
    ELSE IF found # NOTFOUND THEN Result(found, blob)
    ELSE IF r.ret # 0 THEN r ELSE Result(o, Store(r.b, o, node))

fdt_add_subnode(blob, parent, name) ==
    IF fdt_rw_probe_(blob) # 0 THEN Result(fdt_rw_probe_(blob), blob)
    ELSE NodeInto(blob, fdt_subnode_offset(blob, parent, name), SkipProps(blob, fdt_next_tag(blob, parent).next),
                  BeginCells(name) \o <<<<"END_NODE">>>>)

RECURSIVE NodeEnd(_, _)
NodeEnd(blob, at) ==
    IF at.off < 0 \/ at.depth < 0 THEN at.off ELSE NodeEnd(blob, fdt_next_node(blob, at.off, at.depth, TRUE))

fdt_node_end_offset_(blob, node) == NodeEnd(blob, [off |-> node, depth |-> 0])

fdt_del_node(blob, node) ==
    LET end == fdt_node_end_offset_(blob, node) IN
    IF fdt_rw_probe_(blob) # 0 THEN Result(fdt_rw_probe_(blob), blob)
    ELSE IF end < 0 THEN Result(end, blob)
    ELSE fdt_splice_struct_(blob, node, end - node, 0)

----------------------------------------------------------------------------
(* fdt_wip.c: edits that move nothing *)

\* The parts of v from byte idx on, overwritten by w, when both lie on parts.
RECURSIVE Overwrite(_, _, _)
Overwrite(v, idx, w) ==
    IF idx = 0 THEN w \o SubSeq(v, Len(w) + 1, Len(v))
    ELSE <<v[1]>> \o Overwrite(Tail(v), idx - v[1].sz, w)

OverwriteAt(blob, p, idx, w) ==
    LET r == PropAt(blob, p) IN
    IF r.len < 0 THEN Result(r.len, blob)
    ELSE IF r.len < idx + ValLen(w) THEN Result(NOSPACE, blob)
    ELSE Result(0, Store(blob, p + 3, DataCells(Overwrite(r.val, idx, w))))

fdt_setprop_inplace_partial(blob, node, name, idx, w) ==
    OverwriteAt(blob, fdt_get_property_namelen_(blob, node, name), idx, w)

SameLength(len, v, blob, done) == IF len < 0 THEN Result(len, blob) ELSE IF len # ValLen(v) THEN Result(NOSPACE, blob) ELSE done

fdt_setprop_inplace(blob, node, name, v) ==
    SameLength(fdt_getprop(blob, node, name).len, v, blob, fdt_setprop_inplace_partial(blob, node, name, 0, v))

fdt_nop_region_(blob, start, cells) == Store(blob, start, [i \in 1..cells |-> <<"NOP">>])

NopAt(blob, p) ==
    IF p < 0 THEN Result(p, blob) ELSE Result(0, fdt_nop_region_(blob, p, 3 + TagCells(PropLen(blob, p))))

fdt_nop_property(blob, node, name) == NopAt(blob, fdt_get_property_namelen_(blob, node, name))

fdt_nop_node(blob, node) ==
    LET end == fdt_node_end_offset_(blob, node) IN
    IF end < 0 THEN Result(end, blob) ELSE Result(0, fdt_nop_region_(blob, node, end - node))

----------------------------------------------------------------------------
(* Moving the blocks *)

fdt_packblocks_(blob, rsvsize, structcells) ==
    [blob EXCEPT !.rsvoff = HeaderBytes, !.rsv = SubSeq(@, 1, rsvsize \div RsvBytes),
                 !.structoff = HeaderBytes + rsvsize, !.struct = SubSeq(@, 1, structcells),
                 !.stringsoff = HeaderBytes + rsvsize + FDT_TAGSIZE * structcells]

\* The walk to the end of a structure block whose size the header lacks.
RECURSIVE StructEnd(_, _)
StructEnd(blob, o) ==
    LET t == fdt_next_tag(blob, o) IN IF t.tag = "END" THEN t.next ELSE StructEnd(blob, t.next)

\* "inplace" says that the buffer is the blob's own; then a blob that must be
\* reordered is rebuilt behind its old self.
fdt_open_into(blob, bufsize, inplace) ==
    LET rsvsize == (fdt_num_mem_rsv(blob) + 1) * RsvBytes
        cells == IF blob.version >= 17 THEN Len(blob.struct) ELSE StructEnd(blob, 0)
        newsize == HeaderBytes + rsvsize + FDT_TAGSIZE * cells + Len(blob.strings)
        need == IF inplace THEN blob.total + newsize ELSE newsize
    IN  IF fdt_ro_probe_(blob) # 0 THEN Result(fdt_ro_probe_(blob), blob)
        ELSE IF cells < 0 THEN Result(cells, blob)
        ELSE IF ~fdt_blocks_misordered_(blob, rsvsize, FDT_TAGSIZE * cells)
        THEN IF blob.total > bufsize THEN Result(NOSPACE, blob)
             ELSE Result(0, [blob EXCEPT !.version = 17, !.struct = SubSeq(@, 1, cells),
                                         !.total = bufsize])
        ELSE IF bufsize < need THEN Result(NOSPACE, blob)
        ELSE Result(0, [fdt_packblocks_(blob, rsvsize, cells)
                          EXCEPT !.total = bufsize, !.version = 17, !.last_comp = 16])

fdt_pack(blob) ==
    LET rsvsize == (fdt_num_mem_rsv(blob) + 1) * RsvBytes
        packed == fdt_packblocks_(blob, rsvsize, Len(blob.struct))
    IN  IF fdt_rw_probe_(blob) # 0 THEN Result(fdt_rw_probe_(blob), blob)
        ELSE Result(0, [packed EXCEPT !.total = fdt_data_size_(packed)])

----------------------------------------------------------------------------
(* What a blob means: the tree of its nodes, each with its properties as a  *)
(* function, its children in order, and (in "off") the place it was found.  *)

Node(name, off) == [name |-> name, off |-> off, props |-> <<>>, kids |-> <<>>]

Broken == Node("broken", 0)

StringFrom(strings, so) ==
    LET end == CHOOSE j \in so + 1..Len(strings) :
                  strings[j] = "0" /\ \A k \in so + 1..j - 1 : strings[k] # "0"
    IN  SubSeq(strings, so + 1, end - 1)

\* The node whose cells from i on are still to read, and the cell behind it.
RECURSIVE ParseNode(_, _, _)
ParseNode(blob, i, node) ==
    LET c    == blob.struct[i]
        n    == blob.struct[i + 1][2]
        kid  == ParseNode(blob, i + 1 + NameCells(n), Node(n, i - 1))
        name == StringFrom(blob.strings, blob.struct[i + 2][2])
        with == [q \in {name} \cup DOMAIN node.props |->
                   IF q \in DOMAIN node.props THEN node.props[q] ELSE ValueAt(blob, i - 1)]
    IN  CASE i > Len(blob.struct)  -> [node |-> Broken, next |-> i]
          [] i <= Len(blob.struct) ->
               CASE c[1] = "NOP"      -> ParseNode(blob, i + 1, node)
                 [] c[1] = "END_NODE" -> [node |-> node, next |-> i + 1]
                 [] c[1] = "BEGIN"    -> ParseNode(blob, kid.next, [node EXCEPT !.kids = Append(@, kid.node)])
                 [] c[1] = "PROP"     -> ParseNode(blob, i + 3 + TagCells(n), [node EXCEPT !.props = with])
                 [] OTHER             -> [node |-> Broken, next |-> Len(blob.struct) + 1]

Parse(blob) ==
    LET n == blob.struct[2][2]
        r == ParseNode(blob, 2 + NameCells(n), Node(n, 0))
    IN  IF r.next = Len(blob.struct) /\ blob.struct[r.next] = <<"END">> THEN r.node ELSE Broken

RECURSIVE Unplaced(_)
Unplaced(node) == [name |-> node.name, props |-> node.props,
                   kids |-> [i \in DOMAIN node.kids |-> Unplaced(node.kids[i])]]

\* The places of a tree's nodes: a place is the sequence of child numbers
\* that leads to the node from the root.
RECURSIVE Places(_)
Places(node) == {<<>>} \cup UNION {{<<i>> \o p : p \in Places(node.kids[i])} : i \in DOMAIN node.kids}

RECURSIVE At(_, _)
At(node, place) == IF place = <<>> THEN node ELSE At(node.kids[place[1]], Tail(place))

RECURSIVE Replace(_, _, _)
Replace(node, place, new) ==
    IF place = <<>> THEN new
    ELSE [node EXCEPT !.kids[place[1]] = Replace(@, Tail(place), new)]

Parent(place) == SubSeq(place, 1, Len(place) - 1)

NamesTo(node, place) == [i \in 1..Len(place) |-> At(node, SubSeq(place, 1, i)).name]

EntriesOf(blob) == SubSeq(blob.rsv, 1, fdt_num_mem_rsv(blob))

-----------------------------------------------------------------------------
(* Blobs for the instances, built from trees of records [name, props, kids] *)
(* whose props are a sequence of pairs <<name, value>>.                     *)

N(name, props, kids) == [name |-> name, props |-> props, kids |-> kids]

RECURSIVE EmitProps(_, _)
EmitProps(ps, strings) ==
    IF ps = <<>> THEN <<>>
    ELSE PropCells(fdt_find_string_(strings, ps[1][1]), ps[1][2]) \o EmitProps(Tail(ps), strings)

RECURSIVE Emit(_, _)
RECURSIVE EmitAll(_, _)
EmitAll(ns, strings) == IF ns = <<>> THEN <<>> ELSE Emit(ns[1], strings) \o EmitAll(Tail(ns), strings)
Emit(n, strings) ==
    BeginCells(n.name) \o EmitProps(n.props, strings) \o EmitAll(n.kids, strings) \o <<<<"END_NODE">>>>

RECURSIVE StringTable(_)
StringTable(names) == IF names = <<>> THEN <<>> ELSE names[1] \o <<"0">> \o StringTable(Tail(names))

BlobOf(root, strings, spare) ==
    LET cells == Emit(root, strings) \o <<<<"END">>>> IN
    [magic |-> "fdt", version |-> 17, last_comp |-> 16, total |-> 56 + 4 * Len(cells) + Len(strings) + spare,
     rsvoff |-> 40, structoff |-> 56, stringsoff |-> 56 + 4 * Len(cells),
     rsv |-> <<[address |-> 0, size |-> 0]>>, struct |-> cells, strings |-> strings]

PathPart(names) == [sz |-> IF names = <<>> THEN 2 ELSE PathBytes(names) + 1, path |-> names]
StrPart(s, n) == [sz |-> n + 1, str |-> s]
=============================================================================
