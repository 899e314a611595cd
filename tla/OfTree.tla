------------------------------- MODULE OfTree -------------------------------
(***************************************************************************)
(* The live device tree: the lookups of src/lib/of/src/base.c and the      *)
(* helpers of src/lib/of/include/of/of.h.                                  *)
(*                                                                         *)
(* A tree t is a function from node numbers to device_node records; NULL   *)
(* is 0.  A node's properties are a sequence of records [name, val], and a *)
(* value is a sequence of parts as in Fdt.  Strings compare by equality:   *)
(* two spellings of one string in different cases are not distinguished.   *)
(* Reference counting is empty in this system.                             *)
(***************************************************************************)
EXTENDS Fdt

CONSTANTS
    AliasOf     \* alias name -> [stem, id], id = -1 for a name that ends in no number

NULL == 0
ENOENT == -2
EINVAL == -22
ENODEV == -19

STATUS == <<"status">>
DEVICE_TYPE == <<"device_type">>
REG == <<"reg">>

\* INT_MAX/2, the score of the first compatible string.
BestCompat == 1000

----------------------------------------------------------------------------
(* Properties *)

\* The first property of that name, as its place in the list; 0 for none.
of_find_property(t, np, name) ==
    LET places == {i \in DOMAIN t[np].props : t[np].props[i].name = name} IN
    IF np = NULL \/ places = {} THEN 0 ELSE Min(places)

HasProp(t, np, name) == np # NULL /\ of_find_property(t, np, name) # 0

of_get_property(t, np, name) == t[np].props[of_find_property(t, np, name)].val

of_property_read_bool(t, np, name) == HasProp(t, np, name)

\* -EINVAL for a property that is missing, -EOVERFLOW for one that is short.
of_property_read_u32(t, np, name) ==
    IF ~HasProp(t, np, name) THEN [ret |-> EINVAL]
    ELSE IF ValLen(of_get_property(t, np, name)) < 4 THEN [ret |-> -75]
    ELSE [ret |-> 0, u32 |-> of_get_property(t, np, name)[1].u32]

of_node_name_eq(t, np, name) == np # NULL /\ BaseOf[t[np].full_name] = name

of_node_is_type(t, np, type) ==
    HasProp(t, np, DEVICE_TYPE) /\ of_get_property(t, np, DEVICE_TYPE)[1].str = type

of_device_is_available(t, np) ==
    /\ np # NULL
    /\ HasProp(t, np, STATUS) =>
         LET v == of_get_property(t, np, STATUS) IN ValLen(v) > 0 /\ v[1].str \in {"okay", "ok"}

----------------------------------------------------------------------------
(* Walking *)

\* Up from a node without children to the next sibling on the way.
RECURSIVE NextUp(_, _)
NextUp(t, np) ==
    IF t[np].parent # NULL /\ t[np].sibling = NULL THEN NextUp(t, t[np].parent) ELSE t[np].sibling

\* The root is node 1.
of_find_all_nodes(t, prev) ==
    IF prev = NULL THEN 1 ELSE IF t[prev].child # NULL THEN t[prev].child ELSE NextUp(t, prev)

\* for_each_of_allnodes_from: the first visited node of a set, or NULL.
RECURSIVE FirstFrom(_, _, _)
FirstFrom(t, from, wanted) ==
    LET np == of_find_all_nodes(t, from) IN
    IF np = NULL \/ np \in wanted THEN np ELSE FirstFrom(t, np, wanted)

RECURSIVE Siblings(_, _)
Siblings(t, np) == IF np = NULL THEN <<>> ELSE <<np>> \o Siblings(t, t[np].sibling)

\* for_each_child_of_node, as the sequence of nodes it visits.
Children(t, np) == IF np = NULL THEN <<>> ELSE Siblings(t, t[np].child)

of_get_next_child(t, node, prev) ==
    IF node = NULL THEN NULL ELSE IF prev # NULL THEN t[prev].sibling ELSE t[node].child

\* The first node of a sequence that is in a set, or NULL.
FirstIn(nodes, wanted) ==
    LET places == {i \in DOMAIN nodes : nodes[i] \in wanted} IN
    IF places = {} THEN NULL ELSE nodes[Min(places)]

of_get_next_available_child(t, node, prev) ==
    IF node = NULL THEN NULL
    ELSE FirstIn(Siblings(t, of_get_next_child(t, node, prev)),
                 {np \in DOMAIN t : of_device_is_available(t, np)})

of_get_child_by_name(t, node, name) ==
    FirstIn(Children(t, node), {np \in DOMAIN t : of_node_name_eq(t, np, name)})

of_get_parent(t, np) == IF np = NULL THEN NULL ELSE t[np].parent

----------------------------------------------------------------------------
(* Paths *)

\* One component, with its unit address.
FindChild(t, parent, comp) ==
    FirstIn(Children(t, parent), {np \in DOMAIN t : t[np].full_name = comp})

RECURSIVE FindByFullPath(_, _, _)
FindByFullPath(t, node, comps) ==
    IF node = NULL \/ comps = <<>> THEN node
    ELSE FindByFullPath(t, FindChild(t, node, comps[1]), Tail(comps))

of_aliases(t) == FindByFullPath(t, 1, <<ALIASES>>)

\* A path is [alias, comps, opts]: alias is "" for a full path, and opts
\* says that a ':' and options follow.  With options, everything before the
\* ':' is taken for the alias, and "/" is not recognised.
of_find_node_opts_by_path(t, path) ==
    LET looked == IF path.opts THEN <<path.alias>> \o path.comps ELSE <<path.alias>>
        rest == IF path.opts THEN <<>> ELSE path.comps
        al == of_aliases(t)
    IN  IF path.alias = "" THEN IF path.opts /\ path.comps = <<>> THEN NULL ELSE FindByFullPath(t, 1, path.comps)
        ELSE IF ~HasProp(t, al, looked) THEN NULL
        ELSE FindByFullPath(t, FindByFullPath(t, 1, of_get_property(t, al, looked)[1].path), rest)

----------------------------------------------------------------------------
(* Matching *)

\* The strings of a list, in order.
Strings(t, np, name) ==
    IF ~HasProp(t, np, name) THEN <<>>
    ELSE LET v == of_get_property(t, np, name) IN [i \in DOMAIN v |-> v[i].str]

\* "" stands for a criterion that is not given.
of_device_is_compatible(t, np, compat, type, name) ==
    LET strings == Strings(t, np, COMPATIBLE)
        at == {i \in DOMAIN strings : strings[i] = compat}
        first == Min(at)
        score == IF compat = "" THEN 0 ELSE BestCompat - 4 * (first - 1)
    IN  IF compat # "" /\ at = {} THEN 0
        ELSE IF type # "" /\ ~of_node_is_type(t, np, type) THEN 0
        ELSE IF name # "" /\ ~of_node_name_eq(t, np, name) THEN 0
        ELSE score + (IF type # "" THEN 2 ELSE 0) + (IF name # "" THEN 1 ELSE 0)

RECURSIVE LastMatch(_, _, _, _, _)
LastMatch(t, np, matches, i, best) ==
    IF i > Len(matches) THEN best.i
    ELSE LastMatch(t, np, matches, i + 1,
           IF of_device_is_compatible(t, np, matches[i].compatible, matches[i].type, matches[i].name) > 0
           THEN [i |-> i, score |-> 0] ELSE best)

\* The best entry of a match table, as its place; 0 for none.
Better(best, i, score) == IF score > best.score THEN [i |-> i, score |-> score] ELSE best
RECURSIVE BestMatch(_, _, _, _, _)
BestMatch(t, np, matches, i, best) ==
    IF i > Len(matches) THEN best.i
    ELSE BestMatch(t, np, matches, i + 1,
           Better(best, i, of_device_is_compatible(t, np, matches[i].compatible, matches[i].type, matches[i].name)))

of_match_node(t, np, matches) == BestMatch(t, np, matches, 1, [i |-> 0, score |-> 0])

of_find_node_by_name(t, from, name) == FirstFrom(t, from, {np \in DOMAIN t : of_node_name_eq(t, np, name)})

of_find_node_by_type(t, from, type) == FirstFrom(t, from, {np \in DOMAIN t : of_node_is_type(t, np, type)})

of_find_compatible_node(t, from, type, compat) ==
    FirstFrom(t, from, {np \in DOMAIN t : of_device_is_compatible(t, np, compat, type, "") > 0})

of_find_node_with_property(t, from, name) == FirstFrom(t, from, {np \in DOMAIN t : HasProp(t, np, name)})

of_find_matching_node_and_match(t, from, matches) ==
    FirstFrom(t, from, {np \in DOMAIN t : of_match_node(t, np, matches) # 0})

of_find_node_by_phandle(t, handle) ==
    IF handle = 0 THEN NULL
    ELSE FirstFrom(t, NULL, {np \in DOMAIN t : t[np].phandle = handle /\ ~t[np].detached})

\* of_get_compatible_child
of_get_compatible_child(t, parent, compat) ==
    FirstIn(Children(t, parent), {np \in DOMAIN t : of_device_is_compatible(t, np, compat, "", "") > 0})

\* The cells of the nearest ancestor that states them.
RECURSIVE NCells(_, _, _)
NCells(t, np, name) ==
    LET up == IF t[np].parent # NULL THEN t[np].parent ELSE np
        r == of_property_read_u32(t, up, name)
    IN  IF r.ret = 0 THEN r.u32 ELSE IF t[up].parent # NULL THEN NCells(t, up, name) ELSE 1

of_n_addr_cells(t, np) == NCells(t, np, ADDRESS_CELLS)

of_n_size_cells(t, np) == NCells(t, np, SIZE_CELLS)

----------------------------------------------------------------------------
(* CPUs *)

CpuNodes(t) == {np \in DOMAIN t : of_node_name_eq(t, np, "cpu") \/ of_node_is_type(t, np, "cpu")}

of_get_next_cpu_node(t, prev) ==
    FirstIn(Siblings(t, IF prev # NULL THEN t[prev].sibling
                        ELSE LET cpus == FindByFullPath(t, 1, <<"cpus">>) IN
                             IF cpus = NULL THEN NULL ELSE t[cpus].child),
            CpuNodes(t))

Radix == MaxPhandle + 1

\* 2^64, with 2^32 read as Radix.
U64 == Radix * Radix

\* The cells from i on as a 64-bit number.
RECURSIVE ReadNumber(_, _, _, _)
ReadNumber(v, i, size, sofar) ==
    IF size = 0 THEN sofar ELSE ReadNumber(v, i + 1, size - 1, (sofar * Radix + v[i].u32) % U64)

of_read_number(v, i, size) == ReadNumber(v, i, size, 0)

FirstThread(tids) == IF tids = {} THEN [ok |-> FALSE, thread |-> -1] ELSE [ok |-> TRUE, thread |-> Min(tids)]
ThreadIn(v, ac, cpu) ==
    FirstThread(IF ac = 0 THEN {}
                ELSE {tid \in 0..(ValLen(v) \div (4 * ac)) - 1 : of_read_number(v, tid * ac + 1, ac) % Radix = cpu})

\* Whether the reg of a cpu node holds the number, and the thread it is, -1
\* where the caller's is left alone.  Only the low 32 bits are compared.
MatchCpu(t, np, cpu) ==
    IF ~HasProp(t, np, REG) THEN [ok |-> of_n_addr_cells(t, np) = 0 /\ cpu = 0, thread |-> -1]
    ELSE ThreadIn(of_get_property(t, np, REG), of_n_addr_cells(t, np), cpu)

RECURSIVE FindCpu(_, _, _)
CpuOrNext(t, np, cpu, match) ==
    IF match.ok THEN [np |-> np, thread |-> match.thread] ELSE FindCpu(t, of_get_next_cpu_node(t, np), cpu)
FindCpu(t, np, cpu) ==
    IF np = NULL THEN [np |-> NULL, thread |-> -1]
    ELSE CpuOrNext(t, np, cpu, MatchCpu(t, np, cpu))

of_get_cpu_node(t, cpu) == FindCpu(t, of_get_next_cpu_node(t, NULL), cpu)

----------------------------------------------------------------------------
(* Lists of phandles with arguments *)

\* cur and phandle_end count the words before them; cells = <<>> asks for
\* cell_count arguments after each phandle.
of_phandle_iterator_init(t, np, list, cells, cell_count) ==
    IF ~HasProp(t, np, list) THEN [ret |-> ENOENT, it |-> [cur |-> -1]]
    ELSE LET v == of_get_property(t, np, list) IN
         [ret |-> 0,
          it |-> [cells |-> cells, cell_count |-> cell_count, list |-> v, list_end |-> ValLen(v) \div 4,
                  phandle_end |-> 0, cur |-> 0, cur_count |-> 0, phandle |-> 0, node |-> NULL]]

StopAt(it, cur) == [ret |-> EINVAL, it |-> [it EXCEPT !.node = NULL, !.cur = cur]]
Step(it, cur, count, phandle, node) ==
    IF cur + count > it.list_end THEN StopAt(it, cur)
    ELSE [ret |-> 0, it |-> [it EXCEPT !.cur = cur, !.phandle_end = cur + count, !.cur_count = count,
                                       !.phandle = phandle, !.node = node]]
StepTo(it, cur, phandle, node, cells) ==
    IF it.cells = <<>> THEN Step(it, cur, it.cell_count, phandle, node)
    ELSE IF node = NULL \/ cells.ret # 0 THEN StopAt(it, cur)
    ELSE Step(it, cur, cells.u32, phandle, node)
StepBy(t, it, phandle, node) ==
    IF phandle = 0 THEN Step(it, it.phandle_end + 1, 0, 0, NULL)
    ELSE StepTo(it, it.phandle_end + 1, phandle, node, of_property_read_u32(t, node, it.cells))

of_phandle_iterator_next(t, it) ==
    IF it.cur < 0 \/ it.phandle_end >= it.list_end THEN [ret |-> ENOENT, it |-> it]
    ELSE LET phandle == it.list[it.phandle_end + 1].u32 IN
         StepBy(t, it, phandle, of_find_node_by_phandle(t, phandle))

\* At most "size" arguments.
of_phandle_iterator_args(it, size) ==
    LET n == IF it.cur_count > size THEN size ELSE it.cur_count IN
    [i \in 1..n |-> it.list[it.cur + i].u32]

RECURSIVE ParseFrom(_, _, _, _)
ParseFrom(t, r, index, size) ==
    IF r.ret # 0 THEN [ret |-> r.ret]
    ELSE IF index > 0 THEN ParseFrom(t, of_phandle_iterator_next(t, r.it), index - 1, size)
    ELSE IF r.it.phandle = 0 THEN [ret |-> ENOENT]
    ELSE [ret |-> 0, np |-> r.it.node, args |-> of_phandle_iterator_args(r.it, size)]

\* of_for_each_phandle does not look at the result of the init: a list that
\* is missing leaves an iterator that ends at once.
ParsePhandleWithArgs(t, np, list, cells, cell_count, index, size) ==
    ParseFrom(t, of_phandle_iterator_next(t, of_phandle_iterator_init(t, np, list, cells, cell_count).it), index, size)

NodeOr(r) == IF r.ret # 0 THEN NULL ELSE r.np

of_parse_phandle(t, np, name, index) ==
    IF index < 0 THEN NULL ELSE NodeOr(ParsePhandleWithArgs(t, np, name, <<>>, 0, index, 16))

of_parse_phandle_with_args(t, np, list, cells, index) ==
    IF index < 0 THEN [ret |-> EINVAL] ELSE ParsePhandleWithArgs(t, np, list, cells, 0, index, 16)

of_parse_phandle_with_fixed_args(t, np, list, cell_count, index) ==
    IF index < 0 THEN [ret |-> EINVAL] ELSE ParsePhandleWithArgs(t, np, list, <<>>, cell_count, index, 16)

RECURSIVE CountFrom(_, _, _)
CountOn(t, r, n) == IF r.ret = 0 THEN CountFrom(t, r.it, n + 1) ELSE IF r.ret = ENOENT THEN n ELSE r.ret
CountFrom(t, it, n) ==
    CountOn(t, of_phandle_iterator_next(t, it), n)

of_count_phandle_with_args(t, np, list, cells) ==
    LET r == of_phandle_iterator_init(t, np, list, cells, 0) IN IF r.ret # 0 THEN r.ret ELSE CountFrom(t, r.it, 0)

----------------------------------------------------------------------------
(* Aliases *)

\* The entries of aliases_lookup, in the order of the properties.
RECURSIVE AliasEntries(_, _)
AliasEntries(t, props) ==
    IF props = <<>> THEN <<>>
    ELSE LET p == props[1]
             np == of_find_node_opts_by_path(t, [alias |-> "", comps |-> p.val[1].path, opts |-> FALSE])
             skip == \/ p.name \in {<<"name">>, PHANDLE, LINUX_PHANDLE}
                     \/ np = NULL \/ AliasOf[p.name].id < 0
         IN  (IF skip THEN <<>> ELSE <<[np |-> np, stem |-> AliasOf[p.name].stem, id |-> AliasOf[p.name].id]>>)
               \o AliasEntries(t, Tail(props))

of_alias_scan(t) == IF of_aliases(t) = NULL THEN <<>> ELSE AliasEntries(t, t[of_aliases(t)].props)

of_alias_get_id(lookup, np, stem) ==
    LET at == {i \in DOMAIN lookup : lookup[i].stem = stem /\ lookup[i].np = np} IN
    IF at = {} THEN ENODEV ELSE lookup[Min(at)].id

\* The bits set, and whether an id did not fit.
IdsIn(ids, nbits) == [bits |-> {id \in ids : id < nbits}, ret |-> IF \E id \in ids : id >= nbits THEN -75 ELSE 0]
of_alias_get_alias_list(t, lookup, matches, stem, nbits) ==
    IdsIn({lookup[i].id : i \in {j \in DOMAIN lookup : lookup[j].stem = stem
                                                       /\ of_match_node(t, lookup[j].np, matches) # 0}}, nbits)

of_alias_get_highest_id(lookup, stem) ==
    LET ids == {lookup[i].id : i \in {j \in DOMAIN lookup : lookup[j].stem = stem}} IN
    IF ids = {} THEN ENODEV ELSE Max(ids)
----------------------------------------------------------------------------
(* The same questions asked of the blob *)

FirstOr(places) == IF places = {} THEN 0 ELSE Min(places)

\* Compatible with the string: the 1-based place of its first occurrence.
of_fdt_is_compatible(b, node, compat) ==
    FirstOr({i \in DOMAIN fdt_getprop(b, node, COMPATIBLE).val : fdt_getprop(b, node, COMPATIBLE).val[i].str = compat})

\* The smallest score over a table of strings; 0 when none matches.
of_fdt_match(b, node, compats) ==
    FirstOr({of_fdt_is_compatible(b, node, compats[i]) : i \in DOMAIN compats} \ {0})

of_fdt_device_is_available(b, node) ==
    LET v == fdt_getprop(b, node, STATUS) IN v.len < 0 \/ v.val[1].str \in {"ok", "okay"}

-----------------------------------------------------------------------------
(***************************************************************************)
(* Reading properties and graphs of ports: src/lib/of/src/property.c and   *)
(* the inline readers of src/lib/of/include/of/of.h.                       *)
(*                                                                         *)
(* Integers are read from values made of units of their size (words for    *)
(* 64 bits), with odd bytes at the end where a value has them; strings from *)
(* values made of terminated strings, with an unterminated one at the end  *)
(* where there is one.                                                     *)
(***************************************************************************)

CONSTANTS
    U32Mod    \* 2^32, as the wrap of an index and of a size

ENODATA == -61
EOVERFLOW == -75
EILSEQ == -84
ENXIO == -6
MAX_PHANDLE_ARGS == 16
NR_FWNODE_REFERENCE_ARGS == 8

of_property_count_elems_of_size(t, np, name, elem) ==
    IF ~HasProp(t, np, name) THEN EINVAL
    ELSE LET len == ValLen(of_get_property(t, np, name)) IN
         IF len % elem # 0 THEN EINVAL ELSE len \div elem

\* 0 when the value has a length from min to max bytes; max = 0 is no limit.
of_find_property_value_of_size(t, np, name, min, max) ==
    IF ~HasProp(t, np, name) THEN EINVAL
    ELSE LET len == ValLen(of_get_property(t, np, name)) IN
         IF len < min \/ (max # 0 /\ len > max) THEN EOVERFLOW ELSE 0

\* An element of 8 bytes is read as two words, the others as one unit.
Unit(elem) == IF elem = 8 THEN 4 ELSE elem

Beyond == <<-1>>

\* n elements from the index on; Beyond where that reads behind the value.
ElemsAt(v, index, n, elem) ==
    LET per == elem \div Unit(elem) IN
    IF (index + n) * elem > ValLen(v) THEN Beyond ELSE [k \in 1..n * per |-> v[index * per + k].u32]

\* The index is a u32, and so is the minimal length made from it.
ReadIndex(t, np, name, index, elem) ==
    LET min == (((index + 1) % U32Mod) * elem) % U32Mod
        r == of_find_property_value_of_size(t, np, name, min, 0)
    IN  IF r < 0 THEN [ret |-> r] ELSE [ret |-> 0, val |-> ElemsAt(of_get_property(t, np, name), index, 1, elem)]

of_property_read_u32_index(t, np, name, index) == ReadIndex(t, np, name, index, 4)

of_property_read_u64_index(t, np, name, index) == ReadIndex(t, np, name, index, 8)

\* From sz_min to sz_max elements; all there are when a maximum is given, else sz_min.
ReadVariableArray(t, np, name, elem, sz_min, sz_max) ==
    LET r == of_find_property_value_of_size(t, np, name, sz_min * elem, sz_max * elem)
        v == of_get_property(t, np, name)
        sz == IF sz_max = 0 THEN sz_min ELSE ValLen(v) \div elem
    IN  IF r < 0 THEN [ret |-> r] ELSE [ret |-> sz, val |-> ElemsAt(v, 0, sz, elem)]

of_property_read_variable_u8_array(t, np, name, lo, hi) == ReadVariableArray(t, np, name, 1, lo, hi)

of_property_read_variable_u16_array(t, np, name, lo, hi) == ReadVariableArray(t, np, name, 2, lo, hi)

of_property_read_variable_u32_array(t, np, name, lo, hi) == ReadVariableArray(t, np, name, 4, lo, hi)

of_property_read_variable_u64_array(t, np, name, lo, hi) == ReadVariableArray(t, np, name, 8, lo, hi)

\* The _array readers: exactly n elements, and 0 for success.
Exactly(r) == IF r.ret < 0 THEN r ELSE [r EXCEPT !.ret = 0]

of_property_read_u8_array(t, np, name, n) == Exactly(of_property_read_variable_u8_array(t, np, name, n, 0))

of_property_read_u16_array(t, np, name, n) == Exactly(of_property_read_variable_u16_array(t, np, name, n, 0))

of_property_read_u32_array(t, np, name, n) == Exactly(of_property_read_variable_u32_array(t, np, name, n, 0))

of_property_read_u64_array(t, np, name, n) == Exactly(of_property_read_variable_u64_array(t, np, name, n, 0))

of_property_read_u64(t, np, name) ==
    LET r == of_find_property_value_of_size(t, np, name, 8, 0) IN
    IF r < 0 THEN [ret |-> r] ELSE [ret |-> 0, val |-> ElemsAt(of_get_property(t, np, name), 0, 1, 8)]

of_property_read_string(t, np, name) ==
    IF ~HasProp(t, np, name) THEN [ret |-> EINVAL]
    ELSE LET v == of_get_property(t, np, name) IN
         IF v = <<>> \/ ~Terminated(v[1]) THEN [ret |-> EILSEQ] ELSE [ret |-> 0, str |-> v[1].str]

RECURSIVE MatchFrom(_, _, _)
MatchFrom(v, i, s) ==
    IF i > Len(v) THEN ENODATA
    ELSE IF ~Terminated(v[i]) THEN EILSEQ
    ELSE IF v[i].str = s THEN i - 1 ELSE MatchFrom(v, i + 1, s)

of_property_match_string(t, np, name, s) ==
    IF ~HasProp(t, np, name) THEN EINVAL ELSE MatchFrom(of_get_property(t, np, name), 1, s)

of_property_read_string_helper(t, np, name, out, sz, skip) ==
    LET v == of_get_property(t, np, name)
        n == IF out /\ skip + sz < Len(v) THEN skip + sz ELSE Len(v)
    IN  IF ~HasProp(t, np, name) THEN [ret |-> EINVAL]
        ELSE IF \E i \in 1..n : ~Terminated(v[i]) THEN [ret |-> EILSEQ]
        ELSE IF n - skip <= 0 THEN [ret |-> ENODATA]
        ELSE [ret |-> n - skip, strs |-> IF out THEN [i \in 1..n - skip |-> v[skip + i].str] ELSE <<>>]

of_property_read_string_array(t, np, name, sz) == of_property_read_string_helper(t, np, name, TRUE, sz, 0)

of_property_count_strings(t, np, name) == of_property_read_string_helper(t, np, name, FALSE, 0, 0).ret

of_property_read_string_index(t, np, name, index) ==
    LET r == of_property_read_string_helper(t, np, name, TRUE, 1, index) IN
    IF r.ret < 0 THEN r ELSE [r EXCEPT !.ret = 0]

\* of_prop_next_u32 from the word before; NULL at the end.
of_prop_next_u32(v, cur) == IF cur = 0 THEN 1 ELSE IF 4 * (cur + 1) > ValLen(v) THEN NULL ELSE cur + 1

of_prop_next_string(v, cur) == IF cur = 0 THEN 1 ELSE IF cur + 1 > Len(v) THEN NULL ELSE cur + 1

----------------------------------------------------------------------------
(* Graphs *)

RegOf(t, np) == LET r == of_property_read_u32(t, np, REG) IN IF r.ret = 0 THEN r.u32 ELSE 0

of_graph_parse_endpoint(t, node) ==
    [local_node |-> node, port |-> RegOf(t, of_get_parent(t, node)), id |-> RegOf(t, node)]

PortsOf(t, parent) ==
    LET ports == of_get_child_by_name(t, parent, "ports") IN IF ports # NULL THEN ports ELSE parent

of_graph_get_port_by_id(t, parent, id) ==
    FirstIn(Children(t, PortsOf(t, parent)), {p \in DOMAIN t : of_node_name_eq(t, p, "port") /\ RegOf(t, p) = id})

\* The next sibling that is a port.
NextPort(t, port) == FirstIn(Siblings(t, t[port].sibling), {p \in DOMAIN t : of_node_name_eq(t, p, "port")})

RECURSIVE FirstEndpointFrom(_, _)
FirstEndpointFrom(t, port) ==
    IF port = NULL THEN NULL
    ELSE IF t[port].child # NULL THEN t[port].child
    ELSE FirstEndpointFrom(t, NextPort(t, port))

of_graph_get_next_endpoint(t, parent, prev) ==
    LET port == IF prev # NULL THEN t[prev].parent ELSE of_get_child_by_name(t, PortsOf(t, parent), "port") IN
    IF parent = NULL \/ port = NULL THEN NULL
    ELSE IF prev # NULL /\ t[prev].sibling # NULL THEN t[prev].sibling
    ELSE FirstEndpointFrom(t, IF prev = NULL THEN port ELSE NextPort(t, port))

RECURSIVE EndpointsFrom(_, _, _)
EndpointsFrom(t, parent, prev) ==
    LET e == of_graph_get_next_endpoint(t, parent, prev) IN
    IF e = NULL THEN <<>> ELSE <<e>> \o EndpointsFrom(t, parent, e)

\* for_each_endpoint_of_node
Endpoints(t, parent) == EndpointsFrom(t, parent, NULL)

of_graph_get_endpoint_by_regs(t, parent, port_reg, reg) ==
    FirstIn(Endpoints(t, parent),
            {e \in DOMAIN t : LET p == of_graph_parse_endpoint(t, e) IN
                              (port_reg = -1 \/ p.port = port_reg) /\ (reg = -1 \/ p.id = reg)})

of_graph_get_remote_endpoint(t, node) == of_parse_phandle(t, node, <<"remote-endpoint">>, 0)

\* The device: two levels up, or three when the second is "ports".
of_graph_get_port_parent(t, node) ==
    LET up2 == of_get_parent(t, of_get_parent(t, node)) IN
    IF of_node_name_eq(t, up2, "ports") THEN of_get_parent(t, up2) ELSE up2

of_graph_get_remote_port_parent(t, node) == of_graph_get_port_parent(t, of_graph_get_remote_endpoint(t, node))

of_graph_get_remote_port(t, node) == of_get_parent(t, of_graph_get_remote_endpoint(t, node))

IfAvailable(t, np) == IF np # NULL /\ of_device_is_available(t, np) THEN np ELSE NULL
RemoteOf(t, e) == IF e = NULL THEN NULL ELSE IfAvailable(t, of_graph_get_remote_port_parent(t, e))
of_graph_get_remote_node(t, node, port, endpoint) ==
    RemoteOf(t, of_graph_get_endpoint_by_regs(t, node, port, endpoint))

----------------------------------------------------------------------------
(* The same through fwnode handles *)

\* Only the count where no array is given.
of_fwnode_property_read_int_array(t, np, name, elem, n, counting) ==
    IF counting THEN [ret |-> of_property_count_elems_of_size(t, np, name, elem)]
    ELSE CASE elem = 1 -> of_property_read_u8_array(t, np, name, n)
           [] elem = 2 -> of_property_read_u16_array(t, np, name, n)
           [] elem = 4 -> of_property_read_u32_array(t, np, name, n)
           [] elem = 8 -> of_property_read_u64_array(t, np, name, n)
           [] OTHER -> [ret |-> ENXIO]

of_fwnode_property_read_string_array(t, np, name, n, counting) ==
    IF counting THEN [ret |-> of_property_count_strings(t, np, name)] ELSE of_property_read_string_array(t, np, name, n)

of_fwnode_get_named_child_node(t, np, name) ==
    FirstIn(Children(t, np), {c \in DOMAIN t : of_device_is_available(t, c) /\ of_node_name_eq(t, c, name)})

\* nargs counts what the list has, args is filled with zeros to its size.
ReferenceOf(r) ==
    IF r.ret < 0 THEN [ret |-> r.ret]
    ELSE [ret |-> 0, fwnode |-> r.np, nargs |-> Len(r.args),
          args |-> [i \in 1..NR_FWNODE_REFERENCE_ARGS |-> IF i <= Len(r.args) THEN r.args[i] ELSE 0]]
of_fwnode_get_reference_args(t, np, name, nargs_prop, nargs, index) ==
    ReferenceOf(IF nargs_prop # <<>> THEN of_parse_phandle_with_args(t, np, name, nargs_prop, index)
                ELSE of_parse_phandle_with_fixed_args(t, np, name, nargs, index))

\* Of a port, where of_graph_get_port_parent starts from an endpoint.
of_fwnode_graph_get_port_parent(t, port) ==
    LET np == of_get_parent(t, port) IN
    IF of_node_name_eq(t, np, "ports") THEN of_get_parent(t, np) ELSE np

of_fwnode_graph_parse_endpoint(t, node) == of_graph_parse_endpoint(t, node)
=============================================================================
