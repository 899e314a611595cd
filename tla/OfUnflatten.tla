----------------------------- MODULE OfUnflatten -----------------------------
(***************************************************************************)
(* From the blob to the live tree: src/lib/of/src/fdt.c.                   *)
(*                                                                         *)
(* __unflatten_device_tree walks the blob twice, once to learn how much    *)
(* memory the tree takes and once to fill it; each step below is one round *)
(* of the loop of unflatten_dt_nodes.  nps[d + 1] holds the last node       *)
(* populated at depth d and is read as the parent of the nodes below it.    *)
(* nps has an element more than the array in the code, so that a write past *)
(* the array can be seen.  After that, and where a node is linked below an  *)
(* entry nobody wrote, which holds whatever was on the stack, nothing is    *)
(* known of the memory and no step follows (Wild).                          *)
(* The tree is never unflattened below an existing node (dad is NULL).     *)
(***************************************************************************)
EXTENDS OfTree

CONSTANTS
    Blobs,            \* the blobs that may be given
    FDT_MAX_DEPTH,
    SizeofNode,       \* sizeof(struct device_node)
    SizeofProp,       \* sizeof(struct property)
    WordAlign,        \* the alignment of both
    Detached          \* of the unflattened tree

Garbage == -1

VARIABLES
    blob,
    pass,     \* "size", "fill", "done", or "failed"
    offset, depth,
    nps,
    mem,      \* bytes handed out in this pass
    size,     \* of the memory allocated after the first pass
    t,        \* the nodes in the memory, by their order in it
    root

flatVars == <<blob, pass, offset, depth, nps, mem, size, t, root>>

----------------------------------------------------------------------------

Align(n, a) == ((n + a - 1) \div a) * a

unflatten_dt_alloc(m, bytes) == Align(m, WordAlign) + bytes

\* The properties of a node in the blob, as the list built from them.
FlatProps(b, node) ==
    LET ps == Props(b, node) IN
    [i \in DOMAIN ps |-> [name |-> fdt_get_string(b, PropNameOff(b, ps[i])).str, val |-> ValueAt(b, ps[i])]]

\* With the name recreated from the unit name where there is none.
Nameful(flat) == \E i \in DOMAIN flat : flat[i].name = <<"name">>
Renamed(flat, base) ==
    IF Nameful(flat) THEN flat
    ELSE Append(flat, [name |-> <<"name">>, val |-> <<[sz |-> NameLen[base] + 1, str |-> base]>>])
NamedProps(b, node) ==
    Renamed(FlatProps(b, node), BaseOf[fdt_get_name(b, node)])

RECURSIVE AllocProps(_, _)
AllocProps(n, m) == IF n = 0 THEN m ELSE AllocProps(n - 1, unflatten_dt_alloc(m, SizeofProp))

\* The memory after populate_properties; a recreated name takes its bytes too.
AllocName(named, end, base) ==
    IF named THEN end ELSE unflatten_dt_alloc(end, SizeofProp + NameLen[base] + 1)

PropertiesEnd(b, node, m, dryrun) ==
    LET flat == FlatProps(b, node) IN
    AllocName(Nameful(flat), AllocProps(Len(flat), m), BaseOf[fdt_get_name(b, node)])

IBM_PHANDLE == <<"ibm,phandle">>

\* "ibm,phandle" sets it, "phandle" and "linux,phandle" while it is zero.
SetsPhandle(handle, p) == p.name = IBM_PHANDLE \/ (p.name \in {PHANDLE, LINUX_PHANDLE} /\ handle = 0)
PhandleOf(props) == FoldLeft(LAMBDA handle, p : IF SetsPhandle(handle, p) THEN p.val[1].u32 ELSE handle, 0, props)

\* populate_node with memory to fill: the node goes to the head of its parent's children.
NewNode(tree, name, props, dad) ==
    [full_name |-> name, parent |-> dad, child |-> NULL, sibling |-> IF dad = NULL THEN NULL ELSE tree[dad].child,
     phandle |-> PhandleOf(props), props |-> props, detached |-> FALSE]
PopulateNode(tree, b, node, dad) ==
    LET np == Cardinality(DOMAIN tree) + 1 IN
    [i \in 1..np |-> IF i = np THEN NewNode(tree, fdt_get_name(b, node), NamedProps(b, node), dad)
                     ELSE IF i = dad THEN [tree[i] EXCEPT !.child = np] ELSE tree[i]]

RECURSIVE Subtree(_, _)
Subtree(tree, np) == {np} \cup UNION {Subtree(tree, k) : k \in Range(Children(tree, np))}

\* Every list of children under r is turned round.
reverse_nodes(tree, r) ==
    LET under == Subtree(tree, r) IN
    [np \in DOMAIN tree |->
       LET kids == Children(tree, np)
           own == Children(tree, tree[np].parent)
           i == CHOOSE k \in DOMAIN own : own[k] = np
       IN  IF np \notin under THEN tree[np]
           ELSE [tree[np] EXCEPT !.child = IF kids = <<>> THEN NULL ELSE Last(kids),
                                 !.sibling = IF np = r THEN @ ELSE IF i = 1 THEN NULL ELSE own[i - 1]]]

----------------------------------------------------------------------------

StartPass(p) ==
    /\ pass' = p
    /\ offset' = 0
    /\ depth' = 0
    /\ nps' = [[i \in 0..FDT_MAX_DEPTH |-> Garbage] EXCEPT ![0] = NULL]
    /\ mem' = 0
    /\ root' = NULL

FlatStart ==
    /\ pass = IF fdt_check_header(HeaderOf(blob)) # 0 THEN "failed" ELSE "size"
    /\ offset = 0
    /\ depth = 0
    /\ nps = [[i \in 0..FDT_MAX_DEPTH |-> Garbage] EXCEPT ![0] = NULL]
    /\ mem = 0
    /\ size = 0
    /\ t = <<>>
    /\ root = NULL

FlatInit == blob \in Blobs /\ FlatStart

InLoop == pass \in {"size", "fill"} /\ offset >= 0 /\ depth >= 0

Advance ==
    LET r == fdt_next_node(blob, offset, depth, TRUE) IN offset' = r.off /\ depth' = r.depth

\* Too deep, or not available: the round does nothing.
Skipped == depth >= FDT_MAX_DEPTH \/ ~of_fdt_device_is_available(blob, offset)

Skip ==
    /\ InLoop
    /\ Skipped
    /\ Advance
    /\ UNCHANGED <<blob, pass, nps, mem, size, t, root>>

NodeEndAt(dryrun) ==
    PropertiesEnd(blob, offset, unflatten_dt_alloc(mem, SizeofNode + NameLen[fdt_get_name(blob, offset)] + 1), dryrun)

\* A round of the dry run: only the memory is counted.
CountNode ==
    /\ InLoop
    /\ pass = "size"
    /\ ~Skipped
    /\ mem' = NodeEndAt(TRUE)
    /\ nps' = [nps EXCEPT ![depth + 1] = NULL]
    /\ Advance
    /\ UNCHANGED <<blob, pass, size, t, root>>

FillNode ==
    /\ InLoop
    /\ pass = "fill"
    /\ ~Skipped
    /\ t' = PopulateNode(t, blob, offset, nps[depth])
    /\ mem' = NodeEndAt(FALSE)
    /\ nps' = [nps EXCEPT ![depth + 1] = Cardinality(DOMAIN t) + 1]
    /\ root' = IF root = NULL THEN Cardinality(DOMAIN t) + 1 ELSE root
    /\ Advance
    /\ UNCHANGED <<blob, pass, size>>

LoopEnds == pass \in {"size", "fill"} /\ (offset < 0 \/ depth < 0)

\* Between the passes: the size is rounded and the memory allocated, or not.
SizeKnown ==
    /\ LoopEnds
    /\ pass = "size"
    /\ \/ /\ offset >= 0 \/ offset = NOTFOUND
          /\ size' = Align(mem, 4)
          /\ StartPass("fill")
       \/ /\ pass' = "failed"
          /\ UNCHANGED <<offset, depth, nps, mem, size, root>>
    /\ UNCHANGED <<blob, t>>

\* The children are put into the order of the blob, and the tree is ready.
Filled ==
    /\ LoopEnds
    /\ pass = "fill"
    /\ LET r == IF offset < 0 /\ offset # NOTFOUND THEN t ELSE reverse_nodes(t, root) IN
       t' = IF Detached THEN [r EXCEPT ![root].detached = TRUE] ELSE r
    /\ pass' = "done"
    /\ UNCHANGED <<blob, offset, depth, nps, mem, size, root>>

\* The array was left, or the parent of the next node is not one of its entries.
Wild == \/ nps[FDT_MAX_DEPTH] # Garbage
        \/ InLoop /\ pass = "fill" /\ ~Skipped /\ nps[depth] = Garbage

FlatNext == ~Wild /\ (Skip \/ CountNode \/ FillNode \/ SizeKnown \/ Filled)

FlatSpec == FlatInit /\ [][FlatNext]_flatVars

----------------------------------------------------------------------------
(* The reference: the tree the blob spells, without what is not available. *)

Available(node) == STATUS \in DOMAIN node.props => node.props[STATUS][1].str \in {"ok", "okay"}

Named(node) ==
    IF <<"name">> \in DOMAIN node.props THEN node.props
    ELSE [q \in DOMAIN node.props \cup {<<"name">>} |->
            IF q \in DOMAIN node.props THEN node.props[q]
            ELSE <<[sz |-> NameLen[BaseOf[node.name]] + 1, str |-> BaseOf[node.name]]>>]

RECURSIVE Usable(_)
Usable(node) ==
    LET kids == SelectSeq(node.kids, Available) IN
    [name |-> node.name, props |-> Named(node), kids |-> [i \in DOMAIN kids |-> Usable(kids[i])]]

\* The tree the nodes spell.
RECURSIVE Spelled(_)
Spelled(np) ==
    [name |-> t[np].full_name,
     props |-> [q \in {t[np].props[i].name : i \in DOMAIN t[np].props} |-> of_get_property(t, np, q)],
     kids |-> LET kids == Children(t, np) IN [i \in DOMAIN kids |-> Spelled(kids[i])]]

\* The nodes of the blob that are entered, in its order, with their depths.
RECURSIVE EnteredFrom(_, _)
EnteredFrom(o, d) ==
    LET r == fdt_next_node(blob, o, d, TRUE) IN
    IF o < 0 \/ d < 0 THEN <<>>
    ELSE (IF d < FDT_MAX_DEPTH /\ of_fdt_device_is_available(blob, o) THEN <<[at |-> o, depth |-> d]>> ELSE <<>>)
           \o EnteredFrom(r.off, r.depth)

\* The last of them before the k-th that is one level above it; 0 for none.
AboveOf(es, k) == LET them == {j \in 1..k - 1 : es[j].depth = es[k].depth - 1} IN IF them = {} THEN 0 ELSE Max(them)

\* No available node is below one that is not.
RECURSIVE Closed(_)
Closed(node) == \A i \in DOMAIN node.kids : (Available(node.kids[i]) => Available(node)) /\ Closed(node.kids[i])

Ready == pass = "done"

\* The memory counted by the dry run is enough for the pass that fills it:
\* the end-of-tree marker behind it is not overwritten (__unflatten_device_tree).
MarkerIntact == pass \in {"fill", "done"} => mem <= size

BuiltFrom(es, spelled) ==
    /\ Len(t) = Len(es)
    /\ \A k \in DOMAIN es : t[k].parent = AboveOf(es, k)
    /\ \A np \in DOMAIN t : \A i \in DOMAIN Children(t, np) : t[Children(t, np)[i]].parent = np
    /\ Closed(spelled) => Spelled(root) = Usable(spelled)

\* Every available node is in the tree, under the last available node before it
\* that is one level up; where no available node is below one that is not, that
\* is the tree the blob spells, with its children in the order of the blob.  The
\* children of a node that is not available are not left out with it: they
\* come under another node of its depth (unflatten_dt_nodes).
TreeIsBlob == Ready => BuiltFrom(EnteredFrom(0, 0), Parse(blob))

Beside(es) == \E k \in DOMAIN es : es[k].depth = FDT_MAX_DEPTH - 1 \/ (es[k].depth > 0 /\ AboveOf(es, k) = 0)

\* The array of parents is left for a node at depth FDT_MAX_DEPTH - 1, the last
\* that "depth >= FDT_MAX_DEPTH" lets through, and an entry of it that nobody
\* wrote is used for a node that has no available node one level up before it;
\* for no other tree, and with deeper nodes left out (unflatten_dt_nodes).
NpsInBounds == (Wild => Beside(EnteredFrom(0, 0))) /\ (Ready => ~Beside(EnteredFrom(0, 0)))

-----------------------------------------------------------------------------
(***************************************************************************)
(* What the lookups of the live tree find, in every tree the blobs unflatten *)
(* to, against the tree itself and against the same lookups in the blob.    *)
(***************************************************************************)

CONSTANTS
    Lists,        \* names of properties that hold phandles with arguments
    CellsName,    \* the name of the property with the number of arguments
    Compats,      \* compatible strings asked for
    Tables,       \* tables of of_device_id
    Stems,        \* stems of aliases
    Cpus,         \* numbers of CPUs
    AliasPaths    \* paths that begin with an alias

RECURSIVE PathOf(_)
PathOf(np) == IF t[np].parent = NULL THEN <<>> ELSE Append(PathOf(t[np].parent), t[np].full_name)

FullPath(comps) == [alias |-> "", comps |-> comps, opts |-> FALSE]

\* The nodes, numbered in the order of the blob.
Nodes == 1..Len(t)

\* The nodes at and below one, each before the nodes below it.
RECURSIVE Preorder(_)
Preorder(np) == FoldLeft(LAMBDA s, kid : s \o Preorder(kid), <<np>>, SetToSortSeq({kid \in Nodes : t[kid].parent = np}, <))

\* The first node after one, in an order, that is in a set of nodes.
After(order, from, wanted) ==
    LET start == IF from = NULL THEN 0 ELSE CHOOSE i \in DOMAIN order : order[i] = from
        later == {i \in start + 1..Len(order) : order[i] \in wanted}
    IN IF later = {} THEN NULL ELSE order[Min(later)]

\* The walk over all nodes visits each node once, a node before the nodes below
\* it, and so every search that continues from the node it found last finds all
\* matching nodes. That is the order of the blob unless an available node is
\* below one that is not and so came under another (fdt.c:379)
\* (__of_find_all_nodes, for_each_of_allnodes_from).
WalkInOrder ==
    Ready =>
      LET order == Preorder(1)
          first(from, wanted) == After(order, from, wanted)
      IN
      /\ IF Closed(Parse(blob)) THEN order = [i \in Nodes |-> i] ELSE Len(order) = Len(t) /\ Range(order) = Nodes
      /\ \A from \in {NULL} \cup Nodes :
           /\ of_find_all_nodes(t, from) = first(from, Nodes)
           /\ \A c \in Compats :
                of_find_compatible_node(t, from, "", c)
                  = first(from, {np \in Nodes : \E i \in DOMAIN Strings(t, np, COMPATIBLE) : Strings(t, np, COMPATIBLE)[i] = c})
           /\ of_find_node_with_property(t, from, CellsName) = first(from, {np \in Nodes : HasProp(t, np, CellsName)})
           /\ \A name \in {BaseOf[t[np].full_name] : np \in Nodes} :
                of_find_node_by_name(t, from, name) = first(from, {np \in Nodes : BaseOf[t[np].full_name] = name})

\* The offset in the blob of each node.
Offsets(es) == [k \in DOMAIN es |-> es[k].at]

\* The phandle is stated in one property, which libfdt knows.
PlainPhandle(np) ==
    /\ ~HasProp(t, np, IBM_PHANDLE)
    /\ ~(HasProp(t, np, PHANDLE) /\ HasProp(t, np, LINUX_PHANDLE))

NodeOfOffset(at, o) == IF o \in Range(at) THEN CHOOSE np \in Nodes : at[np] = o ELSE NULL
FoundIn(at) ==
    /\ Closed(Parse(blob)) =>
         /\ \A np \in Nodes : /\ NodeOfOffset(at, fdt_path_offset(blob, PathOf(np))) = np
                              /\ of_find_node_opts_by_path(t, FullPath(PathOf(np))) = np
         /\ \A p \in AliasPaths : ~p.opts =>
              of_find_node_opts_by_path(t, p) = NodeOfOffset(at, AliasPathOffset(blob, <<p.alias>>, p.comps))
    /\ (\A np \in Nodes : PlainPhandle(np)) =>
         \A h \in 1..MaxPhandle - 1 : of_find_node_by_phandle(t, h) = NodeOfOffset(at, fdt_node_offset_by_phandle(blob, h))
    /\ \A c \in Compats : \A np \in Nodes :
         of_fdt_is_compatible(blob, at[np], c) > 0 <=> of_device_is_compatible(t, np, c, "", "") > 0

\* A node found in the blob and the node found in the tree are one and the same:
\* by path and by alias, unless some node is below one that is not available; by
\* phandle, where no node states two of them or an "ibm,phandle"; and by
\* compatible string (libfdt before the tree exists, of_find_node_by_* after).
FlatAndLiveAgree ==
    Ready => FoundIn(Offsets(EnteredFrom(0, 0)))

\* The entries a list spells: <<phandle, arguments>> each, until the end or the
\* first entry that cannot be read.
Unreadable == <<-1>>

RECURSIVE Entries(_)
Entries(words) ==
    IF words = <<>> THEN <<>>
    ELSE LET np == CHOOSE n \in Nodes : t[n].phandle = words[1].u32
             known == \E n \in Nodes : t[n].phandle = words[1].u32 /\ HasProp(t, n, CellsName)
             count == of_get_property(t, np, CellsName)[1].u32
         IN  IF words[1].u32 = 0 THEN <<<<NULL>>>> \o Entries(Tail(words))
             ELSE IF ~known \/ count >= Len(words) THEN <<Unreadable>>
             ELSE <<<<np, [i \in 1..count |-> words[i + 1].u32]>>>> \o Entries(SubSeq(words, count + 2, Len(words)))

EntryReadAs(r, e) ==
    IF e = Unreadable THEN r.ret = EINVAL
    ELSE IF e = <<NULL>> THEN r.ret = ENOENT
    ELSE r.ret = 0 /\ <<r.np, r.args>> = e

ListReadAs(np, list, es) ==
    LET bad == es # <<>> /\ Last(es) = Unreadable IN
    /\ of_count_phandle_with_args(t, np, list, CellsName) = IF bad THEN EINVAL ELSE Len(es)
    /\ \A i \in 0..Len(es) + 1 :
         EntryReadAs(of_parse_phandle_with_args(t, np, list, CellsName, i),
                     IF i < Len(es) THEN es[i + 1] ELSE IF bad THEN Unreadable ELSE <<NULL>>)

\* of_parse_phandle_with_args returns entry by entry what the list spells, and
\* of_count_phandle_with_args counts exactly the indices it answers for.
PhandleListsRead ==
    Ready =>
      \A np \in Nodes, list \in Lists : HasProp(t, np, list) =>
        ListReadAs(np, list, Entries(of_get_property(t, np, list)))

\* How well an entry of a table describes a node: a more specific compatible
\* string beats every other criterion, then the type, then the name.
Rank(np, m) ==
    LET s == Strings(t, np, COMPATIBLE) IN
    <<IF m.compatible = "" THEN Len(s) + 1 ELSE CHOOSE i \in DOMAIN s : s[i] = m.compatible /\ \A j \in 1..i - 1 : s[j] # m.compatible,
      IF m.type = "" THEN 1 ELSE 0, IF m.name = "" THEN 1 ELSE 0>>

Fits(np, m) ==
    /\ m.compatible # "" => \E i \in DOMAIN Strings(t, np, COMPATIBLE) : Strings(t, np, COMPATIBLE)[i] = m.compatible
    /\ m.type # "" => of_node_is_type(t, np, m.type)
    /\ m.name # "" => BaseOf[t[np].full_name] = m.name
    /\ ~(m.compatible = "" /\ m.type = "" /\ m.name = "")

Before(a, b) == \E i \in 1..3 : a[i] < b[i] /\ \A j \in 1..i - 1 : a[j] = b[j]

BestIn(fits, rank, k) ==
    IF fits = {} THEN k = 0
    ELSE k \in fits /\ \A i \in fits \ {k} : Before(rank[k], rank[i]) \/ (rank[k] = rank[i] /\ k < i)

\* of_match_node picks the entry that describes the node best, the first such
\* entry of the table, and finds one whenever there is one.
BestEntryMatches ==
    Ready =>
      \A np \in Nodes, m \in Tables :
        BestIn({i \in DOMAIN m : Fits(np, m[i])}, [i \in DOMAIN m |-> Rank(np, m[i])], of_match_node(t, np, m))

ListsIds(r, ids) == r.bits = ids \cap {0, 1} /\ (r.ret = 0 <=> ids \subseteq {0, 1})

NumberedBy(lookup, stem, ids) ==
    /\ {of_alias_get_id(lookup, np, stem) : np \in Nodes} \ {ENODEV} \subseteq ids
    /\ \A id \in ids : of_alias_get_highest_id(lookup, stem) >= id
    /\ ListsIds(of_alias_get_alias_list(t, lookup, <<[compatible |-> "", type |-> "", name |-> "dev"]>>, stem, 2), ids)

\* Each alias gives its node its number, the highest number of a stem is the
\* number of some node, and a bitmap of them misses only what it reports not to
\* hold (of_alias_scan, of_alias_get_id, of_alias_get_alias_list).
AliasesNumbered ==
    Ready =>
      \A stem \in Stems :
        NumberedBy(of_alias_scan(t), stem,
          {AliasOf[a].id : a \in {x \in DOMAIN AliasOf : AliasOf[x].stem = stem /\ AliasOf[x].id >= 0
             /\ of_find_node_opts_by_path(t, [alias |-> x[1], comps |-> <<>>, opts |-> FALSE]) # NULL}})

HoldsAt(v, at, cpu) == at > 0 /\ at <= Len(v) /\ v[at].u32 = cpu
HoldsCpu(np, tid, cpu) == HasProp(t, np, REG) /\ HoldsAt(of_get_property(t, np, REG), (tid + 1) * of_n_addr_cells(t, np), cpu)
FoundAsCpu(r, cpu, cpus) ==
    IF r.np = NULL THEN \A np \in cpus, tid \in 0..3 : ~HoldsCpu(np, tid, cpu)
    ELSE r.np \in cpus /\ (HoldsCpu(r.np, r.thread, cpu) \/ (cpu = 0 /\ of_n_addr_cells(t, r.np) = 0))

\* A CPU's node is under /cpus and its reg holds the number at the thread
\* returned; no CPU node that holds the number is missed (of_get_cpu_node).
CpuNodesFound ==
    Ready =>
      \A cpu \in Cpus :
        FoundAsCpu(of_get_cpu_node(t, cpu), cpu, {np \in CpuNodes(t) : PathOf(np) = <<"cpus", t[np].full_name>>})

NoPath == <<"">>

\* The node at a path; NULL for none.
NodeAt(comps) == LET them == {np \in Nodes : PathOf(np) = comps} IN IF them = {} THEN NULL ELSE Min(them)

AliasedBy(al, name) == IF al = NULL THEN NoPath ELSE IF HasProp(t, al, <<name>>) THEN of_get_property(t, al, <<name>>)[1].path ELSE NoPath

\* A path that begins with an alias leads to the node under the aliased one
\* ("foo/bar Valid alias + relative path"), and a path with options to the node
\* without them ("options string appended to the end of the path with a ':'
\* separator"); but not both: of a path with a relative part and options
\* everything up to the ':' is taken for the alias, and nothing is found, as for
\* options behind "/" (of_find_node_opts_by_path).
AliasPathsFind ==
    Ready =>
      \A p \in AliasPaths :
        LET top == IF p.alias = "" THEN <<>> ELSE AliasedBy(NodeAt(<<ALIASES>>), p.alias)
            lost == p.opts /\ (p.alias = "" <=> p.comps = <<>>)
        IN  of_find_node_opts_by_path(t, p) = IF lost \/ top = NoPath THEN NULL ELSE NodeAt(top \o p.comps)

-----------------------------------------------------------------------------
(***************************************************************************)
(* What the readers of properties and of graphs of ports return, in every  *)
(* tree the blobs unflatten to.                                            *)
(***************************************************************************)

CONSTANTS
    IntProps,     \* property name -> size of the integers it holds
    StrProps,     \* names of properties that hold strings
    Asked,        \* strings searched for
    Indices       \* indices asked for

\* Whole elements of a value.
ElemsOf(v, elem) == ValLen(v) \div elem

\* The array readers accept exactly the values whose length is within the
\* bounds, return as many elements as they promise, and never read behind the
\* value (of_property_read_variable_u*_array, of_find_property_value_of_size).
ArraysWithinValue ==
    Ready =>
      \A np \in Nodes, name \in DOMAIN IntProps, lo \in 0..3, hi \in 0..3 : HasProp(t, np, name) =>
        LET e == IntProps[name]
            v == of_get_property(t, np, name)
            r == ReadVariableArray(t, np, name, e, lo, hi)
            fits == ValLen(v) >= lo * e /\ (hi = 0 \/ ValLen(v) <= hi * e)
        IN  /\ r.ret >= 0 <=> fits
            /\ fits => /\ r.val # Beyond
                       /\ r.ret = IF hi = 0 THEN lo ELSE ElemsOf(v, e)
                       /\ hi # 0 => r.ret \in lo..hi
            /\ of_fwnode_property_read_int_array(t, np, name, e, lo, FALSE).ret = (IF ValLen(v) >= lo * e THEN 0 ELSE EOVERFLOW)
            /\ LET n == of_fwnode_property_read_int_array(t, np, name, e, 0, TRUE).ret IN
               n >= 0 => of_fwnode_property_read_int_array(t, np, name, e, n, FALSE).ret = 0

\* The words the iterator of_property_for_each_u32 visits.
RECURSIVE WordsFrom(_, _)
WordsFrom(v, cur) ==
    LET c == of_prop_next_u32(v, cur) IN IF c = NULL THEN <<>> ELSE <<v[c].u32>> \o WordsFrom(v, c)

\* Strings are found by index and by value exactly where the list has them: up
\* to a string that is not terminated, which ends every search that reaches it
\* with -EILSEQ (of_property_read_string_helper, of_property_match_string).
StringsRead ==
    Ready =>
      \A np \in Nodes, name \in StrProps : HasProp(t, np, name) =>
        LET v == of_get_property(t, np, name)
            good == CHOOSE n \in 0..Len(v) : (\A i \in 1..n : Terminated(v[i])) /\ (n < Len(v) => ~Terminated(v[n + 1]))
        IN  /\ \A i \in 0..Len(v) :
                 LET r == of_property_read_string_index(t, np, name, i) IN
                 IF i < good THEN r.ret = 0 /\ r.strs = <<v[i + 1].str>>
                 ELSE r.ret = IF good < Len(v) THEN EILSEQ ELSE ENODATA
            /\ of_property_count_strings(t, np, name) = (IF good < Len(v) THEN EILSEQ ELSE IF good = 0 THEN ENODATA ELSE good)
            /\ \A s \in Asked :
                 LET at == {i \in 1..good : v[i].str = s} IN
                 of_property_match_string(t, np, name, s)
                   = IF at # {} THEN Min(at) - 1
                     ELSE IF good < Len(v) THEN EILSEQ ELSE ENODATA
            /\ of_property_read_string(t, np, name).ret = 0 <=> good > 0
            /\ \A n \in 1..Len(v) : LET r == of_property_read_string_array(t, np, name, n) IN
                                    r.ret >= 0 <=> good >= n

\* The endpoints of a device: the children of its ports.
PortsUnder(np) == LET p == PortsOf(t, np) IN SelectSeq(Children(t, p), LAMBDA c : of_node_name_eq(t, c, "port"))

RECURSIVE ChildrenOfAll(_)
ChildrenOfAll(ports) == IF ports = <<>> THEN <<>> ELSE Children(t, ports[1]) \o ChildrenOfAll(Tail(ports))

\* The iteration visits every endpoint of every port of a device once and in
\* order, through ports that have none, and a search by port and endpoint
\* number finds the first that has them (of_graph_get_next_endpoint,
\* of_graph_get_endpoint_by_regs).
EndpointsOnce ==
    Ready =>
      \A np \in Nodes :
        LET es == ChildrenOfAll(PortsUnder(np)) IN
        /\ Endpoints(t, np) = es
        /\ \A port \in -1..1, reg \in -1..1 :
             LET e == of_graph_get_endpoint_by_regs(t, np, port, reg)
                 Is(x) == /\ port = -1 \/ RegOf(t, t[x].parent) = port
                          /\ reg = -1 \/ RegOf(t, x) = reg
                 hits == {i \in DOMAIN es : Is(es[i])}
             IN  e = IF hits = {} THEN NULL ELSE es[Min(hits)]

RemoteIs(dev, e, far, device) ==
    far # NULL =>
      /\ far \in Range(Endpoints(t, device))
      /\ t[device].full_name # "ports"
      /\ of_graph_get_remote_port(t, e) = t[far].parent
      /\ of_fwnode_graph_get_port_parent(t, t[far].parent) = device
      /\ of_graph_get_remote_node(t, dev, RegOf(t, t[e].parent), RegOf(t, e)) = device

\* From an endpoint to the device of its remote endpoint and back: the device
\* is the node whose endpoints include the remote one, with a "ports" node in
\* between or not, and the fwnode functions agree (of_graph_get_port_parent,
\* of_fwnode_graph_get_port_parent).
RemoteDeviceFound ==
    Ready =>
      \A dev \in Nodes : \A i \in DOMAIN Endpoints(t, dev) :
        LET e == Endpoints(t, dev)[i] IN
        t[dev].full_name # "ports" => RemoteIs(dev, e, of_graph_get_remote_endpoint(t, e), of_graph_get_remote_port_parent(t, e))

\* "-EOVERFLOW if the property data isn't large enough": an integer read by its
\* index is one of the value's (of_property_read_u32_index, _u64_index).
IndexWithinValue ==
    Ready =>
      \A np \in Nodes, name \in DOMAIN IntProps, i \in Indices : IntProps[name] \in {4, 8} /\ HasProp(t, np, name) =>
        LET r == ReadIndex(t, np, name, i, IntProps[name]) IN
        IF (i + 1) * IntProps[name] <= ValLen(of_get_property(t, np, name)) THEN r.ret = 0 /\ r.val # Beyond
        ELSE r.ret = EOVERFLOW

-----------------------------------------------------------------------------
(***************************************************************************)
(* Addresses of devices: src/lib/of/src/fdt_address.c for the blob and     *)
(* src/lib/of/src/address.c for the live tree.                             *)
(*                                                                         *)
(* An address is a sequence of cells, as the value it was copied from.     *)
(***************************************************************************)

OF_MAX_ADDR_CELLS == 4
OF_BAD_ADDR == U64 - 1
RANGES == <<"ranges">>
DMA_RANGES == <<"dma-ranges">>
REG_NAMES == <<"reg-names">>
DMA_COHERENT == <<"dma-coherent">>

OF_CHECK_COUNTS(na, ns) == na > 0 /\ na <= OF_MAX_ADDR_CELLS /\ ns > 0

From(v, i) == SubSeq(v, i + 1, Len(v))

Zeroes(n) == [i \in 1..n |-> U32(0)]

----------------------------------------------------------------------------
(* Bus translators; only the default one is reached *)

\* The offset of an address in a range, or OF_BAD_ADDR.
DefaultMap(addr, range, na, ns, pna) ==
    LET cp == of_read_number(range, 1, na)
        s == of_read_number(range, na + pna + 1, ns)
        da == of_read_number(addr, 1, na)
    IN  IF da < cp \/ da >= (cp + s) % U64 THEN OF_BAD_ADDR ELSE da - cp

\* The low two cells hold the sum, the others are cleared.
DefaultTranslate(addr, off, na) ==
    LET a == (of_read_number(addr, 1, na) + off) % U64 IN
    [i \in 1..na |-> U32(IF i = na THEN a % Radix ELSE IF i = na - 1 THEN a \div Radix ELSE 0)]

of_match_bus(np) == IF of_node_name_eq(t, np, "isa") THEN "isa" ELSE "default"

count_cells(bus, dev) ==
    IF bus = "isa" THEN [na |-> 2, ns |-> 1] ELSE [na |-> of_n_addr_cells(t, dev), ns |-> of_n_size_cells(t, dev)]

get_flags(bus, addr) == IF bus = "isa" /\ addr[1].u32 % 2 = 1 THEN "IO" ELSE "MEM"

\* The first range an address is in.
RECURSIVE WalkRanges(_, _, _, _, _)
WalkRanges(addr, ranges, na, ns, pna) ==
    LET rone == na + pna + ns
        off == DefaultMap(addr, ranges, na, ns, pna)
    IN  IF Len(ranges) < rone THEN [off |-> OF_BAD_ADDR]
        ELSE IF off # OF_BAD_ADDR THEN [off |-> off, at |-> ranges]
        ELSE WalkRanges(addr, From(ranges, rone), na, ns, pna)

----------------------------------------------------------------------------
(* The blob *)

\* dt_root_addr_cells and dt_root_size_cells.
CellOr(v, default) == IF v.len >= 0 THEN v.val[1].u32 ELSE default

BusCells(b, node, na, ns) ==
    [na |-> CellOr(fdt_getprop(b, node, ADDRESS_CELLS), na), ns |-> CellOr(fdt_getprop(b, node, SIZE_CELLS), ns)]

early_init_dt_scan_root(b) == BusCells(b, 0, 1, 1)

fdt_bus_default_count_cells(b, parent) ==
    LET root_cells == early_init_dt_scan_root(b) IN BusCells(b, parent, root_cells.na, root_cells.ns)

\* <<>> when the address cannot be translated.
ThroughRanges(ranges, addr, na, ns, pna) ==
    LET hit == WalkRanges(addr, ranges.val, na, ns, pna) IN
    IF ranges.len < 0 THEN <<>>
    ELSE IF ranges.len = 0 THEN DefaultTranslate(Zeroes(pna), of_read_number(addr, 1, na), pna)
    ELSE IF hit.off = OF_BAD_ADDR THEN <<>>
    ELSE DefaultTranslate(SubSeq(hit.at, na + 1, na + pna), hit.off, pna)

fdt_translate_one(b, bus, addr, na, ns, pna) == ThroughRanges(fdt_getprop(b, bus, RANGES), addr, na, ns, pna)

\* An address below bus, whose parent is given; <<>> is none.
RECURSIVE TranslateUp(_, _, _, _, _)
TranslateIn(b, bus, addr, cells, parent, up) ==
    IF ~OF_CHECK_COUNTS(up.na, up.ns) THEN OF_BAD_ADDR
    ELSE TranslateUp(b, parent, fdt_translate_one(b, bus, addr, cells.na, cells.ns, up.na), up, fdt_parent_offset(b, parent))
TranslateUp(b, bus, addr, cells, parent) ==
    IF addr = <<>> THEN OF_BAD_ADDR
    ELSE IF parent < 0 THEN of_read_number(addr, 1, cells.na)
    ELSE TranslateIn(b, bus, addr, cells, parent, fdt_bus_default_count_cells(b, parent))

RegOnBus(b, reg, bus, cells) ==
    IF reg.len < 0 \/ bus < 0 \/ ~OF_CHECK_COUNTS(cells.na, cells.ns) THEN OF_BAD_ADDR
    ELSE TranslateUp(b, bus, SubSeq(reg.val, 1, cells.na), cells, fdt_parent_offset(b, bus))

fdt_translate_address(b, node) ==
    LET parent == fdt_parent_offset(b, node) IN
    RegOnBus(b, fdt_getprop(b, node, REG), parent, fdt_bus_default_count_cells(b, parent))

----------------------------------------------------------------------------
(* The live tree *)

Panicked == -1
Faulted == -2

\* Below a bus other than the root the translation panics.
of_translate_address(dev, in_addr) ==
    LET parent == of_get_parent(t, dev)
        cells == count_cells(of_match_bus(parent), dev)
    IN  IF parent = NULL \/ ~OF_CHECK_COUNTS(cells.na, cells.ns) THEN OF_BAD_ADDR
        ELSE IF of_get_parent(t, parent) = NULL THEN of_read_number(in_addr, 1, cells.na)
        ELSE Panicked

\* The address of that index, with its size and flags; at = <<>> for none.
of_get_address(dev, index) ==
    LET parent == of_get_parent(t, dev)
        bus == of_match_bus(parent)
        cells == count_cells(bus, dev)
        prop == of_get_property(t, dev, REG)
        at == index * (cells.na + cells.ns)
    IN  IF \/ parent = NULL \/ cells.na <= 0 \/ cells.na > OF_MAX_ADDR_CELLS
           \/ ~HasProp(t, dev, REG) \/ index < 0
           \/ at + cells.na + cells.ns > ValLen(prop) \div 4
        THEN [at |-> <<>>]
        ELSE [at |-> From(prop, at), size |-> of_read_number(prop, at + cells.na + 1, cells.ns),
              flags |-> get_flags(bus, From(prop, at))]

ResourceAt(dev, a, start, named) ==
    IF a.flags # "MEM" \/ start = OF_BAD_ADDR THEN [ret |-> EINVAL]
    ELSE IF start = Panicked THEN [ret |-> Panicked]
    ELSE [ret |-> 0, start |-> start, end |-> (start + a.size - 1) % U64,
          name |-> IF named.ret = 0 THEN named.strs[1] ELSE t[dev].full_name]

ResourceOf(dev, index, a) ==
    IF a.at = <<>> THEN [ret |-> EINVAL]
    ELSE ResourceAt(dev, a, of_translate_address(dev, a.at), of_property_read_string_index(t, dev, REG_NAMES, index))

of_address_to_resource(dev, index) == ResourceOf(dev, index, of_get_address(dev, index))

RECURSIVE FindByAddress(_, _, _)
FoundAt(r, dn, matches, base) ==
    IF r.ret = Panicked THEN Panicked
    ELSE IF r.ret = 0 /\ r.start = base THEN dn
    ELSE FindByAddress(of_find_matching_node_and_match(t, dn, matches), matches, base)
FindByAddress(dn, matches, base) ==
    IF dn = NULL THEN NULL ELSE FoundAt(of_address_to_resource(dn, 0), dn, matches, base)

of_find_matching_node_by_address(from, matches, base) ==
    FindByAddress(of_find_matching_node_and_match(t, from, matches), matches, base)

\* The range mapped; -1 for none.
RangeOf(r) == IF r.ret # 0 THEN [start |-> -1] ELSE [start |-> r.start, size |-> (r.end - r.start + 1) % U64]

of_iomap(np, index) == RangeOf(of_address_to_resource(np, index))

\* Up to the first "dma-ranges" that is not empty, or to a bus without it:
\* the bus below which it was looked for, and that bus, NULL above the root.
RECURSIVE DmaBus(_, _)
DmaBus(node, seen) ==
    LET up == of_get_parent(t, node) IN
    IF up = NULL THEN [below |-> node, bus |-> NULL, found |-> seen]
    ELSE IF ~HasProp(t, up, DMA_RANGES) THEN [below |-> node, bus |-> up, found |-> FALSE]
    ELSE IF of_get_property(t, up, DMA_RANGES) = <<>> THEN DmaBus(up, TRUE)
    ELSE [below |-> node, bus |-> up, found |-> TRUE]

of_dma_get_range(np) ==
    LET d == DmaBus(np, FALSE)
        ranges == of_get_property(t, d.bus, DMA_RANGES)
        naddr == of_n_addr_cells(t, d.below)
        nsize == of_n_size_cells(t, d.below)
        paddr == of_translate_address(np, ranges)
    IN  IF ~d.found THEN [ret |-> ENODEV]
        ELSE IF d.bus = NULL THEN [ret |-> Faulted]
        ELSE IF paddr = Panicked THEN [ret |-> Panicked]
        ELSE IF paddr = OF_BAD_ADDR THEN [ret |-> EINVAL]
        ELSE [ret |-> 0, dma_addr |-> of_read_number(ranges, 1, naddr), paddr |-> paddr,
              size |-> of_read_number(ranges, naddr + of_n_addr_cells(t, d.bus) + 1, nsize)]

RECURSIVE of_dma_is_coherent(_)
of_dma_is_coherent(node) ==
    node # NULL /\ (of_property_read_bool(t, node, DMA_COHERENT) \/ of_dma_is_coherent(of_get_parent(t, node)))

----------------------------------------------------------------------------
(* The reference: numbers, and mappings of numbers. *)

Cell(np, name, default) == IF HasProp(t, np, name) THEN of_get_property(t, np, name)[1].u32 ELSE default

\* The cells a bus gives its children, with the root's for the ones it does not state.
NA(bus) == Cell(bus, ADDRESS_CELLS, Cell(1, ADDRESS_CELLS, 1))
NS(bus) == Cell(bus, SIZE_CELLS, Cell(1, SIZE_CELLS, 1))

AddrOf(device) == IF HasProp(t, device, REG) THEN of_get_property(t, device, REG) ELSE <<>>

\* A number from cells, the most significant first; 64 bits are kept.
RECURSIVE Number(_)
Number(v) == IF v = <<>> THEN 0 ELSE (Number(SubSeq(v, 1, Len(v) - 1)) * Radix + v[Len(v)].u32) % U64

\* What fits in the cells of an address.
Kept(x, na) == IF na = 1 THEN x % Radix ELSE x % U64

\* The ranges of a bus, in order: child address, parent address and size.
RangeIn(r, na, pna, one) ==
    [child |-> Number(SubSeq(r, 1, na)), parent |-> Number(SubSeq(r, na + 1, na + pna)),
     size |-> Number(SubSeq(r, na + pna + 1, one))]
RangesIn(v, na, pna, one) == [i \in 1..(Len(v) \div one) |-> RangeIn(From(v, (i - 1) * one), na, pna, one)]
RangesOf(bus, na, pna) == RangesIn(of_get_property(t, bus, RANGES), na, pna, na + pna + NS(bus))

\* The address on the CPU's bus of an address on a bus.
RECURSIVE OnCpuBus(_, _)
ByFirstRange(rs, x) ==
    LET hits == {i \in DOMAIN rs : rs[i].child <= x /\ x < rs[i].child + rs[i].size}
        first == rs[Min(hits)]
    IN  IF rs = <<>> THEN x ELSE IF hits = {} THEN OF_BAD_ADDR ELSE first.parent + (x - first.child)
OneUp(up, x) == IF x = OF_BAD_ADDR THEN x ELSE OnCpuBus(up, Kept(x, NA(up)))
OnCpuBus(bus, x) ==
    LET up == t[bus].parent IN
    IF up = NULL THEN x
    ELSE IF ~OF_CHECK_COUNTS(NA(up), NS(up)) \/ ~HasProp(t, bus, RANGES) THEN OF_BAD_ADDR
    ELSE OneUp(up, ByFirstRange(RangesOf(bus, NA(bus), NA(up)), x))

CpuAddress(dev) ==
    LET bus == t[dev].parent IN
    IF bus = NULL \/ ~HasProp(t, dev, REG) THEN OF_BAD_ADDR
    ELSE IF ~OF_CHECK_COUNTS(NA(bus), NS(bus)) THEN OF_BAD_ADDR
    ELSE OnCpuBus(bus, Number(SubSeq(of_get_property(t, dev, REG), 1, NA(bus))))

TranslatedAt(at) == \A np \in Nodes : fdt_translate_address(blob, at[np]) = CpuAddress(np)

\* Before the tree exists, an address is translated through every bus up to the
\* root: across buses of different widths, through empty ranges, by the first
\* range it is in, and not at all where a bus has none ("this walks up the tree
\* and applies the various bus mappings on the way", fdt_translate_address).
\* The tree says the same, unless some node is below one that is not available.
FlatTranslation ==
    Ready => (Closed(Parse(blob)) => TranslatedAt(Offsets(EnteredFrom(0, 0))))

\* The i-th register of v is the resource r, or r is none where v has no such register.
RegIsResource(v, i, na, one, r, mapped) ==
    LET reg == From(v, i * one)
        start == Number(SubSeq(reg, 1, na))
        length == Number(SubSeq(reg, na + 1, one))
    IN  IF i < Len(v) \div one /\ start # OF_BAD_ADDR
        THEN r.start = start /\ r.end = (start + length - 1) % U64 /\ mapped.size = length
        ELSE r.ret = EINVAL

\* Where the blob said the device is; a device it is compatible with is found there.
FirstIsPlace(np, offs, r) ==
    r.ret = 0 =>
      /\ r.start = fdt_translate_address(blob, offs[np])
      /\ of_device_is_compatible(t, np, "dev", "", "") > 0 =>
           \E dn \in 1..np :
              /\ dn = of_find_matching_node_by_address(NULL, <<[compatible |-> "dev", type |-> "", name |-> ""]>>, r.start)
              /\ CpuAddress(dn) = CpuAddress(np)

OnRootBus(at) ==
    \A np \in {n \in Nodes : t[n].parent = 1} :
      /\ \A i \in 0..3 :
           RegIsResource(AddrOf(np), i, NA(1), NA(1) + NS(1), of_address_to_resource(np, i), of_iomap(np, i))
      /\ FirstIsPlace(np, at, of_address_to_resource(np, 0))

\* The resources of a device on the root bus are its registers, in order and to
\* the last one that is complete, and start where the blob said the device is;
\* their first addresses find the device again, or another that is at the same
\* place (of_address_to_resource, of_find_matching_node_by_address, of_iomap).
ResourcesAreRegs == Ready /\ OF_CHECK_COUNTS(NA(1), NS(1)) => OnRootBus(Offsets(EnteredFrom(0, 0)))

\* The buses above a node, the nearest first.
RECURSIVE BusesAbove(_)
BusesAbove(np) == IF t[np].parent = NULL THEN <<>> ELSE <<t[np].parent>> \o BusesAbove(t[np].parent)

\* What is answered from v, the "dma-ranges" that decides: "-ENODEV if
\* "dma-ranges" property was not found".
DmaFrom(r, buses, v) ==
    IF Len(buses) > 1 THEN r.ret \in {Panicked, EINVAL}
    ELSE r = [ret |-> 0, dma_addr |-> Number(SubSeq(v, 1, NA(1))), paddr |-> Number(SubSeq(v, 1, NA(1))),
              size |-> Number(SubSeq(v, 2 * NA(1) + 1, 2 * NA(1) + NS(1)))]

\* The nearest bus whose "dma-ranges" is missing or not empty decides about a
\* device.  Only on the root bus is there an answer, the first range with its
\* DMA address as the CPU address; below another bus the translation panics.
\* Where all buses up to the root have empty ranges the code goes on with no
\* bus at all, and faults (of_dma_get_range).
DmaRangeAnswered ==
    Ready =>
      \A np \in Nodes :
        LET buses == BusesAbove(np)
            decide == {i \in DOMAIN buses : HasProp(t, buses[i], DMA_RANGES) => of_get_property(t, buses[i], DMA_RANGES) # <<>>}
            bus == buses[Min(decide)]
            r == of_dma_get_range(np)
        IN  IF buses = <<>> THEN r.ret = ENODEV
            ELSE IF decide = {} THEN r.ret = Faulted
            ELSE IF ~HasProp(t, bus, DMA_RANGES) THEN r.ret = ENODEV
            ELSE DmaFrom(r, buses, of_get_property(t, bus, DMA_RANGES))

-----------------------------------------------------------------------------
(***************************************************************************)
(* Resolving the interrupts of a device through the interrupt tree:        *)
(* src/lib/of/src/irq.c.                                                   *)
(*                                                                         *)
(* A cell of a mask is all ones or zero.  A loop of interrupt parents      *)
(* would keep the code walking; the trees have none.                       *)
(***************************************************************************)

INTERRUPT_PARENT == <<"interrupt-parent">>
INTERRUPT_CELLS == <<"#interrupt-cells">>
INTERRUPT_CONTROLLER == <<"interrupt-controller">>
INTERRUPT_MAP == <<"interrupt-map">>
INTERRUPT_MAP_MASK == <<"interrupt-map-mask">>
INTERRUPTS == <<"interrupts">>
INTERRUPTS_EXTENDED == <<"interrupts-extended">>
EFAULT == -14

Words(v) == [i \in DOMAIN v |-> v[i].u32]

----------------------------------------------------------------------------

\* By phandle or up the tree, to the first node that states #interrupt-cells.
RECURSIVE of_irq_find_parent(_)
of_irq_find_parent(child) ==
    IF child = NULL THEN NULL
    ELSE LET r == of_property_read_u32(t, child, INTERRUPT_PARENT)
             p == IF r.ret = 0 THEN of_find_node_by_phandle(t, r.u32) ELSE of_get_parent(t, child)
         IN  IF p = NULL \/ HasProp(t, p, INTERRUPT_CELLS) THEN p ELSE of_irq_find_parent(p)

\* The node from which the specifier is read.
RECURSIVE StartFrom(_)
StartFrom(ipar) ==
    IF ipar = NULL \/ of_property_read_u32(t, ipar, INTERRUPT_CELLS).ret = 0 THEN ipar ELSE StartFrom(of_irq_find_parent(ipar))

\* #address-cells of a node or of the nearest ancestor that has them, else 2.
RECURSIVE AddrSize(_)
AddrSize(old) ==
    IF old = NULL THEN 2
    ELSE IF HasProp(t, old, ADDRESS_CELLS) THEN of_get_property(t, old, ADDRESS_CELLS)[1].u32
    ELSE AddrSize(of_get_parent(t, old))

\* One round of the loop over an interrupt-map: the parent an entry names, and
\* what its specifier is translated to.
EntryTo(imap, keysize, same, newpar, newaddr, cells) ==
    LET width == newaddr + cells.u32 IN
    IF cells.ret # 0 THEN [rc |-> EINVAL]
    ELSE IF width > MAX_PHANDLE_ARGS \/ Len(imap) - keysize - 1 < width THEN [rc |-> EFAULT]
    ELSE [rc |-> 0, match |-> same /\ of_device_is_available(t, newpar), newpar |-> newpar,
          newaddr |-> newaddr, newint |-> cells.u32,
          spec |-> Words(SubSeq(imap, keysize + 2, keysize + 1 + width)), rest |-> From(imap, keysize + 1 + width)]

U32Or(r, default) == IF r.ret = 0 THEN r.u32 ELSE default

EntryFor(imap, keysize, same, newpar) ==
    IF newpar = NULL THEN [rc |-> EINVAL]
    ELSE EntryTo(imap, keysize, same, newpar, U32Or(of_property_read_u32(t, newpar, ADDRESS_CELLS), 0),
                 of_property_read_u32(t, newpar, INTERRUPT_CELLS))

MapEntry(imap, keysize, key, mask) ==
    EntryFor(imap, keysize, \A i \in 1..keysize : mask[i] # 0 => key[i] = imap[i].u32,
             of_find_node_by_phandle(t, imap[keysize + 1].u32))

RECURSIVE LastEntryWins(_, _, _, _)
LastEntryWins(imap, keysize, key, mask) ==
    LET e == MapEntry(imap, keysize, key, mask)
        r == LastEntryWins(e.rest, keysize, key, mask)
    IN  IF Len(imap) <= keysize + 1 THEN [rc |-> EINVAL]
        ELSE IF e.rc # 0 THEN e
        ELSE IF r.rc = 0 THEN r ELSE IF e.match THEN e ELSE [rc |-> EINVAL]

\* The first entry that matches; an entry that cannot be read before it is an error.
RECURSIVE WalkMap(_, _, _, _)
EntryOrNext(e, keysize, key, mask) == IF e.rc # 0 \/ e.match THEN e ELSE WalkMap(e.rest, keysize, key, mask)
WalkMap(imap, keysize, key, mask) ==
    IF Len(imap) <= keysize + 1 THEN [rc |-> EINVAL]
    ELSE EntryOrNext(MapEntry(imap, keysize, key, mask), keysize, key, mask)

\* The loop of of_irq_parse_raw: key holds addrsize cells of the address and the specifier.
RECURSIVE WalkTree(_, _, _, _, _, _)
MaskOf(ipar, keysize) ==
    IF HasProp(t, ipar, INTERRUPT_MAP_MASK) THEN Words(of_get_property(t, ipar, INTERRUPT_MAP_MASK))
    ELSE [i \in 1..keysize |-> 1]
WalkOn(e, hasaddr) ==
    IF e.rc # 0 THEN [rc |-> e.rc]
    ELSE WalkTree(e.newpar, e.spec, e.newaddr, e.newint, hasaddr, From(e.spec, e.newaddr))
WalkTree(ipar, key, addrsize, intsize, hasaddr, args) ==
    IF ipar = NULL THEN [rc |-> ENOENT]
    ELSE IF of_property_read_bool(t, ipar, INTERRUPT_CONTROLLER) THEN [rc |-> 0, np |-> ipar, args |-> args]
    ELSE IF addrsize > 0 /\ ~hasaddr THEN [rc |-> EINVAL]
    ELSE IF ~HasProp(t, ipar, INTERRUPT_MAP)
         THEN WalkTree(of_irq_find_parent(ipar), key, addrsize, intsize, hasaddr, args)
    ELSE WalkOn(WalkMap(of_get_property(t, ipar, INTERRUPT_MAP), addrsize + intsize, key, MaskOf(ipar, addrsize + intsize)),
                hasaddr)

\* out_irq->np is set only when the walk goes on
FromStart(r, ipar, np) == IF r.rc = 0 /\ r.np = ipar THEN [r EXCEPT !.np = np] ELSE r

RawFrom(addr, np, args, ipar, intsize, addrsize) ==
    IF Len(args) # intsize THEN [rc |-> EINVAL]
    ELSE IF addrsize + intsize > MAX_PHANDLE_ARGS THEN [rc |-> EFAULT]
    ELSE FromStart(WalkTree(ipar, [i \in 1..addrsize |-> IF addr = <<>> THEN 0 ELSE addr[i].u32] \o args,
                            addrsize, intsize, addr # <<>>, args), ipar, np)

\* addr is the reg of the device, <<>> for none.
of_irq_parse_raw(addr, np, args) ==
    LET ipar == StartFrom(np) IN
    IF ipar = NULL THEN [rc |-> EINVAL]
    ELSE RawFrom(addr, np, args, ipar, of_property_read_u32(t, ipar, INTERRUPT_CELLS).u32, AddrSize(ipar))

\* args[i] is what the read of cell i of the specifier returned.
ArgsRead(device, p, args) ==
    LET bad == {i \in DOMAIN args : args[i].ret # 0} IN
    IF bad # {} THEN [rc |-> args[Min(bad)].ret]
    ELSE of_irq_parse_raw(AddrOf(device), p, [i \in DOMAIN args |-> args[i].val[1]])

ParseSpec(device, index, p, intsize) ==
    IF intsize.ret # 0 THEN [rc |-> EINVAL]
    ELSE ArgsRead(device, p, [i \in 1..intsize.u32 |->
                                of_property_read_u32_index(t, device, INTERRUPTS, index * intsize.u32 + i - 1)])

ParseInterrupts(device, index, p) ==
    IF p = NULL THEN [rc |-> EINVAL] ELSE ParseSpec(device, index, p, of_property_read_u32(t, p, INTERRUPT_CELLS))

ExtendedOr(device, index, ext) ==
    IF ext.ret = 0 THEN of_irq_parse_raw(AddrOf(device), ext.np, ext.args)
    ELSE ParseInterrupts(device, index, of_irq_find_parent(device))

of_irq_parse_one(device, index) ==
    ExtendedOr(device, index, of_parse_phandle_with_args(t, device, INTERRUPTS_EXTENDED, INTERRUPT_CELLS, index))

----------------------------------------------------------------------------
(* The reference: the interrupt tree as a graph of domains. *)

\* A node's interrupts go to the domain of its interrupt parent, stated or not.
Up(np) ==
    IF HasProp(t, np, INTERRUPT_PARENT)
    THEN LET h == of_get_property(t, np, INTERRUPT_PARENT)[1].u32
             them == {n \in Nodes : t[n].phandle = h}
         IN  IF h = 0 \/ them = {} THEN NULL ELSE CHOOSE n \in them : TRUE
    ELSE t[np].parent

\* The nodes on the way from one, as many as there can be without a loop.
RECURSIVE WayOf(_, _)
WayOf(np, n) == IF np = NULL \/ n = 0 THEN <<>> ELSE <<np>> \o WayOf(Up(np), n - 1)

Way(np) == WayOf(np, Len(t))

IsDomain(np) == HasProp(t, np, INTERRUPT_CELLS)

\* The first domain on a way; NULL for none.
FirstDomain(way) == LET ds == SelectSeq(way, IsDomain) IN IF ds = <<>> THEN NULL ELSE ds[1]

IntCells(np) == of_get_property(t, np, INTERRUPT_CELLS)[1].u32
OwnAddrCells(np) == IF HasProp(t, np, ADDRESS_CELLS) THEN of_get_property(t, np, ADDRESS_CELLS)[1].u32 ELSE 0

\* The entries of a map: key, parent and what they are translated to; a map
\* that cannot be read to its end ends with the entry "bad".
RECURSIVE EntriesOfMap(_, _)
EntriesOfMap(w, keysize) ==
    IF Len(w) <= keysize + 1 THEN <<>>
    ELSE LET them == {n \in Nodes : t[n].phandle = w[keysize + 1]}
             p == CHOOSE n \in them : TRUE
             width == OwnAddrCells(p) + IntCells(p)
         IN  IF them = {} THEN <<[bad |-> TRUE]>>
             ELSE IF ~IsDomain(p) THEN <<[bad |-> TRUE]>>
             ELSE IF Len(w) < keysize + 1 + width THEN <<[bad |-> TRUE]>>
             ELSE <<[bad |-> FALSE, key |-> SubSeq(w, 1, keysize), to |-> p,
                     addr |-> SubSeq(w, keysize + 2, keysize + 1 + OwnAddrCells(p)),
                     spec |-> SubSeq(w, keysize + 2 + OwnAddrCells(p), keysize + 1 + width)]>>
                  \o EntriesOfMap(From(w, keysize + 1 + width), keysize)

Unmapped == [ok |-> FALSE]

\* A unit address and a specifier in the form of a domain end at the controller
\* they reach; a domain without a map passes them on as they are.
RECURSIVE Reaches(_, _, _, _)
Reaches(domain, addr, spec, form) ==
    IF domain = NULL THEN Unmapped
    ELSE IF HasProp(t, domain, INTERRUPT_CONTROLLER) THEN [ok |-> TRUE, np |-> domain, args |-> spec, form |-> form]
    ELSE IF ~HasProp(t, domain, INTERRUPT_MAP) THEN Reaches(FirstDomain(Way(Up(domain))), addr, spec, form)
    ELSE LET key == addr \o spec
             es == EntriesOfMap(Words(of_get_property(t, domain, INTERRUPT_MAP)), Len(key))
             Seen(i) == ~HasProp(t, domain, INTERRUPT_MAP_MASK) \/ of_get_property(t, domain, INTERRUPT_MAP_MASK)[i].u32 # 0
             hits == {j \in DOMAIN es : \/ es[j].bad
                                        \/ /\ of_device_is_available(t, es[j].to)
                                           /\ \A i \in DOMAIN key : Seen(i) => es[j].key[i] = key[i]}
             first == es[Min(hits)]
         IN  IF hits = {} THEN Unmapped ELSE IF first.bad THEN Unmapped ELSE Reaches(first.to, first.addr, first.spec, first.to)

\* The address cells of the first domain are inherited, 2 where nobody states them.
RECURSIVE Inherited(_)
Inherited(np) == IF np = NULL THEN 2 ELSE IF HasProp(t, np, ADDRESS_CELLS) THEN OwnAddrCells(np) ELSE Inherited(t[np].parent)

\* The address a nexus may need: none is known of a device without reg.
NeedsReg(domain, device) ==
    /\ ~HasProp(t, device, REG)
    /\ Inherited(domain) > 0
    /\ ~HasProp(t, domain, INTERRUPT_CONTROLLER)

\* The specifiers of a device in the domain of its interrupt parent.
UnitAddress(device, domain) ==
    LET reg == AddrOf(device) IN [i \in 1..Inherited(domain) |-> IF reg = <<>> THEN 0 ELSE reg[i].u32]
InDomain(device, domain, spec) ==
    IF NeedsReg(domain, device) THEN Unmapped ELSE Reaches(domain, UnitAddress(device, domain), spec, domain)
SpecifierIn(device, domain, v, from, n) ==
    IF from + n > Len(v) THEN Unmapped ELSE InDomain(device, domain, SubSeq(v, from + 1, from + n))
Interrupt(device, index) ==
    LET domain == FirstDomain(Way(Up(device))) IN
    IF domain = NULL \/ ~HasProp(t, device, INTERRUPTS) THEN Unmapped
    ELSE SpecifierIn(device, domain, Words(of_get_property(t, device, INTERRUPTS)), index * IntCells(domain), IntCells(domain))
InNamedDomain(device, index, ext) ==
    IF ext.ret # 0 THEN Interrupt(device, index) ELSE InDomain(device, ext.np, ext.args)

Agree(r, want) ==
    /\ r.rc = 0 <=> want.ok
    /\ want.ok => r.np = want.np /\ r.args = want.args

\* What it is to be resolved to.
Wanted(device, index) ==
    InNamedDomain(device, index, of_parse_phandle_with_args(t, device, INTERRUPTS_EXTENDED, INTERRUPT_CELLS, index))

ArgsFit(r, want) ==
    r.rc = 0 => /\ Len(r.args) = IntCells(want.form)
                /\ want.form # r.np => ~HasProp(t, want.form, INTERRUPT_MAP)

\* Every interrupt of a device is resolved to the controller its specifier ends
\* at, through nexuses that translate and mask it and levels that pass it on,
\* and to an error where the way ends or a map cannot be read ("finding which
\* interrupt controller node it is attached to", of_irq_parse_one).  No
\* domain here takes more than the MAX_PHANDLE_ARGS cells out_irq->args holds.
InterruptsResolved ==
    Ready =>
      \A device \in Nodes, index \in 0..2 : ~HasProp(t, device, INTERRUPTS_EXTENDED) =>
        Agree(of_irq_parse_one(device, index), Interrupt(device, index))

\* An interrupt of the extended list is the one the same specifier has in the
\* domain it names, whatever the interrupt parent of the device is; a list that
\* ends before the index leaves "interrupts" in force (of_irq_parse_one).
ExtendedFirst ==
    Ready =>
      \A device \in Nodes, index \in 0..2 : HasProp(t, device, INTERRUPTS_EXTENDED) =>
        Agree(of_irq_parse_one(device, index), Wanted(device, index))

\* The specifier has as many cells as the last domain takes in whose form it
\* was put.  That is the controller itself, unless the last levels before it
\* have no map: these hand the specifier on whatever the controller takes, and
\* its cells may be more or fewer (of_irq_parse_raw, skiplevel).
SpecifierFits ==
    Ready => \A device \in Nodes, index \in 0..2 : ArgsFit(of_irq_parse_one(device, index), Wanted(device, index))

-----------------------------------------------------------------------------
(***************************************************************************)
(* Changing the properties of a live node: of_add_property,                *)
(* of_remove_property and of_update_property of src/lib/of/src/base.c.     *)
(* The properties of the node are a list linked by "next", and so are the  *)
(* ones removed from it, which stay because pointers to their values were  *)
(* handed out.  "wanted" is what the calls made so far ask the list to be. *)
(* Callers pass a property that is not and never was in the node.          *)
(***************************************************************************)
CONSTANTS
    LiveProps,  \* struct property
    NameOf      \* property -> its name

VARIABLES
    properties, deadprops,  \* the heads
    next,
    wanted,
    retired                 \* the properties removed, the last first

liveVars == <<properties, deadprops, next, wanted, retired>>

RECURSIVE LinkedFrom(_, _)
LinkedFrom(p, seen) == IF p = NULL \/ p \in seen THEN <<>> ELSE <<p>> \o LinkedFrom(next[p], seen \cup {p})

PropList(head) == LinkedFrom(head, {})

\* The element before one in a list, NULL for the head itself.
PropBefore(head, p) ==
    LET l == PropList(head)
        i == CHOOSE k \in DOMAIN l : l[k] = p
    IN  IF i = 1 THEN NULL ELSE l[i - 1]

Unused(p) == p \notin Range(wanted) \cup Range(retired)

LiveInit ==
    /\ properties = NULL
    /\ deadprops = NULL
    /\ next = [p \in LiveProps |-> NULL]
    /\ wanted = <<>>
    /\ retired = <<>>

\* Where a list is entered by *next = p: behind "at", or at the head.
LinkProp(n, at, p) == IF at = NULL THEN n ELSE [n EXCEPT ![at] = p]

\* The property's own link is cleared before the list is searched for its name.
of_add_property(p) ==
    /\ Unused(p)
    /\ LET cleared == [next EXCEPT ![p] = NULL]
           l == PropList(properties)
           dup == \E i \in DOMAIN l : NameOf[l[i]] = NameOf[p]
       IN  /\ next' = IF dup THEN cleared ELSE LinkProp(cleared, IF l = <<>> THEN NULL ELSE Last(l), p)
           /\ properties' = IF ~dup /\ l = <<>> THEN p ELSE properties
           /\ wanted' = IF \E i \in DOMAIN wanted : NameOf[wanted[i]] = NameOf[p] THEN wanted ELSE Append(wanted, p)
    /\ retired' = SelectSeq(retired, LAMBDA q : q \notin Range(wanted'))
    /\ UNCHANGED deadprops

\* -ENODEV for one that is not in the list.
of_remove_property(p) ==
    /\ p \in Range(PropList(properties))
    /\ next' = [LinkProp(next, PropBefore(properties, p), next[p]) EXCEPT ![p] = deadprops]
    /\ properties' = IF properties = p THEN next[p] ELSE properties
    /\ deadprops' = p
    /\ wanted' = SelectSeq(wanted, LAMBDA q : q # p)
    /\ retired' = <<p>> \o SelectSeq(retired, LAMBDA q : q # p)

\* The property of that name is replaced in its place, or the new one appended.
of_update_property(p) ==
    /\ Unused(p)
    /\ LET l == PropList(properties)
           at == {i \in DOMAIN l : NameOf[l[i]] = NameOf[p]}
           old == l[CHOOSE i \in at : \A j \in at : i <= j]
           asked == {i \in DOMAIN wanted : NameOf[wanted[i]] = NameOf[p]}
       IN  /\ IF at # {}
              THEN /\ next' = [LinkProp([next EXCEPT ![p] = next[old]], PropBefore(properties, old), p) EXCEPT ![old] = deadprops]
                   /\ properties' = IF properties = old THEN p ELSE properties
                   /\ deadprops' = old
              ELSE /\ next' = LinkProp([next EXCEPT ![p] = NULL], IF l = <<>> THEN NULL ELSE Last(l), p)
                   /\ properties' = IF l = <<>> THEN p ELSE properties
                   /\ UNCHANGED deadprops
           /\ wanted' = IF asked = {} THEN Append(wanted, p)
                        ELSE [i \in DOMAIN wanted |-> IF i \in asked THEN p ELSE wanted[i]]
           /\ retired' = SelectSeq((IF asked = {} THEN <<>> ELSE <<wanted[CHOOSE i \in asked : TRUE]>>) \o retired,
                                   LAMBDA q : q # p)

LiveNext == \E p \in LiveProps : of_add_property(p) \/ of_remove_property(p) \/ of_update_property(p)

----------------------------------------------------------------------------

\* The list holds what the calls asked for, in the order they asked: a duplicate
\* is refused and changes nothing, a new value takes the place of the old one,
\* and what was removed is not found any more (the comments in base.c: "duplicate
\* ! don't insert it", "so it won't be found any more").
ListAsAsked == PropList(properties) = wanted

\* Every property that was removed is kept in the list of dead properties, for
\* the pointers to it that were given out.
DeadKept == PropList(deadprops) = retired
=============================================================================
