----------------------------- MODULE FdtOverlay -----------------------------
(***************************************************************************)
(* Applying overlays to a base tree: fdt_overlay.c under                   *)
(* src/lib/of/src/fdt/libfdt, on the calls of Fdt and FdtRw.               *)
(*                                                                         *)
(* fdt_overlay_apply is five passes, each an action here, so that the      *)
(* states between them can be looked at; overlays are applied one after    *)
(* another to the same base until one fails.  A fixup string               *)
(* "path:property:offset" is a part with the field "fix"; one that does    *)
(* not have that form is a part without it.                                *)
(***************************************************************************)
EXTENDS Fdt

CONSTANTS
    TARGET, TARGET_PATH,                          \* property names
    SYMBOLS, FIXUPS, LOCAL_FIXUPS, OVERLAY,       \* node names
    Bases, Overlays,                              \* blobs
    MaxApplied                                    \* bound on the overlays of a session

----------------------------------------------------------------------------
\* 0 when there is none, MaxPhandle when it is malformed.
TargetIn(r) == IF r.len < 0 THEN 0 ELSE IF r.len # 4 THEN MaxPhandle ELSE r.val[1].u32

overlay_get_target_phandle(fdto, fragment) == TargetIn(fdt_getprop(fdto, fragment, TARGET))

TargetByPath(fdt, path) ==
    IF path.len < 0 THEN IF path.len = NOTFOUND THEN BADOVERLAY ELSE path.len
    ELSE fdt_path_offset(fdt, path.val[1].path)

\* The target's offset, and whether it was found by its path.
TargetOf(fdt, phandle, path) ==
    CASE phandle = MaxPhandle -> [off |-> BADPHANDLE, bypath |-> FALSE]
      [] phandle = 0 -> [off |-> TargetByPath(fdt, path), bypath |-> TRUE]
      [] OTHER -> [off |-> fdt_node_offset_by_phandle(fdt, phandle), bypath |-> FALSE]

overlay_get_target(fdt, fdto, fragment) ==
    TargetOf(fdt, overlay_get_target_phandle(fdto, fragment), fdt_getprop(fdto, fragment, TARGET_PATH))

----------------------------------------------------------------------------
(* Moving the overlay's own phandles past those of the base *)

AddOffset(r, fdt, node, name, delta) ==
    LET sum == (r.val[1].u32 + delta) % (MaxPhandle + 1) IN
    IF r.len < 0 THEN Result(r.len, fdt)
    ELSE IF r.len # 4 THEN Result(BADPHANDLE, fdt)
    ELSE IF sum < r.val[1].u32 \/ sum = MaxPhandle THEN Result(NOPHANDLES, fdt)
    ELSE fdt_setprop_inplace(fdt, node, name, <<U32(sum)>>)

overlay_phandle_add_offset(fdt, node, name, delta) == AddOffset(fdt_getprop(fdt, node, name), fdt, node, name, delta)

RECURSIVE overlay_adjust_node_phandles(_, _, _)
RECURSIVE AdjustSubnodes(_, _, _)
AdjustBelow(l, nodes, delta) == IF l.ret \notin {0, NOTFOUND} THEN l ELSE AdjustSubnodes(Result(0, l.b), nodes, delta)
AdjustLinux(p, node, delta) ==
    IF p.ret \notin {0, NOTFOUND} THEN p
    ELSE AdjustBelow(overlay_phandle_add_offset(p.b, node, LINUX_PHANDLE, delta), Subnodes(p.b, node), delta)
overlay_adjust_node_phandles(fdto, node, delta) ==
    AdjustLinux(overlay_phandle_add_offset(fdto, node, PHANDLE, delta), node, delta)

AdjustSubnodes(r, nodes, delta) ==
    IF r.ret # 0 \/ nodes = <<>> THEN r
    ELSE AdjustSubnodes(overlay_adjust_node_phandles(r.b, nodes[1], delta), Tail(nodes), delta)

\* The word at a byte offset of a value.
RECURSIVE WordAt(_, _)
WordAt(v, idx) == IF idx = 0 THEN v[1].u32 ELSE WordAt(Tail(v), idx - v[1].sz)

\* The words of one property that a local fixup lists.
RECURSIVE UpdateWords(_, _, _, _, _)
UpdateWord(fdto, node, name, v, at, delta) ==
    IF v.len < at + 4 THEN Result(BADOVERLAY, fdto)
    ELSE fdt_setprop_inplace_partial(fdto, node, name, at, <<U32((WordAt(v.val, at) + delta) % (MaxPhandle + 1))>>)
UpdateWords(r, node, name, offsets, delta) ==
    IF r.ret # 0 \/ offsets = <<>> THEN r
    ELSE UpdateWords(UpdateWord(r.b, node, name, fdt_getprop(r.b, node, name), offsets[1].u32, delta),
                     node, name, Tail(offsets), delta)

\* f is the property of the fixups, len the length of the one it is about.
UpdateProp(fdto, node, f, len, delta) ==
    IF f.len % 4 # 0 \/ len = NOTFOUND THEN Result(BADOVERLAY, fdto)
    ELSE IF len < 0 THEN Result(len, fdto)
    ELSE UpdateWords(Result(0, fdto), node, f.name, f.val, delta)

UpdateFixup(fdto, node, f, delta) ==
    IF f.len < 0 THEN Result(f.len, fdto) ELSE UpdateProp(fdto, node, f, fdt_getprop(fdto, node, f.name).len, delta)

RECURSIVE UpdateProps(_, _, _, _)
UpdateProps(r, node, props, delta) ==
    IF r.ret # 0 \/ props = <<>> THEN r
    ELSE UpdateProps(UpdateFixup(r.b, node, fdt_getprop_by_offset(r.b, props[1]), delta), node, Tail(props), delta)

RECURSIVE overlay_update_local_node_references(_, _, _, _)
RECURSIVE UpdateSubnodes(_, _, _, _)
overlay_update_local_node_references(fdto, node, fixup, delta) ==
    UpdateSubnodes(UpdateProps(Result(0, fdto), node, Props(fdto, fixup), delta), node, Subnodes(fdto, fixup), delta)

UpdateChild(fdto, child, fixup, delta) ==
    IF child = NOTFOUND THEN Result(BADOVERLAY, fdto)
    ELSE IF child < 0 THEN Result(child, fdto)
    ELSE overlay_update_local_node_references(fdto, child, fixup, delta)

UpdateSubnodes(r, node, fixups, delta) ==
    IF r.ret # 0 \/ fixups = <<>> THEN r
    ELSE UpdateSubnodes(UpdateChild(r.b, fdt_subnode_offset(r.b, node, fdt_get_name(r.b, fixups[1])), fixups[1], delta),
                        node, Tail(fixups), delta)

overlay_update_local_references(fdto, delta) ==
    LET fixups == fdt_path_offset(fdto, <<LOCAL_FIXUPS>>) IN
    IF fixups = NOTFOUND THEN Result(0, fdto)
    ELSE IF fixups < 0 THEN Result(fixups, fdto)
    ELSE overlay_update_local_node_references(fdto, 0, fixups, delta)

----------------------------------------------------------------------------
(* Resolving the labels of the base *)

FixupAt(fdto, phandle, node, fix) ==
    IF phandle = 0 THEN Result(NOTFOUND, fdto)
    ELSE IF node = NOTFOUND THEN Result(BADOVERLAY, fdto)
    ELSE IF node < 0 THEN Result(node, fdto)
    ELSE fdt_setprop_inplace_partial(fdto, node, fix.name, fix.offset, <<U32(phandle)>>)

FixupTo(fdt, fdto, at, fix) ==
    IF at < 0 THEN Result(at, fdto) ELSE FixupAt(fdto, fdt_get_phandle(fdt, at), fdt_path_offset(fdto, fix.path), fix)

FixupFor(fdt, fdto, symbol, fix) ==
    IF symbol.len < 0 THEN Result(symbol.len, fdto) ELSE FixupTo(fdt, fdto, fdt_path_offset(fdt, symbol.val[1].path), fix)

overlay_fixup_one_phandle(fdt, fdto, symbols, fix, label) ==
    IF symbols < 0 THEN Result(symbols, fdto) ELSE FixupFor(fdt, fdto, fdt_getprop(fdt, symbols, label), fix)

RECURSIVE overlay_fixup_phandle(_, _, _, _, _)
FixupRest(fdt, r, symbols, strings, label) ==
    IF r.ret # 0 \/ strings = <<>> THEN r ELSE overlay_fixup_phandle(fdt, r.b, symbols, strings, label)
overlay_fixup_phandle(fdt, fdto, symbols, strings, label) ==
    IF strings = <<>> \/ "fix" \notin DOMAIN strings[1] THEN Result(BADOVERLAY, fdto)
    ELSE FixupRest(fdt, overlay_fixup_one_phandle(fdt, fdto, symbols, strings[1].fix, label), symbols, Tail(strings), label)

FixupProp(fdt, fdto, symbols, p) ==
    IF p.len < 0 THEN Result(IF p.len = NOTFOUND THEN INTERNAL ELSE p.len, fdto)
    ELSE overlay_fixup_phandle(fdt, fdto, symbols, p.val, p.name)

RECURSIVE FixupProps(_, _, _, _)
FixupProps(fdt, r, symbols, props) ==
    IF r.ret # 0 \/ props = <<>> THEN r
    ELSE FixupProps(fdt, FixupProp(fdt, r.b, symbols, fdt_getprop_by_offset(r.b, props[1])), symbols, Tail(props))

overlay_fixup_phandles(fdt, fdto) ==
    LET fixups == fdt_path_offset(fdto, <<FIXUPS>>)
        symbols == fdt_path_offset(fdt, <<SYMBOLS>>)
    IN  IF fixups = NOTFOUND THEN Result(0, fdto)
        ELSE IF fixups < 0 THEN Result(fixups, fdto)
        ELSE IF symbols < 0 /\ symbols # NOTFOUND THEN Result(symbols, fdto)
        ELSE FixupProps(fdt, Result(0, fdto), symbols, Props(fdto, fixups))

----------------------------------------------------------------------------
(* Merging into the base *)

ApplyProp(fdt, target, p) ==
    IF p.len < 0 THEN Result(IF p.len = NOTFOUND THEN INTERNAL ELSE p.len, fdt)
    ELSE fdt_setprop(fdt, target, p.name, p.val)

RECURSIVE ApplyProps(_, _, _, _)
ApplyProps(r, target, fdto, props) ==
    IF r.ret # 0 \/ props = <<>> THEN r
    ELSE ApplyProps(ApplyProp(r.b, target, fdt_getprop_by_offset(fdto, props[1])), target, fdto, Tail(props))

\* The new subnode, or the one that was there.
NodeFor(add, found) == IF add.ret # EXISTS THEN add.ret ELSE IF found = NOTFOUND THEN INTERNAL ELSE found

RECURSIVE overlay_apply_node(_, _, _, _)
RECURSIVE ApplySubnodes(_, _, _, _)
overlay_apply_node(fdt, target, fdto, node) ==
    ApplySubnodes(ApplyProps(Result(0, fdt), target, fdto, Props(fdto, node)), target, fdto, Subnodes(fdto, node))

ApplyAt(fdt, new, fdto, node) == IF new < 0 THEN Result(new, fdt) ELSE overlay_apply_node(fdt, new, fdto, node)
ApplySubnode(fdt, target, fdto, node, name) ==
    LET add == fdt_add_subnode(fdt, target, name) IN
    ApplyAt(add.b, NodeFor(add, fdt_subnode_offset(fdt, target, name)), fdto, node)
ApplySubnodes(r, target, fdto, nodes) ==
    IF r.ret # 0 \/ nodes = <<>> THEN r
    ELSE ApplySubnodes(ApplySubnode(r.b, target, fdto, nodes[1], fdt_get_name(fdto, nodes[1])), target, fdto, Tail(nodes))

MergeInto(fdt, target, fdto, overlay) ==
    IF target < 0 THEN Result(target, fdt) ELSE overlay_apply_node(fdt, target, fdto, overlay)

MergeFragment(fdt, fdto, fragment, overlay) ==
    IF overlay = NOTFOUND THEN Result(0, fdt)
    ELSE IF overlay < 0 THEN Result(overlay, fdt)
    ELSE MergeInto(fdt, overlay_get_target(fdt, fdto, fragment).off, fdto, overlay)

RECURSIVE MergeFragments(_, _, _)
MergeFragments(r, fdto, fragments) ==
    IF r.ret # 0 \/ fragments = <<>> THEN r
    ELSE MergeFragments(MergeFragment(r.b, fdto, fragments[1], fdt_subnode_offset(fdto, fragments[1], OVERLAY)),
                        fdto, Tail(fragments))

overlay_merge(fdt, fdto) == MergeFragments(Result(0, fdt), fdto, Subnodes(fdto, 0))

----------------------------------------------------------------------------
(* Entering the overlay's symbols into the base *)

RECURSIVE PathLen(_, _)
PathLen(fdt, node) ==
    LET n == NameLen[fdt_get_name(fdt, node)] IN
    IF n = 0 THEN 0 ELSE n + 1 + PathLen(fdt, fdt_parent_offset(fdt, node))

get_path_len(fdt, node) == IF PathLen(fdt, node) = 0 THEN 1 ELSE PathLen(fdt, node)

\* The room for a symbol's path.  The relative path is counted with its
\* terminator, and one more byte is asked for.
SymbolSize(len, rel) == len + (IF len > 1 THEN 1 ELSE 0) + PathBytes(rel) + 1

SymbolPath(target, rel) == target \o rel

\* The path of the target in the blob r.b, where room was made; it is looked
\* up again, for the node may have moved.
PathUp(r, len, bypath, target_path, again) ==
    IF ~bypath /\ again < 0 THEN [err |-> again, path |-> <<>>]
    ELSE IF len = 1 THEN [err |-> 0, path |-> <<>>]
    ELSE IF bypath THEN [err |-> 0, path |-> target_path.path]
    ELSE fdt_get_path(r.b, again, len + 1)

\* The path written into the room of r.
SymbolInto(r, up, len, rel) ==
    LET bytes == (IF len > 1 THEN len ELSE 0) + 1 + PathBytes(rel) + 1 IN
    IF up.err < 0 THEN Result(up.err, r.b)
    ELSE Result(0, Store(r.b, r.at + 3, DataCells(<<[sz |-> bytes, path |-> SymbolPath(up.path, rel)]>>)))

SymbolRoom(r, fdto, fragment, bypath, target_path, len, rel) ==
    IF r.ret < 0 THEN Result(r.ret, r.b)
    ELSE SymbolInto(r, PathUp(r, len, bypath, target_path, overlay_get_target(r.b, fdto, fragment).off), len, rel)

SymbolOf(fdt, fdto, root_sym, name, fragment, t, target_path, rel) ==
    LET len == IF t.bypath THEN target_path.sz - 1 ELSE get_path_len(fdt, t.off) IN
    IF t.off < 0 THEN Result(t.off, fdt)
    ELSE SymbolRoom(fdt_setprop_placeholder(fdt, root_sym, name, SymbolSize(len, rel)),
                    fdto, fragment, t.bypath, target_path, len, rel)

SymbolIn(fdt, fdto, root_sym, name, fragment, rel) ==
    IF fragment < 0 \/ fdt_subnode_offset(fdto, fragment, OVERLAY) < 0 THEN Result(BADOVERLAY, fdt)
    ELSE SymbolOf(fdt, fdto, root_sym, name, fragment, overlay_get_target(fdt, fdto, fragment),
                  fdt_getprop(fdto, fragment, TARGET_PATH).val[1], rel)

SymbolUpdate(fdt, fdto, root_sym, name, v) ==
    LET path == v[1].path IN
    IF Len(v) # 1 \/ "path" \notin DOMAIN v[1] THEN Result(BADVALUE, fdt)
    ELSE IF Len(path) < 3 \/ path[2] # OVERLAY THEN Result(BADOVERLAY, fdt)
    ELSE SymbolIn(fdt, fdto, root_sym, name, fdt_subnode_offset(fdto, 0, path[1]), SubSeq(path, 3, Len(path)))

RECURSIVE SymbolProps(_, _, _)
NextSymbols(r, fdto, root_sym, props) ==
    IF r.ret # 0 THEN r ELSE SymbolProps(Result(root_sym, r.b), fdto, Tail(props))
SymbolProp(root, fdto, p, props) ==
    IF p.len < 0 THEN Result(p.len, root.b)
    ELSE NextSymbols(SymbolUpdate(root.b, fdto, root.ret, p.name, p.val), fdto, root.ret, props)
SymbolProps(root, fdto, props) ==
    IF root.ret < 0 THEN root
    ELSE IF props = <<>> THEN Result(0, root.b)
    ELSE SymbolProp(root, fdto, fdt_getprop_by_offset(fdto, props[1]), props)

SymbolsNode(fdt, found) == IF found = NOTFOUND THEN fdt_add_subnode(fdt, 0, SYMBOLS) ELSE Result(found, fdt)

overlay_symbol_update(fdt, fdto) ==
    LET ov_sym == fdt_subnode_offset(fdto, 0, SYMBOLS) IN
    IF ov_sym < 0 THEN Result(0, fdt)
    ELSE SymbolProps(SymbolsNode(fdt, fdt_subnode_offset(fdt, 0, SYMBOLS)), fdto, Props(fdto, ov_sym))

----------------------------------------------------------------------------
VARIABLES
    fdt, fdto,   \* the base and the overlay being applied
    delta,       \* how far the overlay's phandles move
    pass,        \* the pass to run next; "idle" between two overlays
    ret,         \* the last result of fdt_overlay_apply
    applied,     \* how many overlays were applied
    before, over \* the base and the overlay as fdt_overlay_apply got them

vars == <<fdt, fdto, delta, pass, ret, applied, before, over>>

Erased(blob) == [blob EXCEPT !.magic = "none"]

Init ==
    /\ fdt \in Bases /\ fdto = Erased(fdt) /\ delta = 0 /\ pass = "idle" /\ ret = 0 /\ applied = 0
    /\ before = fdt /\ over = fdto

\* The first probe that fails.
ProbeBoth(b, o) == IF fdt_ro_probe_(b) # 0 THEN fdt_ro_probe_(b) ELSE fdt_ro_probe_(o)

\* fdt_overlay_apply is called, perhaps with the overlay it was called with
\* before; a blob it does not recognise is left alone.
Start ==
    \E o \in Overlays \cup {fdto} :
      /\ pass = "idle" /\ applied < MaxApplied
      /\ delta' = fdt_get_max_phandle(fdt)
      /\ fdto' = o /\ before' = fdt /\ over' = o
      /\ applied' = applied + 1
      /\ ret' = ProbeBoth(fdt, o)
      /\ pass' = IF ret' # 0 THEN "idle" ELSE "phandles"
      /\ UNCHANGED fdt

\* A pass returned r; base says which of the blobs it writes.
Passed(here, r, base, next) ==
    /\ pass = here
    /\ ret' = r.ret
    /\ pass' = IF r.ret = 0 THEN next ELSE "idle"
    /\ LET b == IF base THEN r.b ELSE fdt
           o == IF base THEN fdto ELSE r.b
       IN  /\ fdt' = IF r.ret = 0 THEN b ELSE Erased(b)
           /\ fdto' = IF r.ret = 0 /\ next # "idle" THEN o ELSE Erased(o)
    /\ UNCHANGED <<delta, applied, before, over>>

AdjustLocalPhandles == Passed("phandles", overlay_adjust_node_phandles(fdto, 0, delta), FALSE, "references")

UpdateLocalReferences == Passed("references", overlay_update_local_references(fdto, delta), FALSE, "fixups")

FixupPhandles == Passed("fixups", overlay_fixup_phandles(fdt, fdto), FALSE, "merge")

Merge == Passed("merge", overlay_merge(fdt, fdto), TRUE, "symbols")

UpdateSymbols == Passed("symbols", overlay_symbol_update(fdt, fdto), TRUE, "idle")

Next == Start \/ AdjustLocalPhandles \/ UpdateLocalReferences \/ FixupPhandles \/ Merge \/ UpdateSymbols

Spec == Init /\ [][Next]_vars
----------------------------------------------------------------------------
Usable == pass = "idle" /\ fdt.magic = "fdt"

\* The nodes of a tree that carry a phandle, and the phandle.
Handle(node) ==
    IF PHANDLE \in DOMAIN node.props THEN node.props[PHANDLE][1].u32
    ELSE IF LINUX_PHANDLE \in DOMAIN node.props THEN node.props[LINUX_PHANDLE][1].u32 ELSE 0

\* The place a path of names leads to; a tree whose paths are ambiguous is
\* not used.
PlaceOf(root, names) ==
    CHOOSE p \in Places(root) : Len(p) = Len(names) /\ \A i \in DOMAIN names : NamesTo(root, p)[i] = names[i]

HasPath(root, names) == \E p \in Places(root) : NamesTo(root, p) = names

NodeAt(root, names) == At(root, PlaceOf(root, names))

Paths(root) == {NamesTo(root, p) : p \in Places(root)}

\* The base path an overlay fragment names, read from the overlay and the
\* base as they were given.
LabelPath(root, label) == NodeAt(root, <<SYMBOLS>>).props[label][1].path

FragmentTarget(root, o, frag) ==
    LET node == NodeAt(o, <<frag>>)
        labels == {l \in DOMAIN NodeAt(o, <<FIXUPS>>).props :
                     \E i \in DOMAIN NodeAt(o, <<FIXUPS>>).props[l] :
                        NodeAt(o, <<FIXUPS>>).props[l][i].fix = [path |-> <<frag>>, name |-> TARGET, offset |-> 0]}
    IN  IF TARGET \in DOMAIN node.props THEN LabelPath(root, CHOOSE l \in labels : TRUE)
        ELSE node.props[TARGET_PATH][1].path

\* Where a path of the overlay ends up in the base.
Merged(root, o, names) == FragmentTarget(root, o, names[1]) \o SubSeq(names, 3, Len(names))

Content(o) == {p \in Paths(o) : Len(p) >= 2 /\ p[2] = OVERLAY}

\* No two nodes of a usable base carry the same phandle, whatever phandles
\* the overlays used for their own nodes.
PhandlesUnique ==
    Usable => LET root == Parse(fdt) IN
              \A p, q \in Places(root) : p # q /\ Handle(At(root, p)) # 0 => Handle(At(root, p)) # Handle(At(root, q))

\* A base that is still usable holds every node of the overlay applied last,
\* with every property, and everything the base held before that the overlay
\* did not set.  An overlay that failed half way leaves no usable base, and one
\* that is not recognised, having been applied before, leaves the base alone.
MergedWhole ==
    /\ (Usable /\ ret # 0) => fdt = before /\ fdt_ro_probe_(over) # 0
    /\ (Usable /\ ret = 0 /\ applied > 0) =>
        LET old == Parse(before)  o == Parse(over)  new == Parse(fdt)
            Sets(path, name) == \E p \in Content(o) : /\ Merged(old, o, p) = path
                                                      /\ name \in DOMAIN NodeAt(o, p).props
        IN  /\ \A p \in Content(o) : /\ HasPath(new, Merged(old, o, p))
                                     /\ DOMAIN NodeAt(o, p).props \subseteq DOMAIN NodeAt(new, Merged(old, o, p)).props
            /\ \A p \in Paths(old) \ {<<SYMBOLS>>} :
                 /\ HasPath(new, p)
                 /\ \A name \in DOMAIN NodeAt(old, p).props : Sets(p, name)
                      \/ (name \in DOMAIN NodeAt(new, p).props /\ NodeAt(new, p).props[name] = NodeAt(old, p).props[name])
            /\ \A p \in Paths(new) : p = <<SYMBOLS>> \/ p \in Paths(old) \/ \E q \in Content(o) : Merged(old, o, q) = p

\* A reference inside the overlay, listed in its local fixups, names the same
\* node after the merge; a reference to a label names the labelled node of
\* the base.
ReferencesResolve ==
    (Usable /\ ret = 0 /\ applied > 0) =>
        LET old == Parse(before)  o == Parse(over)  new == Parse(fdt)
            labels == IF HasPath(o, <<FIXUPS>>) THEN NodeAt(o, <<FIXUPS>>).props ELSE <<>>
        IN  /\ \A q \in Paths(o) : Len(q) >= 3 /\ q[1] = LOCAL_FIXUPS /\ q[3] = OVERLAY =>
                 \A name \in DOMAIN NodeAt(o, q).props : \A i \in DOMAIN NodeAt(o, q).props[name] :
                   LET at == Tail(q)
                       w  == NodeAt(o, q).props[name][i].u32
                       x  == WordAt(NodeAt(o, at).props[name], w)
                       to == CHOOSE p \in Content(o) : Handle(NodeAt(o, p)) = x
                   IN  WordAt(NodeAt(new, Merged(old, o, at)).props[name], w)
                         = Handle(NodeAt(new, Merged(old, o, to)))
            /\ \A l \in DOMAIN labels : \A i \in DOMAIN labels[l] :
                 LET f == labels[l][i].fix IN
                 f.path \in Content(o) =>
                   WordAt(NodeAt(new, Merged(old, o, f.path)).props[f.name], f.offset)
                     = Handle(NodeAt(new, LabelPath(old, l)))

\* Every symbol of the overlay becomes a symbol of the base whose path leads
\* to the merged node, and the symbols the base had still lead to theirs.
SymbolsResolve ==
    (Usable /\ ret = 0 /\ applied > 0) =>
        LET old == Parse(before)  o == Parse(over)
            at(b) == fdt_path_offset(b, <<SYMBOLS>>)
            Leads(l, path) == LET r == fdt_getprop(fdt, at(fdt), l) IN
                              r.len >= 0 /\ r.val[1].path = path /\ fdt_path_offset(fdt, path) >= 0
            mine == IF HasPath(o, <<SYMBOLS>>) THEN NodeAt(o, <<SYMBOLS>>).props ELSE <<>>
            olds == IF HasPath(old, <<SYMBOLS>>) THEN NodeAt(old, <<SYMBOLS>>).props ELSE <<>>
        IN  /\ \A l \in DOMAIN mine : Leads(l, Merged(old, o, mine[l][1].path))
            /\ \A l \in DOMAIN olds \ DOMAIN mine : Leads(l, olds[l][1].path)

\* Whatever pass has run, both blobs pass the full check as long as they are
\* recognised at all.
BlobsStayValid ==
    /\ fdt.magic = "fdt" => fdt_check_full(fdt, fdt.total) = 0
    /\ fdto.magic = "fdt" => fdt_check_full(fdto, fdto.total) = 0
=============================================================================
