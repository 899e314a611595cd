------------------------------ MODULE FdtWrite ------------------------------
(***************************************************************************)
(* An editing session: the calls of FdtRw in any order on one blob and,    *)
(* beside it, on the tree the caller has in mind.                          *)
(***************************************************************************)
EXTENDS Fdt

CONSTANTS
    InitialBlobs,  \* blobs an editing session may start from
    NodeNames,     \* names given to new and renamed nodes
    PropNames, Values, RsvEntries,
    BufSizes,      \* buffer sizes passed to fdt_open_into
    MaxNodes, MaxRsv, MaxValue  \* bounds on the nodes, the entries and the bytes of a value a session makes

VARIABLES
    b,       \* the blob
    tree,    \* the tree its calls promised
    rsv,     \* the memory reservations its calls promised
    kept     \* whether the last call returned what it promised

editVars == <<b, tree, rsv, kept>>

----------------------------------------------------------------------------
EditInit ==
    /\ b \in InitialBlobs
    /\ tree = Unplaced(Parse([b EXCEPT !.struct = SubSeq(@, 1, StructEnd(b, 0))]))
    /\ rsv = EntriesOf(b)
    /\ kept = TRUE

\* A call may also refuse, when the bytes it needs do not fit in the buffer.
KeptPromise(r, want, need) ==
    \/ r.ret = want
    \/ r.ret > 0 /\ want = 0
    \/ r.ret = NOSPACE /\ fdt_data_size_(r.b) + need > r.b.total

\* A call returned r; its promise is the return value "want" and the tree new.
Called(r, want, new, need) ==
    /\ b' = r.b
    /\ kept' = KeptPromise(r, want, need)
    /\ tree' = IF r.ret >= 0 THEN new ELSE tree
    /\ UNCHANGED rsv

Editable == fdt_rw_probe_(b) = 0

PropNeed(name, v) == Len(name) + 1 + FDT_TAGSIZE * (3 + TagCells(ValLen(v)))

With(node, name, v) ==
    [node EXCEPT !.props = [q \in {name} \cup DOMAIN @ |-> IF q = name THEN v ELSE @[q]]]

Without(node, name) == [node EXCEPT !.props = [q \in DOMAIN @ \ {name} |-> @[q]]]

Missing(node, name) == IF name \in DOMAIN node.props THEN 0 ELSE NOTFOUND

\* The calls on a property of the node at a place.
PropCall(place, name) ==
    LET o == At(Parse(b), place).off
        node == At(tree, place)
        has == name \in DOMAIN node.props
    IN  \/ \E v \in Values :
             \/ Called(fdt_setprop(b, o, name, v), 0, Replace(tree, place, With(node, name, v)),
                       PropNeed(name, v))
             \/ /\ ValLen(IF has THEN node.props[name] ELSE <<>>) + ValLen(v) <= MaxValue
                /\ Called(fdt_appendprop(b, o, name, v), 0,
                          Replace(tree, place, With(node, name, (IF has THEN node.props[name] ELSE <<>>) \o v)),
                          PropNeed(name, v))
             \/ LET fits == has /\ ValLen(node.props[name]) = ValLen(v) IN
                Called(fdt_setprop_inplace(b, o, name, v),
                       IF ~has THEN NOTFOUND ELSE IF fits THEN 0 ELSE NOSPACE,
                       Replace(tree, place, With(node, name, v)), b.total)
        \/ Called(fdt_delprop(b, o, name), Missing(node, name), Replace(tree, place, Without(node, name)), 0)
        \/ Called(fdt_nop_property(b, o, name), Missing(node, name),
                  Replace(tree, place, Without(node, name)), 0)

\* The calls on the node at a place.
NodeCall(place) ==
    LET o == At(Parse(b), place).off
        node == At(tree, place)
        gone == LET up == At(tree, Parent(place)) IN
                Replace(tree, Parent(place), [up EXCEPT !.kids = RemoveAt(@, Last(place))])
    IN  \/ \E name \in NodeNames :
             \/ /\ Cardinality(Places(tree)) < MaxNodes
                /\ Called(fdt_add_subnode(b, o, name),
                          IF \E i \in DOMAIN node.kids : NodeNameEq(node.kids[i].name, name) THEN EXISTS ELSE 0,
                          Replace(tree, place,
                                  [node EXCEPT !.kids = <<[name |-> name, props |-> <<>>, kids |-> <<>>]>> \o @]),
                          FDT_TAGSIZE * (2 + NameCells(name)))
             \/ /\ place # <<>>
                /\ Called(fdt_set_name(b, o, name), 0, Replace(tree, place, [node EXCEPT !.name = name]),
                          FDT_TAGSIZE * NameCells(name))
        \/ place # <<>> /\ Called(fdt_del_node(b, o), 0, gone, 0)
        \/ place # <<>> /\ Called(fdt_nop_node(b, o), 0, gone, 0)

RsvCall ==
    \/ \E e \in RsvEntries :
         LET r == fdt_add_mem_rsv(b, e) IN
         /\ Len(rsv) < MaxRsv
         /\ b' = r.b
         /\ kept' = KeptPromise(r, 0, RsvBytes)
         /\ rsv' = IF r.ret = 0 THEN Append(rsv, e) ELSE rsv
         /\ UNCHANGED tree
    \/ \E n \in 0..Len(rsv) :
         LET r == fdt_del_mem_rsv(b, n) IN
         /\ b' = r.b
         /\ kept' = KeptPromise(r, IF n < Len(rsv) THEN 0 ELSE NOTFOUND, 0)
         /\ rsv' = IF r.ret = 0 THEN RemoveAt(rsv, n + 1) ELSE rsv
         /\ UNCHANGED tree

\* A buffer of the blob's size, or twice that in place, is always enough.
Opened(r, small) ==
    /\ b' = r.b
    /\ kept' = (r.ret = 0 \/ (r.ret = NOSPACE /\ small))
    /\ UNCHANGED <<tree, rsv>>

OpenInto ==
    \E size \in BufSizes, inplace \in BOOLEAN :
      Opened(fdt_open_into(b, size, inplace), size < (IF inplace THEN 2 ELSE 1) * b.total)

Pack == Called(fdt_pack(b), 0, tree, 0)

EditNext ==
    \/ Editable /\ \E place \in Places(tree), name \in PropNames : PropCall(place, name)
    \/ Editable /\ \E place \in Places(tree) : NodeCall(place)
    \/ Editable /\ RsvCall
    \/ Editable /\ Pack
    \/ OpenInto

EditSpec == EditInit /\ [][EditNext]_editVars
----------------------------------------------------------------------------
\* Whatever was called, and whether or not it found room, the blob holds the
\* tree and the reservations the successful calls promised: no splice tears
\* a neighbouring node, property or string, and a refused call changes
\* nothing that can be read.
BlobHoldsTree ==
    /\ Unplaced(Parse([b EXCEPT !.struct = SubSeq(@, 1, StructEnd(b, 0))])) = tree
    /\ EntriesOf(b) = rsv

\* A call returns what it promises: -EXISTS exactly for a name the parent
\* has a child for, -NOTFOUND exactly for a missing property or entry, and
\* -NOSPACE only when the bytes it asked for do not fit in the buffer (for
\* fdt_open_into, when the buffer is smaller than the blob, or than twice
\* the blob when it is the blob's own).
ReturnsRight == kept

\* A blob opened for editing can be edited ever after: its blocks lie in order inside the
\* total size, and the full check of fdt_check_full accepts it.
BlobStaysValid == b.version = 17 => Editable /\ fdt_check_full(b, b.total) = 0

\* The first place that answers to the names.
FirstNamed(root, names) ==
    CHOOSE q \in Places(root) :
      /\ Len(q) = Len(names)
      /\ \A i \in DOMAIN names : NodeNameEq(At(root, SubSeq(q, 1, i)).name, names[i])
      /\ \A i \in DOMAIN names : \A k \in 1..q[i] - 1 :
           ~NodeNameEq(At(root, SubSeq(q, 1, i - 1)).kids[k].name, names[i])

PathAgrees(o, names, size) ==
    /\ fdt_get_path(b, o, size) = [err |-> 0, path |-> names]
    /\ fdt_get_path(b, o, size - 1).err = NOSPACE

WalkAgrees(root, p, names) ==
    LET o == At(root, p).off
        kids == At(root, p).kids
    IN  /\ fdt_node_depth(b, o) = Len(p)
        /\ fdt_parent_offset(b, o) = IF p = <<>> THEN NOTFOUND ELSE At(root, Parent(p)).off
        /\ Subnodes(b, o) = [i \in DOMAIN kids |-> kids[i].off]
        /\ PathAgrees(o, names, IF p = <<>> THEN 2 ELSE PathBytes(names) + 1)
        /\ fdt_path_offset(b, names) = At(root, FirstNamed(root, names)).off

\* Every walk of the read-only half agrees with the tree: depth, parent,
\* subnodes, the path of a node and the way back from its path, which leads
\* to the first node that answers to it.
WalksAgree == Editable => \A p \in Places(Parse(b)) : WalkAgrees(Parse(b), p, NamesTo(Parse(b), p))

PropsAgree(node) ==
    \A name \in PropNames :
      fdt_getprop(b, node.off, name) =
          IF name \in DOMAIN node.props THEN [len |-> ValLen(node.props[name]), val |-> node.props[name]]
          ELSE [len |-> NOTFOUND, val |-> <<>>]

Handle(n) ==
    LET h == {q \in {PHANDLE, LINUX_PHANDLE} : q \in DOMAIN n.props /\ ValLen(n.props[q]) = 4 /\ IsU32(n.props[q])} IN
    IF h = {} THEN 0 ELSE n.props[IF PHANDLE \in h THEN PHANDLE ELSE LINUX_PHANDLE][1].u32

HandlesAgree(nodes) ==
    LET carriers(x) == {n.off : n \in {m \in nodes : Handle(m) = x}} IN
    /\ \A x \in 1..MaxPhandle - 1 :
         fdt_node_offset_by_phandle(b, x) = IF carriers(x) = {} THEN NOTFOUND ELSE Min(carriers(x))
    /\ fdt_get_max_phandle(b) = Max({0} \cup {x \in 1..MaxPhandle - 1 : carriers(x) # {}})

\* Properties are found by name even when one name is the tail of another in
\* the strings block, and a search by phandle returns the first node, in the
\* order of the blob, that carries it.
LookupsAgree ==
    Editable => /\ \A p \in Places(Parse(b)) : PropsAgree(At(Parse(b), p))
                /\ HandlesAgree({At(Parse(b), p) : p \in Places(Parse(b))})

-----------------------------------------------------------------------------
(***************************************************************************)
(* Writing a flattened device tree from its first byte to its last:        *)
(* fdt_sw.c and fdt_empty_tree.c under src/lib/of/src/fdt/libfdt.          *)
(*                                                                         *)
(* Structure cells grow up from the reservations, strings grow down from   *)
(* the end of the buffer, and until fdt_finish a name offset counts back   *)
(* from that end.  The caller may call anything in any state, may be       *)
(* refused for want of room, resize the buffer and try again.              *)
(***************************************************************************)

CONSTANTS
    MaxCalls      \* bound on the calls that write to the structure block

VARIABLES
    written   \* the calls that succeeded since fdt_create: nodes, properties, ends

swVars == <<b, written, rsv, kept>>

SwResult(ret, blob) == [ret |-> ret, b |-> blob]

SwHeader == 48   \* the header, aligned to a reservation entry

Blank(total) ==
    [magic |-> "none", version |-> 0, last_comp |-> 0, total |-> total, rsvoff |-> 0, structoff |-> 0,
     stringsoff |-> 0, rsv |-> <<>>, struct |-> <<>>, strings |-> <<>>]

----------------------------------------------------------------------------
fdt_sw_probe_(blob) ==
    CASE blob.magic = "fdt" -> BADSTATE [] blob.magic = "sw" -> 0 [] OTHER -> BADMAGIC

fdt_sw_probe_memrsv_(blob) ==
    IF fdt_sw_probe_(blob) # 0 THEN fdt_sw_probe_(blob)
    ELSE IF blob.stringsoff # 0 THEN BADSTATE ELSE 0

fdt_sw_probe_struct_(blob) ==
    IF fdt_sw_probe_(blob) # 0 THEN fdt_sw_probe_(blob)
    ELSE IF blob.stringsoff # blob.total THEN BADSTATE ELSE 0

\* Cells appended to the structure block, if they leave the strings alone.
fdt_grab_space_(blob, cells) ==
    StructBytes(blob) + FDT_TAGSIZE * Len(cells) <= blob.total - blob.structoff - Len(blob.strings)

Grab(blob, cells) ==
    IF fdt_grab_space_(blob, cells) THEN SwResult(0, [blob EXCEPT !.struct = @ \o cells])
    ELSE SwResult(NOSPACE, blob)

fdt_create(bufsize) ==
    IF bufsize < SwHeader THEN SwResult(NOSPACE, Blank(bufsize))
    ELSE SwResult(0, [Blank(bufsize) EXCEPT !.magic = "sw", !.version = 17, !.last_comp = 2,
                                          !.rsvoff = SwHeader, !.structoff = SwHeader])

fdt_resize(blob, bufsize) ==
    LET used == blob.structoff + StructBytes(blob) + Len(blob.strings) IN
    IF fdt_sw_probe_(blob) # 0 THEN SwResult(fdt_sw_probe_(blob), blob)
    ELSE IF used > blob.total THEN SwResult(INTERNAL, blob)
    ELSE IF used > bufsize THEN SwResult(NOSPACE, blob)
    ELSE SwResult(0, [blob EXCEPT !.total = bufsize, !.stringsoff = IF @ # 0 THEN bufsize ELSE 0])

fdt_add_reservemap_entry(blob, entry) ==
    IF fdt_sw_probe_memrsv_(blob) # 0 THEN SwResult(fdt_sw_probe_memrsv_(blob), blob)
    ELSE IF blob.structoff + RsvBytes > blob.total THEN SwResult(NOSPACE, blob)
    ELSE SwResult(0, [blob EXCEPT !.rsv = Append(@, entry), !.structoff = @ + RsvBytes])

fdt_finish_reservemap(blob) ==
    LET r == fdt_add_reservemap_entry(blob, [address |-> 0, size |-> 0]) IN
    IF r.ret # 0 THEN r ELSE SwResult(0, [r.b EXCEPT !.stringsoff = r.b.total])

fdt_begin_node(blob, name) ==
    IF fdt_sw_probe_struct_(blob) # 0 THEN SwResult(fdt_sw_probe_struct_(blob), blob)
    ELSE Grab(blob, BeginCells(name))

fdt_end_node(blob) ==
    IF fdt_sw_probe_struct_(blob) # 0 THEN SwResult(fdt_sw_probe_struct_(blob), blob)
    ELSE Grab(blob, <<<<"END_NODE">>>>)

\* 0 says there is no room.
fdt_sw_find_add_string_(blob, s) ==
    LET p == fdt_find_string_(blob.strings, s)
        offset == -Len(blob.strings) - Len(s) - 1
    IN  IF p >= 0 THEN SwResult(p - Len(blob.strings), blob)
        ELSE IF blob.total + offset < blob.structoff + StructBytes(blob) THEN SwResult(0, blob)
        ELSE SwResult(offset, [blob EXCEPT !.strings = s \o <<"0">> \o @])

\* fdt_property_placeholder and the copy of the value into the place.
fdt_property(blob, name, v) ==
    LET s == fdt_sw_find_add_string_(blob, name)
        r == Grab(s.b, PropCells(s.ret, v))
    IN  IF fdt_sw_probe_struct_(blob) # 0 THEN SwResult(fdt_sw_probe_struct_(blob), blob)
        ELSE IF s.ret = 0 THEN SwResult(NOSPACE, blob)
        ELSE r

\* The offsets of the properties a walk meets before the end.
RECURSIVE PropOffsets(_, _)
PropOffsets(blob, o) ==
    LET t == fdt_next_tag(blob, o) IN
    IF t.tag = "END" THEN {} ELSE (IF t.tag = "PROP" THEN {o} ELSE {}) \cup PropOffsets(blob, t.next)

\* The strings move down behind the structure block, and the name offsets
\* become offsets from the start of the block.
fdt_finish(blob) ==
    LET r == Grab(blob, <<<<"END">>>>)
        props == PropOffsets(r.b, 0)
        stringsoff == blob.structoff + StructBytes(r.b)
    IN  IF fdt_sw_probe_struct_(blob) # 0 THEN SwResult(fdt_sw_probe_struct_(blob), blob)
        ELSE IF r.ret # 0 THEN r
        ELSE SwResult(0, [r.b EXCEPT
               !.magic = "fdt", !.stringsoff = stringsoff, !.total = stringsoff + Len(blob.strings),
               !.struct = [i \in DOMAIN @ |-> IF i - 3 \in props
                                              THEN <<"nameoff", @[i][2] + Len(blob.strings)>> ELSE @[i]]])

----------------------------------------------------------------------------
SwInit == b = Blank(0) /\ written = <<>> /\ rsv = <<>> /\ kept = TRUE

\* The state the comments of fdt_sw.c name; "none" before fdt_create.
State ==
    CASE b.magic = "none" -> "none"
      [] b.magic = "fdt"  -> "complete"
      [] b.magic = "sw"   -> IF b.stringsoff = 0 THEN "memrsv" ELSE "struct"

\* A call is refused with an error of its state exactly when the state does
\* not allow it, and may otherwise be refused only for want of room.
SwCalled(r, allowed) ==
    /\ b' = r.b
    /\ kept' = CASE State = "none"      -> r.ret = BADMAGIC
                 [] State \in allowed   -> r.ret \in {0, NOSPACE}
                 [] State # "none" /\ State \notin allowed -> r.ret = BADSTATE

Create ==
    \E size \in BufSizes :
      LET r == fdt_create(size) IN
      /\ State = "none" /\ b' = r.b /\ kept' = (r.ret = 0)
      /\ UNCHANGED <<written, rsv>>

Resize ==
    \E size \in BufSizes :
      SwCalled(fdt_resize(b, size), {"memrsv", "struct"}) /\ UNCHANGED <<written, rsv>>

AddReserve ==
    \E e \in RsvEntries :
      LET r == fdt_add_reservemap_entry(b, e) IN
      /\ Len(rsv) = 0
      /\ SwCalled(r, {"memrsv"})
      /\ rsv' = IF r.ret = 0 THEN Append(rsv, e) ELSE rsv
      /\ UNCHANGED written

FinishReserve == SwCalled(fdt_finish_reservemap(b), {"memrsv"}) /\ UNCHANGED <<written, rsv>>

Writes(r, w) ==
    /\ Len(written) < MaxCalls
    /\ SwCalled(r, {"struct"})
    /\ written' = IF r.ret = 0 THEN Append(written, w) ELSE written
    /\ UNCHANGED rsv

BeginNode == \E name \in NodeNames : Writes(fdt_begin_node(b, name), <<"begin", name>>)

EndNode == Writes(fdt_end_node(b), <<"end">>)

Property == \E name \in PropNames, v \in Values : Writes(fdt_property(b, name, v), <<"prop", name, v>>)

Finish == SwCalled(fdt_finish(b), {"struct"}) /\ UNCHANGED <<written, rsv>>

\* fdt_create_empty_tree, up to its last call, fdt_open_into.
CreateEmptyTree ==
    \E size \in BufSizes :
      LET c == fdt_create(size).b
          n == fdt_begin_node(fdt_finish_reservemap(c).b, "")
          r == fdt_finish(fdt_end_node(n.b).b)
      IN  /\ State = "none" /\ r.ret = 0
          /\ b' = r.b /\ kept' = TRUE
          /\ written' = <<<<"begin", "">>, <<"end">>>> /\ rsv' = <<>>

SwNext == Create \/ Resize \/ AddReserve \/ FinishReserve \/ BeginNode \/ EndNode \/ Property \/ Finish
          \/ CreateEmptyTree

SwSpec == SwInit /\ [][SwNext]_swVars
----------------------------------------------------------------------------
\* The tags of the structure block, as a reader meets them.
RECURSIVE ReadFrom(_, _)
ReadFrom(blob, o) ==
    LET t == fdt_next_tag(blob, o)
        p == fdt_getprop_by_offset(blob, o)
    IN  CASE t.tag = "END"      -> <<>>
          [] t.tag = "BEGIN"    -> <<<<"begin", fdt_get_name(blob, o)>>>> \o ReadFrom(blob, t.next)
          [] t.tag = "END_NODE" -> <<<<"end">>>> \o ReadFrom(blob, t.next)
          [] t.tag = "PROP"     -> <<<<"prop", p.name, p.val>>>> \o ReadFrom(blob, t.next)

DepthAt(i) == Cardinality({j \in 1..i : written[j][1] = "begin"}) - Cardinality({j \in 1..i : written[j][1] = "end"})

\* Every begin has its end, and nothing is written outside the root.
Balanced ==
    /\ Len(written) > 0 /\ DepthAt(Len(written)) = 0
    /\ \A i \in 1..Len(written) - 1 : DepthAt(i) > 0

\* What is read from the buffer is exactly what the successful calls wrote,
\* at every moment: while names count back from the end, after refused calls
\* and resizes, and after fdt_finish has moved the strings and rewritten the
\* offsets.
ReadsWhatWasWritten ==
    State \in {"struct", "complete"} =>
        /\ ReadFrom(b, 0) = written
        /\ SubSeq(b.rsv, 1, fdt_num_mem_rsv(b)) = rsv

\* The two ends of the buffer never meet: structure cells and strings stay
\* apart inside the total size, so fdt_resize never finds them overlapping.
EndsApart == State # "none" => b.structoff + StructBytes(b) + Len(b.strings) <= b.total

\* Each call is accepted in the states the comments of fdt_sw.c name and
\* refused with -BADSTATE in the others.
StatesEnforced == kept

\* A finished blob passes fdt_check_full exactly when the caller closed
\* every node it opened.
FinishedIsValid ==
    State = "complete" =>
        fdt_check_full(b, b.total) =
            IF \A i \in 1..Len(written) : DepthAt(i) >= 0
            THEN IF DepthAt(Len(written)) = 0 THEN 0 ELSE BADSTRUCTURE
            ELSE BADSTRUCTURE

\* The offset of the n-th node.
Beginning(n) ==
    LET begins == {o \in 0..Len(b.struct) : fdt_check_node_offset_(b, o) >= 0} IN
    CHOOSE o \in begins : Cardinality({q \in begins : q <= o}) = n

FoundFirst(off, name, s, k) ==
    /\ k >= 0 /\ fdt_stringlist_get(b, off, name, k).str = s
    /\ \A q \in 0..k - 1 : fdt_stringlist_get(b, off, name, q).str # s

ListAgrees(off, name, v) ==
    LET whole == \A k \in DOMAIN v : Terminated(v[k])
        texts == {v[k].str : k \in {q \in DOMAIN v : Terminated(v[q])}}
    IN  (\A k \in DOMAIN v : "u32" \notin DOMAIN v[k]) =>
          /\ fdt_stringlist_count(b, off, name) = IF whole THEN Len(v) ELSE BADVALUE
          /\ \A s \in texts : FoundFirst(off, name, s, fdt_stringlist_search(b, off, name, s))
          /\ fdt_stringlist_get(b, off, name, Len(v)).len = IF whole THEN NOTFOUND ELSE BADVALUE
          /\ name = COMPATIBLE => \A s \in texts : fdt_node_check_compatible(b, off, s) = 0

\* The string list calls and the cell counts agree with the value a node's
\* property holds, terminated or not.
ListsAgree ==
    (State = "complete" /\ Balanced) =>
      \A i \in 1..Len(written) : written[i][1] = "begin" =>
        LET ends == {j \in i + 1..Len(written) : DepthAt(j) = DepthAt(i) - 1}
            mine == {j \in i + 1..Len(written) : /\ written[j][1] = "prop" /\ DepthAt(j) = DepthAt(i)
                                                 /\ \A k \in ends : j < k
                                                 /\ \A k \in i + 1..j : written[k][1] = "prop"}
        IN  \A name \in PropNames :
              LET js == {j \in mine : written[j][2] = name} IN
              js # {} => ListAgrees(Beginning(Cardinality({j \in 1..i : written[j][1] = "begin"})), name, written[Min(js)][3])
=============================================================================
