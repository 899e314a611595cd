---------------------------- MODULE MCDeviceTree ----------------------------
(***************************************************************************)
(* The device tree: its blob, its tree of nodes, and what boot reads from  *)
(* it.  A behaviour runs one part; the variables of the others stay 0.     *)
(*   edit     a root with one child and spare room, edited                 *)
(*   open     the same as a blob of version 16 with its strings first      *)
(*   sw       a blob written from nothing; one property name is the tail   *)
(*            of another, and a string list is cut short                   *)
(*   overlay  bases with one labelled node, with and without room, and     *)
(*            overlays that name their target by label, by path, by a label*)
(*            the base lacks or not at all                                 *)
(*   lookup   buses, CPUs and aliases, with nodes disabled, with and       *)
(*            without children, lists of phandles that end well or not, and *)
(*            chains of nodes as deep as the code takes and deeper         *)
(*   graph    devices connected by ports, and properties of every length   *)
(*   address  two buses with cells of every width and ranges missing,      *)
(*            empty, or for some addresses, and so for DMA                 *)
(*   irq      a nexus with an interrupt-map between two controllers, or a  *)
(*            level without one whose specifiers have another width        *)
(*   live     properties added to and removed from a node after boot       *)
(*   map      a kernel high in a memory larger than the linear mapping,   *)
(*            reserved regions that meet or overlap, or have no address, and*)
(*            an initrd anywhere in a page                                 *)
(*   intc     three interrupt controllers in any order, under each other,  *)
(*            under another node, or in a loop                             *)
(***************************************************************************)
EXTENDS OfUnflatten, FdtWrite, TLC

CONSTANT Parts

VARIABLES
  part,
  fdt, fdto, delta, ret, applied, before, over,
  mapPc, m, cells, initrd, memstart, found, rmem, i, noticed,
  parentOf, descs, parents, intcParent, todo, called, populated, freed, initPc

overlayVars == <<fdt, fdto, delta, ret, applied, before, over>>
scanVars == <<mapPc, m, cells, initrd, memstart, found, rmem, i, noticed>>
intcVars == <<parentOf, descs, parents, intcParent, todo, called, populated, freed, initPc>>
writeVars == <<b, tree, rsv, kept, written>>
vars == <<part, flatVars, writeVars, overlayVars, liveVars, scanVars, intcVars>>

-----------------------------------------------------------------------------
(* Names *)

Units == ("a@1" :> "a") @@ ("chosen@0" :> "chosen") @@ ("cpu@0" :> "cpu") @@ ("cpu@1" :> "cpu")
           @@ ("dev@0" :> "dev") @@ ("dev@1" :> "dev") @@ ("port@0" :> "port") @@ ("port@1" :> "port")
           @@ ("endpoint@0" :> "endpoint") @@ ("endpoint@1" :> "endpoint")
Lengths ==
  [n \in {""} |-> 0] @@ [n \in {"a", "b", "d", "e", "f", "g", "x", "z"} |-> 1] @@ [n \in {"r1", "r2", "r3"} |-> 2]
  @@ [n \in {"a@1", "bus", "dev", "cpu", "sub", "isa", "gic", "mux"} |-> 3] @@ [n \in {"cpus", "port"} |-> 4]
  @@ [n \in {"bus00", "cpu@0", "cpu@1", "dev@0", "dev@1", "ports"} |-> 5]
  @@ [n \in {"memory", "chosen", "port@0", "port@1"} |-> 6] @@ [n \in {"aliases"} |-> 7]
  @@ [n \in {"chosen@0", "endpoint"} |-> 8] @@ [n \in {"__fixups__", "endpoint@0", "endpoint@1"} |-> 10]
  @@ [n \in {"__symbols__", "__overlay__"} |-> 11] @@ [n \in {"reserved-memory"} |-> 15]
  @@ [n \in {"__local_fixups__"} |-> 16]
Bases == [n \in DOMAIN Lengths |-> IF n \in DOMAIN Units THEN Units[n] ELSE n]

Ph == <<"p", "h">>
LxPh == <<"l", "p", "h">>
Compat == <<"c">>
AddrCells == <<"n">>
SzCells == <<"s">>

Prop(name, v) == <<<<name, v>>>>
U32s(ws) == [k \in DOMAIN ws |-> U32(ws[k])]
Str(s) == StrPart(s, 4)
Absent == <<-1>>
Opt(name, ws) == IF ws = Absent THEN <<>> ELSE Prop(name, U32s(ws))
Blob(node, names) == BlobOf(node, StringTable(<<Ph, LxPh, Compat, AddrCells, SzCells, <<"name">>, REG, STATUS>> \o names), 0)

-----------------------------------------------------------------------------
(* edit, open and sw *)

EditCells == BeginCells("") \o BeginCells("a@1") \o PropCells(0, <<U32(2)>>)
               \o <<<<"END_NODE">>, <<"END_NODE">>, <<"END">>>>
Ordered ==
  [magic |-> "fdt", version |-> 17, last_comp |-> 16, total |-> 124,
   rsvoff |-> 40, structoff |-> 56, stringsoff |-> 56 + 4 * Len(EditCells),
   rsv |-> <<[address |-> 0, size |-> 0]>>, struct |-> EditCells, strings |-> LxPh \o <<"0">>]
StringsFirst ==
  [Ordered EXCEPT !.version = 16, !.total = 110, !.rsvoff = 48, !.structoff = 64, !.stringsoff = 40,
                  !.struct = Append(@, <<"junk">>)]

EditBlobs == {Ordered}
EditNames == {Ph, LxPh}
EditRsv == {[address |-> 1, size |-> 1]}
EditValues == {<<U32(1)>>, <<[sz |-> 3, bytes |-> 1]>>}

Open == INSTANCE FdtWrite WITH
  InitialBlobs <- {StringsFirst}, NodeNames <- {"a"}, PropNames <- {Ph},
  Values <- {<<U32(1)>>}, RsvEntries <- {[address |-> 1, size |-> 1]},
  BufSizes <- {109, 213, 214}, MaxNodes <- 2, MaxRsv <- 1, MaxValue <- 7, MaxCalls <- 0
Sw == INSTANCE FdtWrite WITH
  InitialBlobs <- {}, NodeNames <- {""}, PropNames <- {Compat, <<"d", "c">>},
  Values <- {<<StrPart("x", 1), StrPart("y", 1)>>, <<StrPart("x", 1), [sz |-> 1, frag |-> "y"]>>},
  RsvEntries <- {[address |-> 1, size |-> 1]},
  BufSizes <- {118, 160}, MaxNodes <- 0, MaxRsv <- 0, MaxValue <- 0, MaxCalls <- 5

-----------------------------------------------------------------------------
(* overlay *)

Target == <<"t">>
TargetPath == <<"t", "-">>
Ref == <<"r">>      \* two words, the second one a reference
LabelB == <<"B">>   \* the label of the base's node
LabelD == <<"D">>   \* the label of the overlay's node
LabelX == <<"X">>   \* a label nobody defines

OvBlob(node, spare) == BlobOf(node, StringTable(<<LxPh, Target, TargetPath, Ref, LabelB, LabelD, LabelX>>), spare)

BaseTree == N("", <<<<Ref, U32s(<<0, 1>>)>>>>,
              <<N("bus", <<<<LxPh, U32s(<<1>>)>>>>, <<>>),
                N("__symbols__", <<<<LabelB, <<PathPart(<<"bus">>)>>>>>>, <<>>)>>)
BareTree == N("", <<>>, <<N("bus", <<>>, <<>>)>>)

Fix(path, name, off) == [sz |-> 9, fix |-> [path |-> path, name |-> name, offset |-> off]]

\* How the fragment names its target: its properties and its fixups.
Targets == {
  <<<<<<Target, <<U32(5)>>>>>>, <<<<LabelB, <<Fix(<<"f">>, Target, 0)>>>>>>>>,
  <<<<<<TargetPath, <<PathPart(<<"bus">>)>>>>>>, <<>>>>,
  <<<<<<TargetPath, <<PathPart(<<>>)>>>>>>, <<>>>>,
  <<<<<<Target, <<U32(5)>>>>>>, <<<<LabelX, <<Fix(<<"f">>, Target, 0)>>>>>>>>,
  <<<<>>, <<>>>>}

\* The node it brings: its own phandle, and what its second word refers to.
OverlayTree(tg, handle, local, exported) ==
  LET dev == N("dev", <<<<Ph, <<U32(handle)>>>>, <<Ref, U32s(<<0, handle>>)>>>>, <<>>)
      fixups == tg[2] \o (IF local THEN <<>> ELSE <<<<LabelB, <<Fix(<<"f", "__overlay__", "dev">>, Ref, 4)>>>>>>)
      \* one property per label
      merged == IF Len(fixups) = 2 /\ fixups[1][1] = fixups[2][1]
                THEN <<<<fixups[1][1], fixups[1][2] \o fixups[2][2]>>>> ELSE fixups
  IN  N("", <<>>,
        <<N("f", tg[1], <<N("__overlay__", <<>>, <<dev>>)>>)>>
        \o (IF merged = <<>> THEN <<>> ELSE <<N("__fixups__", merged, <<>>)>>)
        \o (IF ~local THEN <<>>
            ELSE <<N("__local_fixups__", <<>>, <<N("f", <<>>, <<N("__overlay__", <<>>,
                     <<N("dev", <<<<Ref, <<U32(4)>>>>>>, <<>>)>>)>>)>>)>>)
        \o (IF ~exported THEN <<>>
            ELSE <<N("__symbols__", <<<<LabelD, <<PathPart(<<"f", "__overlay__", "dev">>)>>>>>>, <<>>)>>))

OverlayBases == {OvBlob(BaseTree, 300), OvBlob(BaseTree, 60), OvBlob(BareTree, 300)}
OverlayBlobs == {OvBlob(OverlayTree(tg, h, l, h = 1), 0) : tg \in Targets, h \in {1, 2}, l \in BOOLEAN}

Ov == INSTANCE FdtOverlay WITH
  TARGET <- Target, TARGET_PATH <- TargetPath, SYMBOLS <- "__symbols__", FIXUPS <- "__fixups__",
  LOCAL_FIXUPS <- "__local_fixups__", OVERLAY <- "__overlay__", MaxPhandle <- 5,
  Bases <- OverlayBases, Overlays <- OverlayBlobs,
  MaxApplied <- 2

-----------------------------------------------------------------------------
(* lookup *)

Clocks == <<"clocks">>
ClockCells == <<"#clock-cells">>
Serial0 == <<"serial0">>
Serial3 == <<"serial3">>
OtherAlias == <<"other">>
Name == <<"name">>
DeviceType == <<"device_type">>
LookupBlob(node) == Blob(node, <<Clocks, ClockCells, Serial0, Serial3, OtherAlias, DeviceType, IBM_PHANDLE>>)

TheAliases == [a \in {Serial0, Serial3, OtherAlias, Name} |->
                 CASE a = Serial0 -> [stem |-> "serial", id |-> 0]
                   [] a = Serial3 -> [stem |-> "serial", id |-> 3]
                   [] OTHER -> [stem |-> "other", id |-> -1]]

AliasNode == N("aliases", Prop(Serial0, <<PathPart(<<"bus", "dev@0">>)>>) \o Prop(Serial3, <<PathPart(<<"bus", "dev@1">>)>>)
                            \o Prop(OtherAlias, <<PathPart(<<"bus">>)>>), <<>>)

\* dev@0 provides clocks with one argument; its list names it, nobody, or an unknown node.
ClockLists == {<<>>, <<2, 5>>, <<2, 5, 0, 2, 6>>, <<0, 2>>, <<4, 1>>}
Dev0(ws, named) == N("dev@0", Prop(Ph, U32s(<<2>>)) \o Prop(ClockCells, U32s(<<1>>)) \o Prop(Compat, <<Str("b"), Str("a")>>)
                       \o (IF ws = <<>> THEN <<>> ELSE Prop(Clocks, U32s(ws)))
                       \o (IF named THEN Prop(Name, <<Str("dev")>>) ELSE <<>>), <<>>)
Status(status) == IF status = "" THEN <<>> ELSE Prop(STATUS, <<Str(status)>>)
Dev1(status) == N("dev@1", Status(status) \o Prop(LxPh, U32s(<<3>>)) \o Prop(Compat, <<Str("a")>>), <<>>)
IbmDev1(status) == N("dev@1", Status(status) \o Prop(LxPh, U32s(<<3>>)) \o Prop(IBM_PHANDLE, U32s(<<4>>)), <<>>)
CoreNode(name, regs) == N(name, (IF regs = <<>> THEN <<>> ELSE Prop(REG, U32s(regs))) \o Prop(DeviceType, <<Str("cpu")>>), <<>>)
CpusNode(ac, regs) == N("cpus", Prop(AddrCells, U32s(<<ac>>)), <<CoreNode("cpu@0", regs), CoreNode("cpu@1", <<1, 2>>)>>)

\* A bus and a node on it, each disabled or not, with children.
BelowDisabled ==
  {LookupBlob(N("", <<>>, first \o <<N("bus", Status(bus), <<dev, N("sub", Status(sub), <<N("x", <<>>, <<>>)>>), Dev0(<<3>>, TRUE)>>), AliasNode>>)) :
     first \in {<<>>, <<CpusNode(1, <<0>>)>>}, bus \in {"", "disabled"}, sub \in {"", "disabled"},
     dev \in {Dev1(""), Dev1("disabled"), IbmDev1("")}}

\* Nodes from depth k to n, the one at depth off disabled.
RECURSIVE Chain(_, _, _)
Chain(k, n, off) == N(<<"a", "b", "d", "e", "f", "g">>[k], Status(IF k = off THEN "disabled" ELSE ""),
                      IF k = n THEN <<>> ELSE <<Chain(k + 1, n, off)>>)
Deep == {LookupBlob(N("", <<>>, <<Chain(1, n, off), N("z", <<>>, <<>>)>>)) : n \in 4..6, off \in {0, 5}}

LookupBlobs ==
  {LookupBlob(N("", Prop(AddrCells, U32s(<<1>>)),
                <<N("bus", Prop(Ph, U32s(<<1>>)), <<Dev0(ws, nm), Dev1(st)>>), CpusNode(1, <<0>>), AliasNode>>)) :
     ws \in ClockLists, nm \in BOOLEAN, st \in {"", "okay", "disabled"}}
  \cup
  {LookupBlob(N("", <<>>, <<CpusNode(ac, regs), N("bus", <<>>, <<Dev1(st), N("sub", <<>>, <<>>), Dev0(<<3>>, TRUE)>>)>>)) :
     ac \in 0..2, regs \in {<<>>, <<0>>, <<0, 3>>, <<1, 0>>}, st \in {"", "disabled"}}
  \cup BelowDisabled \cup Deep

TheLists == {Clocks}
Id(c, ty, n) == [compatible |-> c, type |-> ty, name |-> n]
TheTables == {<<Id("a", "", ""), Id("b", "", "")>>, <<Id("", "", "dev"), Id("a", "", "")>>,
              <<Id("", "", "cpu"), Id("", "cpu", ""), Id("", "cpu", "cpu")>>, <<Id("a", "", "dev"), Id("a", "", "")>>, <<>>}
AliasPath(a, comps, o) == [alias |-> a, comps |-> comps, opts |-> o]
ThePaths == {AliasPath("serial0", <<>>, FALSE), AliasPath("serial0", <<>>, TRUE), AliasPath("other", <<"dev@0">>, FALSE),
             AliasPath("other", <<"dev@0">>, TRUE), AliasPath("", <<"bus", "dev@0">>, TRUE), AliasPath("", <<>>, TRUE)}

-----------------------------------------------------------------------------
(* graph *)

Remote == <<"remote-endpoint">>
Bytes == <<"bytes">>
Halves == <<"halves">>
Quads == <<"words">>
Doubles == <<"doubles">>
Texts == <<"texts">>
Ints(n, sz) == [k \in 1..n |-> [sz |-> sz, u32 |-> k]]

Endpoint(name, reg, handle, remote) ==
  N(name, (IF reg = -1 THEN <<>> ELSE Prop(REG, U32s(<<reg>>))) \o Prop(Ph, U32s(<<handle>>)) \o Prop(Remote, U32s(<<remote>>)), <<>>)
Port(name, reg, es) == N(name, IF reg = -1 THEN <<>> ELSE Prop(REG, U32s(<<reg>>)), es)
PortsOfA == {<<Port("port@0", 0, <<Endpoint("endpoint@0", 0, 1, 3), Endpoint("endpoint@1", 1, 2, 4)>>)>>,
             <<Port("port@0", 0, <<>>), N("x", <<>>, <<>>), Port("port@1", 1, <<Endpoint("endpoint@0", 0, 1, 3)>>)>>,
             <<Port("port@0", 0, <<Endpoint("endpoint@1", 1, 2, 4)>>), Port("port@1", 1, <<Endpoint("endpoint", -1, 1, 3)>>)>>}
PortsOfB == {<<Port("port", -1, <<Endpoint("endpoint@0", 0, 3, 1), Endpoint("endpoint@1", 1, 4, 2)>>)>>, <<>>}
WithPorts(name, ports, wrapped) == N(name, <<>>, IF wrapped THEN <<N("ports", <<>>, ports)>> ELSE ports)

PortTrees == {N("", <<>>, <<WithPorts("a", pa, wa), WithPorts("b", pb, wb)>>) :
                pa \in PortsOfA, pb \in PortsOfB, wa \in BOOLEAN, wb \in BOOLEAN}

Unended == [sz |-> 2, bytes |-> "s"]
TextLists == {<<>>, <<StrPart("s", 1)>>, <<StrPart("r", 1), StrPart("s", 1), StrPart("s", 1)>>, <<StrPart("r", 1), Unended>>, <<Unended>>}
ArrayTrees == {N("", Prop(Bytes, Ints(n, 1)) \o Prop(Halves, Ints(n, 2) \o odd) \o Prop(Quads, Ints(n, 4) \o odd) \o Prop(Doubles, Ints(n, 4))
                      \o Prop(Texts, x), <<>>) :
                 n \in 0..4, odd \in {<<>>, <<[sz |-> 1, junk |-> TRUE]>>}, x \in TextLists}

GraphBlobs == {Blob(node, <<Remote, Bytes, Halves, Quads, Doubles, Texts>>) : node \in PortTrees \cup ArrayTrees}
TheInts == [p \in {Bytes, Halves, Quads, Doubles} |-> CASE p = Bytes -> 1 [] p = Halves -> 2 [] p = Quads -> 4 [] p = Doubles -> 8]
TheTexts == {Texts}

-----------------------------------------------------------------------------
(* address *)

\* A number in n cells; a third cell is not part of it.
InCells(x, n) == CASE n = 1 -> <<U32(x % Radix)>>
                   [] n = 2 -> <<U32(x \div Radix), U32(x % Radix)>>
                   [] n = 3 -> <<U32(1), U32(x \div Radix), U32(x % Radix)>>
                   [] OTHER -> [k \in 1..n |-> U32(x % Radix)]

CellCounts(c) == IF c = <<>> THEN <<>> ELSE Prop(AddrCells, U32s(<<c[1]>>)) \o Prop(SzCells, U32s(<<c[2]>>))
InRanges(rs, na, pna, ns) == FlattenSeq([k \in DOMAIN rs |-> InCells(rs[k][1], na) \o InCells(rs[k][2], pna) \o InCells(rs[k][3], ns)])

NoMap == <<<<-1>>>>
MapOf(name, rs, na, pna, ns) == IF rs = NoMap THEN <<>> ELSE Prop(name, InRanges(rs, na, pna, ns))

RegDevice(name, addrs, na, ns) ==
  N(name, Prop(Compat, <<StrPart("dev", 3)>>) \o Prop(REG, InRanges([k \in DOMAIN addrs |-> <<addrs[k], 0, 2>>], na, 0, ns)), <<>>)

DmaTree(top, c1, m1, c2, m2, a, dma, topdma, status) ==
  LET above == IF top = <<>> THEN <<1, 1>> ELSE top
      n1 == IF c1 = <<>> THEN above ELSE c1
      n2 == IF c2 = <<>> THEN above ELSE c2
  IN  N("", CellCounts(top) \o MapOf(DMA_RANGES, topdma, above[1], above[1], above[2]),
        <<RegDevice("g", <<3>>, above[1], above[2]), RegDevice("d", <<a, 3, a>>, above[1], above[2]),
          N("bus", Status(status) \o CellCounts(c1) \o MapOf(RANGES, m1, n1[1], above[1], n1[2]) \o MapOf(DMA_RANGES, dma, n1[1], above[1], n1[2]),
            <<N("isa", CellCounts(c2) \o MapOf(RANGES, m2, n2[1], n1[1], n2[2]), <<RegDevice("f", <<a>>, n2[1], n2[2])>>),
              RegDevice("e", <<a>>, n1[1], n1[2])>>)>>)
BusTree(top, c1, m1, c2, m2, a, dma) == DmaTree(top, c1, m1, c2, m2, a, dma, NoMap, "")

CellsUsed == {<<>>, <<1, 1>>, <<2, 1>>, <<3, 2>>}
SomeRanges == <<<<1, 3, 1>>, <<0, 6, 3>>, <<2, 1, 2>>>>
Maps == {NoMap, <<>>, SomeRanges}
AddressTrees ==
  {BusTree(top, c1, m1, c2, m2, a, IF a = 1 THEN NoMap ELSE SomeRanges) :
     top \in {<<>>, <<2, 2>>}, c1 \in CellsUsed, c2 \in CellsUsed \ {<<2, 1>>}, m1 \in Maps, m2 \in Maps, a \in {1, 2}}
  \cup {BusTree(<<1, 1>>, c1, <<>>, <<1, 1>>, <<>>, 1, NoMap) : c1 \in {<<1, 0>>, <<5, 1>>, <<0, 1>>}}
  \cup {DmaTree(top, <<1, 1>>, <<>>, <<1, 1>>, <<>>, 1, dma, topdma, status) :
          top \in {<<>>, <<2, 2>>}, dma \in Maps, topdma \in Maps, status \in {"", "disabled"}}

AddressBlobs == {Blob(node, <<RANGES, DMA_RANGES, REG_NAMES, DMA_COHERENT>>) : node \in AddressTrees}

-----------------------------------------------------------------------------
(* irq *)

\* gic 1 takes two cells, mux 2 one, and the nexus 3 one with addresses of one cell.
Gic(ac) == N("gic", Opt(Ph, <<1>>) \o Opt(INTERRUPT_CELLS, <<2>>) \o Opt(INTERRUPT_CONTROLLER, <<>>) \o Opt(AddrCells, ac), <<>>)
Mux(status) == N("mux", Opt(Ph, <<2>>) \o Opt(INTERRUPT_CELLS, <<1>>) \o Opt(INTERRUPT_CONTROLLER, <<>>)
                          \o Opt(INTERRUPT_PARENT, <<1>>)
                          \o (IF status = "" THEN <<>> ELSE Prop(STATUS, <<Str(status)>>)), <<>>)
IrqDevice(name, reg, ints, ext, par) ==
  N(name, Opt(REG, reg) \o Opt(INTERRUPTS, ints) \o Opt(INTERRUPTS_EXTENDED, ext) \o Opt(INTERRUPT_PARENT, par), <<>>)

\* Entries of the map of the nexus: address, specifier, parent, what follows.
ToMux(a, s, to) == <<a, s, 2, to>>
ToGic(a, s, ac, to) == <<a, s, 1>> \o (IF ac = <<1>> THEN <<0>> ELSE <<>>) \o to
MapsOf(ac) == {ToMux(1, 1, 7) \o ToGic(1, 2, ac, <<0, 5>>), ToGic(0, 1, ac, <<1, 5>>) \o ToMux(1, 1, 6),
               ToGic(1, 1, ac, <<0>>), <<1, 1, 9, 4>>, ToMux(2, 1, 3) \o <<1, 1, 3>>, Absent}

\* Without a map the nexus is only a level of the tree.
Nexus(map, mask, width, kid) ==
  N("bus", Opt(Ph, <<3>>) \o Opt(AddrCells, <<1>>) \o Opt(INTERRUPT_CELLS, <<width>>)
             \o Opt(INTERRUPT_MAP, map) \o Opt(INTERRUPT_MAP_MASK, mask) \o Opt(INTERRUPT_PARENT, <<1>>), <<kid>>)
LevelTree(ac, map, mask, status, width, d) ==
  N("", Opt(INTERRUPT_PARENT, <<1>>), <<Gic(ac), Mux(status), Nexus(map, mask, width, d),
                                        IrqDevice("e", Absent, <<0, 3, 1, 4>>, Absent, Absent)>>)
IrqTree(ac, map, mask, status, d) == LevelTree(ac, map, mask, status, IF map = Absent THEN 2 ELSE 1, d)

IrqDevices == {IrqDevice("d", reg, ints, ext, par) : reg \in {<<1>>, Absent}, ints \in {<<1>>, <<1, 2>>},
                                                     ext \in {Absent, <<2, 4>>, <<3, 1, 1, 6, 5>>}, par \in {Absent, <<2>>}}
              \cup {IrqDevice("d", <<1>>, <<1>>, Absent, <<9>>)}
IrqTrees == {IrqTree(Absent, map, mask, status, d) : map \in MapsOf(Absent), mask \in {Absent, <<0, 1>>}, status \in {"", "off"}, d \in IrqDevices}
            \cup {IrqTree(<<1>>, map, <<1, 1>>, "okay", d) : map \in MapsOf(<<1>>), d \in IrqDevices}
            \cup {LevelTree(Absent, Absent, Absent, "", width, IrqDevice("d", <<1>>, ints, Absent, Absent)) :
                    width \in {1, 3}, ints \in {<<1>>, <<1, 2>>, <<1, 2, 3>>}}

IrqBlobs == {Blob(node, <<INTERRUPT_PARENT, INTERRUPT_CELLS, INTERRUPT_CONTROLLER, INTERRUPT_MAP, INTERRUPT_MAP_MASK,
                          INTERRUPTS, INTERRUPTS_EXTENDED>>) : node \in IrqTrees}

-----------------------------------------------------------------------------
(* live *)

FiveProps == 1 .. 5
TwoNames == [p \in 1 .. 5 |-> IF p <= 3 THEN "a" ELSE "b"]

-----------------------------------------------------------------------------
(* map and intc *)

\* A blob with entries in its reservation block.
WithRsv(bl, entries) ==
  LET by == 16 * Len(entries) IN
  [bl EXCEPT !.rsv = entries \o @, !.total = @ + by, !.structoff = @ + by, !.stringsoff = @ + by]

\* Addresses take na cells, sizes one.
Adr(x, na) == IF na = 1 THEN <<x>> ELSE <<0, x>>
RegsOf(ps, na) == FlattenSeq([k \in DOMAIN ps |-> Adr(ps[k][1], na) \o <<ps[k][2]>>])

RegionNode(name, kind, na) ==
  N(name, CASE kind = 1 -> Opt(REG, RegsOf(<<<<24, 4>>, <<32, 2>>>>, na))
            [] kind = 2 -> Opt(REG, RegsOf(<<<<25, 10>>>>, na))
            [] kind = 3 -> Opt(REG, RegsOf(<<<<28, 4>>>>, na)) \o Opt(<<"no-map">>, <<>>)
            [] kind = 4 -> Opt(<<"size">>, <<4>>)
            [] kind = 5 -> Opt(<<"size">>, <<6>>) \o Opt(<<"alignment">>, Adr(8, na)) \o Opt(<<"no-map">>, <<>>)
            [] kind = 6 -> Opt(<<"size">>, <<4>>) \o Opt(<<"alloc-ranges">>, RegsOf(<<<<26, 5>>, <<20, 9>>>>, na))
            [] OTHER -> Opt(REG, RegsOf(<<<<16, 4>>>>, na)) \o Prop(STATUS, <<StrPart("off", 3)>>), <<>>)

ChosenNode(name, rd, use, na) ==
  N(name, (IF rd = <<>> THEN <<>> ELSE Opt(<<"linux,initrd-start">>, <<rd[1]>>) \o Opt(<<"linux,initrd-end">>, <<rd[2]>>))
            \o (IF use = <<>> THEN <<>> ELSE Opt(<<"linux,usable-memory-range">>, RegsOf(<<use>>, na))), <<>>)

MapTree(regs, rd, use, kinds, na, ok, name) ==
  N("", IF na = 1 THEN <<>> ELSE CellCounts(<<na, 1>>),
    <<ChosenNode(name, rd, use, na),
      N("memory", Prop(DEVICE_TYPE, <<StrPart("memory", 6)>>) \o Opt(REG, RegsOf(regs, na)), <<>>),
      N("reserved-memory", CellCounts(<<na, 1>>) \o (IF ok THEN Opt(RANGES, <<>>) ELSE <<>>),
        [k \in DOMAIN kinds |-> RegionNode(<<"r1", "r2", "r3">>[k], kinds[k], na)]),
      N("z", <<>>, <<>>)>>)

MapNames == <<<<"size">>, <<"alignment">>, <<"alloc-ranges">>, <<"no-map">>, <<"linux,initrd-start">>, <<"linux,initrd-end">>,
              <<"linux,usable-memory-range">>, <<"linux,usable-memory">>, RANGES, DEVICE_TYPE>>

\* 8 to 48 is more than the linear mapping, 18 to 46 has no whole pages at its
\* ends; the third memory has gaps.
MapBlobs ==
  {WithRsv(Blob(MapTree(regs, <<24, 28>>, <<>>, kinds, 1, TRUE, "chosen"), MapNames), <<[address |-> 44, size |-> 1]>>) :
     regs \in {<<<<8, 40>>>>, <<<<18, 28>>>>}, kinds \in [1..2 -> 1..7] \cup [1..3 -> {2, 3, 6}]}
  \cup {Blob(MapTree(<<<<8, 2>>, <<17, 6>>, <<34, 14>>>>, rd, use, <<4, 1>>, na, ok, name), MapNames) :
          rd \in {<<>>, <<20, 22>>, <<8, 12>>}, use \in {<<>>, <<20, 28>>}, na \in {1, 2}, ok \in BOOLEAN, name \in {"chosen", "chosen@0"}}
  \cup {Blob(MapTree(<<reg>>, rd, use, kinds, 1, TRUE, "chosen"), MapNames) :
          reg \in {<<8, 40>>, <<18, 28>>}, use \in {<<>>, <<21, 27>>}, kinds \in {<<4, 4>>, <<4, 1>>},
          rd \in {<<22, 24>>, <<22, 26>>, <<22, 29>>, <<45, 48>>, <<46, 49>>, <<48, 52>>}}

Map == INSTANCE OfBoot WITH
  Blobs <- MapBlobs, MaxPhandle <- 63, AliasOf <- <<>>, MapAddrMax <- 64, PAGE_SIZE <- 4, PhysMax <- 56, linear_region_size <- 32,
  ARM64_MEMSTART_ALIGN <- 8, KernelStart <- 40, KernelEnd <- 44, DtStart <- 36, DtSize <- 2, MAX_RESERVED_REGIONS <- 3,
  SMP_CACHE_BYTES <- 2, Intc <- {"a", "b", "c"}, Other <- "other", NoIntc <- "none"

-----------------------------------------------------------------------------
\* Constants of the configuration, each a name for a value computed once.
NameBases == Bases
NameLengths == Lengths
AliasTable == TheAliases
MatchTables == TheTables
PathsByAlias == ThePaths
IntSizes == TheInts

WriteOff == b = 0 /\ tree = 0 /\ rsv = 0 /\ kept = 0 /\ written = 0
FlatOff == blob = 0 /\ offset = 0 /\ depth = 0 /\ nps = 0 /\ mem = 0 /\ size = 0 /\ t = 0 /\ root = 0
OverlayOff == fdt = 0 /\ fdto = 0 /\ delta = 0 /\ ret = 0 /\ applied = 0 /\ before = 0 /\ over = 0
MapOff == mapPc = 0 /\ m = 0 /\ cells = 0 /\ initrd = 0 /\ memstart = 0 /\ found = 0 /\ rmem = 0 /\ i = 0 /\ noticed = 0
IntcOff == parentOf = 0 /\ descs = 0 /\ parents = 0 /\ intcParent = 0 /\ todo = 0 /\ called = 0 /\ populated = 0 /\ freed = 0 /\ initPc = 0

Init ==
  /\ part \in Parts
  /\ CASE part = "edit" -> EditInit /\ written = 0
       [] part = "open" -> Open!EditInit /\ written = 0
       [] part = "sw" -> Sw!SwInit /\ tree = 0
       [] OTHER -> WriteOff
  /\ CASE part = "lookup" -> blob \in LookupBlobs /\ FlatStart
       [] part = "graph" -> blob \in GraphBlobs /\ FlatStart
       [] part = "address" -> blob \in AddressBlobs /\ FlatStart
       [] part = "irq" -> blob \in IrqBlobs /\ FlatStart
       [] part = "map" -> Map!MapInit /\ pass = 0 /\ nps = 0 /\ mem = 0 /\ size = 0 /\ t = 0 /\ root = 0
       [] part = "overlay" -> FlatOff
       [] OTHER -> FlatOff /\ pass = 0
  /\ IF part = "overlay" THEN Ov!Init ELSE OverlayOff
  /\ LiveInit
  /\ part # "map" => MapOff
  /\ IF part = "intc" THEN Map!OfIrqStart ELSE IntcOff

OnWrite(p, A) == part = p /\ A /\ UNCHANGED <<part, flatVars, overlayVars, liveVars, scanVars, intcVars>>
OnFlat(A) == part \in {"lookup", "graph", "address", "irq"} /\ A /\ UNCHANGED <<part, writeVars, overlayVars, liveVars, scanVars, intcVars>>
OnMap(A) == part = "map" /\ A /\ UNCHANGED <<part, pass, nps, mem, size, t, root, writeVars, overlayVars, liveVars, intcVars>>
OnOverlay(A) == part = "overlay" /\ A /\ UNCHANGED <<part, blob, offset, depth, nps, mem, size, t, root, writeVars, liveVars, scanVars, intcVars>>
OnLive(A) == part = "live" /\ A /\ UNCHANGED <<part, flatVars, writeVars, overlayVars, scanVars, intcVars>>
OnIntc(A) == part = "intc" /\ A /\ UNCHANGED <<part, flatVars, writeVars, overlayVars, liveVars, scanVars>>

Next ==
  \/ OnWrite("edit", EditNext /\ UNCHANGED written) \/ OnWrite("open", Open!EditNext /\ UNCHANGED written)
  \/ OnWrite("sw", Sw!SwNext /\ UNCHANGED tree)
  \/ OnFlat(FlatNext)
  \/ OnMap(Map!MapNext)
  \/ OnOverlay(Ov!Next)
  \/ OnLive(LiveNext)
  \/ OnIntc(Map!OfIrqNext)

Spec == Init /\ [][Next]_vars

-----------------------------------------------------------------------------
\* Whatever calls edit or write a blob or apply overlays to it, in room or out
\* of room, it stays a valid blob that holds exactly what the calls that
\* succeeded promised; phandles stay unique, references and symbols resolve
\* (fdt_rw.c, fdt_sw.c, fdt_overlay_apply).
BlobsSound ==
  /\ part = "edit" => /\ BlobHoldsTree /\ ReturnsRight /\ BlobStaysValid
                      /\ WalksAgree /\ LookupsAgree
  /\ part = "open" => Open!BlobHoldsTree /\ Open!ReturnsRight /\ Open!BlobStaysValid
  /\ part = "sw" => Sw!StatesEnforced /\ Sw!EndsApart /\ Sw!ReadsWhatWasWritten /\ Sw!FinishedIsValid /\ Sw!ListsAgree
  /\ part = "overlay" => /\ Ov!BlobsStayValid /\ Ov!PhandlesUnique /\ Ov!MergedWhole
                         /\ Ov!ReferencesResolve /\ Ov!SymbolsResolve

\* The tree of nodes is the one the blob spells, and lookups, readers of
\* properties, port graphs, address translation and interrupt resolution answer
\* what a reading of that tree says (unflatten_dt_nodes, base.c, property.c,
\* address.c, irq.c); a node's property list is what the calls asked for. Each
\* conjunct says exactly where the code does otherwise:
\*  - an available node below one that is not comes under the last node one
\*    level up, so its path and its addresses are not the blob's (fdt.c:379),
\*    and only a tree of fewer than FDT_MAX_DEPTH levels is built at all
\*    (fdt.c:383);
\*  - a path with options is lost when it is an alias with a relative path, or
\*    the root (base.c:711-715);
\*  - dma-ranges that are empty up to the root, or that lie below another bus,
\*    end in a fault (address.c:577-609);
\*  - a specifier may be wider or narrower than its controller's cells after a
\*    level that maps nothing (irq.c:236).
QueriesAnswered ==
  /\ part = "lookup" => /\ MarkerIntact /\ TreeIsBlob /\ WalkInOrder /\ FlatAndLiveAgree /\ PhandleListsRead
                        /\ BestEntryMatches /\ AliasesNumbered /\ CpuNodesFound /\ AliasPathsFind /\ NpsInBounds
  /\ part = "graph" => /\ ArraysWithinValue /\ StringsRead /\ EndpointsOnce
                       /\ RemoteDeviceFound /\ IndexWithinValue
  /\ part = "address" => FlatTranslation /\ ResourcesAreRegs /\ DmaRangeAnswered
  /\ part = "irq" => InterruptsResolved /\ ExtendedFirst /\ SpecifierFits
  /\ part = "live" => ListAsAsked /\ DeadKept

\* After the scans of boot, the memory is what the tree describes, in reach of
\* the linear mapping; whatever the tree or the kernel claims cannot be given
\* out, and regions without an address get one of their own; interrupt
\* controllers start after their parents (setup_machine_fdt,
\* arm64_memblock_init, early_init_fdt_scan_reserved_mem, of_irq_init). The
\* initrd is the exception: its start is rounded down and its size rounded up
\* separately, so the page it ends in is not kept when it begins inside a page
\* and the rounded size ends before it (init.c:139-140), and its reach is
\* measured from the start of memory, not from the base of the linear mapping
\* (init.c:151).
BootScansRight ==
  /\ part = "map" => /\ Map!MemoryIsDescribed /\ Map!LinearCovers /\ Map!ClaimsHonoured /\ Map!InitrdKept
                     /\ Map!DynamicPlaced /\ Map!OverlapNoticed
  /\ part = "intc" => Map!ParentsFirst /\ Map!AllReachable /\ Map!NothingLeaked
=============================================================================
