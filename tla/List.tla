-------------------------------- MODULE List --------------------------------
(***************************************************************************)
(* The doubly linked lists of lib/base/include/base/list.h.  Every         *)
(* operation is the sequence of its stores on the heap `mem`, a list_head  *)
(* per node; the clauses of an EXCEPT are stores in order.  A caller keeps *)
(* the rules of the comments: it adds a node that is on no list, deletes   *)
(* one that is linked, uses a head only while it is initialised.  A loop   *)
(* of the list_for_each family may be under way; its body deletes, moves   *)
(* and adds nodes.                                                         *)
(***************************************************************************)
EXTENDS Naturals, FiniteSets, SequencesExt

CONSTANTS Heads, Entries, Poison1, Poison2, None

Nodes == Heads \union Entries
Link == Nodes \union {Poison1, Poison2}
Dirs == {"next", "prev"}

VARIABLES
  mem,     \* the nodes
  live,    \* the heads that are initialised
  loop,    \* the loop under way, or None
  lists    \* what the walks from the heads meet: a function of mem and live

vars == <<mem, live, loop, lists>>

(***************************************************************************)
(* Reading.                                                                *)
(***************************************************************************)
ListEmpty(m, h) == m[h].next = h
ListEmptyCareful(m, h) == LET next == m[h].next IN next = h /\ next = m[h].prev
ListIsLast(m, e, h) == m[e].next = h
ListIsSingular(m, h) == ~ListEmpty(m, h) /\ m[h].next = m[h].prev
ListFirstEntryOrNull(m, h) == IF m[h].next # h THEN m[h].next ELSE None

(***************************************************************************)
(* list_for_each and list_for_each_prev with an empty body: the nodes a    *)
(* walk from h in direction dir meets before it is back at h.              *)
(***************************************************************************)
RECURSIVE WalkFrom(_, _, _, _, _)
WalkFrom(m, h, dir, pos, bound) ==
  IF pos = h \/ pos \notin Nodes \/ bound = 0 THEN <<>>
  ELSE <<pos>> \o WalkFrom(m, h, dir, m[pos][dir], bound - 1)
ListForEach(m, h, dir) == WalkFrom(m, h, dir, m[h][dir], Cardinality(Nodes))

(***************************************************************************)
(* Writing.                                                                *)
(***************************************************************************)
InitListHead(m, n) == [m EXCEPT ![n].next = n, ![n].prev = n]

ListAddBetween(m, new, prev, next) ==
  [m EXCEPT ![next].prev = new, ![new].next = next, ![new].prev = prev, ![prev].next = new]
ListAdd(m, new, head) == ListAddBetween(m, new, head, m[head].next)
ListAddTail(m, new, head) == ListAddBetween(m, new, m[head].prev, head)

ListDelBetween(m, prev, next) == [m EXCEPT ![next].prev = prev, ![prev].next = next]
ListDelEntry(m, e) == ListDelBetween(m, m[e].prev, m[e].next)
ListDel(m, e) == [ListDelEntry(m, e) EXCEPT ![e].next = Poison1, ![e].prev = Poison2]
ListDelInit(m, e) == InitListHead(ListDelEntry(m, e), e)

ListReplace(m, old, new) ==
  LET m1 == [m EXCEPT ![new].next = m[old].next, ![m[old].next].prev = new]
      m2 == [m1 EXCEPT ![new].prev = m1[old].prev]
  IN [m2 EXCEPT ![m2[new].prev].next = new]
ListReplaceInit(m, old, new) == InitListHead(ListReplace(m, old, new), old)

ListMove(m, e, head) == ListAdd(ListDelEntry(m, e), e, head)
ListMoveTail(m, e, head) == ListAddTail(ListDelEntry(m, e), e, head)
ListRotateLeft(m, head) == IF ListEmpty(m, head) THEN m ELSE ListMoveTail(m, m[head].next, head)

ListBulkMoveTail(m, head, first, last) ==
  LET m1 == [m EXCEPT ![m[first].prev].next = m[last].next]
      m2 == [m1 EXCEPT ![m1[last].next].prev = m1[first].prev]
      m3 == [m2 EXCEPT ![m2[head].prev].next = first, ![first].prev = m2[head].prev]
  IN [m3 EXCEPT ![last].next = head, ![head].prev = last]

CutPosition(m, list, head, entry) ==
  LET newFirst == m[entry].next
      m1 == [m EXCEPT ![list].next = m[head].next, ![m[head].next].prev = list, ![list].prev = entry]
  IN [m1 EXCEPT ![entry].next = list, ![head].next = newFirst, ![newFirst].prev = head]
ListCutPosition(m, list, head, entry) ==
  CASE ListEmpty(m, head) -> m
    [] ListIsSingular(m, head) /\ m[head].next # entry /\ head # entry -> m
    [] ~ListEmpty(m, head) /\ entry = head -> InitListHead(m, list)
    [] OTHER -> CutPosition(m, list, head, entry)
ListCutBefore(m, list, head, entry) ==
  LET m1 == [m EXCEPT ![list].next = m[head].next, ![m[head].next].prev = list]
      m2 == [m1 EXCEPT ![list].prev = m1[entry].prev, ![m1[entry].prev].next = list]
  IN IF m[head].next = entry THEN InitListHead(m, list)
     ELSE [m2 EXCEPT ![head].next = entry, ![entry].prev = head]

SpliceBetween(m, list, prev, next) ==
  LET first == m[list].next
      last == m[list].prev
  IN [m EXCEPT ![first].prev = prev, ![prev].next = first, ![last].next = next, ![next].prev = last]
ListSplice(m, list, head) ==
  IF ListEmpty(m, list) THEN m ELSE SpliceBetween(m, list, head, m[head].next)
\* The list is put in front.
ListSpliceFront(m, list, head) ==
  IF ListEmpty(m, list) THEN m ELSE SpliceBetween(m, list, head, m[head].next)
ListSpliceTail(m, list, head) ==
  IF ListEmpty(m, list) THEN m ELSE SpliceBetween(m, list, m[head].prev, head)
ListSpliceInit(m, list, head) ==
  IF ListEmpty(m, list) THEN m ELSE InitListHead(ListSplice(m, list, head), list)
ListSpliceTailInit(m, list, head) ==
  IF ListEmpty(m, list) THEN m ELSE InitListHead(ListSpliceTail(m, list, head), list)

-----------------------------------------------------------------------------
(***************************************************************************)
(* The lists as sequences, and the nodes that may be added.                *)
(***************************************************************************)
Lists == [h \in Heads |-> IF h \in live THEN ListForEach(mem, h, "next") ELSE <<>>]
ListOf(h) == lists[h]
On(h) == Range(ListOf(h))
Linked == UNION {On(h) : h \in Heads}
Free == Entries \ Linked
SelfLinked(n) == mem[n].next = n /\ mem[n].prev = n
Spare == {h \in Heads : h \notin live \/ ListEmpty(mem, h)}

(***************************************************************************)
(* One call: a function's name and its arguments, when its caller may make *)
(* it, what it does to the heap, and which heads it leaves initialised.    *)
(***************************************************************************)
Call(op, a, b, c) == [op |-> op, a |-> a, b |-> b, c |-> c]
CallsOf(ops, A, B, C) == {Call(op, a, b, c) : op \in ops, a \in A, b \in B, c \in C}
Calls ==
  CallsOf({"init"}, Heads, {None}, {None})
  \union CallsOf({"add", "add_tail"}, Entries, Nodes, {None})
  \union CallsOf({"del", "del_init"}, Entries, {None}, {None})
  \union CallsOf({"replace", "replace_init"}, Nodes, Nodes, {None})
  \union CallsOf({"move", "move_tail"}, Entries, Heads, {None})
  \union CallsOf({"rotate_left"}, Heads, {None}, {None})
  \union CallsOf({"bulk_move_tail"}, Heads, Entries, Entries)
  \union CallsOf({"cut_position", "cut_before"}, Heads, Heads, Nodes)
  \union CallsOf({"splice", "splice_tail", "splice_init", "splice_tail_init"}, Heads, Heads, {None})

Position(h, e) == SelectInSeq(ListOf(h), LAMBDA x : x = e)

Allowed(c) ==
  CASE c.op = "init" -> c.a \notin live
    [] c.op \in {"add", "add_tail"} -> c.a \in Free /\ c.b \in live \union Linked
    [] c.op = "del" -> c.a \in Linked
    [] c.op = "del_init" -> c.a \in Linked \/ SelfLinked(c.a)
    [] c.op \in {"replace", "replace_init"} ->
         \/ c.a \in Linked /\ c.b \in Free
         \/ c.a \in live /\ c.b \in Spare \ {c.a}
    [] c.op \in {"move", "move_tail"} -> c.b \in live /\ (c.a \in Linked \/ SelfLinked(c.a))
    [] c.op = "rotate_left" -> c.a \in live
    [] c.op = "bulk_move_tail" -> c.a \in live /\ {c.b, c.c} \subseteq On(c.a)
                                  /\ Position(c.a, c.b) <= Position(c.a, c.c)
    [] c.op \in {"cut_position", "cut_before"} ->
         c.b \in live /\ c.a \in Spare \ {c.b} /\ c.c \in On(c.b) \union {c.b}
    [] OTHER -> c.a # c.b /\ {c.a, c.b} \subseteq live

Heap(c) ==
  CASE c.op = "init" -> InitListHead(mem, c.a)
    [] c.op = "add" -> ListAdd(mem, c.a, c.b)
    [] c.op = "add_tail" -> ListAddTail(mem, c.a, c.b)
    [] c.op = "del" -> ListDel(mem, c.a)
    [] c.op = "del_init" -> ListDelInit(mem, c.a)
    [] c.op = "replace" -> ListReplace(mem, c.a, c.b)
    [] c.op = "replace_init" -> ListReplaceInit(mem, c.a, c.b)
    [] c.op = "move" -> ListMove(mem, c.a, c.b)
    [] c.op = "move_tail" -> ListMoveTail(mem, c.a, c.b)
    [] c.op = "rotate_left" -> ListRotateLeft(mem, c.a)
    [] c.op = "bulk_move_tail" -> ListBulkMoveTail(mem, c.a, c.b, c.c)
    [] c.op = "cut_position" -> ListCutPosition(mem, c.a, c.b, c.c)
    [] c.op = "cut_before" -> ListCutBefore(mem, c.a, c.b, c.c)
    [] c.op = "splice" -> ListSplice(mem, c.a, c.b)
    [] c.op = "splice_tail" -> ListSpliceTail(mem, c.a, c.b)
    [] c.op = "splice_init" -> ListSpliceInit(mem, c.a, c.b)
    [] OTHER -> ListSpliceTailInit(mem, c.a, c.b)

LiveAfter(c) ==
  CASE c.op = "init" -> live \union {c.a}
    [] c.op = "replace" /\ c.a \in Heads -> (live \ {c.a}) \union {c.b}
    [] c.op = "replace_init" /\ c.a \in Heads -> live \union {c.b}
    [] c.op = "cut_before" -> live \union {c.a}
    [] c.op = "cut_position" /\ ~ListEmpty(mem, c.b) -> live \union {c.a}
    [] c.op \in {"splice", "splice_tail"} /\ ~ListEmpty(mem, c.a) -> live \ {c.a}
    [] OTHER -> live

Do(c) == loop = None /\ Allowed(c) /\ mem' = Heap(c) /\ live' = LiveAfter(c) /\ UNCHANGED loop

(***************************************************************************)
(* The loops.  A loop starts at the head's neighbour, behind an entry (or  *)
(* the head, list_prepare_entry) or at an entry; a safe one reads the      *)
(* next node before its body runs.  `todo` is no variable of the code: it  *)
(* holds the nodes the loop owes a visit, the one at hand included.        *)
(***************************************************************************)
InOrder(h, dir) == IF dir = "next" THEN ListOf(h) ELSE Reverse(ListOf(h))
After(s, p) == LET k == SelectInSeq(s, LAMBDA x : x = p) IN SubSeq(s, k + 1, Len(s))

Loop(h, dir, safe, pos, todo) ==
  [head |-> h, dir |-> dir, safe |-> safe, pos |-> pos,
   n |-> IF safe THEN mem[pos][dir] ELSE None, todo |-> todo]

ForEachEntry(h, dir, safe) ==
  /\ loop = None
  /\ loop' = Loop(h, dir, safe, mem[h][dir], InOrder(h, dir))
  /\ UNCHANGED <<mem, live>>
ForEachEntryContinue(h, dir, safe, p) ==
  /\ loop = None
  /\ p \in On(h) \union {h}
  /\ loop' = Loop(h, dir, safe, mem[p][dir], After(InOrder(h, dir), p))
  /\ UNCHANGED <<mem, live>>
ForEachEntryFrom(h, dir, safe, p) ==
  /\ loop = None
  /\ p \in On(h)
  /\ loop' = Loop(h, dir, safe, p, <<p>> \o After(InOrder(h, dir), p))
  /\ UNCHANGED <<mem, live>>

StepOf(l) ==
  LET pos == IF l.safe THEN l.n ELSE mem[l.pos][l.dir]
  IN [l EXCEPT !.pos = pos, !.n = IF l.safe THEN mem[pos][l.dir] ELSE None]

InBody == loop # None /\ loop.pos # loop.head
NextEntry ==
  /\ InBody
  /\ loop' = [StepOf(loop) EXCEPT !.todo = Tail(loop.todo)]
  /\ UNCHANGED <<mem, live>>
EndLoop == loop # None /\ loop.pos = loop.head /\ loop' = None /\ UNCHANGED <<mem, live>>

\* Bodies that take the entry at hand off the list, bodies that add one
\* behind it, and one that adds it and then calls list_safe_reset_next.
AtHand == InBody /\ loop.pos \in On(loop.head)
BodyDel ==
  /\ AtHand /\ loop.safe
  /\ \/ mem' \in {ListDel(mem, loop.pos), ListDelInit(mem, loop.pos)}
     \/ \E h \in live \ {loop.head} : mem' = ListMoveTail(mem, loop.pos, h)
  /\ UNCHANGED <<live, loop>>
AddBehind(e) == IF loop.dir = "next" THEN ListAdd(mem, e, loop.pos) ELSE ListAddTail(mem, e, loop.pos)
Owed(e) == <<loop.pos, e>> \o After(InOrder(loop.head, loop.dir), loop.pos)
BodyAdd(e) ==
  /\ AtHand /\ e \in Free
  /\ mem' = AddBehind(e)
  /\ loop' = IF loop.safe THEN loop ELSE [loop EXCEPT !.todo = Owed(e)]
  /\ UNCHANGED live
ListSafeResetNext(m, pos) == m[pos].next
BodyAddReset(e) ==
  /\ AtHand /\ e \in Free /\ loop.safe /\ loop.dir = "next"
  /\ mem' = AddBehind(e)
  /\ loop' = [loop EXCEPT !.n = ListSafeResetNext(mem', loop.pos), !.todo = Owed(e)]
  /\ UNCHANGED live

Init ==
  /\ mem = [n \in Nodes |-> [next |-> n, prev |-> n]]
  /\ live = Heads
  /\ loop = None
  /\ lists = Lists

Looping ==
  \/ \E h \in live, dir \in Dirs, safe \in BOOLEAN :
       \/ ForEachEntry(h, dir, safe)
       \/ \E p \in Nodes : ForEachEntryContinue(h, dir, safe, p) \/ ForEachEntryFrom(h, dir, safe, p)
  \/ NextEntry \/ EndLoop \/ BodyDel
  \/ \E e \in Entries : BodyAdd(e) \/ BodyAddReset(e)
Next == ((\E c \in Calls : Do(c)) \/ Looping) /\ lists' = Lists'
Spec == Init /\ [][Next]_vars

-----------------------------------------------------------------------------
(***************************************************************************)
(* What the calls promise, in terms of sequences.                          *)
(***************************************************************************)
Without(e) == [h \in Heads |-> SelectSeq(ListOf(h), LAMBDA x : x # e)]
Insert(e, p, before) ==
  [h \in Heads |->
     CASE h = p -> IF before THEN Append(ListOf(h), e) ELSE <<e>> \o ListOf(h)
       [] p \in On(h) -> InsertAt(ListOf(h), Position(h, p) + (IF before THEN 0 ELSE 1), e)
       [] OTHER -> ListOf(h)]
Split(list, head, k) ==
  [lists EXCEPT ![list] = SubSeq(ListOf(head), 1, k),
                ![head] = SubSeq(ListOf(head), k + 1, Len(ListOf(head)))]

Promised(c) ==
  CASE c.op = "init" -> lists
    [] c.op = "add" -> Insert(c.a, c.b, FALSE)
    [] c.op = "add_tail" -> Insert(c.a, c.b, TRUE)
    [] c.op \in {"del", "del_init"} -> Without(c.a)
    [] c.op \in {"replace", "replace_init"} ->
         IF c.a \in Heads THEN [lists EXCEPT ![c.b] = ListOf(c.a), ![c.a] = <<>>]
         ELSE [h \in Heads |-> [i \in DOMAIN ListOf(h) |-> IF ListOf(h)[i] = c.a THEN c.b ELSE ListOf(h)[i]]]
    [] c.op = "move" -> [Without(c.a) EXCEPT ![c.b] = <<c.a>> \o @]
    [] c.op = "move_tail" -> [Without(c.a) EXCEPT ![c.b] = Append(@, c.a)]
    [] c.op = "rotate_left" ->
         [lists EXCEPT ![c.a] = IF @ = <<>> THEN @ ELSE Append(Tail(@), Head(@))]
    [] c.op = "bulk_move_tail" ->
         LET i == Position(c.a, c.b)
             j == Position(c.a, c.c)
             s == ListOf(c.a)
         IN [lists EXCEPT ![c.a] = SubSeq(s, 1, i - 1) \o SubSeq(s, j + 1, Len(s)) \o SubSeq(s, i, j)]
    [] c.op = "cut_position" -> Split(c.a, c.b, IF c.c = c.b THEN 0 ELSE Position(c.b, c.c))
    [] c.op = "cut_before" -> Split(c.a, c.b, IF c.c = c.b THEN Len(ListOf(c.b)) ELSE Position(c.b, c.c) - 1)
    [] c.op \in {"splice", "splice_init"} -> [lists EXCEPT ![c.b] = ListOf(c.a) \o @, ![c.a] = <<>>]
    [] OTHER -> [lists EXCEPT ![c.b] = @ \o ListOf(c.a), ![c.a] = <<>>]

TypeOK ==
  /\ mem \in [Nodes -> [next : Link, prev : Link]]
  /\ live \subseteq Heads
  /\ loop = None \/ loop.pos \in Link

\* The links of list.h agree: walking a list backwards meets its entries in
\* reverse, no entry is on two lists or twice on one, and every entry's
\* neighbours name it, whatever sequence of calls built the lists.
LinksAgree ==
  \A h \in live :
    /\ ListForEach(mem, h, "prev") = Reverse(ListOf(h))
    /\ IsInjective(ListOf(h))
    /\ \A g \in live \ {h} : On(g) \intersect On(h) = {}
    /\ \A n \in On(h) \union {h} : mem[mem[n].next].prev = n /\ mem[mem[n].prev].next = n

\* list_empty, list_empty_careful, list_is_singular, list_is_last and
\* list_first_entry_or_null answer for the sequence they stand for.
PredicatesRight ==
  \A h \in live :
    LET s == ListOf(h)
    IN /\ ListEmpty(mem, h) <=> s = <<>>
       /\ ListEmptyCareful(mem, h) <=> s = <<>>
       /\ ListIsSingular(mem, h) <=> Len(s) = 1
       /\ \A e \in On(h) : ListIsLast(mem, e, h) <=> e = s[Len(s)]
       /\ ListFirstEntryOrNull(mem, h) = IF s = <<>> THEN None ELSE s[1]

\* A loop of the list_for_each family is always at the next entry it owes a
\* visit, and ends when it owes none, although its body deletes or moves
\* the entry at hand, or adds one: a plain loop and list_safe_reset_next
\* also visit the entry added, a safe loop passes it over.
LoopOnCourse ==
  loop # None =>
    /\ loop.pos = (IF loop.todo = <<>> THEN loop.head ELSE Head(loop.todo))
    /\ (loop.safe /\ Len(loop.todo) > 1) => loop.n = loop.todo[2]

\* Every call of list.h turns the lists, as sequences, into what its comment
\* promises, and touches no other list.
CallsAsPromised == \A c \in Calls : Do(c) => lists' = Promised(c)
=============================================================================
