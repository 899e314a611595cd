------------------------------- MODULE RbTree -------------------------------
(***************************************************************************)
(* The red-black tree of src/lib/base/src/rbtree.c and                     *)
(* src/lib/base/include/base/rbree_augmented.h, and the timer queue of     *)
(* src/kernel/lib/timerqueue.c that is kept in one.                        *)
(*                                                                         *)
(* A tree is a record: root, the children l and r, parent p and colour c   *)
(* (one word in the code), the augmented value aug, and the cached         *)
(* leftmost node left.  log lists the stores to child pointers that an     *)
(* operation makes, in program order, for the readers that take no lock.   *)
(* 0 is NULL; a node that is its own parent is in no tree.                 *)
(***************************************************************************)
EXTENDS Integers, Sequences, FiniteSets, SequencesExt

CONSTANTS
    N,                \* the nodes are 1..N
    ExpiresOf(_),     \* the times a node may be queued for
    Replacing         \* nodes are replaced in place

Nodes == 1..N
NULL == 0
RED == 0
BLACK == 1

VARIABLES
    x,          \* the tree
    next,       \* the queue's next
    expires,
    q           \* what the queue should hold, in order

vars == <<x, next, expires, q>>

Opp(side) == IF side = "l" THEN "r" ELSE "l"

\* A store to a child pointer or, with side "root", to the root.
Store(y, side, n, v) == [y EXCEPT ![side][n] = v, !.log = Append(@, <<side, n, v>>)]

rb_set_parent(y, n, par) == [y EXCEPT !.p[n] = par]
rb_set_parent_color(y, n, par, color) == [y EXCEPT !.p[n] = par, !.c[n] = color]
SetIf(y, n, par, color) == IF n = NULL THEN y ELSE rb_set_parent_color(y, n, par, color)
IsRed(y, n) == n # NULL /\ y.c[n] = RED

__rb_change_child(y, old, new, par) ==
    IF par = NULL THEN Store(y, "root", 0, new)
    ELSE IF y.l[par] = old THEN Store(y, "l", par, new)
    ELSE Store(y, "r", par, new)

__rb_rotate_set_parents(y, old, new, color) ==
    LET par == y.p[old] IN
    __rb_change_child(rb_set_parent_color(rb_set_parent_color(y, new, par, y.c[old]), old, new, color), old, new, par)

\* The two stores of a rotation: up, on that side of top, takes top as its child.
Swing(y, top, up, side) ==
    Store(Store(y, side, top, y[Opp(side)][up]), Opp(side), up, top)

----------------------------------------------------------------------------
(* The augmented value: here the number of nodes of the subtree. *)

Count(y, n) == IF n = NULL THEN 0 ELSE y.aug[n]
rbcompute(y, n) == 1 + Count(y, y.l[n]) + Count(y, y.r[n])

rbname_copy(y, old, new) == [y EXCEPT !.aug[new] = y.aug[old]]

rbname_rotate(y, old, new) ==
    LET z == rbname_copy(y, old, new) IN [z EXCEPT !.aug[old] = rbcompute(z, old)]

RECURSIVE rbname_propagate(_, _, _)
rbname_propagate(y, n, stop) ==
    IF n = stop THEN y
    ELSE IF y.aug[n] = rbcompute(y, n) THEN y
    ELSE rbname_propagate([y EXCEPT !.aug[n] = rbcompute(y, n)], y.p[n], stop)

----------------------------------------------------------------------------
(* Walking *)

RECURSIVE Deepest(_, _, _)
Deepest(y, n, side) == IF y[side][n] = NULL THEN n ELSE Deepest(y, y[side][n], side)

rb_first(y) == IF y.root[0] = NULL THEN NULL ELSE Deepest(y, y.root[0], "l")
rb_last(y) == IF y.root[0] = NULL THEN NULL ELSE Deepest(y, y.root[0], "r")

\* The first ancestor that the walk reaches from its other side.
RECURSIVE ClimbFrom(_, _, _)
ClimbFrom(y, n, side) ==
    LET par == y.p[n] IN IF par # NULL /\ n = y[side][par] THEN ClimbFrom(y, par, side) ELSE par

\* rb_next for side "r", rb_prev for side "l".
Neighbour(y, n, side) ==
    IF y.p[n] = n THEN NULL
    ELSE IF y[side][n] # NULL THEN Deepest(y, y[side][n], Opp(side))
    ELSE ClimbFrom(y, n, side)

rb_next(y, n) == Neighbour(y, n, "r")
rb_prev(y, n) == Neighbour(y, n, "l")

RECURSIVE LeftOnly(_, _)
LeftOnly(y, n) == IF y.l[n] # NULL THEN LeftOnly(y, y.l[n]) ELSE n

RECURSIVE rb_left_deepest_node(_, _)
rb_left_deepest_node(y, n) ==
    IF y.l[n] # NULL THEN rb_left_deepest_node(y, y.l[n])
    ELSE IF y.r[n] # NULL THEN rb_left_deepest_node(y, y.r[n])
    ELSE n

rb_next_postorder(y, n) ==
    LET par == y.p[n] IN
    IF par # NULL /\ n = y.l[par] /\ y.r[par] # NULL THEN rb_left_deepest_node(y, y.r[par]) ELSE par

rb_first_postorder(y) == IF y.root[0] = NULL THEN NULL ELSE rb_left_deepest_node(y, y.root[0])

----------------------------------------------------------------------------
(* Insertion *)

rb_link_node(y, n, par, side) ==
    Store([y EXCEPT !.p[n] = par, !.c[n] = RED, !.l[n] = NULL, !.r[n] = NULL], side, par, n)

\* Cases 2 and 3 of __rb_insert: the uncle is black.
RotateIn(y, n, par, gpar, side) ==
    LET o == Opp(side)
        inner == n = y[o][par]
        a == rb_set_parent_color(SetIf(Swing(y, par, n, o), y[side][n], par, BLACK), par, n, RED)
        z == IF inner THEN rbname_rotate(a, par, n) ELSE y
        up == IF inner THEN n ELSE par
        tmp == z[o][up]
        \* after case 2 gpar still has par as its child
        b == SetIf(Swing(z, gpar, up, side), tmp, gpar, BLACK)
    IN  rbname_rotate(__rb_rotate_set_parents(b, gpar, up, RED), gpar, up)

\* The loop of __rb_insert; a red uncle moves the trouble two levels up.
RECURSIVE __rb_insert(_, _, _)
__rb_insert(y, n, par) ==
    LET gpar == y.p[par]
        side == IF y.r[gpar] # par THEN "l" ELSE "r"
        uncle == y[Opp(side)][gpar]
        flipped == rb_set_parent_color(rb_set_parent_color(y, uncle, gpar, BLACK), par, gpar, BLACK)
    IN  IF par = NULL THEN rb_set_parent_color(y, n, NULL, BLACK)
        ELSE IF y.c[par] = BLACK THEN y
        ELSE IF IsRed(y, uncle) THEN __rb_insert(rb_set_parent_color(flipped, gpar, y.p[gpar], RED), gpar, y.p[gpar])
        ELSE RotateIn(y, n, par, gpar, side)

rb_insert_color_cached(y, n, leftmost) ==
    __rb_insert(IF leftmost THEN [y EXCEPT !.left = n] ELSE y, n, y.p[n])

----------------------------------------------------------------------------
(* Removal *)

\* The loop of ____rb_erase_color: paths through n are one black node short.
RECURSIVE ____rb_erase_color(_, _, _)
____rb_erase_color(y, n, par) ==
    LET side == IF n # y.r[par] THEN "l" ELSE "r"
        o == Opp(side)
        sib0 == y[o][par]
        near0 == y[side][sib0]
        case1 == rbname_rotate(__rb_rotate_set_parents(
                   rb_set_parent_color(Swing(y, par, sib0, o), near0, par, BLACK), par, sib0, RED), par, sib0)
        z == IF y.c[sib0] = RED THEN case1 ELSE y
        sib == IF y.c[sib0] = RED THEN near0 ELSE sib0
        far == z[o][sib]
        near == z[side][sib]
        flip == rb_set_parent_color(z, sib, par, RED)
        \* case 3: near rises over the sibling
        case3 == rbname_rotate(SetIf(Store(Swing(z, sib, near, side), o, par, near), z[o][near], sib, BLACK), sib, near)
        turned == ~IsRed(z, far)
        w == IF turned THEN case3 ELSE z
        top == IF turned THEN near ELSE sib
        under == IF turned THEN sib ELSE far
        tmp2 == w[side][top]
        a == rb_set_parent_color(Swing(w, par, top, o), under, top, BLACK)
        b == IF tmp2 = NULL THEN a ELSE rb_set_parent(a, tmp2, par)
    IN  IF ~IsRed(z, far) /\ ~IsRed(z, near)
        THEN IF z.c[par] = RED THEN [flip EXCEPT !.c[par] = BLACK]
             ELSE IF z.p[par] = NULL THEN flip
             ELSE ____rb_erase_color(flip, par, z.p[par])
        ELSE rbname_rotate(__rb_rotate_set_parents(b, par, top, BLACK), par, top)

\* Case 1 of __rb_erase_augmented: at most one child.
EraseEnd(y, n) ==
    LET child == IF y.l[n] = NULL THEN y.r[n] ELSE y.l[n]
        z == __rb_change_child(y, n, child, y.p[n])
    IN  [y |-> rbname_propagate(SetIf(z, child, y.p[n], y.c[n]), y.p[n], NULL),
         rebalance |-> IF child = NULL /\ y.c[n] = BLACK THEN y.p[n] ELSE NULL]

\* Cases 2 and 3: the successor takes the place and the colour of n.
EraseInner(y, n) ==
    LET child == y.r[n]
        succ == Deepest(y, child, "l")
        child2 == y.r[succ]
        near == succ = child
        par == IF near THEN succ ELSE y.p[succ]
        far == rb_set_parent(Store(Store(y, "l", par, child2), "r", succ, child), child, succ)
        a == IF near THEN rbname_copy(y, n, succ)
             ELSE rbname_propagate(rbname_copy(far, n, succ), par, succ)
        b == rb_set_parent(Store(a, "l", succ, y.l[n]), y.l[n], succ)
        d == __rb_change_child(b, n, succ, y.p[n])
        e == SetIf(rb_set_parent_color(d, succ, y.p[n], y.c[n]), child2, par, BLACK)
    IN  [y |-> rbname_propagate(e, succ, NULL),
         rebalance |-> IF child2 = NULL /\ y.c[succ] = BLACK THEN par ELSE NULL]

\* The leftmost node once n is gone.
LeftmostWithout(y, n) == IF n = y.left THEN rb_next(y, n) ELSE y.left

__rb_erase_augmented(y, n) ==
    LET z == [y EXCEPT !.left = LeftmostWithout(y, n)] IN
    IF y.l[n] = NULL \/ y.r[n] = NULL THEN EraseEnd(z, n) ELSE EraseInner(z, n)

rb_erase_cached(y, n) ==
    LET e == __rb_erase_augmented(y, n) IN
    IF e.rebalance = NULL THEN e.y ELSE ____rb_erase_color(e.y, NULL, e.rebalance)

rb_replace_node_cached(y, victim, new) ==
    LET a == [y EXCEPT !.p[new] = y.p[victim], !.c[new] = y.c[victim], !.l[new] = y.l[victim], !.r[new] = y.r[victim],
                       !.aug[new] = y.aug[victim]]
        b == IF y.l[victim] = NULL THEN a ELSE rb_set_parent(a, y.l[victim], new)
        d == IF y.r[victim] = NULL THEN b ELSE rb_set_parent(b, y.r[victim], new)
        e == __rb_change_child(d, victim, new, y.p[victim])
    IN  [e EXCEPT !.left = IF @ = victim THEN new ELSE @]

----------------------------------------------------------------------------
(* The timer queue *)

RECURSIVE EqualLeft(_, _, _, _, _)
EqualLeft(y, e, par, side, lefts) ==
    LET at == y[side][par] IN
    IF at = NULL THEN [par |-> par, side |-> side, lefts |-> lefts]
    ELSE IF e <= expires[at] THEN EqualLeft(y, e, at, "l", lefts)
    ELSE EqualLeft(y, e, at, "r", FALSE)

\* Where the walk of timerqueue_add ends: the parent, the side, and whether it only went left.
RECURSIVE Place(_, _, _, _, _)
Place(y, e, par, side, lefts) ==
    LET at == y[side][par] IN
    IF at = NULL THEN [par |-> par, side |-> side, lefts |-> lefts]
    ELSE IF e < expires[at] THEN Place(y, e, at, "l", lefts)
    ELSE Place(y, e, at, "r", FALSE)

\* The user of an augmented tree counts the new node on the way down.
RECURSIVE CountPath(_, _)
CountPath(y, n) == IF n = NULL THEN y ELSE CountPath([y EXCEPT !.aug[n] = @ + 1], y.p[n])

Linked(y, n, e) ==
    LET at == Place(y, e, 0, "root", TRUE) IN
    [y |-> rb_link_node(CountPath([y EXCEPT !.aug[n] = 1], at.par), n, at.par, at.side), lefts |-> at.lefts]

Inserted(y, n, e) == LET k == Linked(y, n, e) IN rb_insert_color_cached(k.y, n, k.lefts)

Cleared(y, n) == [y EXCEPT !.p[n] = n, !.c[n] = RED, !.l[n] = NULL, !.r[n] = NULL, !.aug[n] = 0]
Quiet(y) == [y EXCEPT !.log = <<>>]

Queued == {n \in Nodes : x.p[n] # n}

Init ==
    /\ x = [root |-> [i \in {0} |-> NULL], l |-> [n \in Nodes |-> NULL], r |-> [n \in Nodes |-> NULL],
            p |-> [n \in Nodes |-> n], c |-> [n \in Nodes |-> RED], aug |-> [n \in Nodes |-> 0], left |-> NULL, log |-> <<>>]
    /\ next = NULL
    /\ expires = [n \in Nodes |-> 0]
    /\ q = <<>>

\* The abstract queue: behind everything that does not expire later.
Enqueued(n, e) ==
    LET before == SelectSeq(q, LAMBDA m : expires[m] <= e) IN
    before \o <<n>> \o SubSeq(q, Len(before) + 1, Len(q))

timerqueue_add(n, e) ==
    /\ n \notin Queued
    /\ expires' = [expires EXCEPT ![n] = e]
    /\ x' = Quiet(Inserted(x, n, e))
    /\ next' = IF next = NULL THEN n ELSE IF e < expires[next] THEN n ELSE next
    /\ q' = Enqueued(n, e)

timerqueue_del(n) ==
    /\ n \in Queued
    /\ next' = IF next = n THEN rb_next(x, n) ELSE next
    /\ x' = Quiet(Cleared(rb_erase_cached(x, n), n))
    /\ expires' = [expires EXCEPT ![n] = 0]
    /\ q' = SelectSeq(q, LAMBDA m : m # n)

\* A node takes the place of another, with its time.
Replace(n, m) ==
    /\ Replacing
    /\ n \in Queued /\ m \notin Queued
    /\ x' = Quiet(Cleared(rb_replace_node_cached(x, n, m), n))
    /\ next' = IF next = n THEN m ELSE next
    /\ expires' = [expires EXCEPT ![m] = expires[n], ![n] = 0]
    /\ q' = [i \in DOMAIN q |-> IF q[i] = n THEN m ELSE q[i]]

Next ==
    \/ \E n \in Nodes : \E e \in ExpiresOf(n) : timerqueue_add(n, e)
    \/ \E n \in Nodes : timerqueue_del(n)
    \/ \E n, m \in Nodes : Replace(n, m)

Spec == Init /\ [][Next]_vars

----------------------------------------------------------------------------

RECURSIVE InOrder(_, _)
InOrder(y, n) == IF n = NULL THEN <<>> ELSE InOrder(y, y.l[n]) \o <<n>> \o InOrder(y, y.r[n])

RECURSIVE PostOrder(_, _)
PostOrder(y, n) == IF n = NULL THEN <<>> ELSE PostOrder(y, y.l[n]) \o PostOrder(y, y.r[n]) \o <<n>>

RECURSIVE Walk(_, _, _)
Walk(y, n, side) == IF n = NULL THEN <<>> ELSE <<n>> \o Walk(y, Neighbour(y, n, side), side)

RECURSIVE PostWalk(_, _)
PostWalk(y, n) == IF n = NULL THEN <<>> ELSE <<n>> \o PostWalk(y, rb_next_postorder(y, n))

\* Black nodes on every path down from n; -1 when two paths differ.
RECURSIVE BlackHeight(_, _)
BlackHeight(y, n) ==
    IF n = NULL THEN 0
    ELSE LET a == BlackHeight(y, y.l[n])
             b == BlackHeight(y, y.r[n])
         IN  IF a # b \/ a = -1 THEN -1 ELSE a + y.c[n]

\* The tree holds what was queued, in the order of the times and, for one time,
\* in the order of the calls (timerqueue_add, rb_erase, rb_replace_node).
QueueKept == InOrder(x, x.root[0]) = q

\* The five rules at the head of rbtree.c hold after every operation, and
\* parents and children agree: no path is longer than twice another.
RedBlack ==
    /\ x.root[0] # NULL => x.c[x.root[0]] = BLACK /\ x.p[x.root[0]] = NULL
    /\ \A n \in Queued, s \in {"l", "r"} : x[s][n] # NULL => x.p[x[s][n]] = n /\ (x.c[n] = RED => x.c[x[s][n]] = BLACK)
    /\ BlackHeight(x, x.root[0]) # -1

\* Both cached pointers, the queue's next and the tree's leftmost, are the
\* first node to expire (timerqueue_del, __rb_erase_augmented).
FirstIsCached == LET first == IF q = <<>> THEN NULL ELSE q[1] IN next = first /\ x.left = first

\* Stepping with rb_next and rb_prev visits every node, in order, once, and the
\* walk in postorder visits children before their parent.
WalksVisitAll ==
    /\ Walk(x, rb_first(x), "r") = q
    /\ Walk(x, rb_last(x), "l") = Reverse(q)
    /\ PostWalk(x, rb_first_postorder(x)) = PostOrder(x, x.root[0])

\* Every node's augmented value is that of its subtree, though an operation
\* recomputes it only along one path and in rotations (RB_DECLARE_CALLBACKS).
AugmentExact == \A n \in Queued : x.aug[n] = Len(InOrder(x, n))

RECURSIVE LoopFree(_, _, _)
LoopFree(y, n, path) ==
    n = NULL \/ (n \notin path /\ LoopFree(y, y.l[n], path \cup {n}) /\ LoopFree(y, y.r[n], path \cup {n}))

RECURSIVE ReplayLoopFree(_, _)
ReplayLoopFree(y, log) ==
    /\ LoopFree(y, y.root[0], {})
    /\ log = <<>> \/ ReplayLoopFree([y EXCEPT ![log[1][1]][log[1][2]] = log[1][3]], Tail(log))

\* "we must not inadvertently cause (temporary) loops in the tree structure as
\* seen in program order": between any two stores of an insertion or a removal a
\* reader without the lock finds no loop below the root (rbtree.c).
NoTemporaryLoops ==
    /\ \A n \in Nodes \ Queued : \A e \in ExpiresOf(n) :
         LET k == Linked(x, n, e) IN ReplayLoopFree(k.y, SubSeq(Inserted(x, n, e).log, 2, Len(Inserted(x, n, e).log)))
    /\ \A n \in Queued : ReplayLoopFree(x, rb_erase_cached(x, n).log)
=============================================================================
