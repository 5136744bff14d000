------------------------------- MODULE RbTree -------------------------------
(***************************************************************************)
(* The red-black tree of util/rbtree.c, as operators on a record with the  *)
(* pointers of every node.  Nodes are the numbers that the comparator      *)
(* orders, so two nodes that compare equal are one.  The code writes each  *)
(* case twice, for the left and for the right side; here the side is a     *)
(* parameter.                                                              *)
(***************************************************************************)
EXTENDS Integers, FiniteSets, FiniteSetsExt

CONSTANTS Nodes,   \* all nodes that may be in a tree
          NULL

ASSUME NodesAssumption == Nodes \subseteq Nat /\ NULL \notin Nodes

Sides == {"left", "right"}
Other(s) == IF s = "left" THEN "right" ELSE "left"

\* RB_TREE_INIT; a node that is in no tree has no pointers.
RB_TREE_INIT == [root |-> NULL, size |-> 0,
                 parent |-> [n \in Nodes |-> NULL],
                 kid |-> [s \in Sides |-> [n \in Nodes |-> NULL]],
                 red |-> {}]

_is_red(T, n) == n \in T.red
SetRed(T, n) == [T EXCEPT !.red = @ \cup {n}]
SetBlack(T, n) == [T EXCEPT !.red = @ \ {n}]
SetParent(T, n, p) == IF n = NULL THEN T ELSE [T EXCEPT !.parent[n] = p]

-----------------------------------------------------------------------------
_replace_child(T, p, old, new) ==
    LET U == IF p = NULL THEN [T EXCEPT !.root = new]
             ELSE IF T.kid["left"][p] = old THEN [T EXCEPT !.kid["left"][p] = new]
             ELSE [T EXCEPT !.kid["right"][p] = new]
    IN SetParent(U, new, p)

\* _rotate_left and _rotate_right: n goes down on side s, below r.
Lower(T, n, r, s) ==
    LET rl == T.kid[s][r]
    IN SetParent(_replace_child(SetParent([T EXCEPT !.kid[s][r] = n, !.kid[Other(s)][n] = rl], rl, n),
                                T.parent[n], n, r), n, r)
_rotate(T, n, s) == Lower(T, n, T.kid[Other(s)][n], s)

\* _insert_fixup where the uncle is black: n is brought to side s of its
\* parent, which then takes the place of the grandparent g.
Outward(T, n, p, s) == IF n = T.kid[Other(s)][p] THEN _rotate(T, p, s) ELSE T
Raise(T, g, s) == _rotate(SetRed(SetBlack(T, T.kid[s][g]), g), g, Other(s))

RECURSIVE _insert_fixup(_, _)
_insert_fixup(T, n) ==
    LET p == T.parent[n]
        g == T.parent[p]
        s == IF p = T.kid["left"][g] THEN "left" ELSE "right"
        uncle == T.kid[Other(s)][g]
    IN IF p = NULL \/ ~_is_red(T, p) THEN SetBlack(T, T.root)
       ELSE IF _is_red(T, uncle)
       THEN _insert_fixup(SetRed(SetBlack(SetBlack(T, p), uncle), g), g)
       ELSE _insert_fixup(Raise(Outward(T, n, p, s), g, s),
                          IF n = T.kid[Other(s)][p] THEN p ELSE n)

\* Where rb_insert links a node that is not in the tree, below at.
RECURSIVE LinkOf(_, _, _)
LinkOf(T, at, n) ==
    LET s == IF n < at THEN "left" ELSE "right"
    IN IF T.kid[s][at] = NULL THEN <<at, s>> ELSE LinkOf(T, T.kid[s][at], n)

RECURSIVE FindFrom(_, _, _)
FindFrom(T, at, n) ==
    IF at = NULL \/ at = n THEN at
    ELSE FindFrom(T, T.kid[IF n < at THEN "left" ELSE "right"][at], n)

rb_find(T, n) == FindFrom(T, T.root, n)

\* rb_insert refuses (-1) a node that the tree has; then the tree stays as it is.
rb_insert(T, n) ==
    IF rb_find(T, n) # NULL THEN T
    ELSE LET leaf == SetRed([T EXCEPT !.size = @ + 1], n)
             link == LinkOf(T, T.root, n)
         IN IF T.root = NULL THEN _insert_fixup([leaf EXCEPT !.root = n], n)
            ELSE _insert_fixup([leaf EXCEPT !.parent[n] = link[1],
                                            !.kid[link[2]][link[1]] = n], n)

-----------------------------------------------------------------------------
_transplant(T, u, v) == SetParent(_replace_child(T, T.parent[u], u, v), v, T.parent[u])

\* (Mutant: y keeps its own colour.)
KeepColour(T, n, y) == T
\* y gets the colour of n.
CopyColour(T, n, y) == IF _is_red(T, n) THEN SetRed(T, y) ELSE SetBlack(T, y)

\* The loop of _remove_fixup for the node x on side s of p, where r has the
\* tree, x and its parent.  A red sibling is first brought above p...
BlackSibling(T, p, s) ==
    LET w == T.kid[Other(s)][p]
    IN IF _is_red(T, w) THEN _rotate(SetRed(SetBlack(T, w), p), p, s) ELSE T

\* ...then a sibling with black children turns red, and x moves up...
BothBlack(T, w) == \A s \in Sides : ~_is_red(T, T.kid[s][w])

\* ...and else its outer child is made red, and it takes the place of p.
OuterRed(T, p, s) ==
    LET w == T.kid[Other(s)][p]
    IN IF _is_red(T, T.kid[Other(s)][w]) THEN T
       ELSE _rotate(SetRed(SetBlack(T, T.kid[s][w]), w), w, Other(s))
RaiseSibling(T, p, s) ==
    LET w == T.kid[Other(s)][p]
    IN _rotate(SetBlack(SetBlack(CopyColour(T, p, w), p), T.kid[Other(s)][w]), p, s)
AtRoot(T) == [tree |-> T, x |-> T.root, parent |-> NULL]

FixSibling(T, p, s) ==
    LET w == T.kid[Other(s)][p]
    IN IF BothBlack(T, w) THEN [tree |-> SetRed(T, w), x |-> p, parent |-> T.parent[p]]
       ELSE AtRoot(RaiseSibling(OuterRed(T, p, s), p, s))

RECURSIVE _remove_fixup(_)
_remove_fixup(r) ==
    LET s == IF r.x = r.tree.kid["left"][r.parent] THEN "left" ELSE "right"
    IN IF _is_red(r.tree, r.x) \/ r.x = r.tree.root THEN SetBlack(r.tree, r.x)
       ELSE _remove_fixup(FixSibling(BlackSibling(r.tree, r.parent, s), r.parent, s))

RECURSIVE Outermost(_, _, _)
Outermost(T, n, s) == IF n = NULL \/ T.kid[s][n] = NULL THEN n ELSE Outermost(T, T.kid[s][n], s)

\* rb_remove for a node with two children: its successor y leaves its place,
\* takes that of n, and gets the children and the colour of n.
Adopt(T, n, y, s) == SetParent([T EXCEPT !.kid[s][y] = T.kid[s][n]], T.kid[s][n], y)
Leave(T, n, y) == IF T.parent[y] = n THEN T
                  ELSE Adopt(_transplant(T, y, T.kid["right"][y]), n, y, "right")
Succeed(T, n, y) ==
    [tree |-> CopyColour(Adopt(_transplant(Leave(T, n, y), n, y), n, y, "left"), n, y),
     fix |-> ~_is_red(T, y), x |-> T.kid["right"][y],
     parent |-> IF T.parent[y] = n THEN y ELSE T.parent[y]]
RemoveInner(T, n) == Succeed(T, n, Outermost(T, T.kid["right"][n], "left"))

\* rb_remove for a node with at most one child, x.
RemoveOuter(T, n) ==
    LET x == IF T.kid["left"][n] = NULL THEN T.kid["right"][n] ELSE T.kid["left"][n]
    IN [tree |-> _transplant(T, n, x), fix |-> ~_is_red(T, n), x |-> x, parent |-> T.parent[n]]

Rebalance(r) == IF r.fix THEN _remove_fixup(r) ELSE r.tree
rb_remove(T, n) ==
    [Rebalance(IF \E s \in Sides : T.kid[s][n] = NULL THEN RemoveOuter(T, n) ELSE RemoveInner(T, n))
       EXCEPT !.size = @ - 1]

\* The memory of a node that was removed is freed.
Forget(T, n) == [T EXCEPT !.parent[n] = NULL, !.red = @ \ {n},
                          !.kid = [s \in Sides |-> [@[s] EXCEPT ![n] = NULL]]]

-----------------------------------------------------------------------------
rb_first(T) == Outermost(T, T.root, "left")
rb_last(T) == Outermost(T, T.root, "right")

\* (Mutant: a node equal to k ends the search for both bounds.)
RECURSIVE BoundAtLeast(_, _, _, _, _)
BoundAtLeast(T, at, k, result, strict) ==
    IF at = NULL \/ at = k THEN IF at = k THEN at ELSE result
    ELSE IF k < at THEN BoundAtLeast(T, T.kid["left"][at], k, at, strict)
    ELSE BoundAtLeast(T, T.kid["right"][at], k, result, strict)

\* The last node on the way down to k that is above k; a node equal to k ends
\* rb_lower_bound, and sends rb_upper_bound to the right.
RECURSIVE Bound(_, _, _, _, _)
Bound(T, at, k, result, strict) ==
    IF at = NULL THEN result
    ELSE IF at = k /\ ~strict THEN at
    ELSE IF k < at THEN Bound(T, T.kid["left"][at], k, at, strict)
    ELSE Bound(T, T.kid["right"][at], k, result, strict)

rb_lower_bound(T, k) == Bound(T, T.root, k, NULL, FALSE)
rb_upper_bound(T, k) == Bound(T, T.root, k, NULL, TRUE)

\* rb_next and rb_prev: the outermost node of the subtree on side s, or the
\* first ancestor that is reached from its other side.
RECURSIVE Climb(_, _, _)
Climb(T, n, s) == LET p == T.parent[n]
                  IN IF p # NULL /\ n = T.kid[s][p] THEN Climb(T, p, s) ELSE p

Neighbour(T, n, s) == IF T.kid[s][n] # NULL THEN Outermost(T, T.kid[s][n], Other(s))
                      ELSE Climb(T, n, s)
rb_next(T, n) == Neighbour(T, n, "right")
rb_prev(T, n) == Neighbour(T, n, "left")

-----------------------------------------------------------------------------
\* What a sound tree is: the nodes that the child pointers reach...
RECURSIVE Below(_, _)
Below(T, n) == IF n = NULL THEN {} ELSE {n} \cup UNION {Below(T, T.kid[s][n]) : s \in Sides}
NodesOf(T) == Below(T, T.root)

\* ...ordered, with parents that match, no red node below a red one, and as
\* many black nodes on every way down.
RECURSIVE BlackHeight(_, _)
BlackHeight(T, n) ==
    IF n = NULL THEN 0
    ELSE BlackHeight(T, T.kid["left"][n]) + (IF _is_red(T, n) THEN 0 ELSE 1)

Ordered(T, n) == /\ \A m \in Below(T, T.kid["left"][n]) : m < n
                 /\ \A m \in Below(T, T.kid["right"][n]) : n < m
Linked(T, n) == \A s \in Sides : T.kid[s][n] # NULL => T.parent[T.kid[s][n]] = n
Balanced(T, n) == /\ BlackHeight(T, T.kid["left"][n]) = BlackHeight(T, T.kid["right"][n])
                  /\ _is_red(T, n) => \A s \in Sides : ~_is_red(T, T.kid[s][n])

RedBlack(T) == /\ T.root # NULL => T.parent[T.root] = NULL
               /\ ~_is_red(T, T.root)
               /\ T.size = Cardinality(NodesOf(T))
               /\ \A n \in NodesOf(T) : Ordered(T, n) /\ Linked(T, n) /\ Balanced(T, n)

\* What the queries promise, by the set of nodes alone.
LeastOf(S) == IF S = {} THEN NULL ELSE Min(S)
GreatestOf(S) == IF S = {} THEN NULL ELSE Max(S)

QueriesRight(T) ==
    LET S == NodesOf(T) IN
    /\ rb_first(T) = LeastOf(S)
    /\ rb_last(T) = GreatestOf(S)
    /\ \A k \in Nodes : /\ rb_find(T, k) = IF k \in S THEN k ELSE NULL
                        /\ rb_lower_bound(T, k) = LeastOf({n \in S : n >= k})
                        /\ rb_upper_bound(T, k) = LeastOf({n \in S : n > k})
    /\ \A n \in S : /\ rb_next(T, n) = LeastOf({m \in S : m > n})
                    /\ rb_prev(T, n) = GreatestOf({m \in S : m < n})
=============================================================================
