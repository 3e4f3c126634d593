--------------------------- MODULE IntrusiveRBTree ---------------------------
(***************************************************************************)
(* IntrusiveRBTree of include/orderbook/intrusive_tree.hpp, the tree of    *)
(* price levels: parent and child pointers and colours, embedded in the    *)
(* levels, so that a node is known by its key.  A call links or unlinks a  *)
(* node in one step, then runs its fixup loop one turn at a time.  The two *)
(* mirror images in every loop of the code are one definition here, with   *)
(* the direction as a parameter.                                           *)
(***************************************************************************)
EXTENDS Integers, FiniteSets

CONSTANTS Keys,        \* the keys, numbers in the order of Compare
          Removable,   \* the keys the client ever removes
          NULL         \* nullptr

ASSUME KeysAssumption ==
  Keys \subseteq Int /\ NULL \notin Keys /\ Removable \subseteq Keys

VARIABLES tree,     \* root_ and the embedded nodes
          size_,
          pc,       \* idle, a fixup loop, or stopped at a null dereference
          cursor,   \* the fixup's z or x
  skipped   \* history: a removal has taken a black node out and repaired nothing

vars == <<tree, size_, pc, cursor, skipped>>

Node == Keys \cup {NULL}
Sides == {"left", "right"}
Other(d) == IF d = "left" THEN "right" ELSE "left"

Left(t, n) == t.child["left"][n]
Right(t, n) == t.child["right"][n]
Red(t, n) == n # NULL /\ t.colour[n] = "red"

\* The side of its parent a node is on, as the code asks: n == n->parent->left.
Side(t, n) == IF n = Left(t, t.parent[n]) THEN "left" ELSE "right"
Parent(t, n) == t.parent[n]
Grandparent(t, n) == t.parent[t.parent[n]]

Paint(t, n, c) == IF n = NULL THEN t ELSE [t EXCEPT !.colour[n] = c]

\* p->d = n, and the back pointer.
Adopt(t, p, d, n) ==
  [t EXCEPT !.child[d][p] = n,
            !.parent = IF n = NULL THEN @ ELSE [@ EXCEPT ![n] = p]]

\* transplant: v takes the place of u below u's parent.
Transplant(t, u, v) ==
  IF t.parent[u] = NULL
  THEN [t EXCEPT !.root = v, !.parent = IF v = NULL THEN @ ELSE [@ EXCEPT ![v] = NULL]]
  ELSE Adopt(t, t.parent[u], Side(t, u), v)

\* A definition whose comment begins with "Slip:" is a bug the code does not have;
\* each shows that a property notices it.

\* Slip: the grandchild that changes sides keeps its back pointer.
RotateForgetful(t, x, d) ==
  LET y == t.child[Other(d)][x]
      s == Transplant(t, x, y) IN
  Adopt([s EXCEPT !.child[Other(d)][x] = t.child[d][y]], y, d, x)

\* rotate_left (d = "left") and rotate_right: x goes down on side d, its child on
\* the other side comes up.
Rotate(t, x, d) ==
  LET y == t.child[Other(d)][x] IN
  Adopt(Adopt(Transplant(t, x, y), x, Other(d), t.child[d][y]), y, d, x)

\* minimum_node and maximum_node: as far down as side d goes.
Utmost(t, d, n) ==
  LET down[m \in Keys] == IF t.child[d][m] = NULL THEN m ELSE down[t.child[d][m]]
  IN  down[n]

\* The last node on the way down to a key, which is the key's node if there is one:
\* the loop of insert and of find_node.
Descend(t, k) ==
  LET down[m \in Keys] ==
        LET next == IF k < m THEN Left(t, m) ELSE Right(t, m) IN
        IF m = k \/ next = NULL THEN m ELSE down[next]
  IN  IF t.root = NULL THEN NULL ELSE down[t.root]

Find(t, k) == Descend(t, k) = k

Minimum(t) == IF t.root = NULL THEN NULL ELSE Utmost(t, "left", t.root)

\* successor (d = "right") and predecessor (d = "left"): the utmost node of the
\* subtree on side d, or the first ancestor that is left on the other side.
Neighbour(t, n, d) ==
  LET up[m \in Keys] ==
        IF t.parent[m] # NULL /\ m = t.child[d][t.parent[m]]
        THEN up[t.parent[m]] ELSE t.parent[m]
  IN  IF t.child[d][n] # NULL THEN Utmost(t, Other(d), t.child[d][n]) ELSE up[n]

------------------------------------------------------------------------------
Detached == [n \in Keys |-> NULL]

Empty == [root |-> NULL, child |-> [d \in Sides |-> Detached],
          parent |-> Detached, colour |-> [n \in Keys |-> "red"]]

Init ==
  /\ tree = Empty
  /\ size_ = 0 /\ pc = "idle" /\ cursor = NULL /\ skipped = FALSE

\* insert links a red leaf; insert of a key that is there returns false.
Linked(k) ==
  LET p == Descend(tree, k) IN
  IF p = NULL THEN [tree EXCEPT !.root = k]
  ELSE Adopt(tree, p, IF k < p THEN "left" ELSE "right", k)

\* Slip: a duplicate is counted.
InsertCounted(k) ==
  /\ pc = "idle"
  /\ size_' = size_ + 1
  /\ IF Find(tree, k)
     THEN UNCHANGED <<tree, pc, cursor, skipped>>
     ELSE UNCHANGED skipped /\ tree' = Linked(k) /\ pc' = "insert_fixup" /\ cursor' = k

Insert(k) ==
  /\ pc = "idle"
  /\ IF Find(tree, k)
     THEN UNCHANGED vars
     ELSE /\ tree' = Linked(k)
          /\ size_' = size_ + 1
          /\ pc' = "insert_fixup" /\ cursor' = k
          /\ UNCHANGED skipped

\* One turn of insert_fixup.
Uncle(t, z) == t.child[Other(Side(t, Parent(t, z)))][Grandparent(t, z)]

InsertFixup ==
  LET z == cursor
      p == Parent(tree, z)
      d == Side(tree, p) IN
  /\ pc = "insert_fixup"
  /\ p # NULL /\ Red(tree, p)
  /\ IF Red(tree, Uncle(tree, z))
     THEN /\ tree' = Paint(Paint(Paint(tree, p, "black"), Uncle(tree, z), "black"),
                           Grandparent(tree, z), "red")
          /\ cursor' = Grandparent(tree, z)
     ELSE LET inner == z # tree.child[d][p]
              low == IF inner THEN p ELSE z
              t == IF inner THEN Rotate(tree, p, d) ELSE tree
              g == Grandparent(t, low) IN
          /\ tree' = Rotate(Paint(Paint(t, Parent(t, low), "black"), g, "red"),
                            g, Other(d))
          /\ cursor' = low
  /\ UNCHANGED <<size_, pc, skipped>>

\* Slip: the root is not painted.
FinishUnpainted(t) ==
  /\ tree' = t
  /\ pc' = "idle" /\ cursor' = NULL

\* root_->color = Color::Black
Finish(t) ==
  /\ tree' = Paint(t, t.root, "black")
  /\ pc' = "idle" /\ cursor' = NULL

InsertDone ==
  /\ pc = "insert_fixup"
  /\ ~Red(tree, Parent(tree, cursor))
  /\ Finish(tree)
  /\ UNCHANGED <<size_, skipped>>

------------------------------------------------------------------------------
\* remove: the node is unlinked; with two children its successor takes its place.
Successor(k) == Utmost(tree, "left", Right(tree, k))
TwoChildren(k) == Left(tree, k) # NULL /\ Right(tree, k) # NULL

\* Slip: the successor does not take over the left subtree.
UnlinkedHalf(k) ==
  IF ~TwoChildren(k)
  THEN Transplant(tree, k, IF Left(tree, k) = NULL THEN Right(tree, k) ELSE Left(tree, k))
  ELSE LET y == Successor(k)
           t == Adopt(Transplant(tree, y, Right(tree, y)), y, "right", Right(tree, k)) IN
       Transplant(IF Parent(tree, y) = k THEN tree ELSE t, k, y)

Unlinked(k) ==
  LET y == Successor(k)
      x == Right(tree, y)
      freed == IF Parent(tree, y) = k THEN tree
               ELSE Adopt(Transplant(tree, y, x), y, "right", Right(tree, k)) IN
  IF ~TwoChildren(k)
  THEN Transplant(tree, k, IF Left(tree, k) = NULL THEN Right(tree, k) ELSE Left(tree, k))
  ELSE Paint(Adopt(Transplant(freed, k, y), y, "left", Left(tree, k)),
             y, tree.colour[k])

\* The removed node belongs to no tree.
Cleared(t, k) ==
  [t EXCEPT !.parent[k] = NULL, !.child["left"][k] = NULL, !.child["right"][k] = NULL,
            !.colour[k] = "red"]

Remove(k) ==
  LET y == IF TwoChildren(k) THEN Successor(k) ELSE k
      x == IF Left(tree, y) = NULL THEN Right(tree, y) ELSE Left(tree, y)
      t == Cleared(Unlinked(k), k) IN
  /\ pc = "idle"
  /\ Find(tree, k)
  /\ size_' = size_ - 1
  /\ IF ~Red(tree, y) /\ x # NULL
     THEN tree' = t /\ pc' = "delete_fixup" /\ cursor' = x
     ELSE Finish(t)
  /\ skipped' = (t.root # NULL /\ (skipped \/ (~Red(tree, y) /\ x = NULL)))

\* One turn of delete_fixup: x's side, its sibling, and the sibling after a red one
\* has been rotated away.
Sibling(t, x, d) == t.child[Other(d)][Parent(t, x)]

Rebalancing ==
  pc = "delete_fixup" /\ cursor # tree.root /\ ~Red(tree, cursor)

AfterRedSibling ==
  LET d == Side(tree, cursor)
      w == Sibling(tree, cursor, d)
      p == Parent(tree, cursor) IN
  IF Red(tree, w)
  THEN Rotate(Paint(Paint(tree, w, "black"), p, "red"), p, d)
  ELSE tree

DeleteFixup ==
  /\ Rebalancing
  /\ Sibling(tree, cursor, Side(tree, cursor)) # NULL
  /\ LET x == cursor
         p == Parent(tree, x)
         d == Side(tree, x)
         t == AfterRedSibling
         w == Sibling(t, x, d)
         near == t.child[d][w]
         far == t.child[Other(d)][w]
         s == IF Red(t, far) THEN t
              ELSE Rotate(Paint(Paint(t, near, "black"), w, "red"), w, Other(d))
         v == Sibling(s, x, d) IN
     /\ w # NULL
     /\ IF ~Red(t, near) /\ ~Red(t, far)
        THEN tree' = Paint(t, w, "red") /\ cursor' = p
        ELSE /\ tree' = Rotate(
                  Paint(Paint(Paint(s, v, s.colour[p]), p, "black"),
                        s.child[Other(d)][v], "black"), p, d)
             /\ cursor' = tree'.root
  /\ UNCHANGED <<size_, pc, skipped>>

\* x has no sibling: w->is_red() or w->left reads through a null pointer.
DeleteFault ==
  /\ Rebalancing
  /\ LET d == Side(tree, cursor) IN
     \/ Sibling(tree, cursor, d) = NULL
     \/ Sibling(AfterRedSibling, cursor, d) = NULL
  /\ pc' = "fault"
  /\ UNCHANGED <<tree, size_, cursor, skipped>>

\* Slip: the loop does not end at the root.
DeleteDoneIfRed ==
  /\ pc = "delete_fixup"
  /\ Red(tree, cursor)
  /\ Finish(Paint(tree, cursor, "black"))
  /\ UNCHANGED <<size_, skipped>>
\* Slip: x keeps its colour.
DeleteDoneUnpainted ==
  /\ pc = "delete_fixup"
  /\ cursor = tree.root \/ Red(tree, cursor)
  /\ Finish(tree)
  /\ UNCHANGED <<size_, skipped>>

DeleteDone ==
  /\ pc = "delete_fixup"
  /\ cursor = tree.root \/ Red(tree, cursor)
  /\ Finish(Paint(tree, cursor, "black"))
  /\ UNCHANGED <<size_, skipped>>

\* clear() forgets the root.  The nodes keep their pointers; insert sets them all, so
\* here they are reset at once.
Clear ==
  /\ pc = "idle"
  /\ tree' = Empty
  /\ size_' = 0
  /\ skipped' = FALSE
  /\ UNCHANGED <<pc, cursor>>

Fixup == InsertFixup \/ InsertDone \/ DeleteFixup \/ DeleteFault \/ DeleteDone

Next ==
  \/ \E k \in Keys : Insert(k)
  \/ \E k \in Removable : Remove(k)
  \/ Fixup \/ Clear

Spec == Init /\ [][Next]_vars

\* The calling thread runs its loops.
FairSpec == Spec /\ WF_vars(Fixup)

------------------------------------------------------------------------------
(* Properties.                                                             *)

\* The nodes below the root.
Nodes ==
  LET below[n \in Node] ==
        IF n = NULL THEN {} ELSE {n} \cup below[Left(tree, n)] \cup below[Right(tree, n)]
  IN  below[tree.root]

\* The type of every variable; size() counts the nodes (intrusive_tree.hpp:69, 86, 137).
TypeOK ==
  /\ tree.root \in Node
  /\ tree.child \in [Sides -> [Keys -> Node]] /\ tree.parent \in [Keys -> Node]
  /\ tree.colour \in [Keys -> {"red", "black"}]
  /\ size_ = Cardinality(Nodes)
  /\ pc \in {"idle", "insert_fixup", "delete_fixup", "fault"}
  /\ cursor \in Node /\ (cursor = NULL <=> pc = "idle")
  /\ skipped \in BOOLEAN

Ordered == INSTANCE OrderedSet WITH members <- Nodes

\* The tree implements a set: insert and remove change the membership of their own key
\* only, and no rotation or recolouring that follows loses or adds a node.
ImplementsOrderedSet ==
  /\ Ordered!Spec
  /\ [][/\ \A k \in Keys : Insert(k) => Ordered!Insert(k)
        /\ \A k \in Removable : Remove(k) => Ordered!Remove(k)
        /\ Clear => Ordered!Clear
        /\ Fixup => UNCHANGED Nodes]_vars

\* Every query agrees with the set, also in the middle of a fixup: find reaches each
\* node from the root, and minimum, successor and predecessor, which climb the back
\* pointers, walk the nodes in order (intrusive_tree.hpp:148-214).
WalksInOrder ==
  /\ \A k \in Keys : Find(tree, k) <=> k \in Nodes
  /\ Minimum(tree) = Ordered!First
  /\ \A n \in Nodes : /\ Neighbour(tree, n, "right") = Ordered!After(n)
                      /\ Neighbour(tree, n, "left") = Ordered!Before(n)

\* No red node has a red parent between two calls, and the root is black: insert_fixup
\* and what delete_fixup does when it runs repair this half of the balance
\* (intrusive_tree.hpp:266-360), even after removals that have broken the other half.
NoRedPair ==
  pc = "idle" => /\ ~Red(tree, tree.root)
                 /\ \A n \in Nodes : Red(tree, n) => ~Red(tree, Parent(tree, n))

\* The numbers of black nodes on the ways from a node down to nullptr.
BlackHeights ==
  LET heights[n \in Node] ==
        IF n = NULL THEN {0}
        ELSE {h + (IF Red(tree, n) THEN 0 ELSE 1) :
                h \in heights[Left(tree, n)] \cup heights[Right(tree, n)]}
  IN  heights[tree.root]

\* As long as no removal has skipped delete_fixup (intrusive_tree.hpp:139) the tree is
\* a red-black tree between two calls, with the same number of black nodes on every way
\* down; all that delete_fixup then has to do is to paint x.
RedBlackUnlessSkipped ==
  ~skipped => /\ pc # "fault"
              /\ pc = "idle" => NoRedPair /\ Cardinality(BlackHeights) = 1

\* delete_fixup never follows a sibling that is not there (intrusive_tree.hpp:309, 315,
\* 334, 340): in the red-black tree that README.md:84 speaks of, a black node other
\* than the root that has become too light has one.
NoNullSibling == pc # "fault"

\* Every fixup loop ends, whatever shape the tree is in.
CallReturns == pc \in {"insert_fixup", "delete_fixup"} ~> pc \in {"idle", "fault"}
==============================================================================
