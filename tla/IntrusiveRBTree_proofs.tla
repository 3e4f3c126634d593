----------------------- MODULE IntrusiveRBTree_proofs -----------------------
(***************************************************************************)
(* The trees of price levels, for every set of keys and every sequence of  *)
(* calls.  The subtree below each node is part of the invariant (Shape):   *)
(* a rotation changes two of them, a removal takes one key out of some,    *)
(* and all the rest is read off.                                           *)
(***************************************************************************)
EXTENDS IntrusiveRBTree, FiniteSetTheorems, WellFoundedInduction, TLAPS

Tree == [root : Node, child : [Sides -> [Keys -> Node]], parent : [Keys -> Node],
         colour : [Keys -> {"red", "black"}]]

\* a is where side d of b is.
On(d, a, b) == IF d = "left" THEN a < b ELSE b < a

\* sub[n] is the set of nodes below n, with n.
Subtrees(t, sub) ==
  /\ sub \in [Node -> SUBSET Keys] /\ sub[NULL] = {}
  /\ \A n \in Keys : /\ IsFiniteSet(sub[n])
                     /\ sub[n] = {n} \cup sub[Left(t, n)] \cup sub[Right(t, n)]

Searchable(t, sub) ==
  \A n \in Keys, d \in Sides : \A c \in sub[t.child[d][n]] : On(d, c, n)

\* The back pointers; a node that is in no tree has no pointers.
Threaded(t, sub) ==
  /\ \A n \in Keys, d \in Sides : t.child[d][n] # NULL => t.parent[t.child[d][n]] = n
  /\ \A n \in Keys : t.parent[n] # NULL => \E d \in Sides : t.child[d][t.parent[n]] = n
  /\ \A n \in sub[t.root] : t.parent[n] = NULL <=> n = t.root
  /\ \A n \in Keys \ sub[t.root] :
       t.parent[n] = NULL /\ \A d \in Sides : t.child[d][n] = NULL

Shape(t, sub) == t \in Tree /\ Subtrees(t, sub) /\ Searchable(t, sub) /\ Threaded(t, sub)

------------------------------------------------------------------------------
(* Sides and keys.                                                         *)

\* Two sides, each the other of the other.
LEMMA SideFacts ==
  ASSUME NEW d \in Sides
  PROVE  /\ Other(d) \in Sides /\ Other(d) # d /\ Other(Other(d)) = d
         /\ \A e \in Sides : e = d \/ e = Other(d)
BY DEF Sides, Other

\* Keys are numbers, and nullptr is none of them.
LEMMA KeyFacts ==
  /\ Keys \subseteq Int /\ NULL \notin Keys /\ NULL \in Node /\ Keys \subseteq Node
  /\ \A n \in Node : n # NULL => n \in Keys
BY KeysAssumption DEF Node

\* Either side orders the keys, the other side the other way round.
LEMMA OnFacts ==
  ASSUME NEW d \in Sides, NEW a \in Keys, NEW b \in Keys
  PROVE  /\ On(d, a, b) <=> On(Other(d), b, a)
         /\ ~(On(d, a, b) /\ On(d, b, a)) /\ ~On(d, a, a)
         /\ a = b \/ On(d, a, b) \/ On(d, b, a)
         /\ \A c \in Keys : On(d, a, b) /\ On(d, b, c) => On(d, a, c)
<1>1. a \in Int /\ b \in Int /\ \A c \in Keys : c \in Int
  BY KeyFacts
<1> QED BY <1>1 DEF On, Sides, Other

\* A set of numbers that is not empty has a least one.
LEMMA Least ==
  ASSUME NEW S \in SUBSET Nat, S # {}
  PROVE  \E m \in S : \A n \in S : ~(n < m)
<1>1. PICK m \in S : \A n \in S : ~(<<n, m>> \in OpToRel(<, Nat))
  BY WFMin, NatLessThanWellFounded, Zenon
<1> QED BY <1>1 DEF OpToRel

\* The function that follows next while go holds, in terms of itself.
Follow(f, K, go, next, base) == [m \in K |-> IF go[m] THEN f[next[m]] ELSE base[m]]

\* It exists when next goes down in rank.
Falling(K, go, next, rank, N) ==
  /\ N \in Nat /\ rank \in [K -> 0..N]
  /\ \A m \in K : go[m] => next[m] \in K /\ rank[next[m]] < rank[m]

\* With a rank that falls at each step, the loop ends from every node.
LEMMA FollowExists ==
  ASSUME NEW K, NEW go, NEW next, NEW base, NEW N, NEW rank,
         Falling(K, go, next, rank, N)
  PROVE  \E f : f = Follow(f, K, go, next, base)
<1> USE DEF Falling, Follow
<1> DEFINE Upto(n, f) ==
             \A m \in K : rank[m] < n => f[m] = IF go[m] THEN f[next[m]] ELSE base[m]
           S == {n \in 0..N + 1 : ~ \E f : f = [m \in K |-> f[m]] /\ Upto(n, f)}
<1>1. \A m \in K : rank[m] \in 0..N
  OBVIOUS
<1>2. S = {}
  <2> SUFFICES ASSUME S # {} PROVE FALSE
    OBVIOUS
  <2>1. S \in SUBSET Nat
    OBVIOUS
  <2>2. PICK n \in S : \A m \in S : ~(m < n)
    <3> HIDE DEF S
    <3> QED BY <2>1, Least
  <2>3. n # 0
    <3>1. Upto(0, [m \in K |-> 0])
      BY <1>1
    <3>2. [m \in K |-> 0] = [m \in K |-> [l \in K |-> 0][m]]
      OBVIOUS
    <3> QED BY <3>1, <3>2
  <2>4. n - 1 \in 0..N + 1 /\ n - 1 < n /\ n \in Nat
    BY <2>3
  <2>5. PICK f : f = [m \in K |-> f[m]] /\ Upto(n - 1, f)
    BY <2>2, <2>4
  <2> DEFINE g == [m \in K |-> IF go[m] THEN f[next[m]] ELSE base[m]]
  <2>6. ASSUME NEW m \in K, rank[m] < n
        PROVE  g[m] = IF go[m] THEN g[next[m]] ELSE base[m]
    <3>1. CASE go[m]
      <4>1. next[m] \in K /\ rank[next[m]] < rank[m]
        BY <3>1
      <4>2. rank[next[m]] < n - 1
        BY <1>1, <2>4, <2>6, <4>1
      <4> QED BY <2>5, <3>1, <4>1, <4>2
    <3> QED BY <3>1
  <2>7. g = [m \in K |-> g[m]]
    OBVIOUS
  <2>8. Upto(n, g)
    <3> HIDE DEF g
    <3> QED BY <2>6
  <2> QED BY <2>2, <2>7, <2>8
<1>3. PICK f : f = [m \in K |-> f[m]] /\ Upto(N + 1, f)
  <2>1. N + 1 \in 0..N + 1
    OBVIOUS
  <2> QED BY <1>2, <2>1
<1>4. \A m \in K : f[m] = IF go[m] THEN f[next[m]] ELSE base[m]
  <2>1. \A m \in K : rank[m] < N + 1
    BY <1>1
  <2> QED BY <1>3, <2>1
<1> WITNESS f
<1> QED BY <1>3, <1>4

------------------------------------------------------------------------------
(* What the operations do to the pointers.                                 *)

Joined(s, t, p, d, n) ==
  /\ s \in Tree /\ s.root = t.root /\ s.colour = t.colour
  /\ \A e \in Sides, m \in Keys :
       s.child[e][m] = IF e = d /\ m = p THEN n ELSE t.child[e][m]
  /\ \A m \in Keys : s.parent[m] = IF m = n THEN p ELSE t.parent[m]

\* Adopt sets one child pointer and one back pointer.
LEMMA Adopted ==
  ASSUME NEW t \in Tree, NEW p \in Keys, NEW d \in Sides, NEW n \in Node
  PROVE  Joined(Adopt(t, p, d, n), t, p, d, n)
<1> DEFINE parent == IF n = NULL THEN t.parent ELSE [t.parent EXCEPT ![n] = p]
           child == [t.child EXCEPT ![d][p] = n]
<1>1. /\ t.child \in [Sides -> [Keys -> Node]] /\ t.parent \in [Keys -> Node]
      /\ t.root \in Node /\ t.colour \in [Keys -> {"red", "black"}]
  BY DEF Tree
<1>2. Adopt(t, p, d, n) = [t EXCEPT !.child = child, !.parent = parent]
  BY <1>1 DEF Adopt, Tree
<1>3. /\ child \in [Sides -> [Keys -> Node]]
      /\ \A e \in Sides, m \in Keys :
           child[e][m] = IF e = d /\ m = p THEN n ELSE t.child[e][m]
  BY <1>1
<1>4. /\ parent \in [Keys -> Node]
      /\ \A m \in Keys : parent[m] = IF m = n THEN p ELSE t.parent[m]
  BY <1>1, KeyFacts
<1> DEFINE s == Adopt(t, p, d, n)
<1> HIDE DEF parent, child
<1>5. s \in Tree /\ s.root = t.root /\ s.colour = t.colour /\ s.child = child
      /\ s.parent = parent
  BY <1>1, <1>2, <1>3, <1>4 DEF Tree
<1> HIDE DEF s
<1>6. Joined(s, t, p, d, n)
  BY <1>3, <1>4, <1>5 DEF Joined
<1> QED BY <1>6 DEF s

Painted(s, t, n, c) ==
  /\ s \in Tree /\ s.root = t.root /\ s.child = t.child /\ s.parent = t.parent
  /\ \A m \in Keys : s.colour[m] = IF m = n THEN c ELSE t.colour[m]

\* Paint sets one colour.
LEMMA PaintFacts ==
  ASSUME NEW t \in Tree, NEW n \in Node, NEW c \in {"red", "black"}
  PROVE  Painted(Paint(t, n, c), t, n, c)
BY KeyFacts DEF Painted, Paint, Tree

\* The place of a node, below its parent or at the root.
Placed(t, u) ==
  /\ t.parent[u] = NULL <=> u = t.root
  /\ \A e \in Sides, m \in Keys :
       t.child[e][m] = u <=> t.parent[u] = m /\ e = Side(t, u)

Replaced(s, t, u, v) ==
  /\ s \in Tree /\ s.colour = t.colour
  /\ s.root = IF u = t.root THEN v ELSE t.root
  /\ \A e \in Sides, m \in Keys :
       s.child[e][m] = IF t.child[e][m] = u THEN v ELSE t.child[e][m]
  /\ \A m \in Keys : s.parent[m] = IF m = v THEN t.parent[u] ELSE t.parent[m]

\* Transplant exchanges u for v in the pointer to u, and copies u's back pointer.
LEMMA Transplanted ==
  ASSUME NEW t \in Tree, NEW u \in Keys, NEW v \in Node, Placed(t, u)
  PROVE  Replaced(Transplant(t, u, v), t, u, v)
<1>1. /\ t.child \in [Sides -> [Keys -> Node]] /\ t.parent \in [Keys -> Node]
      /\ t.root \in Node /\ t.colour \in [Keys -> {"red", "black"}]
  BY DEF Tree
<1>2. CASE t.parent[u] = NULL
  <2> DEFINE parent == IF v = NULL THEN t.parent ELSE [t.parent EXCEPT ![v] = NULL]
  <2>1. Transplant(t, u, v) = [t EXCEPT !.root = v, !.parent = parent]
    BY <1>1, <1>2 DEF Transplant, Tree
  <2>2. /\ parent \in [Keys -> Node]
        /\ \A m \in Keys : parent[m] = IF m = v THEN NULL ELSE t.parent[m]
    BY <1>1, KeyFacts
  <2>3. u = t.root /\ \A e \in Sides, m \in Keys : t.child[e][m] # u
    BY <1>2, KeyFacts DEF Placed
  <2> HIDE DEF parent
  <2> QED BY <1>1, <1>2, <2>1, <2>2, <2>3 DEF Replaced, Tree
<1>3. CASE t.parent[u] # NULL
  <2>1. t.parent[u] \in Keys /\ Side(t, u) \in Sides
    BY <1>1, <1>3, KeyFacts DEF Side, Sides
  <2>2. Transplant(t, u, v) = Adopt(t, t.parent[u], Side(t, u), v)
    BY <1>3 DEF Transplant
  <2>3. Joined(Adopt(t, t.parent[u], Side(t, u), v), t, t.parent[u], Side(t, u), v)
    BY <2>1, Adopted
  <2>4. u # t.root
    BY <1>3 DEF Placed
  <2> QED BY <2>2, <2>3, <2>4 DEF Joined, Replaced, Placed
<1> QED BY <1>2, <1>3

------------------------------------------------------------------------------
(* The subtrees.                                                           *)

\* A node and its children.
LEMMA SubFacts ==
  ASSUME NEW t, NEW sub, Shape(t, sub), NEW n \in Keys, NEW d \in Sides
  PROVE  /\ t.child[d][n] \in Node /\ t.parent[n] \in Node /\ t.root \in Node
         /\ sub[n] \subseteq Keys /\ IsFiniteSet(sub[n]) /\ n \in sub[n]
         /\ sub[t.child[d][n]] \subseteq sub[n]
         /\ \A m \in sub[n] : m = n \/ m \in sub[t.child[d][n]]
                                    \/ m \in sub[t.child[Other(d)][n]]
         /\ n \notin sub[t.child[d][n]]
         /\ sub[t.child[d][n]] \cap sub[t.child[Other(d)][n]] = {}
         /\ \A c \in sub[t.child[d][n]] : On(d, c, n) /\ ~On(Other(d), c, n)
<1>1. t \in Tree /\ sub \in [Node -> SUBSET Keys]
  BY DEF Shape, Subtrees
<1>2. /\ t.child[d][n] \in Node /\ t.child[Other(d)][n] \in Node
      /\ t.parent[n] \in Node /\ t.root \in Node
  BY <1>1, SideFacts DEF Tree
<1>3. /\ IsFiniteSet(sub[n])
      /\ sub[n] = {n} \cup sub[t.child[d][n]] \cup sub[t.child[Other(d)][n]]
  BY SideFacts DEF Shape, Subtrees, Left, Right, Sides, Other
<1>4. /\ \A c \in sub[t.child[d][n]] : On(d, c, n)
      /\ \A c \in sub[t.child[Other(d)][n]] : On(Other(d), c, n)
  BY SideFacts DEF Shape, Searchable
<1>5. sub[t.child[d][n]] \subseteq Keys /\ sub[t.child[Other(d)][n]] \subseteq Keys
  BY <1>1, <1>2
<1>6. \A c \in Keys : ~(On(d, c, n) /\ On(Other(d), c, n))
  BY OnFacts, SideFacts
<1>7. ~On(d, n, n)
  BY OnFacts
<1>8. sub[n] \subseteq Keys
  BY <1>1, KeyFacts
<1> QED BY <1>2, <1>3, <1>4, <1>5, <1>6, <1>7, <1>8

\* What lies below a child lies below its parent, which is not below it.
LEMMA BelowFacts ==
  ASSUME NEW t, NEW sub, Shape(t, sub), NEW n \in Keys, NEW d \in Sides
  PROVE  /\ sub[t.child[d][n]] \subseteq sub[n] /\ n \in sub[n]
         /\ n \notin sub[t.child[d][n]]
BY SubFacts

\* Nothing lies below both children of a node.
LEMMA ApartFacts ==
  ASSUME NEW t, NEW sub, Shape(t, sub), NEW n \in Keys, NEW d \in Sides
  PROVE  sub[t.child[d][n]] \cap sub[t.child[Other(d)][n]] = {}
BY SubFacts

\* A child is a key, points back, and has its subtree inside.
LEMMA ChildKey ==
  ASSUME NEW t, NEW sub, Shape(t, sub), NEW n \in Keys, NEW d \in Sides,
         t.child[d][n] # NULL
  PROVE  /\ t.child[d][n] \in Keys /\ t.parent[t.child[d][n]] = n
         /\ sub[t.child[d][n]] \subseteq sub[n] /\ sub[t.child[d][n]] \subseteq Keys
<1>1. t.child[d][n] \in Node /\ sub[t.child[d][n]] \subseteq sub[n] /\ sub[n] \subseteq Keys
  BY SubFacts
<1>2. t.child[d][n] \in Keys
  BY <1>1, KeyFacts
<1>3. t.parent[t.child[d][n]] = n
  BY DEF Shape, Threaded
<1> QED BY <1>1, <1>2, <1>3

\* A set of keys that is not empty has one with the smallest subtree.
LEMMA Smallest ==
  ASSUME NEW f, NEW S \in SUBSET Keys, S # {}, \A n \in S : f[n] \in Nat
  PROVE  \E n \in S : \A m \in S : ~(f[m] < f[n])
<1> DEFINE T == {f[n] : n \in S}
<1>1. T \in SUBSET Nat /\ T # {}
  OBVIOUS
<1>2. PICK i \in T : \A j \in T : ~(j < i)
  <2> HIDE DEF T
  <2> QED BY <1>1, Least
<1> QED BY <1>2

\* A child has a smaller subtree.
LEMMA ChildSmaller ==
  ASSUME NEW t, NEW sub, Shape(t, sub), NEW n \in Keys, NEW d \in Sides,
         t.child[d][n] # NULL
  PROVE  /\ t.child[d][n] \in Keys
         /\ Cardinality(sub[t.child[d][n]]) \in Nat /\ Cardinality(sub[n]) \in Nat
         /\ Cardinality(sub[t.child[d][n]]) < Cardinality(sub[n])
<1> DEFINE c == t.child[d][n]
<1>1. c \in Keys
  BY SubFacts, KeyFacts
<1>2. /\ IsFiniteSet(sub[n]) /\ IsFiniteSet(sub[c]) /\ sub[c] \subseteq sub[n]
      /\ n \in sub[n] /\ n \notin sub[c]
  BY <1>1, SubFacts
<1> HIDE DEF c
<1>3. sub[c] # sub[n]
  BY <1>2
<1>4. Cardinality(sub[c]) < Cardinality(sub[n])
  BY <1>2, <1>3, FS_Subset, FS_CardinalityType
<1> QED BY <1>1, <1>2, <1>4, FS_CardinalityType DEF c

\* Induction from the children: among the nodes that lack a property there is one
\* whose children have it.
LEMMA FirstBad ==
  ASSUME NEW t, NEW sub, Shape(t, sub), NEW S \in SUBSET Keys, S # {}
  PROVE  \E n \in S : \A d \in Sides : t.child[d][n] \notin S
<1> DEFINE f == [n \in Keys |-> Cardinality(sub[n])]
<1>1. \A n \in S : f[n] \in Nat
  BY FS_CardinalityType DEF Shape, Subtrees
<1>2. PICK n \in S : \A m \in S : ~(f[m] < f[n])
  <2> HIDE DEF f
  <2> QED BY <1>1, Smallest
<1>3. ASSUME NEW d \in Sides, t.child[d][n] \in S PROVE FALSE
  BY <1>2, <1>3, ChildSmaller, KeyFacts
<1> QED BY <1>2, <1>3

\* The subtree of a member of a subtree is part of it, and so is the way up.
LEMMA Nested ==
  ASSUME NEW t, NEW sub, Shape(t, sub), NEW n \in Keys, NEW m \in sub[n]
  PROVE  sub[m] \subseteq sub[n] /\ (m # n => t.parent[m] \in sub[n])
<1> DEFINE Bad == {l \in Keys : \E k \in sub[l] :
                     ~(sub[k] \subseteq sub[l] /\ (k # l => t.parent[k] \in sub[l]))}
<1>1. ASSUME Bad # {} PROVE FALSE
  <2>1. Bad \in SUBSET Keys
    OBVIOUS
  <2>2. PICK l \in Bad : \A d \in Sides : t.child[d][l] \notin Bad
    <3> HIDE DEF Bad
    <3> QED BY <1>1, <2>1, FirstBad
  <2>3. PICK k \in sub[l] :
          ~(sub[k] \subseteq sub[l] /\ (k # l => t.parent[k] \in sub[l]))
    BY <2>2
  <2>4. l \in Keys /\ k # l
    BY <2>3
  <2>5. PICK d \in Sides : k \in sub[t.child[d][l]]
    BY <2>4, SubFacts, SideFacts DEF Sides
  <2> DEFINE c == t.child[d][l]
  <2>6. c # NULL /\ l \in sub[l]
    BY <2>4, <2>5, SubFacts DEF Shape, Subtrees
  <2>7. c \in Keys /\ sub[c] \subseteq sub[l] /\ t.parent[c] = l
    BY <2>4, <2>6, ChildKey
  <2>8. sub[k] \subseteq sub[c] /\ (k # c => t.parent[k] \in sub[c])
    BY <2>2, <2>5, <2>7
  <2> QED BY <2>3, <2>6, <2>7, <2>8
<1> QED BY <1>1

\* The members: the nodes below the root.
LEMMA Members ==
  ASSUME NEW t, NEW sub, Shape(t, sub)
  PROVE  /\ sub[t.root] \subseteq Keys /\ IsFiniteSet(sub[t.root])
         /\ t.root \in Node
         /\ IF t.root = NULL THEN sub[t.root] = {}
            ELSE t.root \in Keys /\ t.root \in sub[t.root]
<1>1. t \in Tree /\ sub \in [Node -> SUBSET Keys] /\ sub[NULL] = {}
  BY DEF Shape, Subtrees
<1>2. t.root \in Node
  BY <1>1 DEF Tree
<1>3. CASE t.root = NULL
  BY <1>1, <1>2, <1>3, FS_EmptySet
<1>4. CASE t.root # NULL
  <2>1. t.root \in Keys
    BY <1>2, <1>4, KeyFacts
  <2> QED BY <1>2, <1>4, <2>1, SubFacts, SideFacts DEF Sides
<1> QED BY <1>3, <1>4

\* A node of the tree, its subtree, its parent and its children.
LEMMA MemberFacts ==
  ASSUME NEW t, NEW sub, Shape(t, sub), NEW n \in sub[t.root]
  PROVE  /\ n \in Keys /\ t.root \in Keys /\ t.root \in sub[t.root]
         /\ sub[n] \subseteq sub[t.root] /\ n \in sub[n]
         /\ t.parent[n] = NULL <=> n = t.root
         /\ t.parent[n] # NULL => /\ t.parent[n] \in sub[t.root]
                                  /\ \E d \in Sides : t.child[d][t.parent[n]] = n
         /\ \A d \in Sides : t.child[d][n] # NULL =>
              /\ t.child[d][n] \in sub[t.root] /\ t.child[d][n] \in sub[n]
              /\ t.parent[t.child[d][n]] = n
<1>1. n \in Keys /\ t.root \in Keys /\ t.root \in sub[t.root]
  BY Members
<1>2. sub[n] \subseteq sub[t.root] /\ n \in sub[n]
  BY <1>1, Nested, SubFacts, SideFacts DEF Sides
<1>3. t.parent[n] = NULL <=> n = t.root
  BY DEF Shape, Threaded
<1>4. ASSUME t.parent[n] # NULL
      PROVE  /\ t.parent[n] \in sub[t.root]
             /\ \E d \in Sides : t.child[d][t.parent[n]] = n
  BY <1>1, <1>3, <1>4, Nested DEF Shape, Threaded
<1>5. ASSUME NEW d \in Sides, t.child[d][n] # NULL
      PROVE  /\ t.child[d][n] \in sub[t.root] /\ t.child[d][n] \in sub[n]
             /\ t.parent[t.child[d][n]] = n
  <2>1. t.child[d][n] \in Keys
    BY <1>1, <1>5, ChildSmaller
  <2>2. t.child[d][n] \in sub[t.child[d][n]]
    BY <2>1, SubFacts
  <2>3. sub[t.child[d][n]] \subseteq sub[n]
    BY <1>1, SubFacts
  <2> QED BY <1>1, <1>2, <1>5, <2>2, <2>3 DEF Shape, Threaded
<1> QED BY <1>1, <1>2, <1>3, <1>4, <1>5

\* A key that is no member.
LEMMA Outside ==
  ASSUME NEW t, NEW sub, Shape(t, sub), NEW n \in Keys, n \notin sub[t.root]
  PROVE  /\ sub[n] = {n} /\ t.parent[n] = NULL
         /\ \A d \in Sides : t.child[d][n] = NULL
         /\ \A m \in Keys, d \in Sides : t.child[d][m] # n
         /\ \A m \in Keys : t.parent[m] # n
<1>1. t.parent[n] = NULL /\ \A d \in Sides : t.child[d][n] = NULL
  BY DEF Shape, Threaded
<1>2. sub[n] = {n}
  BY <1>1 DEF Shape, Subtrees, Left, Right, Sides
<1>3. ASSUME NEW m \in Keys, NEW d \in Sides, t.child[d][m] = n PROVE FALSE
  BY <1>1, <1>3, KeyFacts DEF Shape, Threaded
<1>4. ASSUME NEW m \in Keys, t.parent[m] = n PROVE FALSE
  BY <1>1, <1>4, KeyFacts DEF Shape, Threaded
<1> QED BY <1>1, <1>2, <1>3, <1>4

\* The only pointer to a node is its parent's, on the side that Side tells.
LEMMA MemberPlaced ==
  ASSUME NEW t, NEW sub, Shape(t, sub), NEW u \in sub[t.root]
  PROVE  Placed(t, u)
<1>1. u \in Keys /\ u # NULL /\ t.parent[u] \in Node
  <2>1. u \in Keys /\ "left" \in Sides
    BY MemberFacts DEF Sides
  <2> QED BY <2>1, KeyFacts, SubFacts
<1>2. ASSUME NEW e \in Sides, NEW m \in Keys, t.child[e][m] = u
      PROVE  t.parent[u] = m /\ e = Side(t, u)
  <2>1. t.parent[u] = m
    BY <1>1, <1>2 DEF Shape, Threaded
  <2>2. ASSUME e = "right" PROVE t.child["left"][m] # u
    <3>1. sub[t.child["left"][m]] \cap sub[t.child["right"][m]] = {}
      BY SubFacts DEF Sides, Other
    <3>2. u \in sub[u]
      BY <1>1, SubFacts DEF Sides
    <3> QED BY <1>2, <2>2, <3>1, <3>2
  <2> QED BY <1>2, <2>1, <2>2 DEF Side, Left, Sides
<1>3. ASSUME NEW e \in Sides, NEW m \in Keys, t.parent[u] = m, e = Side(t, u)
      PROVE  t.child[e][m] = u
  <2>1. PICK d \in Sides : t.child[d][m] = u
    BY <1>3, KeyFacts, MemberFacts
  <2> QED BY <1>2, <1>3, <2>1
<1>4. t.parent[u] = NULL <=> u = t.root
  BY MemberFacts
<1> QED BY <1>2, <1>3, <1>4 DEF Placed

------------------------------------------------------------------------------
(* Rotations.                                                              *)

Rotation(s, t, x, d, y, b) ==
  /\ s \in Tree /\ s.colour = t.colour
  /\ s.root = IF x = t.root THEN y ELSE t.root
  /\ \A e \in Sides, m \in Keys :
       s.child[e][m] = IF e = d /\ m = y THEN x
                       ELSE IF e = Other(d) /\ m = x THEN b
                       ELSE IF t.child[e][m] = x THEN y ELSE t.child[e][m]
  /\ \A m \in Keys :
       s.parent[m] = IF m = x THEN y ELSE IF m = b THEN x
                     ELSE IF m = y THEN t.parent[x] ELSE t.parent[m]

\* The three assignments of a rotation together.
LEMMA RotateFacts ==
  ASSUME NEW t, NEW sub, Shape(t, sub), NEW x \in sub[t.root], NEW d \in Sides,
         NEW y \in Keys, y = t.child[Other(d)][x]
  PROVE  Rotation(Rotate(t, x, d), t, x, d, y, t.child[d][y])
<1> DEFINE b == t.child[d][y]
           s1 == Transplant(t, x, y)
           s2 == Adopt(s1, x, Other(d), b)
           s3 == Adopt(s2, y, d, x)
<1>1. Rotate(t, x, d) = s3
  BY DEF Rotate
<1>2. t \in Tree /\ x \in Keys /\ x \in Node /\ b \in Node /\ Other(d) \in Sides
  BY MemberFacts, KeyFacts, SideFacts, SubFacts DEF Shape
<1>3. Replaced(s1, t, x, y)
  BY <1>2, KeyFacts, MemberPlaced, Transplanted
<1>4. Joined(s2, s1, x, Other(d), b)
  <2>1. s1 \in Tree
    BY <1>3 DEF Replaced
  <2> HIDE DEF s1, b
  <2> QED BY <1>2, <2>1, Adopted
<1>5. Joined(s3, s2, y, d, x)
  <2>1. s2 \in Tree
    BY <1>4, Zenon DEF Joined
  <2> HIDE DEF s2, b
  <2> QED BY <1>2, <2>1, Adopted
<1>6. x # y /\ Other(d) # d
  BY <1>2, SubFacts, SideFacts
<1> HIDE DEF s1, s2, s3
<1> QED BY <1>1, <1>3, <1>4, <1>5, <1>6 DEF Rotation, Replaced, Joined

\* A rotation of a tree is a tree with the same members.
LEMMA Rotated ==
  ASSUME NEW t, NEW sub, Shape(t, sub), NEW x \in sub[t.root], NEW d \in Sides,
         t.child[Other(d)][x] # NULL
  PROVE  \E below : /\ Shape(Rotate(t, x, d), below)
                    /\ below[Rotate(t, x, d).root] = sub[t.root]
<1> DEFINE y == t.child[Other(d)][x]
           a == t.child[d][x]
           b == t.child[d][y]
           c == t.child[Other(d)][y]
           s == Rotate(t, x, d)
           below == [n \in Node |-> IF n = y THEN sub[x]
                                    ELSE IF n = x THEN {x} \cup sub[a] \cup sub[b]
                                    ELSE sub[n]]
<1>1. /\ x \in Keys /\ y \in Keys /\ y \in sub[t.root] /\ y \in sub[x]
      /\ Other(d) \in Sides /\ Other(d) # d /\ \A e \in Sides : e = d \/ e = Other(d)
      /\ t.parent[y] = x /\ x \notin sub[y]
  BY MemberFacts, SideFacts, SubFacts
<1>2. Rotation(s, t, x, d, y, b)
  BY <1>1, RotateFacts
<1>3. /\ a \in Node /\ b \in Node /\ c \in Node
      /\ sub \in [Node -> SUBSET Keys] /\ sub[NULL] = {}
      /\ a # x /\ a # y /\ b # x /\ b # y /\ c # x /\ c # y
  <2>1. a \in Node /\ b \in Node /\ c \in Node
    BY <1>1, SubFacts
  <2>2. sub \in [Node -> SUBSET Keys] /\ sub[NULL] = {}
    BY DEF Shape, Subtrees
  <2>3. /\ x \in sub[x] /\ y \in sub[y] /\ x \notin sub[a]
        /\ y \notin sub[b] /\ y \notin sub[c]
    BY <1>1, BelowFacts
  <2>5. sub[b] \subseteq sub[y] /\ sub[c] \subseteq sub[y]
    BY <1>1, BelowFacts
  <2>4. sub[a] \cap sub[y] = {}
    BY <1>1, SubFacts
  <2> QED BY <1>1, <2>1, <2>2, <2>3, <2>4, <2>5, Zenon
<1>4. /\ sub[x] = {x} \cup sub[a] \cup sub[y] /\ sub[y] = {y} \cup sub[b] \cup sub[c]
      /\ IsFiniteSet(sub[x])
  BY <1>1 DEF Shape, Subtrees, Left, Right, Sides, Other
<1>5. \A e \in Sides, m \in Keys :
        /\ t.child[e][m] = x => t.parent[x] = m /\ x # t.root
        /\ t.child[e][m] = y <=> m = x /\ e = Other(d)
  <2>1. Placed(t, x) /\ Placed(t, y)
    BY <1>1, MemberPlaced
  <2> QED BY <1>1, <2>1, KeyFacts DEF Placed
<1> HIDE DEF y, a, b, c, s
<1>6. Subtrees(s, below)
  <2>1. below \in [Node -> SUBSET Keys] /\ below[NULL] = {}
    BY <1>1, <1>3, KeyFacts
  <2>2. ASSUME NEW n \in Keys
        PROVE  IsFiniteSet(below[n])
    <3>1. IsFiniteSet(sub[n])
      BY DEF Shape, Subtrees
    <3>2. {x} \cup sub[a] \cup sub[b] \subseteq sub[x]
      BY <1>4
    <3>3. IsFiniteSet({x} \cup sub[a] \cup sub[b])
      BY <1>4, <3>2, FS_Subset
    <3> QED BY <1>4, <3>1, <3>3, KeyFacts
  <2>3. ASSUME NEW n \in Keys
        PROVE  below[n] = {n} \cup below[s.child[d][n]] \cup below[s.child[Other(d)][n]]
    <3>1. CASE n = y
      <4>1. s.child[d][n] = x /\ s.child[Other(d)][n] = c
        BY <1>1, <1>2, <1>3, <3>1 DEF Rotation, c
      <4> QED BY <1>1, <1>3, <1>4, <3>1, <4>1, KeyFacts
    <3>2. CASE n = x
      <4>1. s.child[d][n] = a /\ s.child[Other(d)][n] = b
        BY <1>1, <1>2, <1>3, <3>2 DEF Rotation, a
      <4> QED BY <1>1, <1>3, <1>4, <3>2, <4>1, KeyFacts
    <3>3. CASE n # x /\ n # y
      <4>1. \A e \in Sides : /\ t.child[e][n] \in Node
                             /\ s.child[e][n] = IF t.child[e][n] = x THEN y ELSE t.child[e][n]
                             /\ t.child[e][n] # y
        BY <1>1, <1>2, <1>5, <3>3, SubFacts DEF Rotation
      <4>2. \A e \in Sides : below[s.child[e][n]] = sub[t.child[e][n]]
        BY <1>1, <4>1, KeyFacts
      <4>3. sub[n] = {n} \cup sub[t.child[d][n]] \cup sub[t.child[Other(d)][n]]
        BY SideFacts DEF Shape, Subtrees, Left, Right, Sides, Other
      <4> QED BY <1>1, <3>3, <4>2, <4>3, KeyFacts
    <3> QED BY <3>1, <3>2, <3>3
  <2> HIDE DEF below
  <2> QED BY <2>1, <2>2, <2>3 DEF Subtrees, Left, Right, Sides, Other
<1>7. Searchable(s, below)
  <2> SUFFICES ASSUME NEW n \in Keys, NEW e \in Sides, NEW l \in below[s.child[e][n]]
               PROVE  On(e, l, n)
    BY DEF Searchable
  <2>1. /\ \A m \in Keys, f \in Sides : \A k \in sub[t.child[f][m]] : On(f, k, m)
        /\ On(d, x, y) /\ On(Other(d), y, x)
        /\ \A k \in Keys : On(d, k, x) /\ On(d, x, y) => On(d, k, y)
    <3>1. On(Other(d), y, x)
      BY <1>1, SubFacts DEF Shape, Searchable, y
    <3> QED BY <1>1, <3>1, OnFacts DEF Shape, Searchable
  <2>2. CASE n = y
    <3>1. CASE e = d
      <4>1. l \in {x} \cup sub[a] \cup sub[b]
        BY <1>1, <1>2, <2>2, <3>1, KeyFacts DEF Rotation
      <4>2. l \in sub[a] => On(d, l, x) /\ l \in Keys
        BY <1>1, <1>3, <2>1 DEF a
      <4>3. l \in sub[b] => On(d, l, y)
        BY <1>1, <2>1 DEF b
      <4> QED BY <2>1, <2>2, <3>1, <4>1, <4>2, <4>3
    <3>2. CASE e = Other(d)
      <4>1. s.child[e][n] = c
        BY <1>1, <1>2, <1>3, <2>2, <3>2 DEF Rotation, c
      <4>2. l \in sub[c]
        BY <1>3, <4>1
      <4> QED BY <1>1, <2>1, <2>2, <3>2, <4>2 DEF c
    <3> QED BY <1>1, <3>1, <3>2
  <2>3. CASE n = x
    <3>1. CASE e = d
      <4>1. s.child[e][n] = a
        BY <1>1, <1>2, <1>3, <2>3, <3>1 DEF Rotation, a
      <4>2. l \in sub[a]
        BY <1>3, <4>1
      <4> QED BY <1>1, <2>1, <2>3, <3>1, <4>2 DEF a
    <3>2. CASE e = Other(d)
      <4>1. s.child[e][n] = b
        BY <1>1, <1>2, <1>3, <2>3, <3>2 DEF Rotation
      <4>2. l \in sub[y]
        BY <1>3, <1>4, <4>1
      <4> QED BY <1>1, <2>1, <2>3, <3>2, <4>2 DEF y
    <3> QED BY <1>1, <3>1, <3>2
  <2>4. CASE n # x /\ n # y
    <3>1. /\ t.child[e][n] \in Node /\ t.child[e][n] # y
          /\ s.child[e][n] = IF t.child[e][n] = x THEN y ELSE t.child[e][n]
      BY <1>1, <1>2, <1>5, <2>4, SubFacts DEF Rotation
    <3>2. l \in sub[t.child[e][n]]
      BY <1>1, <3>1, KeyFacts
    <3> QED BY <2>1, <3>2
  <2> QED BY <2>2, <2>3, <2>4
<1>8. below[s.root] = sub[t.root]
  <2>1. t.root # y
    BY <1>1, KeyFacts, MemberFacts
  <2>2. t.root \in Node
    BY Members
  <2> QED BY <1>1, <1>2, <2>1, <2>2, KeyFacts DEF Rotation
<1>9. Threaded(s, below)
  <2>1. ASSUME NEW n \in Keys, NEW e \in Sides, s.child[e][n] # NULL
        PROVE  s.parent[s.child[e][n]] = n
    <3>1. t.child[e][n] # NULL => t.child[e][n] \in Keys /\ t.parent[t.child[e][n]] = n
      BY SubFacts, KeyFacts DEF Shape, Threaded
    <3>2. b # NULL => b \in Keys /\ t.parent[b] = y
      BY <1>1, SubFacts, KeyFacts DEF Shape, Threaded, b
    <3>3. CASE e = d /\ n = y
      BY <1>1, <1>2, <3>3 DEF Rotation
    <3>4. CASE e = Other(d) /\ n = x
      BY <1>1, <1>2, <1>3, <2>1, <3>2, <3>4 DEF Rotation
    <3>5. CASE ~(e = d /\ n = y) /\ ~(e = Other(d) /\ n = x)
      <4>1. s.child[e][n] = IF t.child[e][n] = x THEN y ELSE t.child[e][n]
        BY <1>2, <3>5 DEF Rotation
      <4>2. CASE t.child[e][n] = x
        BY <1>1, <1>2, <1>3, <1>5, <4>1, <4>2 DEF Rotation
      <4>3. CASE t.child[e][n] # x
        <5>1. t.child[e][n] # y
          BY <1>5, <3>5
        <5>2. t.child[e][n] # b
          <6> SUFFICES ASSUME t.child[e][n] = b PROVE FALSE
            OBVIOUS
          <6>1. b # NULL
            BY <2>1, <4>1, <4>3
          <6>2. n = y /\ b \in Keys
            BY <3>1, <3>2, <6>1
          <6>3. e = Other(d)
            BY <1>1, <3>5, <6>2
          <6>4. b \in sub[b] /\ sub[t.child[d][y]] \cap sub[t.child[Other(d)][y]] = {}
            BY <1>1, <6>2, SubFacts
          <6> QED BY <6>2, <6>3, <6>4 DEF b
        <5> QED BY <1>2, <2>1, <3>1, <4>1, <4>3, <5>1, <5>2 DEF Rotation
      <4> QED BY <4>2, <4>3
    <3> QED BY <3>3, <3>4, <3>5
  <2>2. ASSUME NEW n \in Keys, s.parent[n] # NULL
        PROVE  \E e \in Sides : s.child[e][s.parent[n]] = n
    <3>1. \A m \in Keys : t.parent[m] # NULL =>
            t.parent[m] \in Keys /\ \E e \in Sides : t.child[e][t.parent[m]] = m
      BY SubFacts, KeyFacts DEF Shape, Threaded, Sides
    <3>2. CASE n = x
      BY <1>1, <1>2, <3>2 DEF Rotation
    <3>3. CASE n = b
      BY <1>1, <1>2, <1>3, <3>3 DEF Rotation
    <3>4. CASE n = y
      <4>1. s.parent[n] = t.parent[x]
        BY <1>1, <1>2, <1>3, <3>4 DEF Rotation
      <4>2. PICK e \in Sides : t.child[e][t.parent[x]] = x
        BY <1>1, <2>2, <3>1, <4>1
      <4>3. t.parent[x] \in Keys /\ t.parent[x] # x /\ t.parent[x] # y
        <5>1. t.parent[x] \in Keys
          BY <1>1, <2>2, <3>1, <4>1
        <5>2. x \notin sub[x] \/ t.parent[x] # x
          BY <4>2, <5>1, SubFacts
        <5>3. t.parent[x] # y
          BY <1>1, <4>2, SubFacts
        <5> QED BY <1>1, <5>1, <5>2, <5>3, SubFacts
      <4> QED BY <1>2, <3>4, <4>1, <4>2, <4>3 DEF Rotation
    <3>5. CASE n # x /\ n # b /\ n # y
      <4>1. s.parent[n] = t.parent[n]
        BY <1>2, <3>5 DEF Rotation
      <4>2. PICK e \in Sides : t.child[e][t.parent[n]] = n
        BY <2>2, <3>1, <4>1
      <4>3. t.parent[n] \in Keys /\ ~(e = d /\ t.parent[n] = y)
                                 /\ ~(e = Other(d) /\ t.parent[n] = x)
        BY <2>2, <3>1, <3>5, <4>1, <4>2 DEF b, y
      <4> QED BY <1>2, <3>5, <4>1, <4>2, <4>3 DEF Rotation
    <3> QED BY <3>2, <3>3, <3>4, <3>5
  <2>3. ASSUME NEW n \in below[s.root] PROVE s.parent[n] = NULL <=> n = s.root
    <3>1. n \in sub[t.root] /\ n \in Keys /\ (t.parent[n] = NULL <=> n = t.root)
          /\ (t.parent[x] = NULL <=> x = t.root)
      BY <1>8, <2>3, MemberFacts
    <3>2. b # NULL => b # t.root
      <4>1. b # NULL => b \in sub[t.root] /\ t.parent[b] = y
        BY <1>1, MemberFacts DEF b
      <4> QED BY <1>1, <4>1, MemberFacts, KeyFacts
    <3>3. y # t.root
      BY <1>1, KeyFacts, MemberFacts
    <3> QED BY <1>1, <1>2, <1>3, <3>1, <3>2, <3>3, KeyFacts DEF Rotation
  <2>4. ASSUME NEW n \in Keys \ below[s.root]
        PROVE  s.parent[n] = NULL /\ \A e \in Sides : s.child[e][n] = NULL
    <3>1. /\ n \notin sub[t.root] /\ t.parent[n] = NULL
          /\ \A e \in Sides : t.child[e][n] = NULL
      BY <1>8, <2>4, Outside
    <3>2. n # b
      <4>1. b # NULL => b \in sub[t.root]
        BY <1>1, MemberFacts DEF b
      <4> QED BY <3>1, <4>1, KeyFacts
    <3> QED BY <1>1, <1>2, <3>1, <3>2, KeyFacts DEF Rotation
  <2> HIDE DEF below
  <2> QED BY <2>1, <2>2, <2>3, <2>4 DEF Threaded
<1>10. Shape(s, below) /\ below[s.root] = sub[t.root]
  BY <1>2, <1>6, <1>7, <1>8, <1>9 DEF Shape, Rotation
<1> QED BY <1>10 DEF s

------------------------------------------------------------------------------
(* Painting, linking and unlinking a node.                                 *)

\* A colour is no part of the shape.
LEMMA ShapePainted ==
  ASSUME NEW t, NEW sub, Shape(t, sub), NEW n \in Node, NEW c \in {"red", "black"}
  PROVE  Shape(Paint(t, n, c), sub) /\ Paint(t, n, c).root = t.root
<1>1. Painted(Paint(t, n, c), t, n, c)
  BY PaintFacts DEF Shape
<1> DEFINE s == Paint(t, n, c)
<1> HIDE DEF s
<1>2. Painted(s, t, n, c)
  BY <1>1 DEF s
<1>3. Shape(s, sub) /\ s.root = t.root
  BY <1>2 DEF Painted, Shape, Subtrees, Searchable, Threaded, Left, Right
<1> QED BY <1>3 DEF s

\* A key linked below a node that has no child on its side.
LEMMA LeafLinked ==
  ASSUME NEW t, NEW sub, Shape(t, sub), NEW k \in Keys, k \notin sub[t.root],
         NEW p \in sub[t.root], NEW e \in Sides, t.child[e][p] = NULL, On(e, k, p),
         \A n \in Keys, d \in Sides : p \in sub[t.child[d][n]] => On(d, k, n)
  PROVE  \E below : /\ Shape(Adopt(t, p, e, k), below)
                    /\ below[Adopt(t, p, e, k).root] = sub[t.root] \cup {k}
<1> DEFINE s == Adopt(t, p, e, k)
           below == [n \in Node |-> IF p \in sub[n] THEN sub[n] \cup {k} ELSE sub[n]]
<1>1. /\ p \in Keys /\ p # k /\ p \in sub[p] /\ sub \in [Node -> SUBSET Keys]
      /\ sub[NULL] = {} /\ t \in Tree /\ k # NULL /\ p # NULL
  BY MemberFacts, KeyFacts DEF Shape, Subtrees
<1>2. Joined(s, t, p, e, k)
  BY <1>1, KeyFacts, Adopted
<1>3. /\ sub[k] = {k} /\ t.parent[k] = NULL /\ \A d \in Sides : t.child[d][k] = NULL
      /\ \A m \in Keys, d \in Sides : t.child[d][m] # k
      /\ \A m \in Keys : t.parent[m] # k
  BY Outside
<1> HIDE DEF s
<1>4. \A n \in Keys, d \in Sides :
        /\ t.child[d][n] \in Node /\ n \in sub[n] /\ IsFiniteSet(sub[n])
        /\ sub[t.child[d][n]] \subseteq sub[n]
  BY SubFacts
<1>5. \A n \in Keys, d \in Sides :
        s.child[d][n] = IF d = e /\ n = p THEN k ELSE t.child[d][n]
  BY <1>2 DEF Joined
<1>6. below[k] = {k} /\ below[NULL] = {}
  BY <1>1, <1>3, KeyFacts
<1>7. Subtrees(s, below)
  <2>1. below \in [Node -> SUBSET Keys]
    BY <1>1
  <2>2. ASSUME NEW n \in Keys PROVE IsFiniteSet(below[n])
    BY <1>4, KeyFacts, FS_AddElement
  <2>3. ASSUME NEW n \in Keys
        PROVE  below[n] = {n} \cup below[s.child["left"][n]] \cup below[s.child["right"][n]]
    <3>1. sub[n] = {n} \cup sub[t.child["left"][n]] \cup sub[t.child["right"][n]]
      BY DEF Shape, Subtrees, Left, Right
    <3>2. t.child["left"][n] \in Node /\ t.child["right"][n] \in Node
      BY <1>4 DEF Sides
    <3>3. CASE n = p
      <4>1. p \notin sub[t.child["left"][p]] /\ p \notin sub[t.child["right"][p]]
        BY <1>1, SubFacts DEF Sides
      <4>2. CASE e = "left"
        <5>1. s.child["left"][n] = k /\ s.child["right"][n] = t.child["right"][n]
              /\ sub[t.child["left"][n]] = {}
          BY <1>1, <1>5, <3>3, <4>2 DEF Sides
        <5> QED BY <1>1, <1>6, <3>1, <3>2, <3>3, <4>1, <5>1, KeyFacts
      <4>3. CASE e = "right"
        <5>1. s.child["right"][n] = k /\ s.child["left"][n] = t.child["left"][n]
              /\ sub[t.child["right"][n]] = {}
          BY <1>1, <1>5, <3>3, <4>3 DEF Sides
        <5> QED BY <1>1, <1>6, <3>1, <3>2, <3>3, <4>1, <5>1, KeyFacts
      <4> QED BY <4>2, <4>3 DEF Sides
    <3>4. CASE n # p
      <4>1. s.child["left"][n] = t.child["left"][n]
            /\ s.child["right"][n] = t.child["right"][n]
        BY <1>5, <3>4 DEF Sides
      <4> QED BY <1>1, <3>1, <3>2, <3>4, <4>1, KeyFacts
    <3> QED BY <3>3, <3>4
  <2> HIDE DEF below
  <2> QED BY <1>6, <2>1, <2>2, <2>3 DEF Subtrees, Left, Right
<1>8. Searchable(s, below)
  <2> SUFFICES ASSUME NEW n \in Keys, NEW d \in Sides, NEW c \in below[s.child[d][n]]
               PROVE  On(d, c, n)
    BY DEF Searchable
  <2>1. CASE d = e /\ n = p
    BY <1>5, <1>6, <2>1
  <2>2. CASE ~(d = e /\ n = p)
    <3>1. c \in sub[t.child[d][n]] \/ (c = k /\ p \in sub[t.child[d][n]])
      BY <1>4, <1>5, <2>2
    <3> QED BY <3>1 DEF Shape, Searchable
  <2> QED BY <2>1, <2>2
<1>9. below[s.root] = sub[t.root] \cup {k}
  BY <1>2, Members DEF Joined
<1>10. Threaded(s, below)
  <2>1. ASSUME NEW n \in Keys, NEW d \in Sides, s.child[d][n] # NULL
        PROVE  s.parent[s.child[d][n]] = n
    <3>1. t.child[d][n] # NULL => t.child[d][n] \in Keys /\ t.parent[t.child[d][n]] = n
      BY ChildKey
    <3> QED BY <1>2, <1>3, <2>1, <3>1 DEF Joined
  <2>2. ASSUME NEW n \in Keys, s.parent[n] # NULL
        PROVE  \E d \in Sides : s.child[d][s.parent[n]] = n
    <3>1. CASE n = k
      BY <1>1, <1>2, <3>1 DEF Joined
    <3>2. CASE n # k
      <4>1. s.parent[n] = t.parent[n]
        BY <1>2, <3>2 DEF Joined
      <4>2. t.parent[n] \in Keys
        BY <2>2, <4>1, SubFacts, KeyFacts DEF Sides
      <4>3. PICK d \in Sides : t.child[d][t.parent[n]] = n
        BY <2>2, <4>1 DEF Shape, Threaded
      <4>4. ~(d = e /\ t.parent[n] = p)
        BY <4>3, KeyFacts
      <4> QED BY <1>5, <4>1, <4>2, <4>3, <4>4
    <3> QED BY <3>1, <3>2
  <2>3. ASSUME NEW n \in below[s.root] PROVE s.parent[n] = NULL <=> n = s.root
    <3>1. n \in sub[t.root] \/ n = k
      BY <1>9, <2>3
    <3>2. s.root = t.root /\ t.root # k
      BY <1>2, MemberFacts DEF Joined
    <3>3. n \in sub[t.root] => n \in Keys /\ (t.parent[n] = NULL <=> n = t.root)
      BY MemberFacts
    <3> QED BY <1>1, <1>2, <3>1, <3>2, <3>3 DEF Joined
  <2>4. ASSUME NEW n \in Keys \ below[s.root]
        PROVE  s.parent[n] = NULL /\ \A d \in Sides : s.child[d][n] = NULL
    <3>1. n # k /\ n # p /\ t.parent[n] = NULL /\ \A d \in Sides : t.child[d][n] = NULL
      BY <1>9, <2>4, Outside
    <3> QED BY <1>2, <3>1 DEF Joined
  <2> HIDE DEF below
  <2> QED BY <2>1, <2>2, <2>3, <2>4 DEF Threaded
<1>11. Shape(s, below)
  BY <1>2, <1>7, <1>8, <1>10 DEF Shape, Joined
<1> QED BY <1>9, <1>11 DEF s

\* The first key of a tree.
LEMMA RootLinked ==
  ASSUME NEW t, NEW sub, Shape(t, sub), NEW k \in Keys, t.root = NULL
  PROVE  /\ Shape([t EXCEPT !.root = k], sub)
         /\ sub[[t EXCEPT !.root = k].root] = {k}
<1> DEFINE s == [t EXCEPT !.root = k]
<1>1. sub[t.root] = {} /\ t \in Tree /\ k \in Node
  BY Members, KeyFacts DEF Shape
<1>2. /\ s \in Tree /\ s.root = k /\ s.child = t.child /\ s.parent = t.parent
      /\ s.colour = t.colour
  BY <1>1 DEF Tree
<1>3. sub[k] = {k}
  BY <1>1, Outside
<1>4. \A n \in Keys : t.parent[n] = NULL /\ \A d \in Sides : t.child[d][n] = NULL
  BY <1>1, Outside
<1> HIDE DEF s
<1>5. Shape(s, sub)
  BY <1>2, <1>3, <1>4 DEF Shape, Subtrees, Searchable, Threaded, Left, Right
<1> QED BY <1>2, <1>3, <1>5 DEF s

\* The pointers after a node with at most one child, x, has been unlinked.
Unhooked(s, t, k, x) ==
  /\ s \in Tree
  /\ s.root = IF k = t.root THEN x ELSE t.root
  /\ \A e \in Sides, m \in Keys :
       s.child[e][m] = IF m = k THEN NULL
                       ELSE IF t.child[e][m] = k THEN x ELSE t.child[e][m]
  /\ \A m \in Keys :
       s.parent[m] = IF m = k THEN NULL
                     ELSE IF m = x THEN t.parent[k] ELSE t.parent[m]

\* Unlinking a node with at most one child, and clearing its own pointers.
LEMMA Unhooks ==
  ASSUME NEW t, NEW sub, Shape(t, sub), NEW k \in sub[t.root], NEW e \in Sides,
         t.child[e][k] = NULL
  PROVE  \E below : \A s : Unhooked(s, t, k, t.child[Other(e)][k]) =>
           Shape(s, below) /\ below[s.root] = sub[t.root] \ {k}
<1> DEFINE x == t.child[Other(e)][k]
           below == [n \in Node |-> IF n = k THEN {k} ELSE sub[n] \ {k}]
<1> SUFFICES ASSUME NEW s, Unhooked(s, t, k, x)
             PROVE  Shape(s, below) /\ below[s.root] = sub[t.root] \ {k}
  OBVIOUS
<1>1. /\ k \in Keys /\ k \in sub[k] /\ sub \in [Node -> SUBSET Keys] /\ k # NULL
      /\ sub[NULL] = {} /\ Other(e) \in Sides /\ x \in Node
      /\ \A d \in Sides : d = e \/ d = Other(e)
  BY MemberFacts, KeyFacts, SideFacts, SubFacts DEF Shape, Subtrees
<1>2. x # k /\ k \notin sub[x] /\ sub[k] = {k} \cup sub[x]
  <2>1. k \notin sub[x]
    BY <1>1, SubFacts
  <2>2. sub[k] = {k} \cup sub[t.child[e][k]] \cup sub[x]
    BY <1>1 DEF Shape, Subtrees, Left, Right, Sides, Other
  <2> QED BY <1>1, <2>1, <2>2
<1>3. \A d \in Sides, m \in Keys : t.child[d][m] = k <=> t.parent[k] = m /\ d = Side(t, k)
  BY MemberPlaced DEF Placed
<1>4. x # NULL => x \in Keys /\ x \in sub[t.root] /\ t.parent[x] = k /\ x # t.root
  <2>1. x # NULL => x \in sub[t.root] /\ t.parent[x] = k
    BY <1>1, MemberFacts
  <2> QED BY <1>1, <2>1, MemberFacts
<1> HIDE DEF x
<1>5. \A n \in Keys, d \in Sides :
        /\ t.child[d][n] \in Node /\ n \in sub[n] /\ IsFiniteSet(sub[n])
        /\ sub[t.child[d][n]] \subseteq sub[n]
  BY SubFacts
<1>6. \A n \in Keys, d \in Sides :
        s.child[d][n] = IF n = k THEN NULL
                        ELSE IF t.child[d][n] = k THEN x ELSE t.child[d][n]
  BY DEF Unhooked
<1>7. below[NULL] = {} /\ below[k] = {k} /\ below[x] = sub[x] /\ sub[x] = sub[k] \ {k}
  BY <1>1, <1>2, KeyFacts
<1>8. \A n \in Keys, d \in Sides : n # k => below[s.child[d][n]] = sub[t.child[d][n]] \ {k}
  BY <1>5, <1>6, <1>7
<1>9. Subtrees(s, below)
  <2>1. below \in [Node -> SUBSET Keys]
    BY <1>1
  <2>2. ASSUME NEW n \in Keys PROVE IsFiniteSet(below[n])
    <3>1. IsFiniteSet(sub[n]) /\ sub[n] \ {k} \subseteq sub[n]
      BY <1>5 DEF Sides
    <3>2. IsFiniteSet({k})
      BY FS_Singleton
    <3> QED BY <3>1, <3>2, FS_Subset, KeyFacts
  <2>3. ASSUME NEW n \in Keys
        PROVE  below[n] = {n} \cup below[s.child["left"][n]] \cup below[s.child["right"][n]]
    <3>1. sub[n] = {n} \cup sub[t.child["left"][n]] \cup sub[t.child["right"][n]]
      BY DEF Shape, Subtrees, Left, Right
    <3>2. CASE n = k
      BY <1>6, <1>7, <3>2 DEF Sides
    <3>3. CASE n # k
      <4>1. /\ below[s.child["left"][n]] = sub[t.child["left"][n]] \ {k}
            /\ below[s.child["right"][n]] = sub[t.child["right"][n]] \ {k}
        BY <1>8, <3>3 DEF Sides
      <4> QED BY <3>1, <3>3, <4>1, KeyFacts
    <3> QED BY <3>2, <3>3
  <2> HIDE DEF below
  <2> QED BY <1>7, <2>1, <2>2, <2>3 DEF Subtrees, Left, Right
<1>10. Searchable(s, below)
  <2> SUFFICES ASSUME NEW n \in Keys, NEW d \in Sides, NEW c \in below[s.child[d][n]]
               PROVE  On(d, c, n)
    BY DEF Searchable
  <2>1. n # k
    BY <1>6, <1>7
  <2>2. c \in sub[t.child[d][n]]
    BY <1>8, <2>1
  <2> QED BY <2>2 DEF Shape, Searchable
<1>11. below[s.root] = sub[t.root] \ {k}
  BY <1>7, Members DEF Unhooked
<1>12. Threaded(s, below)
  <2> HIDE DEF below
  <2>1. ASSUME NEW n \in Keys, NEW d \in Sides, s.child[d][n] # NULL
        PROVE  s.parent[s.child[d][n]] = n
    <3>1. t.child[d][n] # NULL => t.child[d][n] \in Keys /\ t.parent[t.child[d][n]] = n
      <4>1. t.child[d][n] # NULL => t.child[d][n] \in Keys
        BY ChildKey
      <4> QED BY <4>1 DEF Shape, Threaded
    <3>2. CASE t.child[d][n] = k
      BY <1>2, <1>3, <1>4, <1>6, <2>1, <3>2 DEF Unhooked
    <3>3. CASE t.child[d][n] # k
      <4>1. s.child[d][n] = t.child[d][n] /\ n # k
        BY <1>6, <2>1, <3>3
      <4>2. t.child[d][n] # x
        BY <1>4, <2>1, <3>1, <4>1
      <4> QED BY <2>1, <3>1, <3>3, <4>1, <4>2 DEF Unhooked
    <3> QED BY <3>2, <3>3
  <2>2. ASSUME NEW n \in Keys, s.parent[n] # NULL
        PROVE  \E d \in Sides : s.child[d][s.parent[n]] = n
    <3>1. \A m \in Keys : t.parent[m] # NULL =>
            t.parent[m] \in Keys /\ \E d \in Sides : t.child[d][t.parent[m]] = m
      BY SubFacts, KeyFacts DEF Shape, Threaded, Sides
    <3>2. n # k
      BY <2>2 DEF Unhooked
    <3>3. CASE n = x
      <4>1. s.parent[n] = t.parent[k]
        BY <3>2, <3>3 DEF Unhooked
      <4>2. PICK d \in Sides : t.child[d][t.parent[k]] = k
        BY <1>1, <2>2, <3>1, <4>1
      <4>3. t.parent[k] \in Keys /\ t.parent[k] # k
        BY <1>1, <2>2, <3>1, <4>1, <4>2, SubFacts
      <4> QED BY <1>6, <3>3, <4>1, <4>2, <4>3
    <3>4. CASE n # x
      <4>1. s.parent[n] = t.parent[n]
        BY <3>2, <3>4 DEF Unhooked
      <4>2. PICK d \in Sides : t.child[d][t.parent[n]] = n
        BY <2>2, <3>1, <4>1
      <4>3. t.parent[n] # k
        BY <1>1, <3>4, <4>2, KeyFacts DEF x
      <4> QED BY <1>6, <2>2, <3>1, <3>2, <4>1, <4>2, <4>3
    <3> QED BY <3>3, <3>4
  <2>3. ASSUME NEW n \in below[s.root] PROVE s.parent[n] = NULL <=> n = s.root
    <3>1. n \in sub[t.root] /\ n # k /\ n \in Keys /\ (t.parent[n] = NULL <=> n = t.root)
      BY <1>11, <2>3, MemberFacts
    <3>2. t.parent[k] = NULL <=> k = t.root
      BY MemberFacts
    <3> QED BY <1>4, <3>1, <3>2, KeyFacts DEF Unhooked
  <2>4. ASSUME NEW n \in Keys \ below[s.root]
        PROVE  s.parent[n] = NULL /\ \A d \in Sides : s.child[d][n] = NULL
    <3>1. CASE n = k
      BY <1>6, <3>1 DEF Unhooked
    <3>2. CASE n # k
      <4>1. n \notin sub[t.root]
        BY <1>11, <2>4, <3>2
      <4>2. t.parent[n] = NULL /\ \A d \in Sides : t.child[d][n] = NULL
        BY <4>1, Outside
      <4>3. n # x
        BY <1>4, <4>1, KeyFacts
      <4> QED BY <1>1, <1>6, <3>2, <4>2, <4>3 DEF Unhooked
    <3> QED BY <3>1, <3>2
  <2> QED BY <2>1, <2>2, <2>3, <2>4 DEF Threaded
<1>13. Shape(s, below)
  BY <1>9, <1>10, <1>12 DEF Shape, Unhooked
<1> QED BY <1>11, <1>13

\* The pointers after y, which is in no tree, has taken the place of k.
TookOver(s, t, k, y) ==
  /\ s \in Tree
  /\ s.root = IF k = t.root THEN y ELSE t.root
  /\ \A e \in Sides, m \in Keys :
       s.child[e][m] = IF m = k THEN NULL ELSE IF m = y THEN t.child[e][k]
                       ELSE IF t.child[e][m] = k THEN y ELSE t.child[e][m]
  /\ \A m \in Keys :
       s.parent[m] = IF m = k THEN NULL ELSE IF m = y THEN t.parent[k]
                     ELSE IF t.parent[m] = k THEN y ELSE t.parent[m]

\* No other member of M is between k and y.
Adjacent(k, y, M) ==
  \A m \in M, d \in Sides : m # k => /\ On(d, k, m) => On(d, y, m)
                                     /\ On(d, m, k) => On(d, m, y)

\* A key next to k takes k's place, with k's subtrees.
LEMMA TakesOver ==
  ASSUME NEW t, NEW sub, Shape(t, sub), NEW k \in sub[t.root],
         NEW y \in Keys, y \notin sub[t.root], Adjacent(k, y, sub[t.root])
  PROVE  \E below : \A s : TookOver(s, t, k, y) =>
           Shape(s, below) /\ below[s.root] = (sub[t.root] \ {k}) \cup {y}
<1> DEFINE below == [n \in Node |->
                       IF n = k THEN {k}
                       ELSE IF n = y THEN (sub[k] \ {k}) \cup {y}
                       ELSE IF k \in sub[n] THEN (sub[n] \ {k}) \cup {y}
                       ELSE sub[n]]
<1> SUFFICES ASSUME NEW s, TookOver(s, t, k, y)
             PROVE  Shape(s, below) /\ below[s.root] = (sub[t.root] \ {k}) \cup {y}
  OBVIOUS
<1>1. /\ k \in Keys /\ k \in sub[k] /\ sub \in [Node -> SUBSET Keys] /\ k # NULL
      /\ sub[NULL] = {} /\ k # y /\ y # NULL /\ sub[k] \subseteq sub[t.root]
  BY MemberFacts, KeyFacts DEF Shape, Subtrees
<1>2. /\ sub[y] = {y} /\ t.parent[y] = NULL /\ \A d \in Sides : t.child[d][y] = NULL
      /\ \A m \in Keys, d \in Sides : t.child[d][m] # y
      /\ \A m \in Keys : t.parent[m] # y
  BY Outside
<1>3. \A n \in Keys, d \in Sides :
        /\ t.child[d][n] \in Node /\ n \in sub[n] /\ IsFiniteSet(sub[n])
        /\ sub[t.child[d][n]] \subseteq sub[n] /\ t.child[d][n] # n
        /\ n \notin sub[t.child[d][n]]
  <2>1. \A n \in Keys, d \in Sides :
        /\ t.child[d][n] \in Node /\ n \in sub[n] /\ IsFiniteSet(sub[n])
        /\ sub[t.child[d][n]] \subseteq sub[n]
        /\ n \notin sub[t.child[d][n]]
    BY SubFacts
  <2> QED BY <2>1
<1>4. \A n \in Keys, d \in Sides :
        s.child[d][n] = IF n = k THEN NULL ELSE IF n = y THEN t.child[d][k]
                        ELSE IF t.child[d][n] = k THEN y ELSE t.child[d][n]
  BY DEF TookOver
<1>5. /\ below[NULL] = {} /\ below[k] = {k} /\ below[y] = (sub[k] \ {k}) \cup {y}
  BY <1>1, KeyFacts
\* What the place of a child becomes.
<1>6. \A n \in Keys, d \in Sides :
        /\ n # k /\ n # y => below[s.child[d][n]] =
             IF k \in sub[t.child[d][n]] THEN (sub[t.child[d][n]] \ {k}) \cup {y}
             ELSE sub[t.child[d][n]]
        /\ n = y => below[s.child[d][n]] = sub[t.child[d][k]]
  <2> TAKE n \in Keys, d \in Sides
  <2>1. t.child[d][n] \in Node /\ t.child[d][k] \in Node /\ k \notin sub[t.child[d][k]]
        /\ t.child[d][k] # y /\ t.child[d][k] # k
    BY <1>1, <1>2, <1>3
  <2>2. CASE n = y
    <3>1. s.child[d][n] = t.child[d][k]
      BY <1>1, <1>4, <2>2
    <3> QED BY <2>1, <2>2, <3>1
  <2>3. CASE n # k /\ n # y /\ t.child[d][n] = k
    <3>1. s.child[d][n] = y
      BY <1>4, <2>3
    <3> HIDE DEF below
    <3> QED BY <1>1, <1>5, <2>3, <3>1
  <2>4. CASE n # k /\ n # y /\ t.child[d][n] # k
    <3>1. s.child[d][n] = t.child[d][n] /\ t.child[d][n] # y
      BY <1>2, <1>4, <2>4
    <3> QED BY <2>1, <2>4, <3>1
  <2> QED BY <2>2, <2>3, <2>4
<1>7. Subtrees(s, below)
  <2>1. below \in [Node -> SUBSET Keys]
    BY <1>1, KeyFacts
  <2>2. ASSUME NEW n \in Keys PROVE IsFiniteSet(below[n])
    <3>1. \A m \in Keys : IsFiniteSet(sub[m] \ {k}) /\ IsFiniteSet((sub[m] \ {k}) \cup {y})
      <4>1. \A m \in Keys : IsFiniteSet(sub[m]) /\ sub[m] \ {k} \subseteq sub[m]
        BY <1>3 DEF Sides
      <4>2. \A m \in Keys : IsFiniteSet(sub[m] \ {k})
        BY <4>1, FS_Subset
      <4> QED BY <4>2, FS_AddElement
    <3>2. IsFiniteSet({k}) /\ IsFiniteSet(sub[n])
      BY <1>3, FS_Singleton DEF Sides
    <3> QED BY <1>1, <3>1, <3>2, KeyFacts
  <2>3. ASSUME NEW n \in Keys
        PROVE  below[n] = {n} \cup below[s.child["left"][n]] \cup below[s.child["right"][n]]
    <3>1. \A m \in Keys : sub[m] = {m} \cup sub[t.child["left"][m]] \cup sub[t.child["right"][m]]
      BY DEF Shape, Subtrees, Left, Right
    <3>2. CASE n = k
      BY <1>4, <1>5, <3>2 DEF Sides
    <3>3. CASE n = y
      <4>1. /\ below[s.child["left"][n]] = sub[t.child["left"][k]]
            /\ below[s.child["right"][n]] = sub[t.child["right"][k]]
            /\ k \notin sub[t.child["left"][k]] /\ k \notin sub[t.child["right"][k]]
        BY <1>1, <1>3, <1>6, <3>3, Zenon DEF Sides
      <4>2. sub[k] = {k} \cup sub[t.child["left"][k]] \cup sub[t.child["right"][k]]
        BY <1>1, <3>1
      <4> HIDE DEF below
      <4> QED BY <1>5, <3>3, <4>1, <4>2
    <3>4. CASE n # k /\ n # y
      <4> DEFINE Was(S) == IF k \in S THEN (S \ {k}) \cup {y} ELSE S
      <4>1. /\ below[s.child["left"][n]] = Was(sub[t.child["left"][n]])
            /\ below[s.child["right"][n]] = Was(sub[t.child["right"][n]])
        BY <1>6, <3>4 DEF Sides
      <4>2. below[n] = Was(sub[n])
        BY <3>4, KeyFacts
      <4>3. sub[n] = {n} \cup sub[t.child["left"][n]] \cup sub[t.child["right"][n]]
        BY <3>1
      <4> HIDE DEF below
      <4> QED BY <3>4, <4>1, <4>2, <4>3
    <3> QED BY <3>2, <3>3, <3>4
  <2> HIDE DEF below
  <2> QED BY <1>5, <2>1, <2>2, <2>3 DEF Subtrees, Left, Right
<1>8. Searchable(s, below)
  <2> SUFFICES ASSUME NEW n \in Keys, NEW d \in Sides, NEW c \in below[s.child[d][n]]
               PROVE  On(d, c, n)
    BY DEF Searchable
  <2> HIDE DEF below
  <2>1. \A m \in Keys, e \in Sides : \A l \in sub[t.child[e][m]] : On(e, l, m)
    BY DEF Shape, Searchable
  <2>2. n # k
    BY <1>4, <1>5
  <2>3. CASE n = y
    <3>1. c \in sub[t.child[d][k]]
      BY <1>6, <2>3
    <3>2. c # k /\ c \in sub[t.root]
      BY <1>1, <1>3, <3>1
    <3> QED BY <1>1, <2>1, <2>3, <3>1, <3>2 DEF Adjacent
  <2>4. CASE n # y
    <3>1. c \in sub[t.child[d][n]] \/ (c = y /\ k \in sub[t.child[d][n]])
      <4>1. below[s.child[d][n]] = IF k \in sub[t.child[d][n]]
                                   THEN (sub[t.child[d][n]] \ {k}) \cup {y}
                                   ELSE sub[t.child[d][n]]
        BY <1>6, <2>2, <2>4
      <4> QED BY <4>1
    <3>2. CASE c = y /\ k \in sub[t.child[d][n]]
      <4>1. n \in sub[t.root]
        <5>1. n \notin sub[t.root] => t.child[d][n] = NULL
          BY Outside
        <5> QED BY <1>1, <3>2, <5>1
      <4> QED BY <2>1, <2>2, <3>2, <4>1 DEF Adjacent
    <3> QED BY <2>1, <3>1, <3>2
  <2> QED BY <2>3, <2>4
<1>9. below[s.root] = (sub[t.root] \ {k}) \cup {y}
  <2>1. t.root \in Keys /\ t.root # y
    BY <1>2, MemberFacts
  <2> QED BY <1>1, <1>5, <2>1, KeyFacts DEF TookOver
<1>10. Threaded(s, below)
  <2> HIDE DEF below
  <2>1. ASSUME NEW n \in Keys, NEW d \in Sides, s.child[d][n] # NULL
        PROVE  s.parent[s.child[d][n]] = n
    <3>1. \A m \in Keys : t.child[d][m] # NULL =>
            t.child[d][m] \in Keys /\ t.parent[t.child[d][m]] = m
      BY SubFacts, KeyFacts DEF Shape, Threaded
    <3>2. CASE n = y
      <4>1. s.child[d][n] = t.child[d][k] /\ t.child[d][k] # k /\ t.child[d][k] # y
        BY <1>1, <1>2, <1>3, <1>4, <3>2
      <4> QED BY <1>1, <2>1, <3>1, <3>2, <4>1 DEF TookOver
    <3>3. CASE n # y /\ t.child[d][n] = k
      BY <1>1, <1>4, <2>1, <3>1, <3>3 DEF TookOver
    <3>4. CASE n # y /\ t.child[d][n] # k
      <4>1. s.child[d][n] = t.child[d][n] /\ n # k /\ t.child[d][n] # y
        BY <1>2, <1>4, <2>1, <3>4
      <4> QED BY <2>1, <3>1, <3>4, <4>1 DEF TookOver
    <3> QED BY <3>2, <3>3, <3>4
  <2>2. ASSUME NEW n \in Keys, s.parent[n] # NULL
        PROVE  \E d \in Sides : s.child[d][s.parent[n]] = n
    <3>1. \A m \in Keys : t.parent[m] # NULL =>
            t.parent[m] \in Keys /\ \E d \in Sides : t.child[d][t.parent[m]] = m
      BY SubFacts, KeyFacts DEF Shape, Threaded, Sides
    <3>2. n # k
      BY <2>2 DEF TookOver
    <3>3. CASE n = y
      <4>1. s.parent[n] = t.parent[k]
        BY <3>2, <3>3 DEF TookOver
      <4>2. PICK d \in Sides : t.child[d][t.parent[k]] = k
        BY <1>1, <2>2, <3>1, <4>1
      <4>3. t.parent[k] \in Keys /\ t.parent[k] # k /\ t.parent[k] # y
        BY <1>1, <1>2, <1>3, <2>2, <3>1, <4>1, <4>2
      <4> QED BY <1>4, <3>3, <4>1, <4>2, <4>3
    <3>4. CASE n # y
      <4>1. s.parent[n] = IF t.parent[n] = k THEN y ELSE t.parent[n]
        BY <3>2, <3>4 DEF TookOver
      <4>2. PICK d \in Sides : t.child[d][t.parent[n]] = n
        BY <1>1, <2>2, <3>1, <4>1
      <4>3. t.parent[n] \in Keys /\ t.parent[n] # y
        BY <1>1, <1>2, <2>2, <3>1, <4>1
      <4> QED BY <1>4, <3>2, <4>1, <4>2, <4>3
    <3> QED BY <3>3, <3>4
  <2>3. ASSUME NEW n \in below[s.root] PROVE s.parent[n] = NULL <=> n = s.root
    <3>1. /\ n # k /\ (n = y \/ n \in sub[t.root]) /\ n \in Keys
          /\ n \in sub[t.root] => (t.parent[n] = NULL <=> n = t.root)
      BY <1>1, <1>9, <2>3, MemberFacts
    <3>2. t.parent[k] = NULL <=> k = t.root
      BY MemberFacts
    <3>3. t.root # y
      BY <1>2, MemberFacts
    <3> QED BY <1>1, <3>1, <3>2, <3>3 DEF TookOver
  <2>4. ASSUME NEW n \in Keys \ below[s.root]
        PROVE  s.parent[n] = NULL /\ \A d \in Sides : s.child[d][n] = NULL
    <3>1. CASE n = k
      BY <1>4, <3>1 DEF TookOver
    <3>2. CASE n # k
      <4>1. n \notin sub[t.root] /\ n # y
        BY <1>9, <2>4, <3>2
      <4>2. t.parent[n] = NULL /\ \A d \in Sides : t.child[d][n] = NULL
        BY <4>1, Outside
      <4> QED BY <1>1, <1>4, <3>2, <4>1, <4>2 DEF TookOver
    <3> QED BY <3>1, <3>2
  <2> QED BY <2>1, <2>2, <2>3, <2>4 DEF Threaded
<1>11. Shape(s, below)
  BY <1>7, <1>8, <1>10 DEF Shape, TookOver
<1> QED BY <1>9, <1>11

------------------------------------------------------------------------------
(* The ways down and up.                                                   *)

Down(t, go, next) ==
  \A m \in Keys : go[m] => \E d \in Sides : /\ t.child[d][m] # NULL
                                             /\ next[m] = t.child[d][m]
Up(t, go, next) == \A m \in Keys : go[m] => t.parent[m] # NULL /\ next[m] = t.parent[m]

\* A way down ends: the subtrees get smaller.
LEMMA DownExists ==
  ASSUME NEW t, NEW sub, Shape(t, sub), NEW go, NEW next, NEW base, Down(t, go, next)
  PROVE  \E f : f = Follow(f, Keys, go, next, base)
<1> DEFINE N == Cardinality(sub[t.root]) + 1
           rank == [m \in Keys |-> Cardinality(sub[m])]
<1>1. N \in Nat /\ IsFiniteSet(sub[t.root])
  BY Members, FS_CardinalityType
<1>2. ASSUME NEW m \in Keys PROVE rank[m] \in 0..N
  <2>1. CASE m \in sub[t.root]
    <3>1. sub[m] \subseteq sub[t.root]
      BY <2>1, MemberFacts
    <3>2. Cardinality(sub[m]) <= Cardinality(sub[t.root]) /\ Cardinality(sub[m]) \in Nat
          /\ Cardinality(sub[t.root]) \in Nat
      BY <1>1, <3>1, FS_Subset, FS_CardinalityType
    <3> QED BY <3>2
  <2>2. CASE m \notin sub[t.root]
    <3>1. sub[m] = {m}
      BY <2>2, Outside
    <3>2. Cardinality({m}) = 1
      BY FS_Singleton
    <3>3. Cardinality(sub[t.root]) \in Nat
      BY <1>1, FS_CardinalityType
    <3> QED BY <3>1, <3>2, <3>3
  <2> QED BY <2>1, <2>2
<1>3. ASSUME NEW m \in Keys, go[m] PROVE next[m] \in Keys /\ rank[next[m]] < rank[m]
  BY <1>3, ChildSmaller DEF Down
<1>4. rank \in [Keys -> 0..N]
  BY <1>2
<1> HIDE DEF rank, N
<1>5. Falling(Keys, go, next, rank, N)
  BY <1>1, <1>3, <1>4 DEF Falling
<1> QED BY <1>5, FollowExists

\* A way up ends: the subtrees get larger.
LEMMA UpExists ==
  ASSUME NEW t, NEW sub, Shape(t, sub), NEW go, NEW next, NEW base, Up(t, go, next)
  PROVE  \E f : f = Follow(f, Keys, go, next, base)
<1> DEFINE N == Cardinality(sub[t.root])
           rank == [m \in Keys |-> IF m \in sub[t.root] THEN N - Cardinality(sub[m]) ELSE 0]
<1>1. N \in Nat /\ IsFiniteSet(sub[t.root])
  BY Members, FS_CardinalityType
<1>2. ASSUME NEW m \in sub[t.root]
      PROVE  Cardinality(sub[m]) <= N /\ Cardinality(sub[m]) \in Nat
  <2>1. sub[m] \subseteq sub[t.root]
    BY MemberFacts
  <2> QED BY <1>1, <2>1, FS_Subset, FS_CardinalityType
<1>3. rank \in [Keys -> 0..N]
  <2>1. ASSUME NEW m \in Keys PROVE rank[m] \in 0..N
    <3>1. CASE m \in sub[t.root]
      <4>1. N - Cardinality(sub[m]) \in 0..N
        BY <1>1, <1>2, <3>1
      <4> QED BY <3>1, <4>1
    <3> QED BY <1>1, <3>1
  <2> QED BY <2>1
<1>4. ASSUME NEW m \in Keys, go[m] PROVE next[m] \in Keys /\ rank[next[m]] < rank[m]
  <2> DEFINE p == t.parent[m]
  <2>1. next[m] = p /\ p # NULL
    BY <1>4 DEF Up
  <2>2. m \in sub[t.root]
    BY <2>1, Outside
  <2>3. p \in sub[t.root] /\ p \in Keys
    BY <2>1, <2>2, MemberFacts, Members
  <2>4. PICK d \in Sides : t.child[d][p] = m
    BY <2>1, <2>2, MemberFacts
  <2>5. Cardinality(sub[m]) < Cardinality(sub[p])
    BY <2>3, <2>4, KeyFacts, ChildSmaller
  <2>6. rank[m] = N - Cardinality(sub[m]) /\ rank[p] = N - Cardinality(sub[p])
    BY <2>2, <2>3
  <2> HIDE DEF p, rank, N
  <2>7. rank[p] < rank[m]
    BY <1>1, <1>2, <2>2, <2>3, <2>5, <2>6
  <2> QED BY <2>1, <2>3, <2>7
<1> HIDE DEF rank, N
<1>5. Falling(Keys, go, next, rank, N)
  BY <1>1, <1>3, <1>4 DEF Falling
<1> QED BY <1>5, FollowExists

\* minimum_node and maximum_node find the last node of a subtree on their side.
LEMMA UtmostFacts ==
  ASSUME NEW t, NEW sub, Shape(t, sub), NEW n \in Keys, NEW d \in Sides
  PROVE  /\ Utmost(t, d, n) \in sub[n] /\ t.child[d][Utmost(t, d, n)] = NULL
         /\ \A m \in sub[n] : m = Utmost(t, d, n) \/ On(d, Utmost(t, d, n), m)
<1> DEFINE go == [m \in Keys |-> t.child[d][m] # NULL]
           next == [m \in Keys |-> t.child[d][m]]
           base == [m \in Keys |-> m]
<1>1. \E f : f = Follow(f, Keys, go, next, base)
  <2>1. Down(t, go, next)
    BY DEF Down
  <2> HIDE DEF go, next, base
  <2> QED BY <2>1, DownExists
<1>2. \A f : Follow(f, Keys, go, next, base)
             = [m \in Keys |-> IF t.child[d][m] = NULL THEN m ELSE f[t.child[d][m]]]
  BY DEF Follow
<1>3. PICK down : /\ down = [m \in Keys |-> IF t.child[d][m] = NULL THEN m
                                            ELSE down[t.child[d][m]]]
                  /\ Utmost(t, d, n) = down[n]
  <2>1. PICK f : f = CHOOSE g : g = [m \in Keys |-> IF t.child[d][m] = NULL THEN m
                                                    ELSE g[t.child[d][m]]]
    OBVIOUS
  <2>2. Utmost(t, d, n) = f[n]
    BY <2>1 DEF Utmost
  <2>3. f = [m \in Keys |-> IF t.child[d][m] = NULL THEN m ELSE f[t.child[d][m]]]
    <3>1. \E g : g = [m \in Keys |-> IF t.child[d][m] = NULL THEN m ELSE g[t.child[d][m]]]
      <4> HIDE DEF go, next, base
      <4>1. PICK g : g = Follow(g, Keys, go, next, base)
        BY <1>1
      <4> WITNESS g
      <4> QED BY <1>2, <4>1
    <3> QED BY <2>1, <3>1
  <2> QED BY <2>2, <2>3
<1> DEFINE Good(m) == /\ down[m] \in sub[m] /\ t.child[d][down[m]] = NULL
                      /\ \A l \in sub[m] : l = down[m] \/ On(d, down[m], l)
           Bad == {m \in Keys : ~Good(m)}
<1>4. Bad = {}
  <2> SUFFICES ASSUME Bad # {} PROVE FALSE
    OBVIOUS
  <2>1. PICK m \in Bad : \A e \in Sides : t.child[e][m] \notin Bad
    <3>1. Bad \in SUBSET Keys
      OBVIOUS
    <3> HIDE DEF Bad
    <3> QED BY <3>1, FirstBad
  <2>2. m \in Keys /\ ~Good(m)
    OBVIOUS
  <2>3. \A l \in sub[m] : l = m \/ l \in sub[t.child[d][m]]
                                \/ l \in sub[t.child[Other(d)][m]]
    BY <2>2, SubFacts
  <2>4. \A l \in sub[t.child[Other(d)][m]] : l \in Keys /\ On(d, m, l)
    <3>1. \A l \in sub[t.child[Other(d)][m]] : l \in Keys /\ On(Other(d), l, m)
      <4>1. Other(d) \in Sides
        BY SideFacts
      <4> QED BY <2>2, <4>1, SubFacts
    <3> QED BY <2>2, <3>1, OnFacts
  <2>5. CASE t.child[d][m] = NULL
    <3>1. down[m] = m /\ sub[t.child[d][m]] = {} /\ m \in sub[m]
      BY <1>3, <2>2, <2>5, SubFacts, Zenon DEF Shape, Subtrees
    <3> QED BY <2>2, <2>3, <2>4, <2>5, <3>1
  <2>6. CASE t.child[d][m] # NULL
    <3> DEFINE c == t.child[d][m]
    <3>1. c \in Keys /\ down[m] = down[c] /\ sub[c] \subseteq sub[m] /\ sub[c] \subseteq Keys
      <4>1. c \in Keys /\ sub[c] \subseteq sub[m] /\ sub[c] \subseteq Keys
        BY <2>2, <2>6, ChildKey
      <4>2. down[m] = down[c]
        BY <1>3, <2>2, <2>6
      <4> QED BY <4>1, <4>2
    <3>2. Good(c)
      BY <2>1, <3>1
    <3>3. On(d, down[c], m) /\ down[c] \in Keys
      BY <2>2, <3>1, <3>2 DEF Shape, Searchable
    <3>4. \A l \in sub[t.child[Other(d)][m]] : On(d, down[c], l)
      BY <2>2, <2>4, <3>3, OnFacts
    <3> QED BY <2>2, <2>3, <3>1, <3>2, <3>3, <3>4
  <2> QED BY <2>5, <2>6
<1>5. Good(n)
  BY <1>4
<1> QED BY <1>3, <1>5

\* The side of m on which k belongs.
SideOf(k, m) == IF k < m THEN "left" ELSE "right"

\* The side on which insert links a key.
LEMMA SideOfFacts ==
  ASSUME NEW k \in Keys, NEW m \in Keys, k # m
  PROVE  /\ SideOf(k, m) \in Sides /\ On(SideOf(k, m), k, m)
         /\ \A e \in Sides : On(e, k, m) => e = SideOf(k, m)
<1>1. k \in Int /\ m \in Int
  BY KeyFacts
<1> QED BY <1>1 DEF SideOf, Sides, On

\* The descent ends at the key, if it is a member, else at the node below which it
\* belongs.
LEMMA DescendFacts ==
  ASSUME NEW t, NEW sub, Shape(t, sub), NEW k \in Keys
  PROVE  LET p == Descend(t, k) IN
         IF t.root = NULL THEN p = NULL
         ELSE /\ p \in sub[t.root]
              /\ k \in sub[t.root] => p = k
              /\ p # k => t.child[SideOf(k, p)][p] = NULL
              /\ \A n \in Keys, d \in Sides : p \in sub[t.child[d][n]] => On(d, k, n)
<1>1. CASE t.root = NULL
  BY <1>1 DEF Descend
<1>2. CASE t.root # NULL
  <2> DEFINE nx(m) == t.child[SideOf(k, m)][m]
             go == [m \in Keys |-> ~(m = k \/ nx(m) = NULL)]
             next == [m \in Keys |-> nx(m)]
             base == [m \in Keys |-> m]
  <2>1. \E f : f = Follow(f, Keys, go, next, base)
    <3>1. Down(t, go, next)
      BY SideOfFacts DEF Down
    <3> HIDE DEF go, next, base
    <3> QED BY <3>1, DownExists
  <2>2. \A f : Follow(f, Keys, go, next, base)
               = [m \in Keys |-> IF m = k \/ nx(m) = NULL THEN m ELSE f[nx(m)]]
    BY DEF Follow
  <2>3. \A m \in Keys : nx(m) = IF k < m THEN Left(t, m) ELSE Right(t, m)
    BY DEF SideOf, Left, Right
  <2>4. PICK down : /\ down = [m \in Keys |-> IF m = k \/ nx(m) = NULL THEN m
                                              ELSE down[nx(m)]]
                    /\ Descend(t, k) = down[t.root]
    <3>1. PICK f : f = CHOOSE g : g = [m \in Keys |->
                         IF m = k \/ (IF k < m THEN Left(t, m) ELSE Right(t, m)) = NULL
                         THEN m ELSE g[IF k < m THEN Left(t, m) ELSE Right(t, m)]]
      OBVIOUS
    <3>2. Descend(t, k) = f[t.root]
      BY <1>2, <3>1 DEF Descend
    <3>3. \A g : [m \in Keys |->
                    IF m = k \/ (IF k < m THEN Left(t, m) ELSE Right(t, m)) = NULL
                    THEN m ELSE g[IF k < m THEN Left(t, m) ELSE Right(t, m)]]
                 = [m \in Keys |-> IF m = k \/ nx(m) = NULL THEN m ELSE g[nx(m)]]
      <4> HIDE DEF nx
      <4> QED BY <2>3
    <3>4. f = [m \in Keys |-> IF m = k \/ nx(m) = NULL THEN m ELSE f[nx(m)]]
      <4> HIDE DEF nx, go, next, base
      <4> QED BY <2>1, <2>2, <3>1, <3>3
    <3> QED BY <3>2, <3>4
  <2> DEFINE Good(m) ==
               /\ down[m] \in sub[m]
               /\ k \in sub[m] => down[m] = k
               /\ down[m] # k => t.child[SideOf(k, down[m])][down[m]] = NULL
               /\ \A n \in sub[m], d \in Sides : down[m] \in sub[t.child[d][n]] => On(d, k, n)
             Bad == {m \in Keys : ~Good(m)}
  <2>5. Bad = {}
    <3> SUFFICES ASSUME Bad # {} PROVE FALSE
      OBVIOUS
    <3>1. PICK m \in Bad : \A e \in Sides : t.child[e][m] \notin Bad
      <4>1. Bad \in SUBSET Keys
        OBVIOUS
      <4> HIDE DEF Bad
      <4> QED BY <4>1, FirstBad
    <3>2. m \in Keys /\ ~Good(m) /\ m \in sub[m] /\ sub[NULL] = {}
      BY SubFacts DEF Sides, Shape, Subtrees
    \* Whoever is below a child is on its side, and below no node of the other side.
    <3>3. ASSUME NEW l \in sub[m], NEW n \in sub[m], NEW d \in Sides,
                 l \in sub[t.child[d][n]]
          PROVE  l # m /\ (n # m => \E e \in Sides :
                             n \in sub[t.child[e][m]] /\ l \in sub[t.child[e][m]])
      <4>1. n \in Keys /\ sub[t.child[d][n]] \subseteq sub[n] /\ n \notin sub[t.child[d][n]]
        <5>1. n \in Keys
          BY <3>2, SubFacts DEF Sides
        <5> QED BY <5>1, SubFacts
      <4>2. CASE n = m
        BY <3>3, <4>1, <4>2
      <4>3. CASE n # m
        <5>1. PICK e \in Sides : n \in sub[t.child[e][m]]
          BY <3>2, <4>3, SubFacts, SideFacts DEF Sides
        <5>2. t.child[e][m] \in Keys
          <6>1. t.child[e][m] # NULL
            BY <3>2, <5>1
          <6> QED BY <3>2, <6>1, ChildKey
        <5>3. sub[n] \subseteq sub[t.child[e][m]]
          BY <5>1, <5>2, Nested
        <5>4. m \notin sub[t.child[e][m]]
          BY <3>2, SubFacts
        <5> QED BY <3>3, <4>1, <5>1, <5>3, <5>4
      <4> QED BY <4>2, <4>3
    <3>4. CASE m = k \/ nx(m) = NULL
      <4>1. down[m] = m
        BY <2>4, <3>2, <3>4, Zenon
      <4>2. ASSUME k \in sub[m], k # m PROVE FALSE
        <5>1. PICK e \in Sides : k \in sub[t.child[e][m]]
          BY <3>2, <4>2, SubFacts, SideFacts DEF Sides
        <5>2. On(e, k, m)
          BY <3>2, <5>1 DEF Shape, Searchable
        <5>3. e = SideOf(k, m)
          BY <3>2, <4>2, <5>2, SideOfFacts
        <5> QED BY <3>2, <3>4, <4>2, <5>1, <5>3
      <4>3. \A n \in sub[m], d \in Sides : m \notin sub[t.child[d][n]]
        BY <3>2, <3>3
      <4> QED BY <3>2, <3>4, <4>1, <4>2, <4>3
    <3>5. CASE m # k /\ nx(m) # NULL
      <4> DEFINE e == SideOf(k, m)
                 c == t.child[e][m]
      <4>1. e \in Sides /\ On(e, k, m) /\ \A d \in Sides : On(d, k, m) => d = e
        BY <3>2, <3>5, SideOfFacts
      <4>2. /\ c \in Keys /\ sub[c] \subseteq sub[m]
            /\ sub[c] \cap sub[t.child[Other(e)][m]] = {}
            /\ \A l \in sub[m] : l = m \/ l \in sub[c] \/ l \in sub[t.child[Other(e)][m]]
        <5>1. c \in Keys
          <6>1. c # NULL
            BY <3>5
          <6> HIDE DEF e
          <6>2. c \in Node
            BY <3>2, <4>1, SubFacts
          <6> QED BY <6>1, <6>2, KeyFacts
        <5> HIDE DEF e
        <5>2. sub[c] \subseteq sub[m] /\ sub[c] \cap sub[t.child[Other(e)][m]] = {}
          BY <3>2, <4>1, BelowFacts, ApartFacts
        <5>3. \A l \in sub[m] : l = m \/ l \in sub[c] \/ l \in sub[t.child[Other(e)][m]]
          BY <3>2, <4>1, SubFacts
        <5> QED BY <5>1, <5>2, <5>3
      <4>3. down[m] = down[c]
        BY <2>4, <3>2, <3>5, Zenon
      <4>4. Good(c)
        BY <3>1, <4>1, <4>2
      <4>5. k \in sub[m] => k \in sub[c]
        <5>1. ASSUME k \in sub[t.child[Other(e)][m]] PROVE FALSE
          <6>1. Other(e) \in Sides /\ Other(e) # e
            BY <4>1, SideFacts
          <6>2. On(Other(e), k, m)
            BY <3>2, <5>1, <6>1 DEF Shape, Searchable
          <6> QED BY <4>1, <6>1, <6>2
        <5> QED BY <3>5, <4>2, <5>1
      <4>6. ASSUME NEW n \in sub[m], NEW d \in Sides, down[m] \in sub[t.child[d][n]]
            PROVE  On(d, k, n)
        <5>1. down[m] \in sub[c] /\ down[m] \in sub[m]
          BY <4>2, <4>3, <4>4
        <5>2. CASE n = m
          <6>1. down[m] \notin sub[t.child[Other(e)][m]]
            BY <4>2, <5>1
          <6>2. d # Other(e)
            BY <4>6, <5>2, <6>1
          <6>3. d = e
            BY <4>1, <6>2, SideFacts
          <6> QED BY <4>1, <5>2, <6>3
        <5>3. CASE n # m
          <6>1. PICK f \in Sides : /\ n \in sub[t.child[f][m]]
                                   /\ down[m] \in sub[t.child[f][m]]
            BY <3>3, <4>6, <5>1, <5>3
          <6>2. f = e
            <7>1. down[m] \notin sub[t.child[Other(e)][m]]
              BY <4>2, <5>1
            <7>2. f # Other(e)
              BY <6>1, <7>1
            <7> QED BY <4>1, <7>2, SideFacts
          <6> QED BY <4>3, <4>4, <4>6, <6>1, <6>2
        <5> QED BY <5>2, <5>3
      <4> HIDE DEF c
      <4>7. Good(m)
        BY <4>2, <4>3, <4>4, <4>5, <4>6
      <4> QED BY <3>2, <4>7
    <3> QED BY <3>4, <3>5
  <2>6. t.root \in Keys
    BY <1>2, Members
  <2>7. Good(t.root)
    BY <2>5, <2>6
  <2>8. ASSUME NEW n \in Keys, n \notin sub[t.root], NEW d \in Sides
        PROVE  sub[t.child[d][n]] = {}
    BY <2>8, Outside DEF Shape, Subtrees
  <2> QED BY <1>2, <2>4, <2>7, <2>8, Zenon
<1> QED BY <1>1, <1>2

\* Induction from the parent.
LEMMA LastBad ==
  ASSUME NEW t, NEW sub, Shape(t, sub), NEW S \in SUBSET sub[t.root], S # {}
  PROVE  \E n \in S : t.parent[n] \notin S
<1> DEFINE M == sub[t.root]
           f == [n \in M |-> Cardinality(M) - Cardinality(sub[n])]
<1>1. IsFiniteSet(M) /\ M \subseteq Keys /\ Cardinality(M) \in Nat
  BY Members, FS_CardinalityType
<1>2. ASSUME NEW n \in M
      PROVE  Cardinality(sub[n]) <= Cardinality(M) /\ Cardinality(sub[n]) \in Nat
  <2>1. sub[n] \subseteq M
    BY MemberFacts
  <2> QED BY <1>1, <2>1, FS_Subset, FS_CardinalityType
<1>3. \A n \in S : f[n] \in Nat
  <2>1. \A n \in M : Cardinality(M) - Cardinality(sub[n]) \in Nat
    BY <1>1, <1>2
  <2> QED BY <2>1
<1>4. PICK n \in S : \A m \in S : ~(f[m] < f[n])
  <2>1. S \in SUBSET Keys
    BY <1>1
  <2> HIDE DEF f
  <2> QED BY <1>3, <2>1, Smallest
<1>5. ASSUME t.parent[n] \in S PROVE FALSE
  <2> DEFINE p == t.parent[n]
  <2>1. n \in M /\ p \in M /\ n \in Keys /\ p \in Keys
    BY <1>1, <1>5
  <2>2. PICK d \in Sides : t.child[d][p] = n
    BY <2>1, MemberFacts, KeyFacts
  <2>3. Cardinality(sub[n]) < Cardinality(sub[p])
    BY <2>1, <2>2, KeyFacts, ChildSmaller
  <2>4. f[n] = Cardinality(M) - Cardinality(sub[n])
        /\ f[p] = Cardinality(M) - Cardinality(sub[p])
    BY <2>1
  <2> HIDE DEF f, M, p
  <2>5. f[p] < f[n]
    BY <1>1, <1>2, <2>1, <2>3, <2>4
  <2> QED BY <1>4, <1>5, <2>5 DEF p
<1> QED BY <1>4, <1>5

\* Who is outside a subtree is on the same side of all of it.
LEMMA Convex ==
  ASSUME NEW t, NEW sub, Shape(t, sub), NEW n \in sub[t.root], NEW d \in Sides,
         NEW c \in sub[t.root] \ sub[n], NEW m \in sub[n], NEW l \in sub[n], On(d, c, m)
  PROVE  On(d, c, l)
<1> DEFINE Bad == {k \in sub[t.root] : \E a \in sub[t.root] \ sub[k], b \in sub[k],
                                          e \in sub[k] : On(d, a, b) /\ ~On(d, a, e)}
<1> SUFFICES ASSUME Bad # {} PROVE FALSE
  OBVIOUS
<1>1. PICK k \in Bad : t.parent[k] \notin Bad
  <2>1. Bad \in SUBSET sub[t.root]
    OBVIOUS
  <2> HIDE DEF Bad
  <2> QED BY <2>1, LastBad
<1>2. PICK a \in sub[t.root] \ sub[k], b \in sub[k], e \in sub[k] :
        On(d, a, b) /\ ~On(d, a, e)
  OBVIOUS
<1>3. k \in sub[t.root] /\ k # t.root /\ a \in Keys /\ b \in Keys /\ e \in Keys
  <2>1. k \in sub[t.root] /\ sub[k] \subseteq sub[t.root] /\ sub[t.root] \subseteq Keys
    BY MemberFacts, Members
  <2> QED BY <1>2, <2>1
<1> DEFINE q == t.parent[k]
<1>4. q \in sub[t.root] /\ q \in Keys
  BY <1>3, MemberFacts, Members
<1>5. PICK f \in Sides : t.child[f][q] = k
  BY <1>3, MemberFacts
<1>6. Other(f) \in Sides /\ Other(Other(f)) = f
  BY SideFacts
<1>7. \A x \in sub[k] : x \in Keys /\ On(f, x, q) /\ On(Other(f), q, x)
  <2>1. \A x \in sub[k] : x \in Keys /\ On(f, x, q)
    BY <1>4, <1>5, SubFacts DEF Shape, Searchable
  <2> QED BY <1>4, <2>1, OnFacts
<1>8. \A x \in sub[t.child[Other(f)][q]] : x \in Keys /\ On(Other(f), x, q)
  BY <1>4, <1>6, SubFacts DEF Shape, Searchable
<1>9. d = f \/ d = Other(f)
  BY SideFacts
<1>10. sub[k] \subseteq sub[q] /\ \A x \in sub[q] : x = q \/ x \in sub[k]
                                           \/ x \in sub[t.child[Other(f)][q]]
  BY <1>4, <1>5, SubFacts
<1>11. CASE a \notin sub[q]
  BY <1>1, <1>2, <1>4, <1>10, <1>11
<1>12. CASE a = q \/ a \in sub[t.child[Other(f)][q]]
  <2>1. On(Other(f), a, b) /\ On(Other(f), a, e)
    <3>1. On(Other(f), q, b) /\ On(Other(f), q, e)
      BY <1>2, <1>7
    <3>2. CASE a = q
      BY <3>1, <3>2
    <3>3. CASE a \in sub[t.child[Other(f)][q]]
      <4>1. On(Other(f), a, q)
        BY <1>8, <3>3
      <4> QED BY <1>3, <1>4, <1>6, <3>1, <4>1, OnFacts
    <3> QED BY <1>12, <3>2, <3>3
  <2>2. ~(On(f, a, b) /\ On(Other(f), a, b))
    BY <1>3, OnFacts
  <2> QED BY <1>2, <1>9, <2>1, <2>2
<1> QED BY <1>2, <1>10, <1>11, <1>12

\* The first ancestor on side d is the next node outside the subtree.
Climb(t, d) ==
  CHOOSE up : up = [m \in Keys |-> IF t.parent[m] # NULL /\ m = t.child[d][t.parent[m]]
                                   THEN up[t.parent[m]] ELSE t.parent[m]]

\* The way up ends at the first ancestor that is left on the other side, which is next
\* to the subtree it was left from.
LEMMA ClimbFacts ==
  ASSUME NEW t, NEW sub, Shape(t, sub), NEW n \in sub[t.root], NEW d \in Sides
  PROVE  LET a == Climb(t, d)[n] IN
         IF a = NULL THEN \A c \in sub[t.root] \ sub[n] : ~On(d, c, n)
         ELSE /\ a \in sub[t.root] \ sub[n] /\ On(d, a, n)
              /\ \A c \in sub[t.root] \ sub[n] : On(d, c, n) => c = a \/ On(d, c, a)
<1> DEFINE go == [m \in Keys |-> t.parent[m] # NULL /\ m = t.child[d][t.parent[m]]]
           next == [m \in Keys |-> t.parent[m]]
<1>1. \E f : f = Follow(f, Keys, go, next, next)
  <2>1. Up(t, go, next)
    BY DEF Up
  <2> HIDE DEF go, next
  <2> QED BY <2>1, UpExists
<1>2. \A f : Follow(f, Keys, go, next, next)
             = [m \in Keys |-> IF t.parent[m] # NULL /\ m = t.child[d][t.parent[m]]
                               THEN f[t.parent[m]] ELSE t.parent[m]]
  BY DEF Follow
<1>3. PICK up : /\ up = [m \in Keys |-> IF t.parent[m] # NULL /\ m = t.child[d][t.parent[m]]
                                        THEN up[t.parent[m]] ELSE t.parent[m]]
                /\ Climb(t, d) = up
  <2>1. \E g : g = [m \in Keys |-> IF t.parent[m] # NULL /\ m = t.child[d][t.parent[m]]
                                   THEN g[t.parent[m]] ELSE t.parent[m]]
    <3> HIDE DEF go, next
    <3>1. PICK g : g = Follow(g, Keys, go, next, next)
      BY <1>1
    <3> WITNESS g
    <3> QED BY <1>2, <3>1
  <2> QED BY <2>1 DEF Climb
<1> DEFINE M == sub[t.root]
           Good(m) ==
             IF up[m] = NULL THEN \A c \in M \ sub[m] : ~On(d, c, m)
             ELSE /\ up[m] \in M \ sub[m] /\ On(d, up[m], m)
                  /\ \A c \in M \ sub[m] : On(d, c, m) => c = up[m] \/ On(d, c, up[m])
           Bad == {m \in M : ~Good(m)}
<1>4. Bad = {}
  <2> SUFFICES ASSUME Bad # {} PROVE FALSE
    OBVIOUS
  <2>1. PICK m \in Bad : t.parent[m] \notin Bad
    <3>1. Bad \in SUBSET sub[t.root]
      OBVIOUS
    <3> HIDE DEF Bad
    <3> QED BY <3>1, LastBad
  <2>2. m \in M /\ ~Good(m) /\ m \in Keys /\ m \in sub[m] /\ M \subseteq Keys
    BY Members, MemberFacts
  <2>3. CASE t.parent[m] = NULL
    <3>1. m = t.root /\ up[m] = NULL
      <4>1. up[m] = t.parent[m]
        BY <1>3, <2>2, <2>3, Zenon
      <4> QED BY <2>2, <2>3, <4>1, MemberFacts
    <3> QED BY <2>2, <3>1
  <2>4. CASE t.parent[m] # NULL
    <3> DEFINE p == t.parent[m]
    <3>1. p \in M /\ p \in Keys
      BY <2>2, <2>4, MemberFacts
    <3>2. PICK e \in Sides : t.child[e][p] = m
      BY <2>2, <2>4, MemberFacts
    <3>3. Other(e) \in Sides /\ Other(Other(e)) = e /\ (d = e \/ d = Other(e)) /\ e # Other(e)
      BY SideFacts
    <3>4. /\ sub[m] \subseteq sub[p] /\ p \notin sub[m] /\ p \in sub[p]
          /\ \A c \in sub[p] : c = p \/ c \in sub[m] \/ c \in sub[t.child[Other(e)][p]]
          /\ m # t.child[Other(e)][p]
      <4>1. sub[m] \cap sub[t.child[Other(e)][p]] = {}
        BY <3>1, <3>2, SubFacts
      <4> QED BY <2>2, <3>1, <3>2, <4>1, SubFacts
    <3>5. On(e, m, p) /\ On(Other(e), p, m)
      <4>1. On(e, m, p)
        BY <2>2, <3>1, <3>2 DEF Shape, Searchable
      <4> QED BY <2>2, <3>1, <4>1, OnFacts
    <3>6. \A c \in sub[t.child[Other(e)][p]] : c \in Keys /\ On(Other(e), c, p)
      BY <3>1, <3>3, SubFacts DEF Shape, Searchable
    <3>7. CASE d = e
      <4>1. up[m] = up[p]
        BY <1>3, <2>2, <2>4, <3>2, <3>7, Zenon
      <4>2. Good(p)
        BY <2>1, <3>1
      <4>3. ASSUME NEW c \in M, c \in sub[p] \ sub[m] PROVE ~On(d, c, m)
        <5>1. c = p => ~On(d, c, m)
          BY <2>2, <3>1, <3>3, <3>5, <3>7, OnFacts
        <5>2. c \in sub[t.child[Other(e)][p]] => ~On(d, c, m)
          <6> SUFFICES ASSUME c \in sub[t.child[Other(e)][p]] PROVE ~On(d, c, m)
            OBVIOUS
          <6>1. On(Other(e), c, p) /\ c \in Keys
            BY <3>6
          <6>2. On(Other(e), c, m)
            BY <2>2, <3>1, <3>3, <3>5, <6>1, OnFacts
          <6> QED BY <2>2, <3>3, <3>7, <6>1, <6>2, OnFacts
        <5> QED BY <3>4, <4>3, <5>1, <5>2
      <4>4. \A c \in M \ sub[p] : On(d, c, m) <=> On(d, c, p)
        BY <2>2, <3>1, <3>4, Convex
      <4>5. CASE up[p] = NULL
        BY <2>2, <4>1, <4>2, <4>3, <4>4, <4>5
      <4>6. CASE up[p] # NULL
        <5>1. up[m] \in M \ sub[p] /\ On(d, up[m], p)
          BY <4>1, <4>2, <4>6
        <5>2. up[m] \in M \ sub[m] /\ On(d, up[m], m)
          BY <3>4, <4>4, <5>1
        <5>3. \A c \in M \ sub[m] : On(d, c, m) => c = up[m] \/ On(d, c, up[m])
          BY <4>1, <4>2, <4>3, <4>4, <4>6
        <5> QED BY <2>2, <4>1, <4>6, <5>2, <5>3
      <4> QED BY <4>5, <4>6
    <3>8. CASE d = Other(e)
      <4>1. up[m] = p /\ p # NULL
        BY <1>3, <2>2, <2>4, <3>4, <3>8, Zenon
      <4>2. p \in M \ sub[m] /\ On(d, p, m)
        BY <3>1, <3>4, <3>5, <3>8
      <4>3. ASSUME NEW c \in M \ sub[m], On(d, c, m) PROVE c = p \/ On(d, c, p)
        <5>1. CASE c \in sub[p]
          BY <3>4, <3>6, <3>8, <4>3, <5>1
        <5>2. CASE c \notin sub[p]
          BY <2>2, <3>1, <3>4, <4>3, <5>2, Convex
        <5> QED BY <5>1, <5>2
      <4> QED BY <2>2, <4>1, <4>2, <4>3
    <3> QED BY <3>3, <3>7, <3>8
  <2> QED BY <2>3, <2>4
<1>5. Good(n)
  BY <1>4
<1> QED BY <1>3, <1>5

\* successor and predecessor: the next member on side d.
LEMMA NeighbourFacts ==
  ASSUME NEW t, NEW sub, Shape(t, sub), NEW n \in sub[t.root], NEW d \in Sides
  PROVE  LET a == Neighbour(t, n, d) IN
         IF a = NULL THEN \A c \in sub[t.root] : ~On(d, c, n)
         ELSE /\ a \in sub[t.root] /\ On(d, a, n)
              /\ \A c \in sub[t.root] : On(d, c, n) => c = a \/ On(d, c, a)
<1>1. /\ n \in Keys /\ n \in sub[n] /\ sub[t.root] \subseteq Keys
      /\ sub[n] \subseteq sub[t.root] /\ Other(d) \in Sides /\ Other(Other(d)) = d
  BY Members, MemberFacts, SideFacts
<1>2. \A c \in sub[n] : On(d, c, n) => c \in sub[t.child[d][n]]
  <2>1. ASSUME NEW c \in sub[n], On(d, c, n) PROVE c \in sub[t.child[d][n]]
    <3>1. c # n
      BY <1>1, <2>1, OnFacts
    <3>2. c \notin sub[t.child[Other(d)][n]]
      <4>1. ASSUME c \in sub[t.child[Other(d)][n]] PROVE FALSE
        <5>1. On(Other(d), c, n) /\ c \in Keys
          BY <1>1, <4>1 DEF Shape, Searchable
        <5> QED BY <1>1, <2>1, <5>1, OnFacts
      <4> QED BY <4>1
    <3> QED BY <1>1, <2>1, <3>1, <3>2, SubFacts
  <2> QED BY <2>1
<1>3. CASE t.child[d][n] = NULL
  <2>1. Neighbour(t, n, d) = Climb(t, d)[n]
    BY <1>3 DEF Neighbour, Climb
  <2>2. \A c \in sub[n] : ~On(d, c, n)
    BY <1>2, <1>3 DEF Shape, Subtrees
  <2>3. LET a == Climb(t, d)[n] IN
         IF a = NULL THEN \A c \in sub[t.root] \ sub[n] : ~On(d, c, n)
         ELSE /\ a \in sub[t.root] \ sub[n] /\ On(d, a, n)
              /\ \A c \in sub[t.root] \ sub[n] : On(d, c, n) => c = a \/ On(d, c, a)
    BY ClimbFacts
  <2> QED BY <2>1, <2>2, <2>3
<1>4. CASE t.child[d][n] # NULL
  <2> DEFINE c == t.child[d][n]
             w == Utmost(t, Other(d), c)
  <2>1. Neighbour(t, n, d) = w
    BY <1>4 DEF Neighbour
  <2>2. c \in Keys /\ sub[c] \subseteq sub[n] /\ n \notin sub[c]
    <3>1. c \in Keys
      BY <1>1, <1>4, ChildSmaller
    <3> QED BY <1>1, <3>1, SubFacts
  <2>3. w \in sub[c] /\ \A m \in sub[c] : m = w \/ On(Other(d), w, m)
    BY <1>1, <2>2, UtmostFacts
  <2> HIDE DEF w
  <2>4. w \in Keys /\ w \in sub[t.root] /\ On(d, w, n) /\ w # NULL
    <3>1. w \in Keys
      BY <1>1, <2>2, <2>3
    <3> QED BY <1>1, <2>2, <2>3, <3>1, KeyFacts DEF Shape, Searchable
  <2>5. ASSUME NEW m \in sub[t.root], On(d, m, n) PROVE m = w \/ On(d, m, w)
    <3>1. CASE m \in sub[n]
      <4>1. m = w \/ On(Other(d), w, m)
        BY <1>2, <2>3, <2>5, <3>1
      <4> QED BY <1>1, <2>4, <4>1, OnFacts
    <3>2. CASE m \notin sub[n]
      BY <1>1, <2>2, <2>3, <2>5, <3>2, Convex
    <3> QED BY <3>1, <3>2
  <2> QED BY <2>1, <2>4, <2>5
<1> QED BY <1>3, <1>4

\* Nodes, of any tree.
NodesOf(t) ==
  LET below[n \in Node] ==
        IF n = NULL THEN {} ELSE {n} \cup below[Left(t, n)] \cup below[Right(t, n)]
  IN  below[t.root]

\* The recursive walk over the tree finds the subtree of the root.
LEMMA NodesOfShape ==
  ASSUME NEW t, NEW sub, Shape(t, sub)
  PROVE  NodesOf(t) = sub[t.root]
<1> DEFINE Step(f) == [n \in Node |-> IF n = NULL THEN {}
                                      ELSE {n} \cup f[Left(t, n)] \cup f[Right(t, n)]]
<1>1. sub = Step(sub)
  <2>1. /\ sub = [n \in Node |-> sub[n]] /\ sub[NULL] = {}
        /\ \A n \in Keys : sub[n] = {n} \cup sub[Left(t, n)] \cup sub[Right(t, n)]
    BY DEF Shape, Subtrees
  <2>2. \A n \in Node : sub[n] = Step(sub)[n]
    BY <2>1, KeyFacts
  <2> QED BY <2>1, <2>2
<1>2. PICK below : below = Step(below) /\ NodesOf(t) = below[t.root]
  <2>1. PICK f : f = CHOOSE g : g = Step(g)
    OBVIOUS
  <2>2. f = Step(f)
    <3> HIDE DEF Step
    <3> QED BY <1>1, <2>1
  <2>3. NodesOf(t) = f[t.root]
    BY <2>1 DEF NodesOf
  <2> QED BY <2>2, <2>3
<1>3. below[NULL] = {} /\ \A n \in Keys :
        below[n] = {n} \cup below[Left(t, n)] \cup below[Right(t, n)]
  BY <1>2, KeyFacts
<1> DEFINE Bad == {n \in Keys : below[n] # sub[n]}
<1>4. Bad = {}
  <2> SUFFICES ASSUME Bad # {} PROVE FALSE
    OBVIOUS
  <2>1. PICK n \in Bad : \A d \in Sides : t.child[d][n] \notin Bad
    <3>1. Bad \in SUBSET Keys
      OBVIOUS
    <3> HIDE DEF Bad
    <3> QED BY <3>1, FirstBad
  <2>2. \A d \in Sides : below[t.child[d][n]] = sub[t.child[d][n]]
    BY <1>3, <2>1, SubFacts, KeyFacts DEF Shape, Subtrees
  <2>3. below[Left(t, n)] = sub[Left(t, n)] /\ below[Right(t, n)] = sub[Right(t, n)]
    BY <2>2 DEF Left, Right, Sides
  <2>4. n \in Keys /\ below[n] # sub[n]
    BY <2>1
  <2>5. sub[n] = {n} \cup sub[Left(t, n)] \cup sub[Right(t, n)]
    BY <2>4 DEF Shape, Subtrees
  <2>6. below[n] = {n} \cup below[Left(t, n)] \cup below[Right(t, n)]
    BY <1>3, <2>4
  <2> QED BY <2>3, <2>4, <2>5, <2>6
<1> QED BY <1>2, <1>3, <1>4, Members, KeyFacts DEF Shape, Subtrees

------------------------------------------------------------------------------
(* Trees and their nodes.  From here on Shape is used only through these   *)
(* lemmas.                                                                 *)

IsTree(t) == \E sub : Shape(t, sub)

\* A tree's nodes are finitely many keys, the root one of them unless there is none.
LEMMA TreeFacts ==
  ASSUME NEW t, IsTree(t)
  PROVE  /\ t \in Tree /\ NodesOf(t) \subseteq Keys /\ IsFiniteSet(NodesOf(t))
         /\ t.root \in Node
         /\ IF t.root = NULL THEN NodesOf(t) = {}
            ELSE t.root \in Keys /\ t.root \in NodesOf(t)
<1>1. PICK sub : Shape(t, sub)
  BY DEF IsTree
<1>2. NodesOf(t) = sub[t.root]
  BY <1>1, NodesOfShape
<1> QED BY <1>1, <1>2, Members DEF Shape

\* A node, its parent and its children.
LEMMA NodeFacts ==
  ASSUME NEW t, IsTree(t), NEW n \in NodesOf(t)
  PROVE  /\ n \in Keys /\ n # NULL /\ t.root \in NodesOf(t) /\ t.root \in Keys
         /\ t.parent[n] = NULL <=> n = t.root
         /\ t.parent[n] # NULL =>
              /\ t.parent[n] \in NodesOf(t) /\ t.parent[n] # n
              /\ Side(t, n) \in Sides
              /\ \A d \in Sides : t.child[d][t.parent[n]] = n <=> d = Side(t, n)
         /\ \A d \in Sides :
              /\ t.child[d][n] # n /\ t.child[d][n] \in Node
              /\ t.child[d][n] # NULL =>
                   /\ t.child[d][n] \in NodesOf(t) /\ t.parent[t.child[d][n]] = n
                   /\ t.child[d][n] # t.child[Other(d)][n] /\ t.child[d][n] # t.root
                   /\ Side(t, t.child[d][n]) = d
                   /\ \A e \in Sides : t.child[e][t.child[d][n]] # n
<1>1. PICK sub : Shape(t, sub)
  BY DEF IsTree
<1>2. NodesOf(t) = sub[t.root]
  BY <1>1, NodesOfShape
<1>3. /\ n \in Keys /\ n # NULL /\ t.root \in NodesOf(t) /\ t.root \in Keys
      /\ t.parent[n] = NULL <=> n = t.root
  BY <1>1, <1>2, MemberFacts, KeyFacts
<1>4. \A m \in NodesOf(t) : m \in Keys /\ Placed(t, m)
  BY <1>1, <1>2, MemberPlaced, Members
<1>5. ASSUME t.parent[n] # NULL
      PROVE  /\ t.parent[n] \in NodesOf(t) /\ t.parent[n] # n
             /\ Side(t, n) \in Sides
             /\ \A d \in Sides : t.child[d][t.parent[n]] = n <=> d = Side(t, n)
  <2>1. t.parent[n] \in NodesOf(t) /\ Side(t, n) \in Sides
    BY <1>1, <1>2, <1>5, MemberFacts DEF Side, Sides
  <2>2. \A d \in Sides : t.child[d][t.parent[n]] = n <=> d = Side(t, n)
    BY <1>4, <2>1 DEF Placed
  <2>3. t.parent[n] # n
    BY <1>1, <1>3, <2>1, <2>2, SubFacts
  <2> QED BY <2>1, <2>2, <2>3
<1>6. ASSUME NEW d \in Sides
      PROVE  t.child[d][n] # n /\ t.child[d][n] \in Node
  BY <1>1, <1>3, SubFacts
<1>7. ASSUME NEW d \in Sides, t.child[d][n] # NULL
      PROVE  /\ t.child[d][n] \in NodesOf(t) /\ t.parent[t.child[d][n]] = n
             /\ t.child[d][n] # t.child[Other(d)][n] /\ t.child[d][n] # t.root
             /\ Side(t, t.child[d][n]) = d
             /\ \A e \in Sides : t.child[e][t.child[d][n]] # n
  <2> DEFINE c == t.child[d][n]
  <2>1. c \in NodesOf(t) /\ t.parent[c] = n /\ c \in Keys
    BY <1>1, <1>2, <1>4, <1>7, MemberFacts
  <2>2. c # t.root
    BY <1>1, <1>2, <1>3, <2>1, MemberFacts
  <2>3. Side(t, c) = d
    BY <1>3, <1>4, <2>1 DEF Placed
  <2>4. c \in sub[c] /\ n \in sub[n] /\ n \notin sub[c]
        /\ sub[c] \cap sub[t.child[Other(d)][n]] = {}
    BY <1>1, <1>3, <2>1, SubFacts
  <2>5. \A e \in Sides : sub[t.child[e][c]] \subseteq sub[c]
    BY <1>1, <2>1, SubFacts
  <2>6. \A e \in Sides : t.child[e][c] # n
    BY <2>4, <2>5
  <2> QED BY <2>1, <2>2, <2>3, <2>4, <2>6
<1> QED BY <1>3, <1>5, <1>6, <1>7

\* c is the child of n on side d.
ChildOf(t, n, d, c) ==
  /\ c \in NodesOf(t) /\ c \in Keys /\ c # n /\ c # t.root
  /\ t.parent[c] = n /\ Side(t, c) = d /\ t.child[Other(d)][n] # c
  /\ \A e \in Sides : t.child[e][c] # n /\ t.child[e][c] # c
  /\ \A m \in NodesOf(t), e \in Sides : t.child[e][m] = c => m = n /\ e = d

\* A child is a node, of this parent, on this side and nowhere else.
LEMMA ChildFacts ==
  ASSUME NEW t, IsTree(t), NEW n \in NodesOf(t), NEW d \in Sides, t.child[d][n] # NULL
  PROVE  ChildOf(t, n, d, t.child[d][n])
<1> DEFINE c == t.child[d][n]
<1>1. PICK sub : Shape(t, sub)
  BY DEF IsTree
<1>2. NodesOf(t) = sub[t.root] /\ n \in Keys
  BY <1>1, NodesOfShape, Members
<1>3. c \in NodesOf(t) /\ t.parent[c] = n
  BY <1>1, <1>2, MemberFacts
<1>4. c \in Keys /\ Placed(t, c) /\ c # NULL
  BY <1>1, <1>2, <1>3, MemberPlaced, Members
<1>5. \A m \in NodesOf(t), e \in Sides : t.child[e][m] = c <=> m = n /\ e = Side(t, c)
  BY <1>1, <1>2, <1>3, <1>4, Members DEF Placed
<1>6. Side(t, c) = d
  BY <1>5
<1>7. c # t.root
  BY <1>2, <1>3, <1>4, KeyFacts DEF Placed
<1>8. c \in sub[c] /\ n \in sub[n] /\ n \notin sub[c]
  BY <1>1, <1>2, <1>4, SubFacts
<1>9. ASSUME NEW e \in Sides
      PROVE  sub[t.child[e][c]] \subseteq sub[c] /\ c \notin sub[t.child[e][c]]
  <2> HIDE DEF c
  <2> QED BY <1>1, <1>4, SubFacts
<1>10. \A e \in Sides : t.child[e][c] # n /\ t.child[e][c] # c
  BY <1>8, <1>9
<1>11. c # n /\ t.child[Other(d)][n] # c
  BY <1>5, <1>6, <1>8, SideFacts
<1> HIDE DEF c
<1>12. ChildOf(t, n, d, c)
  BY <1>3, <1>4, <1>5, <1>6, <1>7, <1>10, <1>11 DEF ChildOf
<1> QED BY <1>12 DEF c

\* No node is its own child.
LEMMA NoLoop ==
  ASSUME NEW t, IsTree(t)
  PROVE  \A m \in NodesOf(t), e \in Sides : t.child[e][m] \in Node /\ t.child[e][m] # m
<1> TAKE m \in NodesOf(t), e \in Sides
<1> QED BY NodeFacts

\* Painting changes no pointer.
LEMMA TreePaint ==
  ASSUME NEW t, IsTree(t), NEW n \in Node, NEW c \in {"red", "black"}
  PROVE  /\ IsTree(Paint(t, n, c)) /\ NodesOf(Paint(t, n, c)) = NodesOf(t)
         /\ Painted(Paint(t, n, c), t, n, c)
<1>1. PICK sub : Shape(t, sub)
  BY DEF IsTree
<1>2. Shape(Paint(t, n, c), sub) /\ Paint(t, n, c).root = t.root
  BY <1>1, ShapePainted
<1>3. Painted(Paint(t, n, c), t, n, c)
  BY <1>1, PaintFacts DEF Shape
<1>4. NodesOf(Paint(t, n, c)) = NodesOf(t)
  <2>1. NodesOf(Paint(t, n, c)) = sub[Paint(t, n, c).root]
    BY <1>2, NodesOfShape
  <2> QED BY <1>1, <1>2, <2>1, NodesOfShape
<1> QED BY <1>2, <1>3, <1>4 DEF IsTree

\* A rotation keeps a tree a tree with the same nodes.
LEMMA TreeRotate ==
  ASSUME NEW t, IsTree(t), NEW x \in NodesOf(t), NEW d \in Sides,
         t.child[Other(d)][x] # NULL
  PROVE  /\ IsTree(Rotate(t, x, d)) /\ NodesOf(Rotate(t, x, d)) = NodesOf(t)
         /\ Rotation(Rotate(t, x, d), t, x, d, t.child[Other(d)][x],
                     t.child[d][t.child[Other(d)][x]])
<1>1. PICK sub : Shape(t, sub)
  BY DEF IsTree
<1>2. NodesOf(t) = sub[t.root]
  BY <1>1, NodesOfShape
<1>3. PICK below : /\ Shape(Rotate(t, x, d), below)
                   /\ below[Rotate(t, x, d).root] = sub[t.root]
  BY <1>1, <1>2, Rotated
<1>4. NodesOf(Rotate(t, x, d)) = below[Rotate(t, x, d).root]
  BY <1>3, NodesOfShape
<1>5. t.child[Other(d)][x] \in Keys
  BY <1>1, <1>2, MemberFacts, SideFacts, ChildSmaller
<1>6. Rotation(Rotate(t, x, d), t, x, d, t.child[Other(d)][x],
               t.child[d][t.child[Other(d)][x]])
  BY <1>1, <1>2, <1>5, RotateFacts
<1> QED BY <1>2, <1>3, <1>4, <1>6 DEF IsTree

\* The empty tree.
LEMMA TreeEmpty == IsTree(Empty) /\ NodesOf(Empty) = {}
<1> DEFINE sub == [n \in Node |-> IF n = NULL THEN {} ELSE {n}]
<1>1. Empty \in Tree /\ Empty.root = NULL
      /\ \A n \in Keys : Empty.parent[n] = NULL /\ \A d \in Sides : Empty.child[d][n] = NULL
  BY KeyFacts DEF Empty, Tree, Detached
<1>2. Subtrees(Empty, sub)
  <2>1. sub \in [Node -> SUBSET Keys] /\ sub[NULL] = {} /\ \A n \in Keys : sub[n] = {n}
    BY KeyFacts
  <2>2. \A n \in Keys : IsFiniteSet({n})
    BY FS_Singleton
  <2> HIDE DEF sub
  <2> QED BY <1>1, <2>1, <2>2 DEF Subtrees, Left, Right, Sides
<1>3. sub[NULL] = {}
  BY KeyFacts
<1> HIDE DEF sub
<1>4. Shape(Empty, sub)
  BY <1>1, <1>2, <1>3 DEF Shape, Searchable, Threaded
<1>5. NodesOf(Empty) = sub[Empty.root]
  BY <1>4, NodesOfShape
<1> QED BY <1>1, <1>3, <1>4, <1>5 DEF IsTree

\* find() reaches exactly the nodes.
LEMMA TreeFind ==
  ASSUME NEW t, IsTree(t), NEW k \in Keys
  PROVE  /\ Find(t, k) <=> k \in NodesOf(t)
         /\ Descend(t, k) = NULL <=> t.root = NULL
         /\ Descend(t, k) \in NodesOf(t) \cup {NULL}
         /\ Descend(t, k) \notin {k, NULL} =>
              t.child[SideOf(k, Descend(t, k))][Descend(t, k)] = NULL
<1>1. PICK sub : Shape(t, sub)
  BY DEF IsTree
<1>2. NodesOf(t) = sub[t.root]
  BY <1>1, NodesOfShape
<1>3. PICK p : p = Descend(t, k)
  OBVIOUS
<1>4. IF t.root = NULL THEN p = NULL
      ELSE /\ p \in sub[t.root]
           /\ k \in sub[t.root] => p = k
           /\ p # k => t.child[SideOf(k, p)][p] = NULL
  BY <1>1, <1>3, DescendFacts
<1> QED BY <1>1, <1>2, <1>3, <1>4, Members, KeyFacts DEF Find

\* insert() adds the key below the node at which the descent ends.
LEMMA TreeLink ==
  ASSUME NEW k \in Keys, IsTree(tree), ~Find(tree, k)
  PROVE  /\ IsTree(Linked(k)) /\ NodesOf(Linked(k)) = NodesOf(tree) \cup {k}
         /\ k \notin NodesOf(tree)
         /\ LET p == Descend(tree, k) IN
            IF p = NULL
            THEN /\ tree.root = NULL /\ Linked(k).root = k
                 /\ Linked(k).child = tree.child
                 /\ Linked(k).parent = tree.parent /\ Linked(k).colour = tree.colour
            ELSE /\ p \in NodesOf(tree) /\ tree.child[SideOf(k, p)][p] = NULL
                 /\ Joined(Linked(k), tree, p, SideOf(k, p), k)
<1>1. PICK sub : Shape(tree, sub)
  BY DEF IsTree
<1>2. NodesOf(tree) = sub[tree.root]
  BY <1>1, NodesOfShape
<1>3. PICK p : p = Descend(tree, k)
  OBVIOUS
<1>4. IF tree.root = NULL THEN p = NULL
      ELSE /\ p \in sub[tree.root]
           /\ k \in sub[tree.root] => p = k
           /\ p # k => tree.child[SideOf(k, p)][p] = NULL
           /\ \A n \in Keys, d \in Sides : p \in sub[tree.child[d][n]] => On(d, k, n)
  BY <1>1, <1>3, DescendFacts
<1>5. k \notin sub[tree.root] /\ p # k
  BY <1>2, <1>3, TreeFind DEF Find
<1>6. PICK s : s = Linked(k)
  OBVIOUS
<1>7. CASE tree.root = NULL
  <2>1. s = [tree EXCEPT !.root = k] /\ p = NULL
    BY <1>3, <1>4, <1>6, <1>7 DEF Linked
  <2>2. Shape(s, sub) /\ sub[s.root] = {k}
    BY <1>1, <1>7, <2>1, RootLinked
  <2>3. NodesOf(tree) = {}
    BY <1>7, TreeFacts
  <2>4. NodesOf(s) = {k}
    BY <2>2, NodesOfShape
  <2>5. s.root = k /\ s.child = tree.child /\ s.parent = tree.parent /\ s.colour = tree.colour
    BY <1>1, <2>1 DEF Shape, Tree
  <2> QED BY <1>2, <1>3, <1>5, <1>6, <1>7, <2>1, <2>2, <2>3, <2>4, <2>5 DEF IsTree
<1>8. CASE tree.root # NULL
  <2>1. p \in sub[tree.root] /\ p \in Keys /\ p # NULL
    BY <1>1, <1>4, <1>8, Members, KeyFacts
  <2>2. SideOf(k, p) \in Sides /\ On(SideOf(k, p), k, p)
    BY <1>5, <2>1, SideOfFacts
  <2>3. s = Adopt(tree, p, SideOf(k, p), k)
    BY <1>3, <1>6, <2>1 DEF Linked, SideOf
  <2>4. PICK below : /\ Shape(s, below)
                     /\ below[s.root] = sub[tree.root] \cup {k}
    <3>1. tree.child[SideOf(k, p)][p] = NULL
          /\ \A n \in Keys, d \in Sides : p \in sub[tree.child[d][n]] => On(d, k, n)
      BY <1>4, <1>5, <1>8
    <3> QED BY <1>1, <1>5, <2>1, <2>2, <2>3, <3>1, LeafLinked
  <2>5. NodesOf(s) = NodesOf(tree) \cup {k}
    BY <1>2, <2>4, NodesOfShape
  <2>6. Joined(s, tree, p, SideOf(k, p), k)
    BY <1>1, <2>1, <2>2, <2>3, KeyFacts, Adopted DEF Shape
  <2> QED BY <1>2, <1>3, <1>4, <1>5, <1>6, <1>8, <2>1, <2>4, <2>5, <2>6 DEF IsTree
<1> QED BY <1>7, <1>8

\* Clearing a removed node's pointers and colour touches no other node.
LEMMA ClearedFacts ==
  ASSUME NEW t \in Tree, NEW k \in Keys
  PROVE  LET s == Cleared(t, k) IN
         /\ s \in Tree /\ s.root = t.root
         /\ \A e \in Sides, m \in Keys :
              s.child[e][m] = IF m = k THEN NULL ELSE t.child[e][m]
         /\ \A m \in Keys : s.parent[m] = IF m = k THEN NULL ELSE t.parent[m]
         /\ \A m \in Keys : s.colour[m] = IF m = k THEN "red" ELSE t.colour[m]
<1> DEFINE parent == [t.parent EXCEPT ![k] = NULL]
           colour == [t.colour EXCEPT ![k] = "red"]
           child == [t.child EXCEPT !["left"][k] = NULL, !["right"][k] = NULL]
           s == Cleared(t, k)
<1>1. /\ t.child \in [Sides -> [Keys -> Node]] /\ t.parent \in [Keys -> Node]
      /\ t.root \in Node /\ t.colour \in [Keys -> {"red", "black"}]
  BY DEF Tree
<1>2. /\ s.root = t.root /\ s.parent = parent /\ s.colour = colour
      /\ s.child = child /\ s \in Tree
  <2>1. s.root = t.root
    BY DEF Cleared, Tree
  <2>2. s.parent = parent
    BY DEF Cleared, Tree
  <2>3. s.colour = colour
    BY DEF Cleared, Tree
  <2>4. s.child = child
    BY DEF Cleared, Tree
  <2>5. s \in Tree
    BY KeyFacts DEF Cleared, Tree, Sides
  <2> QED BY <2>1, <2>2, <2>3, <2>4, <2>5
<1>3. /\ child \in [Sides -> [Keys -> Node]]
      /\ \A e \in Sides, m \in Keys :
           child[e][m] = IF m = k THEN NULL ELSE t.child[e][m]
  BY <1>1, KeyFacts DEF Sides
<1>4. /\ parent \in [Keys -> Node]
      /\ \A m \in Keys : parent[m] = IF m = k THEN NULL ELSE t.parent[m]
  BY <1>1, KeyFacts
<1>5. /\ colour \in [Keys -> {"red", "black"}]
      /\ \A m \in Keys : colour[m] = IF m = k THEN "red" ELSE t.colour[m]
  BY <1>1
<1> HIDE DEF child, parent, colour, s
<1>6. /\ s \in Tree /\ s.root = t.root
      /\ \A e \in Sides, m \in Keys :
           s.child[e][m] = IF m = k THEN NULL ELSE t.child[e][m]
      /\ \A m \in Keys : s.parent[m] = IF m = k THEN NULL ELSE t.parent[m]
      /\ \A m \in Keys : s.colour[m] = IF m = k THEN "red" ELSE t.colour[m]
  BY <1>2, <1>3, <1>4, <1>5
<1> QED BY <1>6 DEF s

\* s is t without the pointers of k, which is red.
ClearedOf(s, t, k) ==
  /\ s \in Tree /\ s.root = t.root
  /\ \A e \in Sides, m \in Keys : s.child[e][m] = IF m = k THEN NULL ELSE t.child[e][m]
  /\ \A m \in Keys : s.parent[m] = IF m = k THEN NULL ELSE t.parent[m]
  /\ \A m \in Keys : s.colour[m] = IF m = k THEN "red" ELSE t.colour[m]

\* That is what Cleared gives.
LEMMA ClearedTree ==
  ASSUME NEW t \in Tree, NEW k \in Keys, NEW s, s = Cleared(t, k)
  PROVE  ClearedOf(s, t, k)
BY ClearedFacts DEF ClearedOf

\* A node with at most one child gives its place to it.
LEMMA UnhookFacts ==
  ASSUME NEW t, IsTree(t), NEW k \in NodesOf(t), NEW x \in Node, x # k
  PROVE  /\ Unhooked(Cleared(Transplant(t, k, x), k), t, k, x)
         /\ \A m \in Keys : Cleared(Transplant(t, k, x), k).colour[m] =
                              IF m = k THEN "red" ELSE t.colour[m]
<1>1. PICK sub : Shape(t, sub)
  BY DEF IsTree
<1>2. k \in Keys /\ k \in sub[t.root] /\ t \in Tree
  BY <1>1, NodesOfShape, Members DEF Shape
<1>3. PICK a : a = Transplant(t, k, x)
  OBVIOUS
<1>4. Replaced(a, t, k, x)
  BY <1>1, <1>2, <1>3, MemberPlaced, Transplanted
<1>5. PICK s : s = Cleared(a, k)
  OBVIOUS
<1>6. /\ s \in Tree /\ s.root = a.root
      /\ \A e \in Sides, m \in Keys :
           s.child[e][m] = IF m = k THEN NULL ELSE a.child[e][m]
      /\ \A m \in Keys : s.parent[m] = IF m = k THEN NULL ELSE a.parent[m]
      /\ \A m \in Keys : s.colour[m] = IF m = k THEN "red" ELSE a.colour[m]
  <2>1. a \in Tree
    BY <1>4 DEF Replaced
  <2>2. ClearedOf(s, a, k)
    BY <1>2, <1>5, <2>1, ClearedTree
  <2> QED BY <2>2 DEF ClearedOf
<1>7. Unhooked(s, t, k, x)
  BY <1>4, <1>6 DEF Replaced, Unhooked
<1>8. \A m \in Keys : s.colour[m] = IF m = k THEN "red" ELSE t.colour[m]
  BY <1>4, <1>6 DEF Replaced
<1> QED BY <1>3, <1>5, <1>7, <1>8

\* Unlinking a node with at most one child takes out that node alone.
LEMMA TreeUnhook ==
  ASSUME NEW t, IsTree(t), NEW k \in NodesOf(t), NEW e \in Sides, t.child[e][k] = NULL
  PROVE  LET x == t.child[Other(e)][k]
             s == Cleared(Transplant(t, k, x), k) IN
         /\ IsTree(s) /\ NodesOf(s) = NodesOf(t) \ {k}
         /\ Unhooked(s, t, k, x)
         /\ \A m \in Keys : s.colour[m] = IF m = k THEN "red" ELSE t.colour[m]
<1>1. PICK sub : Shape(t, sub)
  BY DEF IsTree
<1>2. NodesOf(t) = sub[t.root]
  BY <1>1, NodesOfShape
<1>3. PICK below : \A s : Unhooked(s, t, k, t.child[Other(e)][k]) =>
           Shape(s, below) /\ below[s.root] = sub[t.root] \ {k}
  BY <1>1, <1>2, Unhooks
<1>4. PICK x : x = t.child[Other(e)][k]
  OBVIOUS
<1>5. x \in Node /\ x # k
  BY <1>4, NodeFacts, SideFacts
<1>6. PICK s : s = Cleared(Transplant(t, k, x), k)
  OBVIOUS
<1>7. /\ Unhooked(s, t, k, x)
      /\ \A m \in Keys : s.colour[m] = IF m = k THEN "red" ELSE t.colour[m]
  BY <1>5, <1>6, UnhookFacts
<1>8. Shape(s, below) /\ below[s.root] = sub[t.root] \ {k}
  BY <1>3, <1>4, <1>7
<1>9. NodesOf(s) = below[s.root]
  BY <1>8, NodesOfShape
<1> QED BY <1>2, <1>4, <1>6, <1>7, <1>8, <1>9 DEF IsTree

\* The successor of a node with a right child is below that child, and next to it.
LEMMA SuccessorFacts ==
  ASSUME NEW k \in NodesOf(tree), IsTree(tree), TwoChildren(k)
  PROVE  LET y == Successor(k) IN
         /\ y \in NodesOf(tree) /\ y # k /\ y # NULL /\ y # tree.root
         /\ tree.child["left"][y] = NULL
         /\ y # tree.child["left"][k]
         /\ tree.child["right"][y] \notin {tree.child["left"][k], tree.child["right"][k], k, y}
         /\ tree.parent[y] = k <=> y = tree.child["right"][k]
         /\ \A m \in NodesOf(tree), d \in Sides :
              m # k /\ m # y => /\ On(d, k, m) => On(d, y, m)
                                /\ On(d, m, k) => On(d, m, y)
<1>1. PICK sub : Shape(tree, sub)
  BY DEF IsTree
<1>2. NodesOf(tree) = sub[tree.root] /\ k \in Keys /\ sub[tree.root] \subseteq Keys
  BY <1>1, NodesOfShape, Members
<1> DEFINE r == tree.child["right"][k]
           l == tree.child["left"][k]
<1>3. "left" \in Sides /\ "right" \in Sides /\ Other("right") = "left" /\ Other("left") = "right"
  BY DEF Sides, Other
<1>4. l # NULL /\ r # NULL
  BY DEF TwoChildren, Left, Right
<1>5. /\ r \in Keys /\ r \in NodesOf(tree) /\ tree.parent[r] = k
      /\ l \in Keys /\ l \in NodesOf(tree) /\ tree.parent[l] = k
  BY <1>1, <1>2, <1>3, <1>4, MemberFacts
<1>6. PICK y : y = Successor(k)
  OBVIOUS
<1>7. y = Utmost(tree, "left", r) /\ y = Neighbour(tree, k, "right")
  BY <1>3, <1>4, <1>6 DEF Successor, Neighbour, Right
<1>8. /\ y \in sub[r] /\ tree.child["left"][y] = NULL
  BY <1>1, <1>3, <1>5, <1>7, UtmostFacts
<1>9. /\ sub[r] \subseteq sub[k] /\ sub[k] \subseteq sub[tree.root] /\ k \notin sub[r]
      /\ sub[l] \cap sub[r] = {} /\ l \in sub[l] /\ r \in sub[r] /\ k \in sub[k]
  <2>1. sub[k] \subseteq sub[tree.root] /\ k \in sub[k]
    BY <1>1, <1>2, MemberFacts
  <2>2. l \in sub[l] /\ r \in sub[r]
    BY <1>1, <1>3, <1>5, SubFacts
  <2>3. sub[r] \subseteq sub[k] /\ k \notin sub[r] /\ sub[l] \cap sub[r] = {}
    BY <1>1, <1>2, <1>3, SubFacts
  <2> QED BY <2>1, <2>2, <2>3
<1>10. y \in NodesOf(tree) /\ y \in Keys /\ y # k /\ y # NULL /\ y # l
  BY <1>2, <1>8, <1>9, KeyFacts
<1>11. sub[y] \subseteq sub[r]
  BY <1>1, <1>5, <1>8, Nested
<1>12. y # tree.root
  BY <1>2, <1>9, <1>11
<1>13. tree.parent[y] = k <=> y = r
  <2>1. ASSUME tree.parent[y] = k PROVE y = r
    <3>1. PICK d \in Sides : tree.child[d][k] = y
      BY <1>1, <1>2, <1>10, <2>1, KeyFacts, MemberFacts
    <3>2. d = "left" \/ d = "right"
      BY DEF Sides
    <3> QED BY <1>10, <3>1, <3>2
  <2> QED BY <1>5, <2>1
<1>14. tree.child["right"][y] \notin {l, r, k, y}
  <2>1. CASE tree.child["right"][y] = NULL
    BY <1>2, <1>4, <1>10, <2>1, KeyFacts
  <2>2. CASE tree.child["right"][y] # NULL
    <3> DEFINE x == tree.child["right"][y]
    <3>1. tree.parent[x] = y /\ x \in sub[y] /\ x # y
      BY <1>1, <1>2, <1>3, <1>10, <2>2, MemberFacts, NodeFacts DEF IsTree
    <3> QED BY <1>5, <1>9, <1>10, <1>11, <3>1
  <2> QED BY <2>1, <2>2
<1>15. /\ On("right", y, k)
       /\ \A c \in sub[tree.root] : On("right", c, k) => c = y \/ On("right", c, y)
  BY <1>1, <1>2, <1>3, <1>7, <1>10, NeighbourFacts
<1>16. ASSUME NEW m \in NodesOf(tree), NEW d \in Sides, m # k, m # y
       PROVE  /\ On(d, k, m) => On(d, y, m)
              /\ On(d, m, k) => On(d, m, y)
  <2>1. m \in Keys /\ (On("right", m, k) => On("right", m, y))
    BY <1>2, <1>15, <1>16
  <2>2. m \in Int /\ k \in Int /\ y \in Int
    BY <1>2, <1>10, <2>1, KeyFacts
  <2> QED BY <1>15, <2>1, <2>2 DEF On, Sides
<1> QED BY <1>6, <1>8, <1>10, <1>12, <1>13, <1>14, <1>16

\* The node that leaves its place, and the child that takes it.
Leaver(k) == IF TwoChildren(k) THEN Successor(k) ELSE k
Heir(k) == LET y == Leaver(k) IN
           IF Left(tree, y) = NULL THEN Right(tree, y) ELSE Left(tree, y)

\* Unlinking in two steps: the heir takes the leaver's place, then the leaver the
\* removed node's, with its colour.
UnlinkedBy(s, t, k) ==
  /\ IsTree(t) /\ Unhooked(t, tree, Leaver(k), Heir(k))
  /\ \A m \in Keys : t.colour[m] = IF m = Leaver(k) THEN "red" ELSE tree.colour[m]
  /\ IF TwoChildren(k)
     THEN /\ TookOver(s, t, k, Leaver(k))
          /\ \A m \in Keys : s.colour[m] = IF m = k THEN "red"
                                           ELSE IF m = Leaver(k) THEN tree.colour[k]
                                           ELSE tree.colour[m]
     ELSE s = t

\* The pointers when the leaver is the removed node's right child.
LEMMA NearReplaced ==
  ASSUME NEW k \in NodesOf(tree), IsTree(tree), TwoChildren(k),
         NEW y, y = Successor(k), tree.parent[y] = k,
         NEW t, Unhooked(t, tree, y, tree.child["right"][y])
  PROVE  LET s == Cleared(Unlinked(k), k) IN
         /\ TookOver(s, t, k, y)
         /\ \A m \in Keys : s.colour[m] = IF m = k THEN "red"
                                          ELSE IF m = y THEN tree.colour[k]
                                          ELSE tree.colour[m]
<1> DEFINE l == tree.child["left"][k]
           r == tree.child["right"][k]
           x == tree.child["right"][y]
<1>1. /\ y \in NodesOf(tree) /\ y \in Keys /\ y # k /\ y # tree.root /\ y = r
      /\ tree.child["left"][y] = NULL /\ y # l /\ x \notin {l, r, k, y}
  BY SuccessorFacts, TreeFacts
<1>2. /\ k \in Keys /\ tree \in Tree /\ "left" \in Sides /\ "right" \in Sides
      /\ \A e \in Sides : e = "left" \/ e = "right"
  BY TreeFacts DEF Sides
<1>3. PICK a : a = Transplant(tree, k, y)
  OBVIOUS
<1>4. PICK sub : Shape(tree, sub)
  BY DEF IsTree
<1>5. \A u \in NodesOf(tree) : Placed(tree, u)
  BY <1>4, NodesOfShape, MemberPlaced
<1>6. Replaced(a, tree, k, y)
  BY <1>1, <1>2, <1>3, <1>5, KeyFacts, Transplanted
<1>7. /\ l \in Node /\ l # NULL /\ l # k /\ l \in Keys /\ tree.parent[l] = k
      /\ \A m \in Keys : tree.parent[m] = k => m = l \/ m = y
  <2>1. l \in Node /\ l # k
    BY <1>2, NodeFacts
  <2>2. l # NULL
    BY DEF TwoChildren, Left
  <2>3. \A m \in Keys : tree.parent[m] = k => \E d \in Sides : tree.child[d][k] = m
    BY <1>2, <1>4, KeyFacts DEF Shape, Threaded
  <2>4. tree.parent[l] = k
    BY <1>2, <2>2, NodeFacts
  <2> QED BY <1>1, <1>2, <2>1, <2>2, <2>3, <2>4, KeyFacts
<1>8. PICK b : b = Adopt(a, y, "left", l)
  OBVIOUS
<1>9. Joined(b, a, y, "left", l)
  BY <1>1, <1>2, <1>6, <1>7, <1>8, Adopted DEF Replaced
<1>10. PICK c : c = Paint(b, y, tree.colour[k])
  OBVIOUS
<1>11. Painted(c, b, y, tree.colour[k])
  <2>1. b \in Tree /\ y \in Node /\ tree.colour[k] \in {"red", "black"}
    BY <1>1, <1>2, <1>9, KeyFacts DEF Joined, Tree
  <2> QED BY <1>10, <2>1, PaintFacts
<1>12. PICK s : s = Cleared(c, k)
  OBVIOUS
<1>13. /\ s \in Tree /\ s.root = c.root
       /\ \A e \in Sides, m \in Keys :
            s.child[e][m] = IF m = k THEN NULL ELSE c.child[e][m]
       /\ \A m \in Keys : s.parent[m] = IF m = k THEN NULL ELSE c.parent[m]
       /\ \A m \in Keys : s.colour[m] = IF m = k THEN "red" ELSE c.colour[m]
  <2>1. c \in Tree
    BY <1>11 DEF Painted
  <2>2. ClearedOf(s, c, k)
    BY <1>2, <1>12, <2>1, ClearedTree
  <2> QED BY <2>2 DEF ClearedOf
<1>14. Unlinked(k) = c
  BY <1>3, <1>8, <1>10 DEF Unlinked, Left, Parent
<1>15. ASSUME NEW e \in Sides, NEW m \in Keys
       PROVE  s.child[e][m] = IF m = k THEN NULL ELSE IF m = y THEN t.child[e][k]
                              ELSE IF t.child[e][m] = k THEN y ELSE t.child[e][m]
  <2>1. s.child[e][m] = IF m = k THEN NULL
                        ELSE IF e = "left" /\ m = y THEN l
                        ELSE IF tree.child[e][m] = k THEN y ELSE tree.child[e][m]
    BY <1>6, <1>9, <1>11, <1>13 DEF Replaced, Joined, Painted
  <2>2. /\ t.child[e][m] = IF m = y THEN NULL
                           ELSE IF tree.child[e][m] = y THEN x ELSE tree.child[e][m]
        /\ t.child[e][k] = IF tree.child[e][k] = y THEN x ELSE tree.child[e][k]
    BY <1>1, <1>2 DEF Unhooked
  <2>3. tree.child[e][m] = y => m = k
    BY <1>1, <1>5 DEF Placed
  <2>4. tree.child[e][y] # k
    BY <1>1, <1>2, KeyFacts
  <2> QED BY <1>1, <1>2, <2>1, <2>2, <2>3, <2>4
<1>16. ASSUME NEW m \in Keys
       PROVE  s.parent[m] = IF m = k THEN NULL ELSE IF m = y THEN t.parent[k]
                            ELSE IF t.parent[m] = k THEN y ELSE t.parent[m]
  <2>1. s.parent[m] = IF m = k THEN NULL ELSE IF m = l THEN y
                      ELSE IF m = y THEN tree.parent[k] ELSE tree.parent[m]
    BY <1>6, <1>9, <1>11, <1>13 DEF Replaced, Joined, Painted
  <2>2. \A i \in Keys : t.parent[i] = IF i = y THEN NULL
                                      ELSE IF i = x THEN k ELSE tree.parent[i]
    BY DEF Unhooked
  <2>3. m = x => tree.parent[m] = y
    <3>1. x = m => x # NULL
      BY KeyFacts
    <3>2. x # NULL => ChildOf(tree, y, "right", x)
      BY <1>1, <1>2, ChildFacts
    <3> QED BY <3>1, <3>2 DEF ChildOf
  <2> QED BY <1>1, <1>2, <1>7, <2>1, <2>2, <2>3
<1>17. s.root = IF k = t.root THEN y ELSE t.root
  <2>1. t.root = tree.root
    BY <1>1 DEF Unhooked
  <2> QED BY <1>6, <1>9, <1>11, <1>13, <2>1 DEF Replaced, Joined, Painted
<1>18. TookOver(s, t, k, y)
  BY <1>13, <1>15, <1>16, <1>17 DEF TookOver
<1>19. \A m \in Keys : s.colour[m] = IF m = k THEN "red"
                                     ELSE IF m = y THEN tree.colour[k] ELSE tree.colour[m]
  BY <1>6, <1>9, <1>11, <1>13 DEF Replaced, Joined, Painted
<1> QED BY <1>12, <1>14, <1>18, <1>19

\* The pointers when the leaver is further down.
LEMMA FarReplaced ==
  ASSUME NEW k \in NodesOf(tree), IsTree(tree), TwoChildren(k),
         NEW y, y = Successor(k), tree.parent[y] # k,
         NEW t, Unhooked(t, tree, y, tree.child["right"][y])
  PROVE  LET s == Cleared(Unlinked(k), k) IN
         /\ TookOver(s, t, k, y)
         /\ \A m \in Keys : s.colour[m] = IF m = k THEN "red"
                                          ELSE IF m = y THEN tree.colour[k]
                                          ELSE tree.colour[m]
<1> DEFINE l == tree.child["left"][k]
           r == tree.child["right"][k]
           x == tree.child["right"][y]
<1>1. /\ y \in NodesOf(tree) /\ y \in Keys /\ y # k /\ y # tree.root /\ y # r
      /\ tree.child["left"][y] = NULL /\ y # l /\ x \notin {l, r, k, y}
  BY SuccessorFacts, TreeFacts
<1>2. /\ k \in Keys /\ tree \in Tree /\ "left" \in Sides /\ "right" \in Sides
      /\ \A e \in Sides : e = "left" \/ e = "right"
  BY TreeFacts DEF Sides
<1>3. PICK sub : Shape(tree, sub)
  BY DEF IsTree
<1>4. \A u \in NodesOf(tree) : Placed(tree, u)
  BY <1>3, NodesOfShape, MemberPlaced
<1>5. /\ l \in Node /\ l # NULL /\ l # k /\ l \in Keys /\ tree.parent[l] = k
      /\ r \in Node /\ r # NULL /\ r # k /\ r \in Keys /\ tree.parent[r] = k /\ l # r
      /\ x \in Node
      /\ \A m \in Keys : tree.parent[m] = k => m = l \/ m = r
  <2>1. l \in Node /\ l # k /\ r \in Node /\ r # k
    BY <1>2, NodeFacts
  <2>2. l # NULL /\ r # NULL
    BY DEF TwoChildren, Left, Right
  <2>3. \A m \in Keys : tree.parent[m] = k => \E d \in Sides : tree.child[d][k] = m
    BY <1>2, <1>3, KeyFacts DEF Shape, Threaded
  <2>4. tree.parent[l] = k /\ tree.parent[r] = k /\ l # r
    <3>1. Other("left") = "right"
      BY DEF Other
    <3> QED BY <1>2, <2>2, <3>1, NodeFacts
  <2>5. x \in Node
    BY <1>1, <1>2, NodeFacts
  <2> QED BY <1>1, <1>2, <2>1, <2>2, <2>3, <2>4, <2>5, KeyFacts
<1>6. PICK a : a = Transplant(tree, y, x)
  OBVIOUS
<1>7. Replaced(a, tree, y, x)
  BY <1>1, <1>2, <1>4, <1>5, <1>6, Transplanted
<1>8. PICK b : b = Adopt(a, y, "right", r)
  OBVIOUS
<1>9. Joined(b, a, y, "right", r)
  BY <1>1, <1>2, <1>5, <1>7, <1>8, Adopted DEF Replaced
\* In between, k is still in its place.
<1>10. \A e \in Sides, m \in Keys : b.child[e][m] = k <=> tree.child[e][m] = k
  BY <1>1, <1>2, <1>5, <1>7, <1>9 DEF Replaced, Joined
<1>11. b.parent[k] = tree.parent[k] /\ b.root = tree.root
  BY <1>1, <1>2, <1>5, <1>7, <1>9 DEF Replaced, Joined
<1>12. Placed(b, k)
  <2>1. Placed(tree, k) /\ tree.parent[k] \in Node
    BY <1>2, <1>4 DEF Tree
  <2>2. CASE tree.parent[k] = NULL
    BY <1>10, <1>11, <2>1, <2>2, KeyFacts DEF Placed
  <2>3. CASE tree.parent[k] # NULL
    <3>1. tree.parent[k] \in Keys
      BY <2>1, <2>3, KeyFacts
    <3>2. Side(b, k) = Side(tree, k)
      BY <1>2, <1>10, <1>11, <3>1 DEF Side, Left
    <3> QED BY <1>10, <1>11, <2>1, <3>2 DEF Placed
  <2> QED BY <2>2, <2>3
<1>13. PICK c : c = Transplant(b, k, y)
  OBVIOUS
<1>14. Replaced(c, b, k, y)
  <2>1. b \in Tree /\ y \in Node
    BY <1>1, <1>9, KeyFacts DEF Joined
  <2> QED BY <1>2, <1>12, <1>13, <2>1, Transplanted
<1>15. PICK f : f = Adopt(c, y, "left", l)
  OBVIOUS
<1>16. Joined(f, c, y, "left", l)
  BY <1>1, <1>2, <1>5, <1>14, <1>15, Adopted DEF Replaced
<1>17. PICK g : g = Paint(f, y, tree.colour[k])
  OBVIOUS
<1>18. Painted(g, f, y, tree.colour[k])
  BY <1>1, <1>2, <1>16, <1>17, KeyFacts, PaintFacts DEF Joined, Tree
<1>19. PICK s : s = Cleared(g, k)
  OBVIOUS
<1>20. /\ s \in Tree /\ s.root = g.root
       /\ \A e \in Sides, m \in Keys :
            s.child[e][m] = IF m = k THEN NULL ELSE g.child[e][m]
       /\ \A m \in Keys : s.parent[m] = IF m = k THEN NULL ELSE g.parent[m]
       /\ \A m \in Keys : s.colour[m] = IF m = k THEN "red" ELSE g.colour[m]
  <2>1. g \in Tree
    BY <1>18 DEF Painted
  <2>2. ClearedOf(s, g, k)
    BY <1>2, <1>19, <2>1, ClearedTree
  <2> QED BY <2>2 DEF ClearedOf
<1>21. Unlinked(k) = g
  BY <1>6, <1>8, <1>13, <1>15, <1>17 DEF Unlinked, Left, Right, Parent
<1>22. ASSUME NEW e \in Sides, NEW m \in Keys
       PROVE  s.child[e][m] = IF m = k THEN NULL ELSE IF m = y THEN t.child[e][k]
                              ELSE IF t.child[e][m] = k THEN y ELSE t.child[e][m]
  <2>1. b.child[e][m] = IF e = "right" /\ m = y THEN r
                        ELSE IF tree.child[e][m] = y THEN x ELSE tree.child[e][m]
    BY <1>7, <1>9 DEF Replaced, Joined
  <2>2. s.child[e][m] = IF m = k THEN NULL
                        ELSE IF e = "left" /\ m = y THEN l
                        ELSE IF b.child[e][m] = k THEN y ELSE b.child[e][m]
    BY <1>14, <1>16, <1>18, <1>20 DEF Replaced, Joined, Painted
  <2>3. /\ t.child[e][m] = IF m = y THEN NULL
                           ELSE IF tree.child[e][m] = y THEN x ELSE tree.child[e][m]
        /\ t.child[e][k] = IF tree.child[e][k] = y THEN x ELSE tree.child[e][k]
    BY <1>1, <1>2 DEF Unhooked
  <2>4. tree.child[e][k] # y
    BY <1>1, <1>2
  <2> QED BY <1>1, <1>2, <1>5, <2>1, <2>2, <2>3, <2>4
<1>23. ASSUME NEW m \in Keys
       PROVE  s.parent[m] = IF m = k THEN NULL ELSE IF m = y THEN t.parent[k]
                            ELSE IF t.parent[m] = k THEN y ELSE t.parent[m]
  <2>1. s.parent[m] = IF m = k THEN NULL ELSE IF m = l THEN y
                      ELSE IF m = y THEN tree.parent[k]
                      ELSE IF m = r THEN y
                      ELSE IF m = x THEN tree.parent[y] ELSE tree.parent[m]
    BY <1>7, <1>9, <1>11, <1>14, <1>16, <1>18, <1>20 DEF Replaced, Joined, Painted
  <2>2. \A i \in Keys : t.parent[i] = IF i = y THEN NULL
                                      ELSE IF i = x THEN tree.parent[y] ELSE tree.parent[i]
    BY DEF Unhooked
  <2>3. m = y => m # x /\ m # k /\ m # l /\ m # r
    BY <1>1
  <2>4. m = l \/ m = r => m # x /\ tree.parent[m] = k
    BY <1>1, <1>5
  <2>5. t.parent[k] = tree.parent[k]
    BY <1>1, <1>2, <2>2
  <2>6. CASE m = k \/ m = y
    BY <2>1, <2>3, <2>5, <2>6
  <2>7. CASE m # k /\ m # y /\ (m = l \/ m = r)
    BY <2>1, <2>2, <2>4, <2>7
  <2>8. CASE m # k /\ m # y /\ m # l /\ m # r
    <3>1. tree.parent[m] # k
      BY <1>5, <2>8
    <3>2. t.parent[m] # k
      BY <2>2, <2>8, <3>1
    <3> QED BY <2>1, <2>2, <2>8, <3>2
  <2> QED BY <2>6, <2>7, <2>8
<1>24. s.root = IF k = t.root THEN y ELSE t.root
  <2>1. t.root = tree.root
    BY <1>1 DEF Unhooked
  <2> QED BY <1>11, <1>14, <1>16, <1>18, <1>20, <2>1 DEF Replaced, Joined, Painted
<1>25. TookOver(s, t, k, y)
  BY <1>20, <1>22, <1>23, <1>24 DEF TookOver
<1>26. \A m \in Keys : s.colour[m] = IF m = k THEN "red"
                                     ELSE IF m = y THEN tree.colour[k] ELSE tree.colour[m]
  BY <1>7, <1>9, <1>14, <1>16, <1>18, <1>20 DEF Replaced, Joined, Painted
<1> QED BY <1>19, <1>21, <1>25, <1>26

\* Giving k's place to a neighbour y that is in no tree exchanges k for y.
LEMMA TreeTakeOver ==
  ASSUME NEW t, IsTree(t), NEW k \in NodesOf(t), NEW y \in Keys, y \notin NodesOf(t),
         Adjacent(k, y, NodesOf(t)), NEW s, TookOver(s, t, k, y)
  PROVE  IsTree(s) /\ NodesOf(s) = (NodesOf(t) \ {k}) \cup {y}
<1>1. PICK sub : Shape(t, sub)
  BY DEF IsTree
<1>2. NodesOf(t) = sub[t.root]
  BY <1>1, NodesOfShape
<1>3. k \in sub[t.root] /\ y \notin sub[t.root] /\ Adjacent(k, y, sub[t.root])
  BY <1>2
<1>4. PICK below : \A u : TookOver(u, t, k, y) =>
         Shape(u, below) /\ below[u.root] = (sub[t.root] \ {k}) \cup {y}
  BY <1>1, <1>3, TakesOver
<1>5. Shape(s, below) /\ below[s.root] = (sub[t.root] \ {k}) \cup {y}
  BY <1>4
<1>6. NodesOf(s) = below[s.root]
  BY <1>5, NodesOfShape
<1> QED BY <1>2, <1>5, <1>6 DEF IsTree

\* remove() takes its key out of the tree.
LEMMA TreeUnlink ==
  ASSUME NEW k \in NodesOf(tree), IsTree(tree)
  PROVE  /\ IsTree(Cleared(Unlinked(k), k))
         /\ NodesOf(Cleared(Unlinked(k), k)) = NodesOf(tree) \ {k}
         /\ Leaver(k) \in NodesOf(tree)
         /\ Heir(k) # NULL => Heir(k) \in NodesOf(tree) \ {k}
         /\ \E t : UnlinkedBy(Cleared(Unlinked(k), k), t, k)
<1>1. PICK y : y = Leaver(k)
  OBVIOUS
<1>2. PICK x : x = Heir(k)
  OBVIOUS
<1>3. "left" \in Sides /\ "right" \in Sides /\ Other("right") = "left" /\ Other("left") = "right"
  BY DEF Sides, Other
<1>4. y \in NodesOf(tree) /\ y \in Keys
  BY <1>1, SuccessorFacts, TreeFacts DEF Leaver
<1>5. PICK e \in Sides : tree.child[e][y] = NULL /\ x = tree.child[Other(e)][y]
  <2>1. CASE TwoChildren(k)
    <3>1. tree.child["left"][y] = NULL
      BY <1>1, <2>1, SuccessorFacts DEF Leaver
    <3> QED BY <1>1, <1>2, <1>3, <3>1 DEF Heir, Left, Right
  <2>2. CASE ~TwoChildren(k)
    BY <1>1, <1>2, <1>3, <2>2 DEF Heir, Leaver, TwoChildren, Left, Right
  <2> QED BY <2>1, <2>2
<1>6. PICK t : t = Cleared(Transplant(tree, y, x), y)
  OBVIOUS
<1>7. /\ IsTree(t) /\ NodesOf(t) = NodesOf(tree) \ {y} /\ Unhooked(t, tree, y, x)
      /\ \A m \in Keys : t.colour[m] = IF m = y THEN "red" ELSE tree.colour[m]
  BY <1>4, <1>5, <1>6, TreeUnhook
<1>8. x # NULL => x \in NodesOf(tree)
  BY <1>4, <1>5, SideFacts, NodeFacts
<1>9. PICK s : s = Cleared(Unlinked(k), k)
  OBVIOUS
<1>10. CASE TwoChildren(k)
  <2>1. /\ y = Successor(k) /\ y # k /\ x = tree.child["right"][y] /\ x # k
    BY <1>1, <1>2, <1>10, SuccessorFacts DEF Leaver, Heir, Left, Right
  <2>2. /\ TookOver(s, t, k, y)
        /\ \A m \in Keys : s.colour[m] = IF m = k THEN "red"
                                         ELSE IF m = y THEN tree.colour[k]
                                         ELSE tree.colour[m]
    <3>1. CASE tree.parent[y] = k
      BY <1>7, <1>9, <1>10, <2>1, <3>1, NearReplaced
    <3>2. CASE tree.parent[y] # k
      BY <1>7, <1>9, <1>10, <2>1, <3>2, FarReplaced
    <3> QED BY <3>1, <3>2
  <2>3. Adjacent(k, y, NodesOf(t))
    BY <1>7, <1>10, <2>1, SuccessorFacts DEF Adjacent
  <2>8. IsTree(s) /\ NodesOf(s) = NodesOf(tree) \ {k}
    BY <1>4, <1>7, <2>1, <2>2, <2>3, TreeTakeOver
  <2>9. UnlinkedBy(s, t, k)
    BY <1>1, <1>2, <1>7, <1>10, <2>2 DEF UnlinkedBy
  <2> QED BY <1>1, <1>2, <1>4, <1>8, <1>9, <2>1, <2>8, <2>9
<1>11. CASE ~TwoChildren(k)
  <2>1. y = k
    BY <1>1, <1>11 DEF Leaver
  <2>2. s = t
    <3>1. Unlinked(k) = Transplant(tree, k, x)
      BY <1>2, <1>11, <2>1, <1>1, Zenon DEF Unlinked, Heir
    <3> QED BY <1>6, <1>9, <2>1, <3>1
  <2>3. x # k
    BY <1>5, <2>1, SideFacts, NodeFacts
  <2>4. UnlinkedBy(s, t, k)
    BY <1>1, <1>2, <1>7, <1>11, <2>2 DEF UnlinkedBy
  <2> QED BY <1>1, <1>2, <1>4, <1>7, <1>8, <1>9, <2>1, <2>2, <2>3, <2>4
<1> QED BY <1>10, <1>11

------------------------------------------------------------------------------
(* Colours and black heights.                                              *)

\* A red node with a red child.
RedEdge(t, n, d) == Red(t, n) /\ Red(t, t.child[d][n])

\* h[n] black nodes on every way from n down.
Balance(t, h) ==
  /\ h \in [Node -> Nat] /\ h[NULL] = 0
  /\ \A n \in NodesOf(t), d \in Sides :
       h[n] = h[t.child[d][n]] + (IF t.colour[n] = "red" THEN 0 ELSE 1)

Balanced(t) == \E h : Balance(t, h)

\* s is t rotated at x towards d, where x and its red child y have first exchanged
\* their colours, which makes u of t.
RedRotation(s, u, t, x, d, y) ==
  /\ IsTree(t) /\ x \in NodesOf(t) /\ d \in Sides /\ y \in NodesOf(t)
  /\ y = t.child[Other(d)][x] /\ NodesOf(s) = NodesOf(t)
  /\ Rotation(s, u, x, d, y, t.child[d][y])
  /\ u.child = t.child /\ t.colour[y] = "red"
  /\ u.colour[y] = t.colour[x] /\ u.colour[x] = "red"
  /\ \A m \in Keys : m # x /\ m # y => u.colour[m] = t.colour[m]

\* The node, its child, and the pointers of both trees in such a rotation.
LEMMA RedRotationFacts ==
  ASSUME NEW s, NEW u, NEW t, NEW x, NEW d, NEW y, RedRotation(s, u, t, x, d, y)
  PROVE  /\ NodesOf(s) = NodesOf(t) /\ NodesOf(t) \subseteq Node
         /\ x \in NodesOf(t) /\ y \in NodesOf(t) /\ x # y /\ NULL \notin NodesOf(t)
         /\ d \in Sides /\ Other(d) \in Sides /\ y = t.child[Other(d)][x]
         /\ \A e \in Sides : e = d \/ e = Other(d)
         /\ \A n \in NodesOf(t), e \in Sides :
              /\ t.child[e][n] \in Node /\ t.child[e][n] # n
              /\ t.child[e][n] = y => n = x /\ e = Other(d)
              /\ n = y => t.child[e][n] # x
         /\ s.child[d][x] = t.child[d][x] /\ s.child[Other(d)][x] = t.child[d][y]
         /\ s.child[d][y] = x /\ s.child[Other(d)][y] = t.child[Other(d)][y]
         /\ \A n \in NodesOf(t), e \in Sides : n # x /\ n # y =>
              s.child[e][n] = IF t.child[e][n] = x THEN y ELSE t.child[e][n]
         /\ t.colour[y] = "red" /\ s.colour[x] = "red" /\ s.colour[y] = t.colour[x]
         /\ \A n \in NodesOf(t) : n # x /\ n # y => s.colour[n] = t.colour[n]
<1>1. /\ IsTree(t) /\ x \in NodesOf(t) /\ d \in Sides /\ y \in NodesOf(t)
      /\ y = t.child[Other(d)][x] /\ NodesOf(s) = NodesOf(t)
  BY DEF RedRotation
<1>2. NodesOf(t) \subseteq Keys /\ NodesOf(t) \subseteq Node /\ NULL \notin NodesOf(t)
  <2>1. NodesOf(t) \subseteq Keys
    BY <1>1, TreeFacts
  <2> QED BY <2>1, KeyFacts
<1>3. Other(d) \in Sides /\ Other(d) # d /\ \A e \in Sides : e = d \/ e = Other(d)
  BY <1>1, SideFacts
<1>4. t.child[Other(d)][x] # NULL
  BY <1>1, <1>2
<1>5. ChildOf(t, x, Other(d), y)
  BY <1>1, <1>3, <1>4, ChildFacts
<1>6. /\ x # y /\ \A e \in Sides : t.child[e][y] # x
      /\ \A n \in NodesOf(t), e \in Sides : t.child[e][n] = y => n = x /\ e = Other(d)
  BY <1>5 DEF ChildOf
<1>7. \A n \in NodesOf(t), e \in Sides : t.child[e][n] \in Node /\ t.child[e][n] # n
  BY <1>1, NoLoop
<1>8. \A e \in Sides, n \in Keys :
        s.child[e][n] = IF e = d /\ n = y THEN x
                        ELSE IF e = Other(d) /\ n = x THEN t.child[d][y]
                        ELSE IF t.child[e][n] = x THEN y ELSE t.child[e][n]
  BY DEF RedRotation, Rotation
<1>9. /\ t.colour[y] = "red" /\ s.colour[x] = "red" /\ s.colour[y] = t.colour[x]
      /\ \A n \in Keys : n # x /\ n # y => s.colour[n] = t.colour[n]
  BY DEF RedRotation, Rotation
<1>10. s.child[d][x] = t.child[d][x] /\ s.child[Other(d)][x] = t.child[d][y]
  <2>1. t.child[d][x] # x /\ x \in Keys
    BY <1>1, <1>2, <1>7
  <2> QED BY <1>1, <1>3, <1>6, <1>8, <2>1
<1>11. s.child[d][y] = x /\ s.child[Other(d)][y] = t.child[Other(d)][y]
  <2>1. t.child[Other(d)][y] # x /\ y \in Keys
    BY <1>1, <1>2, <1>3, <1>6
  <2> QED BY <1>1, <1>3, <1>6, <1>8, <2>1
<1>12. ASSUME NEW n \in NodesOf(t), NEW e \in Sides, n # x, n # y
       PROVE  s.child[e][n] = IF t.child[e][n] = x THEN y ELSE t.child[e][n]
  BY <1>2, <1>8, <1>12
<1>13. ASSUME NEW n \in NodesOf(t), NEW e \in Sides
       PROVE  /\ t.child[e][n] \in Node /\ t.child[e][n] # n
              /\ t.child[e][n] = y => n = x /\ e = Other(d)
              /\ n = y => t.child[e][n] # x
  BY <1>6, <1>7
<1>14. \A n \in NodesOf(t) : n # x /\ n # y => s.colour[n] = t.colour[n]
  BY <1>2, <1>9
<1> QED BY <1>1, <1>2, <1>3, <1>6, <1>9, <1>10, <1>11, <1>12, <1>13, <1>14

\* What a node adds to the black nodes on the ways down.
Weight(t, n) == IF t.colour[n] = "red" THEN 0 ELSE 1

\* A rotation with a red child that exchanges the colours keeps the balance.
LEMMA BalanceRotated ==
  ASSUME NEW s, NEW u, NEW t, NEW x, NEW d, NEW y, RedRotation(s, u, t, x, d, y),
         Balanced(t)
  PROVE  Balanced(s)
<1>1. PICK h : Balance(t, h)
  BY DEF Balanced
<1>2. /\ h \in [Node -> Nat] /\ h[NULL] = 0
      /\ \A n \in NodesOf(t), e \in Sides : h[n] = h[t.child[e][n]] + Weight(t, n)
  BY <1>1 DEF Balance, Weight
<1>3. /\ NodesOf(s) = NodesOf(t) /\ NodesOf(t) \subseteq Node
      /\ x \in NodesOf(t) /\ y \in NodesOf(t) /\ x # y /\ NULL \notin NodesOf(t)
      /\ d \in Sides /\ Other(d) \in Sides /\ y = t.child[Other(d)][x]
      /\ \A e \in Sides : e = d \/ e = Other(d)
  BY RedRotationFacts
<1>4. PICK a, b, c : a = t.child[d][x] /\ b = t.child[d][y] /\ c = t.child[Other(d)][y]
  OBVIOUS
<1>5. /\ a \in Node /\ a # x /\ a # y /\ b \in Node /\ b # x /\ b # y
      /\ c \in Node /\ c # x /\ c # y
  BY <1>4, RedRotationFacts
<1>6. /\ s.child[d][x] = a /\ s.child[Other(d)][x] = b
      /\ s.child[d][y] = x /\ s.child[Other(d)][y] = c
  BY <1>4, RedRotationFacts
<1>7. Weight(t, y) = 0 /\ Weight(s, x) = 0 /\ Weight(s, y) = Weight(t, x)
  BY RedRotationFacts DEF Weight
<1>8. /\ h[x] = h[a] + Weight(t, x) /\ h[x] = h[y] + Weight(t, x)
      /\ h[y] = h[b] + Weight(t, y) /\ h[y] = h[c] + Weight(t, y)
  BY <1>2, <1>3, <1>4
<1>9. h[a] = h[y] /\ h[b] = h[y] /\ h[c] = h[y]
  <2>1. Weight(t, x) \in Nat
    BY DEF Weight
  <2>2. h[x] \in Nat /\ h[y] \in Nat /\ h[a] \in Nat /\ h[b] \in Nat /\ h[c] \in Nat
    BY <1>2, <1>3, <1>5
  <2> QED BY <1>7, <1>8, <2>1, <2>2
<1>10. PICK g : g = [n \in Node |-> IF n = y THEN h[x] ELSE IF n = x THEN h[y] ELSE h[n]]
  OBVIOUS
<1>11. /\ g \in [Node -> Nat] /\ g[x] = h[y] /\ g[y] = h[x]
       /\ \A n \in Node : n # x /\ n # y => g[n] = h[n]
  BY <1>2, <1>3, <1>10
<1>12. g[a] = h[y] /\ g[b] = h[y] /\ g[c] = h[y]
  BY <1>5, <1>9, <1>11
<1>13. g[NULL] = 0
  BY <1>2, <1>3, <1>11, KeyFacts
<1>14. ASSUME NEW n \in NodesOf(t), NEW e \in Sides
       PROVE  g[n] = g[s.child[e][n]] + Weight(s, n)
  <2>1. CASE n = x
    <3>1. s.child[e][x] = a \/ s.child[e][x] = b
      BY <1>3, <1>6
    <3>2. g[s.child[e][x]] = h[y]
      BY <1>12, <3>1
    <3>3. h[y] \in Nat
      BY <1>2, <1>3
    <3> QED BY <1>7, <1>11, <2>1, <3>2, <3>3
  <2>2. CASE n = y
    <3>1. s.child[e][y] = x \/ s.child[e][y] = c
      BY <1>3, <1>6
    <3>2. g[s.child[e][y]] = h[y]
      BY <1>11, <1>12, <3>1
    <3> QED BY <1>7, <1>8, <1>11, <2>2, <3>2
  <2>3. CASE n # x /\ n # y
    <3>1. s.child[e][n] = IF t.child[e][n] = x THEN y ELSE t.child[e][n]
      BY <2>3, RedRotationFacts
    <3>2. t.child[e][n] \in Node /\ t.child[e][n] # y
      BY <2>3, RedRotationFacts
    <3>3. g[s.child[e][n]] = h[t.child[e][n]]
      BY <1>3, <1>11, <3>1, <3>2
    <3>4. g[n] = h[n]
      BY <1>3, <1>11, <2>3
    <3>5. Weight(s, n) = Weight(t, n)
      BY <2>3, RedRotationFacts DEF Weight
    <3> QED BY <1>2, <3>3, <3>4, <3>5
  <2> QED BY <2>1, <2>2, <2>3
<1>15. Balance(s, g)
  BY <1>3, <1>11, <1>13, <1>14 DEF Balance, Weight
<1> QED BY <1>15 DEF Balanced

\* The root may change its colour.
LEMMA BalanceRoot ==
  ASSUME NEW t, IsTree(t), Balanced(t), NEW c \in {"red", "black"}
  PROVE  Balanced(Paint(t, t.root, c))
<1>1. PICK h : Balance(t, h)
  BY DEF Balanced
<1>2. CASE t.root = NULL
  BY <1>2 DEF Paint
<1>3. CASE t.root # NULL
  <2> DEFINE r == t.root
             x == t.child["left"][r]
  <2>1. PICK s : s = Paint(t, r, c)
    OBVIOUS
  <2>2. r \in Keys /\ r \in NodesOf(t) /\ "left" \in Sides /\ x \in Node /\ x # r
        /\ NodesOf(t) \subseteq Keys /\ Keys \subseteq Node /\ NULL \in Node /\ r # NULL
    <3>1. "left" \in Sides
      BY DEF Sides
    <3>2. r \in Keys /\ r \in NodesOf(t)
      BY <1>3, TreeFacts
    <3> QED BY <3>1, <3>2, TreeFacts, NodeFacts, KeyFacts
  <2>3. Painted(s, t, r, c) /\ NodesOf(s) = NodesOf(t)
    BY <2>1, <2>2, TreePaint
  <2>4. PICK i \in Nat : i = h[x] + (IF c = "red" THEN 0 ELSE 1)
    BY <1>1, <2>2 DEF Balance
  <2>5. PICK g : g = [h EXCEPT ![r] = i]
    OBVIOUS
  <2>6. /\ g \in [Node -> Nat] /\ g[NULL] = 0 /\ g[r] = i
        /\ \A n \in Node : n # r => g[n] = h[n]
    BY <1>1, <2>2, <2>5 DEF Balance
  <2>7. ASSUME NEW n \in NodesOf(t), NEW e \in Sides
        PROVE  g[n] = g[s.child[e][n]] + (IF s.colour[n] = "red" THEN 0 ELSE 1)
    <3>1. t.child[e][n] \in Node /\ t.child[e][n] # r
      BY <2>2, NodeFacts
    <3>2. s.child[e][n] = t.child[e][n] /\ s.colour[n] = IF n = r THEN c ELSE t.colour[n]
      BY <2>2, <2>3 DEF Painted
    <3>3. g[s.child[e][n]] = h[t.child[e][n]]
      BY <2>6, <3>1, <3>2
    <3>4. h[n] = h[t.child[e][n]] + (IF t.colour[n] = "red" THEN 0 ELSE 1)
      BY <1>1 DEF Balance
    <3>5. CASE n = r
      <4>1. h[t.child[e][r]] = h[x]
        <5>1. /\ h[r] = h[t.child[e][r]] + (IF t.colour[r] = "red" THEN 0 ELSE 1)
              /\ h[r] = h[x] + (IF t.colour[r] = "red" THEN 0 ELSE 1)
              /\ h[t.child[e][r]] \in Nat /\ h[x] \in Nat
          BY <1>1, <2>2, <3>1, <3>5 DEF Balance
        <5> QED BY <5>1
      <4> QED BY <2>4, <2>6, <3>2, <3>3, <3>5, <4>1
    <3>6. CASE n # r
      BY <2>2, <2>6, <3>2, <3>3, <3>4, <3>6
    <3> QED BY <3>5, <3>6
  <2>8. Balance(s, g)
    BY <2>3, <2>6, <2>7 DEF Balance
  <2> QED BY <2>1, <2>8 DEF Balanced
<1> QED BY <1>2, <1>3

\* Turning a bent path straight (the first half of the last case of insert_fixup):
\* low hangs below y, and y below g, on the same side d.
Straight(t, low, y, g, d) ==
  /\ low \in NodesOf(t) /\ y \in NodesOf(t) /\ g \in NodesOf(t) /\ d \in Sides
  /\ t.parent[low] = y /\ t.parent[y] = g
  /\ t.child[d][g] = y /\ t.child[d][y] = low

\* The parent of a node has it on the side that Side gives.
LEMMA ParentFacts ==
  ASSUME NEW t, IsTree(t), NEW n \in NodesOf(t), NEW p \in NodesOf(t), p = t.parent[n]
  PROVE  Side(t, n) \in Sides /\ t.child[Side(t, n)][p] = n /\ p # n
<1>1. t.parent[n] # NULL
  BY TreeFacts, KeyFacts
<1>2. /\ t.parent[n] # n /\ Side(t, n) \in Sides
      /\ \A d \in Sides : t.child[d][t.parent[n]] = n <=> d = Side(t, n)
  BY <1>1, NodeFacts
<1> QED BY <1>2

\* p is on side d of g, z on the other side of p, and s has p rotated towards d.
Crooked(s, t, z, p, g, d) ==
  /\ IsTree(t) /\ z \in NodesOf(t) /\ p \in NodesOf(t) /\ g \in NodesOf(t)
  /\ p = t.parent[z] /\ g = t.parent[p] /\ d = Side(t, p) /\ z # t.child[d][p]
  /\ s = Rotate(t, p, d)

\* Where the three nodes of a bent path are.
LEMMA CrookedFacts ==
  ASSUME NEW s, NEW t, NEW z, NEW p, NEW g, NEW d, Crooked(s, t, z, p, g, d)
  PROVE  /\ d \in Sides /\ Other(d) \in Sides /\ Other(d) # d
         /\ \A e \in Sides : e = d \/ e = Other(d)
         /\ z \in NodesOf(t) /\ p \in NodesOf(t) /\ g \in NodesOf(t)
         /\ NodesOf(t) \subseteq Keys /\ NULL \notin NodesOf(t)
         /\ z = t.child[Other(d)][p] /\ p = t.child[d][g]
         /\ z # p /\ g # z /\ g # p
         /\ ChildOf(t, p, Other(d), z) /\ ChildOf(t, g, d, p)
<1>1. /\ IsTree(t) /\ z \in NodesOf(t) /\ p \in NodesOf(t) /\ g \in NodesOf(t)
      /\ p = t.parent[z] /\ g = t.parent[p] /\ d = Side(t, p) /\ z # t.child[d][p]
  BY DEF Crooked
<1>2. NodesOf(t) \subseteq Keys /\ NULL \notin NodesOf(t)
  <2>1. NodesOf(t) \subseteq Keys
    BY <1>1, TreeFacts
  <2> QED BY <2>1, KeyFacts
<1>3. d \in Sides /\ t.child[d][g] = p /\ g # p
  BY <1>1, ParentFacts
<1>4. Side(t, z) \in Sides /\ t.child[Side(t, z)][p] = z /\ p # z
  BY <1>1, ParentFacts
<1>5. Other(d) \in Sides /\ Other(d) # d /\ \A e \in Sides : e = d \/ e = Other(d)
  BY <1>3, SideFacts
<1>6. t.child[Other(d)][p] = z
  BY <1>1, <1>4, <1>5
<1>7. ChildOf(t, p, Other(d), z)
  <2>1. t.child[Other(d)][p] # NULL
    BY <1>1, <1>2, <1>6
  <2>2. ChildOf(t, p, Other(d), t.child[Other(d)][p])
    BY <1>1, <1>5, <2>1, ChildFacts
  <2> QED BY <1>6, <2>2
<1>8. ChildOf(t, g, d, p)
  <2>1. t.child[d][g] # NULL
    BY <1>1, <1>2, <1>3
  <2>2. ChildOf(t, g, d, t.child[d][g])
    BY <1>1, <1>3, <2>1, ChildFacts
  <2> QED BY <1>3, <2>2
<1>9. g # z
  <2>1. t.child[Other(d)][p] # g
    BY <1>5, <1>8 DEF ChildOf
  <2> QED BY <1>6, <2>1
<1> QED BY <1>1, <1>2, <1>3, <1>4, <1>5, <1>6, <1>7, <1>8, <1>9

\* The rotation that straightens the path keeps the tree and the uncle.
LEMMA Straightened ==
  ASSUME NEW s, NEW t, NEW z, NEW p, NEW g, NEW d, Crooked(s, t, z, p, g, d)
  PROVE  /\ IsTree(s) /\ NodesOf(s) = NodesOf(t) /\ Straight(s, p, z, g, d)
         /\ Rotation(s, t, p, d, z, t.child[d][z])
         /\ s.colour = t.colour /\ s.root = t.root
         /\ s.child[Other(d)][g] = t.child[Other(d)][g]
<1>1. /\ d \in Sides /\ Other(d) \in Sides /\ Other(d) # d
      /\ z \in NodesOf(t) /\ p \in NodesOf(t) /\ g \in NodesOf(t)
      /\ z \in Keys /\ p \in Keys /\ g \in Keys /\ z # NULL
      /\ z = t.child[Other(d)][p] /\ p = t.child[d][g] /\ z # p /\ g # z /\ g # p
  BY CrookedFacts
<1>2. t.child[d][z] # p /\ t.child[d][z] # z
  <2>1. ChildOf(t, p, Other(d), z)
    BY CrookedFacts
  <2> QED BY <1>1, <2>1 DEF ChildOf
<1>3. t.child[Other(d)][g] # p /\ p # t.root
  BY CrookedFacts DEF ChildOf
<1>4. IsTree(t) /\ s = Rotate(t, p, d) /\ t.parent[p] = g
  BY DEF Crooked
<1>5. IsTree(s) /\ NodesOf(s) = NodesOf(t) /\ Rotation(s, t, p, d, z, t.child[d][z])
  BY <1>1, <1>4, TreeRotate
<1>6. /\ s.colour = t.colour /\ s.root = t.root
      /\ \A e \in Sides, m \in Keys :
           s.child[e][m] = IF e = d /\ m = z THEN p
                           ELSE IF e = Other(d) /\ m = p THEN t.child[d][z]
                           ELSE IF t.child[e][m] = p THEN z ELSE t.child[e][m]
      /\ \A m \in Keys :
           s.parent[m] = IF m = p THEN z ELSE IF m = t.child[d][z] THEN p
                         ELSE IF m = z THEN t.parent[p] ELSE t.parent[m]
  BY <1>3, <1>5 DEF Rotation
<1>7. s.child[Other(d)][g] = t.child[Other(d)][g]
  BY <1>1, <1>3, <1>6
<1>8. s.child[d][g] = z /\ s.child[d][z] = p
  BY <1>1, <1>6
<1>9. s.parent[p] = z /\ s.parent[z] = g
  BY <1>1, <1>2, <1>4, <1>6
<1> QED BY <1>1, <1>5, <1>6, <1>7, <1>8, <1>9 DEF Straight

\* The only red node with a red parent is z, or there is none.
OnlyRed(t, z) == \A n \in NodesOf(t), d \in Sides : RedEdge(t, n, d) => t.child[d][n] = z
NoRed(t) == \A n \in NodesOf(t), d \in Sides : ~RedEdge(t, n, d)

\* The bend keeps what is known of the colours.
LEMMA StraightColours ==
  ASSUME NEW s, NEW t, NEW z, NEW p, NEW g, NEW d, Crooked(s, t, z, p, g, d),
         Red(t, z), Red(t, p), OnlyRed(t, z)
  PROVE  OnlyRed(s, p) /\ (Balanced(t) => Balanced(s))
<1>1. /\ d \in Sides /\ Other(d) \in Sides /\ Other(d) # d
      /\ \A e \in Sides : e = d \/ e = Other(d)
      /\ z \in NodesOf(t) /\ p \in NodesOf(t) /\ NodesOf(t) \subseteq Keys
      /\ z = t.child[Other(d)][p] /\ z # p
  BY CrookedFacts
<1>2. /\ \A e \in Sides : t.child[e][z] # p /\ t.child[e][z] # z
      /\ \A m \in NodesOf(t), e \in Sides : t.child[e][m] = z => m = p /\ e = Other(d)
  BY CrookedFacts DEF ChildOf
<1>3. /\ NodesOf(s) = NodesOf(t) /\ Rotation(s, t, p, d, z, t.child[d][z])
      /\ s.colour = t.colour
  BY Straightened
<1>4. /\ \A n : Red(s, n) <=> Red(t, n)
      /\ \A e \in Sides, m \in NodesOf(t) :
           s.child[e][m] = IF e = d /\ m = z THEN p
                           ELSE IF e = Other(d) /\ m = p THEN t.child[d][z]
                           ELSE IF t.child[e][m] = p THEN z ELSE t.child[e][m]
  BY <1>1, <1>3 DEF Red, Rotation
<1>5. t.child[d][p] # p
  <2>1. IsTree(t)
    BY DEF Crooked
  <2> QED BY <1>1, <2>1, NoLoop
<1>6. \A n \in NodesOf(t), e \in Sides :
        Red(t, n) /\ Red(t, t.child[e][n]) => n = p /\ e = Other(d)
  BY <1>2 DEF OnlyRed, RedEdge
<1>7. ASSUME NEW n \in NodesOf(t), NEW e \in Sides, RedEdge(s, n, e)
      PROVE  s.child[e][n] = p
  <2>1. Red(t, n) /\ Red(t, s.child[e][n])
    BY <1>4, <1>7 DEF RedEdge
  <2>2. CASE n = z
    <3>1. CASE e = d
      BY <1>1, <1>4, <2>2, <3>1
    <3>2. CASE e = Other(d)
      <4>1. s.child[e][n] = t.child[e][n]
        BY <1>1, <1>2, <1>4, <2>2, <3>2
      <4> QED BY <1>1, <1>6, <2>1, <2>2, <4>1
    <3> QED BY <1>1, <3>1, <3>2
  <2>3. CASE n = p
    <3>1. CASE e = d
      <4>1. s.child[e][n] = t.child[d][p]
        <5>1. d # Other(d) /\ p # z /\ d \in Sides /\ p \in NodesOf(t)
          BY <1>1
        <5> QED BY <1>4, <1>5, <2>3, <3>1, <5>1
      <4> QED BY <1>1, <1>6, <2>1, <2>3, <3>1, <4>1
    <3>2. CASE e = Other(d)
      <4>1. s.child[e][n] = t.child[d][z]
        BY <1>1, <1>4, <2>3, <3>2
      <4> QED BY <1>1, <1>6, <2>1, <4>1
    <3> QED BY <1>1, <3>1, <3>2
  <2>4. CASE n # z /\ n # p
    <3>1. s.child[e][n] = IF t.child[e][n] = p THEN z ELSE t.child[e][n]
      BY <1>4, <2>4
    <3>2. CASE t.child[e][n] = p
      <4>1. Red(t, t.child[e][n])
        BY <3>2
      <4> QED BY <1>6, <2>1, <2>4, <4>1
    <3>3. CASE t.child[e][n] # p
      BY <1>6, <2>1, <2>4, <3>1, <3>3
    <3> QED BY <3>2, <3>3
  <2> QED BY <2>2, <2>3, <2>4
<1>8. ASSUME Balanced(t) PROVE Balanced(s)
  <2>1. t.colour[z] = "red" /\ t.colour[p] = "red"
    BY DEF Red
  <2>2. RedRotation(s, t, t, p, d, z)
    <3>1. IsTree(t)
      BY DEF Crooked
    <3> QED BY <1>1, <1>3, <2>1, <3>1 DEF RedRotation
  <2> QED BY <1>8, <2>2, BalanceRotated
<1> QED BY <1>3, <1>7, <1>8 DEF OnlyRed

\* The rest of that case: y is painted black and g red, and g is rotated down.
LEMMA TurnedUp ==
  ASSUME NEW t, IsTree(t), NEW low, NEW y, NEW g, NEW d, Straight(t, low, y, g, d),
         Red(t, y), Red(t, low), OnlyRed(t, low), ~Red(t, t.child[Other(d)][g]),
         ~Red(t, t.root),
         NEW s, s = Rotate(Paint(Paint(t, y, "black"), g, "red"), g, Other(d))
  PROVE  /\ IsTree(s) /\ NodesOf(s) = NodesOf(t)
         /\ NoRed(s) /\ ~Red(s, s.root) /\ Red(s, low)
         /\ Balanced(t) => Balanced(s)
         /\ \A n \in Keys \ NodesOf(t) : s.colour[n] = t.colour[n]
<1>1. /\ low \in NodesOf(t) /\ y \in NodesOf(t) /\ g \in NodesOf(t) /\ d \in Sides
      /\ low \in Keys /\ y \in Keys /\ g \in Keys /\ NodesOf(t) \subseteq Keys
      /\ t.child[d][g] = y /\ t.child[d][y] = low /\ y # g /\ low # y /\ low # g
      /\ y # NULL /\ g # NULL /\ low # NULL /\ y # t.root
  <2>1. low \in NodesOf(t) /\ y \in NodesOf(t) /\ g \in NodesOf(t) /\ d \in Sides
        /\ t.child[d][g] = y /\ t.child[d][y] = low
    BY DEF Straight
  <2> QED BY <2>1, NodeFacts, TreeFacts
<1>2. /\ Other(d) \in Sides /\ Other(d) # d /\ \A e \in Sides : e = d \/ e = Other(d)
      /\ Other(Other(d)) = d
  BY <1>1, SideFacts
<1> DEFINE b == t.child[Other(d)][y]
           c == t.child[Other(d)][g]
<1>3. PICK u : u = Paint(t, y, "black")
  OBVIOUS
<1>4. IsTree(u) /\ NodesOf(u) = NodesOf(t) /\ Painted(u, t, y, "black")
  BY <1>1, <1>3, TreePaint, KeyFacts
<1>5. PICK v : v = Paint(u, g, "red")
  OBVIOUS
<1>6. IsTree(v) /\ NodesOf(v) = NodesOf(t) /\ Painted(v, u, g, "red")
  BY <1>1, <1>4, <1>5, TreePaint, KeyFacts
<1>7. /\ v.root = t.root /\ v.child = t.child /\ v.parent = t.parent
      /\ \A m \in Keys : v.colour[m] = IF m = g THEN "red" ELSE IF m = y THEN "black"
                                       ELSE t.colour[m]
  BY <1>4, <1>6 DEF Painted
<1>8. IsTree(s) /\ NodesOf(s) = NodesOf(t) /\ Rotation(s, v, g, Other(d), y, b)
  <2>1. v.child[Other(Other(d))][g] # NULL
    BY <1>1, <1>2, <1>7
  <2>2. s = Rotate(v, g, Other(d))
    BY <1>3, <1>5
  <2>3. /\ IsTree(s) /\ NodesOf(s) = NodesOf(v)
        /\ Rotation(s, v, g, Other(d), v.child[Other(Other(d))][g],
                    v.child[Other(d)][v.child[Other(Other(d))][g]])
    BY <1>1, <1>2, <1>6, <2>1, <2>2, TreeRotate
  <2> QED BY <1>1, <1>2, <1>6, <1>7, <2>3
<1>9. \A m \in Keys : s.colour[m] = IF m = g THEN "red" ELSE IF m = y THEN "black"
                                    ELSE t.colour[m]
  BY <1>7, <1>8 DEF Rotation
<1>10. \A m \in Node : /\ m # g => (Red(s, m) => Red(t, m))
                       /\ ~Red(s, y)
  BY <1>1, <1>9, KeyFacts DEF Red
<1>11. /\ b # y /\ b # g /\ c # g /\ c # y /\ b # low /\ b \in Node /\ c \in Node
       /\ low # c
  <2>1. b \in Node /\ c \in Node /\ b # y /\ c # g
    BY <1>1, <1>2, NodeFacts
  <2>2. c # y /\ b # low
    BY <1>1, <1>2, NodeFacts
  <2>3. b # g
    BY <1>1, <1>2, NodeFacts
  <2>4. low # c
    BY <1>1, <1>2, NodeFacts
  <2> QED BY <2>1, <2>2, <2>3, <2>4
<1>12. ASSUME NEW n \in NodesOf(t), NEW e \in Sides, RedEdge(s, n, e) PROVE FALSE
  <2>1. n \in Keys /\ Red(s, n) /\ Red(s, s.child[e][n]) /\ n # y
    BY <1>1, <1>10, <1>12, KeyFacts DEF RedEdge
  <2>2. CASE n = g
    <3>1. e = Other(d) => s.child[e][n] = c
      BY <1>1, <1>2, <1>7, <1>8, <1>11, <2>2 DEF Rotation
    <3>2. e = d => s.child[e][n] = b
      BY <1>1, <1>2, <1>7, <1>8, <1>11, <2>2 DEF Rotation
    <3>3. ~Red(t, b)
      BY <1>1, <1>2, <1>11 DEF OnlyRed, RedEdge
    <3>4. ~Red(s, b) /\ ~Red(s, c)
      BY <1>10, <1>11, <3>3
    <3> QED BY <1>2, <2>1, <3>1, <3>2, <3>4
  <2>3. CASE n # g
    <3>1. s.child[e][n] = IF t.child[e][n] = g THEN y ELSE t.child[e][n]
      BY <1>2, <1>7, <1>8, <2>1, <2>3 DEF Rotation
    <3>2. t.child[e][n] # g /\ t.child[e][n] \in Node
      <4>1. t.child[e][n] \in Node
        BY <1>12, NoLoop
      <4>2. ~Red(s, y)
        BY <1>10, KeyFacts
      <4> QED BY <2>1, <3>1, <4>1, <4>2
    <3>3. RedEdge(t, n, e)
      BY <1>10, <2>1, <2>3, <3>1, <3>2, KeyFacts DEF RedEdge
    <3>4. t.child[e][n] = low
      BY <3>3 DEF OnlyRed
    <3> QED BY <1>1, <2>1, <3>4, NodeFacts
  <2> QED BY <2>2, <2>3
<1>13. ~Red(s, s.root)
  <2>1. s.root = IF g = t.root THEN y ELSE t.root
    BY <1>7, <1>8 DEF Rotation
  <2>2. t.root \in Node
    BY TreeFacts
  <2> QED BY <1>10, <2>1, <2>2
<1>14. Red(s, low)
  BY <1>1, <1>9 DEF Red
<1>15. ASSUME Balanced(t) PROVE Balanced(s)
  <2>1. t.colour[y] = "red" /\ t.colour[g] = "black"
    <3>1. t.colour[g] \in {"red", "black"}
      BY <1>1, TreeFacts DEF Tree
    <3>2. ~Red(t, g)
      BY <1>1 DEF OnlyRed, RedEdge
    <3> QED BY <1>1, <3>1, <3>2 DEF Red
  <2>2. v.colour[y] = t.colour[g] /\ v.colour[g] = "red"
        /\ \A m \in Keys : m # g /\ m # y => v.colour[m] = t.colour[m]
    BY <1>1, <1>7, <2>1
  <2>3. RedRotation(s, v, t, g, Other(d), y)
    BY <1>1, <1>2, <1>7, <1>8, <2>1, <2>2 DEF RedRotation
  <2> QED BY <1>15, <2>3, BalanceRotated
<1> QED BY <1>1, <1>8, <1>9, <1>12, <1>13, <1>14, <1>15 DEF NoRed

------------------------------------------------------------------------------
(* What the fixup loops and the calls do to the colours.                   *)

\* The keys outside the tree are red, as the constructor of a node makes them.
FreshOutside(t) == \A m \in Keys \ NodesOf(t) : t.colour[m] = "red"

\* Every red node with a red parent is x, or its parent is.
RedAt(t, x) ==
  \A n \in NodesOf(t), d \in Sides : RedEdge(t, n, d) => n = x \/ t.child[d][n] = x

\* Painting x black ends the red pairs it is in.
LEMMA Blackened ==
  ASSUME NEW t, IsTree(t), NEW x \in NodesOf(t), RedAt(t, x), FreshOutside(t)
  PROVE  LET s == Paint(t, x, "black") IN
         /\ IsTree(s) /\ NodesOf(s) = NodesOf(t) /\ s.root = t.root
         /\ NoRed(s) /\ FreshOutside(s)
<1>1. PICK s : s = Paint(t, x, "black")
  OBVIOUS
<1>2. x \in Keys /\ x \in Node
  BY TreeFacts, KeyFacts
<1>3. IsTree(s) /\ NodesOf(s) = NodesOf(t) /\ Painted(s, t, x, "black")
  BY <1>1, <1>2, TreePaint
<1>4. ASSUME NEW n \in NodesOf(t), NEW d \in Sides, RedEdge(s, n, d) PROVE FALSE
  <2>1. n \in Keys /\ s.child[d][n] = t.child[d][n] /\ t.child[d][n] \in Node
    BY <1>3, NodeFacts DEF Painted
  <2>2. Red(s, n) /\ Red(s, t.child[d][n])
    BY <1>4, <2>1 DEF RedEdge
  <2>3. \A m \in Node : Red(s, m) => m # x /\ Red(t, m)
    BY <1>2, <1>3, KeyFacts DEF Red, Painted
  <2> QED BY <2>1, <2>2, <2>3, KeyFacts DEF RedAt, RedEdge
<1>5. FreshOutside(s)
  BY <1>2, <1>3 DEF FreshOutside, Painted
<1> QED BY <1>1, <1>3, <1>4, <1>5 DEF NoRed, Painted

\* The root is painted black when a call ends.
LEMMA Finished ==
  ASSUME NEW t, IsTree(t), NoRed(t), FreshOutside(t)
  PROVE  LET s == Paint(t, t.root, "black") IN
         /\ IsTree(s) /\ NodesOf(s) = NodesOf(t)
         /\ NoRed(s) /\ ~Red(s, s.root) /\ FreshOutside(s)
         /\ Balanced(t) => Balanced(s)
<1>1. PICK s : s = Paint(t, t.root, "black")
  OBVIOUS
<1>2. CASE t.root = NULL
  BY <1>1, <1>2 DEF Paint, Red
<1>3. CASE t.root # NULL
  <2>1. t.root \in NodesOf(t) /\ t.root \in Keys
    BY <1>3, TreeFacts
  <2>2. RedAt(t, t.root)
    BY DEF NoRed, RedAt
  <2>3. /\ IsTree(s) /\ NodesOf(s) = NodesOf(t) /\ s.root = t.root
        /\ NoRed(s) /\ FreshOutside(s)
    BY <1>1, <2>1, <2>2, Blackened
  <2>4. Painted(s, t, t.root, "black")
    BY <1>1, <2>1, TreePaint, KeyFacts
  <2>5. ~Red(s, s.root)
    BY <2>1, <2>3, <2>4 DEF Painted, Red
  <2>6. Balanced(t) => Balanced(s)
    BY <1>1, BalanceRoot
  <2> QED BY <1>1, <2>3, <2>5, <2>6
<1> QED BY <1>2, <1>3

\* A new leaf is red, and no other red node has a red parent.
LEMMA LinkColours ==
  ASSUME NEW k \in Keys, IsTree(tree), ~Find(tree, k),
         NoRed(tree), ~Red(tree, tree.root), FreshOutside(tree)
  PROVE  LET s == Linked(k) IN
         /\ OnlyRed(s, k) /\ Red(s, k) /\ (Red(s, s.root) => s.root = k)
         /\ FreshOutside(s)
         /\ Balanced(tree) => Balanced(s)
<1>1. PICK s : s = Linked(k)
  OBVIOUS
<1>2. PICK p : p = Descend(tree, k)
  OBVIOUS
<1> DEFINE e == SideOf(k, p)
<1>3. /\ IsTree(s) /\ NodesOf(s) = NodesOf(tree) \cup {k} /\ k \notin NodesOf(tree)
      /\ IF p = NULL
         THEN /\ tree.root = NULL /\ s.root = k
              /\ s.child = tree.child /\ s.parent = tree.parent /\ s.colour = tree.colour
         ELSE /\ p \in NodesOf(tree) /\ tree.child[e][p] = NULL
              /\ Joined(s, tree, p, e, k)
  BY <1>1, <1>2, TreeLink
<1>4. s.colour = tree.colour /\ tree.colour[k] = "red" /\ k # NULL /\ k \in Node
  BY <1>3, KeyFacts DEF Joined, FreshOutside
<1>5. Red(s, k) /\ FreshOutside(s)
  BY <1>3, <1>4 DEF Red, FreshOutside
<1>6. CASE p = NULL
  <2>1. NodesOf(tree) = {} /\ NodesOf(s) = {k} /\ s.root = k
    BY <1>3, <1>6, TreeFacts
  <2>2. \A d \in Sides : s.child[d][k] = NULL
    <3>1. ASSUME NEW d \in Sides, s.child[d][k] # NULL PROVE FALSE
      <4>1. s.child[d][k] \in NodesOf(s) /\ s.child[d][k] # k
        BY <1>3, <2>1, <3>1, NodeFacts
      <4> QED BY <2>1, <4>1
    <3> QED BY <3>1
  <2>3. OnlyRed(s, k)
    BY <2>1, <2>2 DEF OnlyRed, RedEdge, Red
  <2>4. Balanced(s)
    <3>1. PICK h : h = [n \in Node |-> 0]
      OBVIOUS
    <3>2. Balance(s, h)
      BY <1>4, <2>1, <2>2, <3>1, KeyFacts DEF Balance
    <3> QED BY <3>2 DEF Balanced
  <2> QED BY <1>1, <1>5, <2>1, <2>3, <2>4
<1>7. CASE p # NULL
  <2>1. /\ p \in NodesOf(tree) /\ p \in Keys /\ p # k /\ tree.child[e][p] = NULL
        /\ s.root = tree.root /\ s.root # k
        /\ \A f \in Sides, m \in Keys :
             s.child[f][m] = IF f = e /\ m = p THEN k ELSE tree.child[f][m]
    <3>1. p \in NodesOf(tree) /\ p \in Keys /\ tree.root \in NodesOf(tree)
      BY <1>3, <1>7, NodeFacts
    <3> HIDE DEF e
    <3> QED BY <1>3, <1>7, <3>1 DEF Joined
  <2> HIDE DEF e
  <2>2. Red(s, s.root) => s.root = k
    BY <1>4, <2>1 DEF Red
  <2>3. \A d \in Sides : s.child[d][k] = NULL
    <3>1. ASSUME NEW d \in Sides, s.child[d][k] # NULL PROVE FALSE
      <4>1. ChildOf(s, k, d, s.child[d][k])
        BY <1>3, <3>1, ChildFacts
      <4>2. PICK c : c = s.child[d][k]
        OBVIOUS
      <4>3. /\ c \in NodesOf(s) /\ c # k /\ c # s.root /\ s.parent[c] = k
            /\ \A m \in NodesOf(s), f \in Sides : s.child[f][m] = c => m = k
        BY <4>1, <4>2 DEF ChildOf
      <4>4. c \in NodesOf(tree) /\ c # tree.root
        BY <1>3, <2>1, <4>3
      <4>5. /\ tree.parent[c] # NULL /\ tree.parent[c] \in NodesOf(tree)
            /\ Side(tree, c) \in Sides
            /\ tree.child[Side(tree, c)][tree.parent[c]] = c
        BY <4>4, NodeFacts
      <4>6. s.child[Side(tree, c)][tree.parent[c]] = c
        BY <2>1, <4>4, <4>5, KeyFacts, TreeFacts
      <4> QED BY <1>3, <4>3, <4>5, <4>6
    <3> QED BY <3>1
  <2>4. OnlyRed(s, k)
    <3>1. ASSUME NEW n \in NodesOf(s), NEW d \in Sides, RedEdge(s, n, d), s.child[d][n] # k
          PROVE  FALSE
      <4>1. n # k
        BY <2>3, <3>1 DEF RedEdge, Red
      <4>2. n \in NodesOf(tree) /\ n \in Keys
        BY <1>3, <4>1, TreeFacts
      <4>3. s.child[d][n] = tree.child[d][n]
        BY <2>1, <3>1, <4>2
      <4>4. RedEdge(tree, n, d)
        BY <1>4, <3>1, <4>3 DEF RedEdge, Red
      <4> QED BY <4>2, <4>4 DEF NoRed
    <3> QED BY <3>1 DEF OnlyRed
  <2>5. ASSUME Balanced(tree) PROVE Balanced(s)
    <3>1. PICK h : Balance(tree, h)
      BY <2>5 DEF Balanced
    <3>2. PICK g : g = [h EXCEPT ![k] = 0]
      OBVIOUS
    <3>3. /\ g \in [Node -> Nat] /\ g[NULL] = 0 /\ g[k] = 0
          /\ \A n \in Node : n # k => g[n] = h[n]
          /\ h[NULL] = 0
      BY <1>4, <3>1, <3>2, KeyFacts DEF Balance
    <3>4. ASSUME NEW n \in NodesOf(s), NEW d \in Sides
          PROVE  g[n] = g[s.child[d][n]] + (IF s.colour[n] = "red" THEN 0 ELSE 1)
      <4>1. CASE n = k
        BY <1>4, <2>3, <3>3, <4>1
      <4>2. CASE n # k
        <5>1. n \in NodesOf(tree) /\ n \in Keys /\ n \in Node
          BY <1>3, <4>2, TreeFacts, KeyFacts
        <5>2. h[n] = h[tree.child[d][n]] + (IF tree.colour[n] = "red" THEN 0 ELSE 1)
          BY <3>1, <5>1 DEF Balance
        <5>3. tree.child[d][n] # k /\ tree.child[d][n] \in Node
          BY <1>3, <1>4, <5>1, NodeFacts
        <5>4. g[s.child[d][n]] = h[tree.child[d][n]]
          BY <2>1, <3>3, <5>1, <5>3
        <5>5. g[n] = h[n] /\ s.colour[n] = tree.colour[n]
          BY <1>4, <3>3, <4>2, <5>1
        <5> QED BY <5>2, <5>4, <5>5
      <4> QED BY <4>1, <4>2
    <3>5. Balance(s, g)
      BY <3>3, <3>4 DEF Balance
    <3> QED BY <3>5 DEF Balanced
  <2> QED BY <1>1, <1>5, <2>2, <2>4, <2>5
<1> QED BY <1>6, <1>7

\* The family of a red node whose parent is red.
Bent(t, z, p, g, y, d) ==
  /\ IsTree(t) /\ z \in NodesOf(t) /\ p \in NodesOf(t) /\ g \in NodesOf(t) /\ d \in Sides
  /\ p = t.parent[z] /\ g = t.parent[p] /\ d = Side(t, p) /\ p # z /\ p # g /\ g # z
  /\ t.child[d][g] = p /\ t.child[Other(d)][g] = y /\ y # p /\ y # g
  /\ Red(t, z) /\ Red(t, p) /\ ~Red(t, g) /\ ~Red(t, t.root) /\ OnlyRed(t, z)

\* insert_fixup never asks for the parent of the root: a red parent has one.
LEMMA BentFacts ==
  ASSUME NEW t, IsTree(t), NEW z \in NodesOf(t), Red(t, z), OnlyRed(t, z),
         Red(t, t.root) => t.root = z, t.parent[z] # NULL, Red(t, t.parent[z])
  PROVE  LET p == t.parent[z] IN
         Bent(t, z, p, t.parent[p], t.child[Other(Side(t, p))][t.parent[p]], Side(t, p))
<1>1. PICK p : p = t.parent[z]
  OBVIOUS
<1>2. p \in NodesOf(t) /\ p # z /\ p # NULL /\ p \in Keys /\ z \in Keys /\ z # t.root
  BY <1>1, NodeFacts
<1>3. ~Red(t, t.root) /\ p # t.root
  BY <1>1, <1>2
<1>4. PICK g : g = t.parent[p]
  OBVIOUS
<1>5. PICK d : d = Side(t, p)
  OBVIOUS
<1>6. /\ g \in NodesOf(t) /\ g # p /\ d \in Sides /\ t.child[d][g] = p /\ g # NULL
  BY <1>2, <1>3, <1>4, <1>5, NodeFacts
<1>7. Other(d) \in Sides /\ Other(d) # d
  BY <1>6, SideFacts
<1>8. PICK y : y = t.child[Other(d)][g]
  OBVIOUS
<1>9. ChildOf(t, g, d, p)
  BY <1>2, <1>6, ChildFacts
<1>10. y # p /\ y # g /\ g # z
  <2>1. y # p /\ \A e \in Sides : t.child[e][p] # g
    BY <1>8, <1>9 DEF ChildOf
  <2>2. y # g
    BY <1>6, <1>7, <1>8, NodeFacts
  <2>3. \E e \in Sides : t.child[e][p] = z
    BY <1>1, <1>2, NodeFacts
  <2> QED BY <2>1, <2>2, <2>3
<1>11. ~Red(t, g)
  <2>1. ASSUME Red(t, g) PROVE FALSE
    <3>1. RedEdge(t, g, d)
      BY <1>1, <1>6, <2>1 DEF RedEdge
    <3> QED BY <1>2, <1>6, <3>1 DEF OnlyRed
  <2> QED BY <2>1
<1>12. Bent(t, z, p, g, y, d)
  BY <1>1, <1>2, <1>3, <1>4, <1>5, <1>6, <1>8, <1>10, <1>11 DEF Bent
<1> QED BY <1>1, <1>4, <1>5, <1>8, <1>12

\* The uncle is red: the grandparent passes its black on to both, and becomes the only
\* red node that may have a red parent.
LEMMA Recoloured ==
  ASSUME NEW t, NEW z, NEW p, NEW g, NEW y, NEW d, Bent(t, z, p, g, y, d), Red(t, y),
         FreshOutside(t),
         NEW s, s = Paint(Paint(Paint(t, p, "black"), y, "black"), g, "red")
  PROVE  /\ IsTree(s) /\ NodesOf(s) = NodesOf(t) /\ g \in NodesOf(s)
         /\ OnlyRed(s, g) /\ Red(s, g) /\ (Red(s, s.root) => s.root = g)
         /\ FreshOutside(s)
         /\ Balanced(t) => Balanced(s)
<1>1. /\ IsTree(t) /\ z \in NodesOf(t) /\ p \in NodesOf(t) /\ g \in NodesOf(t) /\ d \in Sides
      /\ p = t.parent[z] /\ p # z /\ p # g /\ g # z
      /\ t.child[d][g] = p /\ t.child[Other(d)][g] = y /\ y # p /\ y # g /\ y # NULL
      /\ Red(t, z) /\ Red(t, p) /\ ~Red(t, g) /\ ~Red(t, t.root) /\ OnlyRed(t, z)
  BY DEF Bent, Red
<1>2. Other(d) \in Sides /\ Other(d) # d /\ \A e \in Sides : e = d \/ e = Other(d)
  BY <1>1, SideFacts
<1>3. y \in NodesOf(t)
  BY <1>1, <1>2, NodeFacts
<1>4. /\ p \in Keys /\ g \in Keys /\ y \in Keys /\ z \in Keys /\ p \in Node /\ g \in Node
      /\ y \in Node /\ NodesOf(t) \subseteq Keys /\ Keys \subseteq Node /\ g # NULL
      /\ NULL \in Node /\ NULL \notin Keys /\ t.root \in Node
  BY <1>1, <1>3, TreeFacts, KeyFacts
<1>5. PICK u : u = Paint(t, p, "black")
  OBVIOUS
<1>6. IsTree(u) /\ NodesOf(u) = NodesOf(t) /\ Painted(u, t, p, "black")
  BY <1>1, <1>4, <1>5, TreePaint
<1>7. PICK v : v = Paint(u, y, "black")
  OBVIOUS
<1>8. IsTree(v) /\ NodesOf(v) = NodesOf(t) /\ Painted(v, u, y, "black")
  BY <1>4, <1>6, <1>7, TreePaint
<1>9. IsTree(s) /\ NodesOf(s) = NodesOf(t) /\ Painted(s, v, g, "red")
  <2>1. s = Paint(v, g, "red")
    BY <1>5, <1>7
  <2> QED BY <1>4, <1>8, <2>1, TreePaint
<1>10. /\ s.root = t.root /\ s.child = t.child
       /\ \A m \in Keys : s.colour[m] = IF m = g THEN "red"
                                        ELSE IF m = p \/ m = y THEN "black" ELSE t.colour[m]
  BY <1>6, <1>8, <1>9 DEF Painted
<1>11. \A m \in Node : Red(s, m) <=> m = g \/ (Red(t, m) /\ m # p /\ m # y)
  BY <1>1, <1>4, <1>10, KeyFacts DEF Red
<1>12. Red(s, g) /\ (Red(s, s.root) => s.root = g)
  BY <1>1, <1>4, <1>10, <1>11
<1>13. ASSUME NEW n \in NodesOf(t), NEW e \in Sides, RedEdge(s, n, e), t.child[e][n] # g
       PROVE  FALSE
  <2>1. t.child[e][n] \in Node /\ n \in Node
    BY <1>1, <1>4, NodeFacts
  <2>2. /\ n = g \/ (Red(t, n) /\ n # p /\ n # y)
        /\ Red(t, t.child[e][n]) /\ t.child[e][n] # p /\ t.child[e][n] # y
    BY <1>10, <1>11, <1>13, <2>1 DEF RedEdge
  <2>3. n # g
    BY <1>1, <1>2, <2>2
  <2>4. t.child[e][n] = z
    BY <1>1, <2>2, <2>3 DEF OnlyRed, RedEdge
  <2>5. t.parent[z] = n
    <3>1. t.child[e][n] # NULL
      BY <1>1, <1>4, <2>4
    <3>2. ChildOf(t, n, e, t.child[e][n])
      BY <1>1, <3>1, ChildFacts
    <3> QED BY <2>4, <3>2 DEF ChildOf
  <2> QED BY <1>1, <2>2, <2>3, <2>5
<1>14. OnlyRed(s, g)
  BY <1>9, <1>10, <1>13 DEF OnlyRed
<1>15. FreshOutside(s)
  BY <1>1, <1>3, <1>9, <1>10 DEF FreshOutside
<1>16. ASSUME Balanced(t) PROVE Balanced(s)
  <2>1. PICK h : Balance(t, h)
    BY <1>16 DEF Balanced
  <2>2. PICK i : i = [n \in Node |-> IF n = p \/ n = y THEN h[n] + 1 ELSE h[n]]
    OBVIOUS
  <2>3. h \in [Node -> Nat] /\ h[NULL] = 0
    BY <2>1 DEF Balance
  <2>4. /\ i \in [Node -> Nat] /\ i[NULL] = 0 /\ i[p] = h[p] + 1 /\ i[y] = h[y] + 1
        /\ \A n \in Node : n # p /\ n # y => i[n] = h[n]
    BY <1>4, <2>2, <2>3
  <2>5. ChildOf(t, g, d, p) /\ ChildOf(t, g, Other(d), y)
    BY <1>1, <1>2, <1>4, KeyFacts, ChildFacts
  <2>6. \A n \in NodesOf(t), e \in Sides :
          n # g => t.child[e][n] # p /\ t.child[e][n] # y
    BY <2>5 DEF ChildOf
  <2>7. ASSUME NEW n \in NodesOf(t), NEW e \in Sides
        PROVE  i[n] = i[s.child[e][n]] + (IF s.colour[n] = "red" THEN 0 ELSE 1)
    <3>1. t.child[e][n] \in Node /\ n \in Node /\ n \in Keys
      BY <1>1, <1>4, NodeFacts
    <3>2. h[n] = h[t.child[e][n]] + (IF t.colour[n] = "red" THEN 0 ELSE 1)
      BY <2>1 DEF Balance
    <3>3. h[n] \in Nat /\ h[t.child[e][n]] \in Nat
      BY <2>3, <3>1
    <3>4. CASE n = g
      <4>1. t.child[e][n] = p \/ t.child[e][n] = y
        BY <1>1, <1>2, <3>4
      <4>2. i[t.child[e][n]] = h[t.child[e][n]] + 1
        BY <2>4, <4>1
      <4>3. i[n] = h[n] /\ s.colour[n] = "red" /\ t.colour[n] # "red"
        BY <1>1, <1>4, <1>10, <2>4, <3>4 DEF Red
      <4> QED BY <1>10, <3>2, <3>3, <4>2, <4>3
    <3>5. CASE n = p \/ n = y
      <4>1. i[t.child[e][n]] = h[t.child[e][n]]
        BY <1>1, <2>4, <2>6, <3>1, <3>5
      <4>2. i[n] = h[n] + 1 /\ s.colour[n] # "red" /\ t.colour[n] = "red"
        BY <1>1, <1>4, <1>10, <2>4, <3>5 DEF Red
      <4> QED BY <1>10, <3>2, <3>3, <4>1, <4>2
    <3>6. CASE n # g /\ n # p /\ n # y
      <4>1. i[t.child[e][n]] = h[t.child[e][n]] /\ i[n] = h[n] /\ s.colour[n] = t.colour[n]
        BY <1>10, <2>4, <2>6, <3>1, <3>6
      <4> QED BY <1>10, <3>2, <4>1
    <3> QED BY <3>4, <3>5, <3>6
  <2>8. Balance(s, i)
    BY <1>9, <2>4, <2>7 DEF Balance
  <2> QED BY <2>8 DEF Balanced
<1> QED BY <1>1, <1>9, <1>12, <1>14, <1>15, <1>16

\* The last case of insert_fixup.
TurnedBy(t, z, p, d, low, u, top, s) ==
  /\ low = IF z # t.child[d][p] THEN p ELSE z
  /\ u = IF z # t.child[d][p] THEN Rotate(t, p, d) ELSE t
  /\ top = Grandparent(u, low)
  /\ s = Rotate(Paint(Paint(u, Parent(u, low), "black"), top, "red"), top, Other(d))

\* The uncle is black: one or two rotations end the only red pair.
LEMMA Turned ==
  ASSUME NEW t, NEW z, NEW p, NEW g, NEW y, NEW d, Bent(t, z, p, g, y, d), ~Red(t, y),
         FreshOutside(t),
         NEW low, NEW u, NEW top, NEW s, TurnedBy(t, z, p, d, low, u, top, s)
  PROVE  /\ IsTree(s) /\ NodesOf(s) = NodesOf(t) /\ low \in NodesOf(s)
         /\ NoRed(s) /\ ~Red(s, s.root) /\ Red(s, low) /\ FreshOutside(s)
         /\ Balanced(t) => Balanced(s)
<1>1. /\ IsTree(t) /\ z \in NodesOf(t) /\ p \in NodesOf(t) /\ g \in NodesOf(t) /\ d \in Sides
      /\ p = t.parent[z] /\ g = t.parent[p] /\ d = Side(t, p)
      /\ t.child[d][g] = p /\ t.child[Other(d)][g] = y
      /\ Red(t, z) /\ Red(t, p) /\ ~Red(t, t.root) /\ OnlyRed(t, z)
  BY DEF Bent
<1>2. /\ low = IF z # t.child[d][p] THEN p ELSE z
      /\ u = IF z # t.child[d][p] THEN Rotate(t, p, d) ELSE t
  BY DEF TurnedBy
<1>3. s = Rotate(Paint(Paint(u, Parent(u, low), "black"), Grandparent(u, low), "red"),
                 Grandparent(u, low), Other(d))
  BY DEF TurnedBy
<1>4. PICK mid : mid = IF z # t.child[d][p] THEN z ELSE p
  OBVIOUS
<1>5. /\ IsTree(u) /\ NodesOf(u) = NodesOf(t) /\ Straight(u, low, mid, g, d)
      /\ Red(u, mid) /\ Red(u, low) /\ OnlyRed(u, low)
      /\ ~Red(u, u.child[Other(d)][g]) /\ ~Red(u, u.root)
      /\ u.colour = t.colour
      /\ Balanced(t) => Balanced(u)
  <2>1. CASE z # t.child[d][p]
    <3>1. u = Rotate(t, p, d) /\ low = p /\ mid = z
      BY <1>2, <1>4, <2>1
    <3>0. Crooked(u, t, z, p, g, d)
      BY <1>1, <2>1, <3>1 DEF Crooked
    <3>2. /\ IsTree(u) /\ NodesOf(u) = NodesOf(t) /\ Straight(u, p, z, g, d)
          /\ u.colour = t.colour /\ u.root = t.root
          /\ u.child[Other(d)][g] = t.child[Other(d)][g]
      BY <3>0, Straightened
    <3>3. OnlyRed(u, p) /\ (Balanced(t) => Balanced(u))
      BY <1>1, <3>0, StraightColours
    <3>4. \A m : Red(u, m) <=> Red(t, m)
      BY <3>2 DEF Red
    <3> QED BY <1>1, <3>1, <3>2, <3>3, <3>4
  <2>2. CASE z = t.child[d][p]
    BY <1>1, <1>2, <1>4, <2>2, Zenon DEF Straight
  <2> QED BY <2>1, <2>2
<1>6. s = Rotate(Paint(Paint(u, mid, "black"), g, "red"), g, Other(d))
  <2>1. Parent(u, low) = mid /\ Grandparent(u, low) = g
    BY <1>5 DEF Straight, Parent, Grandparent
  <2> QED BY <1>3, <2>1
<1>7. /\ IsTree(s) /\ NodesOf(s) = NodesOf(u)
      /\ NoRed(s) /\ ~Red(s, s.root) /\ Red(s, low)
      /\ Balanced(u) => Balanced(s)
      /\ \A n \in Keys \ NodesOf(u) : s.colour[n] = u.colour[n]
  BY <1>5, <1>6, TurnedUp
<1>8. FreshOutside(s)
  BY <1>5, <1>7 DEF FreshOutside
<1>9. low \in NodesOf(s)
  BY <1>1, <1>2, <1>5, <1>7, Zenon
<1> QED BY <1>5, <1>7, <1>8, <1>9

------------------------------------------------------------------------------
(* remove() and the colours.                                               *)

\* A node of the tree s that remove(k) leaves is where a node of the old tree was: the
\* leaver y where k was, every other one where it was itself; and the heir x is where
\* the leaver was.
Origin(n, k, y) == IF n = y THEN k ELSE n

Moved(s, k, y, x) ==
  /\ IsTree(s) /\ NodesOf(s) = NodesOf(tree) \ {k}
  /\ k \in NodesOf(tree) /\ y \in NodesOf(tree) /\ x # k /\ x # y /\ x \in Node
  /\ x # NULL => x \in NodesOf(s) /\ s.colour[x] = tree.colour[x]
  /\ \E e \in Sides : tree.child[e][y] = NULL /\ tree.child[Other(e)][y] = x
  /\ \A m \in Keys \ NodesOf(s) : s.colour[m] = IF m = k THEN "red" ELSE tree.colour[m]
  /\ \A n \in NodesOf(s) :
       LET m == Origin(n, k, y) IN
       /\ m \in NodesOf(tree) /\ m # y /\ s.colour[n] = tree.colour[m]
       /\ \A e \in Sides :
            s.child[e][n] = IF tree.child[e][m] = y THEN x
                            ELSE IF tree.child[e][m] = k THEN y ELSE tree.child[e][m]

\* remove() puts the nodes where Moved says.
LEMMA UnlinkMoves ==
  ASSUME NEW k \in NodesOf(tree), IsTree(tree)
  PROVE  Moved(Cleared(Unlinked(k), k), k, Leaver(k), Heir(k))
<1>1. PICK y : y = Leaver(k)
  OBVIOUS
<1>2. PICK x : x = Heir(k)
  OBVIOUS
<1>3. PICK s : s = Cleared(Unlinked(k), k)
  OBVIOUS
<1>4. /\ IsTree(s) /\ NodesOf(s) = NodesOf(tree) \ {k} /\ y \in NodesOf(tree)
      /\ x # NULL => x \in NodesOf(tree) \ {k}
      /\ \E t : UnlinkedBy(s, t, k)
  BY <1>1, <1>2, <1>3, TreeUnlink
<1>5. PICK t : UnlinkedBy(s, t, k)
  BY <1>4
<1>6. /\ IsTree(t) /\ Unhooked(t, tree, y, x)
      /\ \A m \in Keys : t.colour[m] = IF m = y THEN "red" ELSE tree.colour[m]
      /\ IF TwoChildren(k)
         THEN /\ y = Successor(k) /\ TookOver(s, t, k, y)
              /\ \A m \in Keys : s.colour[m] = IF m = k THEN "red"
                                               ELSE IF m = y THEN tree.colour[k]
                                               ELSE tree.colour[m]
         ELSE s = t /\ y = k
  BY <1>1, <1>2, <1>5 DEF UnlinkedBy, Leaver
<1>7. y \in Keys /\ k \in Keys /\ NodesOf(tree) \subseteq Keys /\ NodesOf(s) \subseteq Keys
      /\ NULL \notin Keys /\ Keys \subseteq Node /\ NULL \in Node
  BY <1>4, TreeFacts, KeyFacts
<1>8. "left" \in Sides /\ "right" \in Sides /\ Other("right") = "left" /\ Other("left") = "right"
  BY DEF Sides, Other
<1>9. PICK e0 \in Sides : tree.child[e0][y] = NULL /\ tree.child[Other(e0)][y] = x
  <2>1. CASE TwoChildren(k)
    <3>1. tree.child["left"][y] = NULL
      BY <1>1, <2>1, SuccessorFacts DEF Leaver
    <3> QED BY <1>1, <1>2, <1>8, <3>1 DEF Heir, Left, Right
  <2>2. CASE ~TwoChildren(k)
    BY <1>1, <1>2, <1>8, <2>2 DEF Heir, Leaver, TwoChildren, Left, Right
  <2> QED BY <2>1, <2>2
<1>10. x # y /\ x # k /\ x \in Node
  <2>1. x # y /\ x \in Node
    BY <1>4, <1>9, SideFacts, NodeFacts
  <2> QED BY <1>4, <1>7, <2>1
<1>11. x # NULL => x \in NodesOf(s) /\ x \in Keys
  BY <1>4, <1>7
<1>12. \A e \in Sides, m \in Keys :
         m # y => t.child[e][m] = IF tree.child[e][m] = y THEN x ELSE tree.child[e][m]
  BY <1>6 DEF Unhooked
<1>15. \A e \in Sides : tree.child[e][k] # k
  BY NoLoop
<1>13. CASE TwoChildren(k)
  <2>1. y = Successor(k) /\ y # k
    BY <1>6, <1>13, SuccessorFacts
  <2>2. \A e \in Sides, m \in Keys :
          m # k => s.child[e][m] = IF m = y THEN t.child[e][k]
                                   ELSE IF t.child[e][m] = k THEN y ELSE t.child[e][m]
    BY <1>6, <1>13 DEF TookOver
  <2>3. \A m \in Keys : s.colour[m] = IF m = k THEN "red"
                                      ELSE IF m = y THEN tree.colour[k] ELSE tree.colour[m]
    BY <1>6, <1>13
  <2>4. ASSUME NEW n \in NodesOf(s), NEW m, m = Origin(n, k, y)
        PROVE  /\ m \in NodesOf(tree) /\ m # y /\ s.colour[n] = tree.colour[m]
               /\ \A e \in Sides :
                    s.child[e][n] = IF tree.child[e][m] = y THEN x
                                    ELSE IF tree.child[e][m] = k THEN y
                                    ELSE tree.child[e][m]
    <3>1. n \in Keys /\ n # k /\ n \in NodesOf(tree)
      BY <1>4, <1>7
    <3>2. m \in NodesOf(tree) /\ m # y /\ m \in Keys
      BY <1>7, <2>1, <2>4, <3>1 DEF Origin
    <3>3. s.colour[n] = tree.colour[m]
      BY <2>3, <2>4, <3>1 DEF Origin
    <3>4. ASSUME NEW e \in Sides
          PROVE  s.child[e][n] = IF tree.child[e][m] = y THEN x
                                 ELSE IF tree.child[e][m] = k THEN y ELSE tree.child[e][m]
      <4>1. CASE n = y
        <5>1. m = k
          BY <2>4, <4>1 DEF Origin
        <5>2. tree.child[e][k] # k
          BY <1>15
        <5> QED BY <1>7, <1>12, <2>1, <2>2, <3>1, <4>1, <5>1, <5>2
      <4>2. CASE n # y
        <5>1. m = n
          BY <2>4, <4>2 DEF Origin
        <5>2. s.child[e][n] = IF t.child[e][n] = k THEN y ELSE t.child[e][n]
          BY <2>2, <3>1, <4>2
        <5> QED BY <1>10, <1>12, <2>1, <3>1, <4>2, <5>1, <5>2
      <4> QED BY <4>1, <4>2
    <3> QED BY <3>2, <3>3, <3>4
  <2>5. x # NULL => s.colour[x] = tree.colour[x]
    BY <1>10, <1>11, <2>3
  <2>6. \A m \in Keys \ NodesOf(s) :
          s.colour[m] = IF m = k THEN "red" ELSE tree.colour[m]
    BY <1>4, <2>1, <2>3
  <2>7. Moved(s, k, y, x)
    BY <1>4, <1>9, <1>10, <1>11, <2>4, <2>5, <2>6 DEF Moved
  <2> QED BY <1>1, <1>2, <1>3, <2>7
<1>14. CASE ~TwoChildren(k)
  <2>1. s = t /\ y = k
    BY <1>6, <1>14
  <2>2. ASSUME NEW n \in NodesOf(s), NEW m, m = Origin(n, k, y)
        PROVE  /\ m \in NodesOf(tree) /\ m # y /\ s.colour[n] = tree.colour[m]
               /\ \A e \in Sides :
                    s.child[e][n] = IF tree.child[e][m] = y THEN x
                                    ELSE IF tree.child[e][m] = k THEN y
                                    ELSE tree.child[e][m]
    <3>1. n \in Keys /\ n # k /\ n \in NodesOf(tree) /\ m = n
      BY <1>4, <1>7, <2>1, <2>2 DEF Origin
    <3> QED BY <1>6, <1>12, <2>1, <3>1
  <2>3. x # NULL => s.colour[x] = tree.colour[x]
    BY <1>6, <1>10, <1>11, <2>1
  <2>4. \A m \in Keys \ NodesOf(s) :
          s.colour[m] = IF m = k THEN "red" ELSE tree.colour[m]
    BY <1>6, <2>1
  <2>5. Moved(s, k, y, x)
    BY <1>4, <1>9, <1>10, <1>11, <2>2, <2>3, <2>4 DEF Moved
  <2> QED BY <1>1, <1>2, <1>3, <2>5
<1> QED BY <1>13, <1>14

\* A removal makes at most one red pair, the heir and its new parent, and none when
\* the leaver was red.
LEMMA UnlinkColours ==
  ASSUME NEW k, NEW s, NEW y, NEW x, Moved(s, k, y, x),
         IsTree(tree), NoRed(tree), FreshOutside(tree)
  PROVE  /\ FreshOutside(s) /\ OnlyRed(s, x)
         /\ Red(tree, y) \/ x = NULL => NoRed(s)
<1>1. /\ IsTree(s) /\ NodesOf(s) = NodesOf(tree) \ {k}
      /\ k \in NodesOf(tree) /\ y \in NodesOf(tree) /\ x # k /\ x # y /\ x \in Node
      /\ x # NULL => x \in NodesOf(s) /\ s.colour[x] = tree.colour[x]
  BY DEF Moved
<1>2. NodesOf(tree) \subseteq Keys /\ NULL \notin Keys /\ y # NULL
  BY <1>1, TreeFacts, KeyFacts
<1>3. FreshOutside(s)
  BY <1>1 DEF FreshOutside, Moved
<1>4. ASSUME NEW n \in NodesOf(s), NEW e \in Sides, RedEdge(s, n, e)
      PROVE  s.child[e][n] = x /\ Red(tree, x) /\ ~Red(tree, y)
  <2>1. PICK m : m = Origin(n, k, y)
    OBVIOUS
  <2>2. /\ m \in NodesOf(tree) /\ m # y /\ s.colour[n] = tree.colour[m]
        /\ s.child[e][n] = IF tree.child[e][m] = y THEN x
                           ELSE IF tree.child[e][m] = k THEN y ELSE tree.child[e][m]
    BY <2>1 DEF Moved
  <2>3. PICK c : c = s.child[e][n]
    OBVIOUS
  <2>4. PICK b : b = tree.child[e][m]
    OBVIOUS
  <2>5. c # NULL /\ s.colour[n] = "red" /\ s.colour[c] = "red" /\ c \in NodesOf(s)
    <3>1. c # NULL /\ s.colour[n] = "red" /\ s.colour[c] = "red"
      BY <1>4, <2>3 DEF RedEdge, Red
    <3> QED BY <1>1, <2>3, <3>1, NodeFacts
  <2>6. Red(tree, m) /\ ~RedEdge(tree, m, e)
    BY <1>2, <2>2, <2>5 DEF Red, NoRed
  <2>7. tree.colour[b] # "red" \/ b = NULL
    BY <2>4, <2>6 DEF RedEdge, Red
  <2>8. CASE b = y
    BY <1>1, <1>2, <2>2, <2>3, <2>4, <2>5, <2>7, <2>8 DEF Red
  <2>9. CASE b # y
    <3>1. c = IF b = k THEN y ELSE b
      BY <2>2, <2>3, <2>4, <2>9
    <3>2. Origin(c, k, y) = b
      BY <2>9, <3>1 DEF Origin
    <3>3. s.colour[c] = tree.colour[b] /\ b \in NodesOf(tree)
      BY <2>5, <3>2 DEF Moved
    <3> QED BY <1>2, <2>5, <2>7, <3>3, KeyFacts
  <2> QED BY <2>8, <2>9
<1> QED BY <1>3, <1>4 DEF OnlyRed, NoRed, Red

\* Any heights balance a tree without nodes.
LEMMA BalanceEmpty ==
  ASSUME NEW t, NodesOf(t) = {}
  PROVE  Balanced(t)
<1>1. Balance(t, [n \in Node |-> 0])
  BY KeyFacts DEF Balance
<1> QED BY <1>1 DEF Balanced

\* A removal keeps the balance when the leaver was red; when it was black its heir is
\* red, and the balance returns when the heir is painted black.
LEMMA UnlinkBalance ==
  ASSUME NEW k, NEW s, NEW y, NEW x, Moved(s, k, y, x), IsTree(tree), Balanced(tree),
         Red(tree, y) \/ x # NULL,
         NEW u, u = IF Red(tree, y) THEN s ELSE Paint(s, x, "black")
  PROVE  Balanced(u) /\ (~Red(tree, y) => Red(s, x))
<1>1. /\ IsTree(s) /\ NodesOf(s) = NodesOf(tree) \ {k}
      /\ k \in NodesOf(tree) /\ y \in NodesOf(tree) /\ x # k /\ x # y /\ x \in Node
      /\ x # NULL => x \in NodesOf(s) /\ s.colour[x] = tree.colour[x]
  BY DEF Moved
<1>2. NodesOf(tree) \subseteq Keys /\ NULL \notin Keys /\ y # NULL /\ NULL \in Node
      /\ Keys \subseteq Node
  BY <1>1, TreeFacts, KeyFacts
<1>3. PICK h : Balance(tree, h)
  BY DEF Balanced
<1>4. h \in [Node -> Nat] /\ h[NULL] = 0
  BY <1>3 DEF Balance
<1>5. PICK e0 \in Sides : tree.child[e0][y] = NULL /\ tree.child[Other(e0)][y] = x
  BY DEF Moved
<1>6. Other(e0) \in Sides
  BY <1>5, SideFacts
<1>7. h[x] = 0 /\ h[y] = IF Red(tree, y) THEN 0 ELSE 1
  <2>1. /\ h[y] = h[NULL] + (IF tree.colour[y] = "red" THEN 0 ELSE 1)
        /\ h[y] = h[x] + (IF tree.colour[y] = "red" THEN 0 ELSE 1)
    BY <1>1, <1>3, <1>5, <1>6 DEF Balance
  <2>2. h[x] \in Nat
    BY <1>1, <1>4
  <2> QED BY <1>2, <1>4, <2>1, <2>2 DEF Red
<1>8. x # NULL => Red(tree, x) /\ Red(s, x)
  <2>1. ASSUME x # NULL PROVE tree.colour[x] = "red"
    <3>1. x \in NodesOf(tree) /\ "left" \in Sides
      BY <1>1, <2>1 DEF Sides
    <3>2. h[x] = h[tree.child["left"][x]] + (IF tree.colour[x] = "red" THEN 0 ELSE 1)
      BY <1>3, <3>1 DEF Balance
    <3>3. tree.child["left"][x] \in Node
      BY <3>1, NodeFacts
    <3>4. h[tree.child["left"][x]] \in Nat
      BY <1>4, <3>3
    <3> QED BY <1>7, <3>2, <3>4
  <2> QED BY <1>1, <2>1 DEF Red
<1>9. /\ NodesOf(u) = NodesOf(s) /\ u.child = s.child
      /\ \A m \in Keys : u.colour[m] = IF m = x /\ ~Red(tree, y) THEN "black" ELSE s.colour[m]
  <2>1. CASE Red(tree, y)
    BY <2>1
  <2>2. CASE ~Red(tree, y)
    <3>1. Painted(u, s, x, "black") /\ NodesOf(u) = NodesOf(s)
      BY <1>1, <2>2, TreePaint
    <3> QED BY <2>2, <3>1 DEF Painted
  <2> QED BY <2>1, <2>2
<1>10. PICK g : g = [n \in Node |-> IF n = x THEN h[y] ELSE IF n = y THEN h[k] ELSE h[n]]
  OBVIOUS
<1>11. /\ g[x] = h[y] /\ g[y] = h[k]
       /\ \A n \in Node : n # x /\ n # y => g[n] = h[n]
  BY <1>1, <1>2, <1>10
<1>12. g \in [Node -> Nat] /\ g[NULL] = 0
  <2>1. h[y] \in Nat /\ h[k] \in Nat
    BY <1>1, <1>2, <1>4
  <2>2. g \in [Node -> Nat]
    BY <1>4, <1>10, <2>1
  <2>3. g[NULL] = 0
    <3>1. CASE x = NULL
      BY <1>7, <1>11, <3>1
    <3>2. CASE x # NULL
      BY <1>2, <1>4, <1>11, <3>2
    <3> QED BY <3>1, <3>2
  <2> QED BY <2>2, <2>3
<1>13. ASSUME NEW n \in NodesOf(s), NEW e \in Sides
       PROVE  g[n] = g[s.child[e][n]] + (IF u.colour[n] = "red" THEN 0 ELSE 1)
  <2>1. PICK m : m = Origin(n, k, y)
    OBVIOUS
  <2>2. PICK c : c = s.child[e][n]
    OBVIOUS
  <2>3. PICK b : b = tree.child[e][m]
    OBVIOUS
  <2>4. /\ m \in NodesOf(tree) /\ m # y /\ s.colour[n] = tree.colour[m]
        /\ c = IF b = y THEN x ELSE IF b = k THEN y ELSE b
    BY <2>1, <2>2, <2>3 DEF Moved
  <2>5. h[m] = h[b] + (IF tree.colour[m] = "red" THEN 0 ELSE 1) /\ b \in Node
    <3>1. h[m] = h[tree.child[e][m]] + (IF tree.colour[m] = "red" THEN 0 ELSE 1)
      BY <1>3, <2>4 DEF Balance
    <3>2. tree.child[e][m] \in Node
      BY <2>4, NodeFacts
    <3> QED BY <2>3, <3>1, <3>2
  <2>6. b # NULL => b # x
    <3>1. ASSUME b # NULL, b = x PROVE FALSE
      <4>1. ChildOf(tree, y, Other(e0), x)
        BY <1>1, <1>5, <1>6, <3>1, ChildFacts
      <4> QED BY <2>3, <2>4, <3>1, <4>1 DEF ChildOf
    <3> QED BY <3>1
  <2>7. g[c] = h[b]
    <3>1. CASE b = y
      BY <1>11, <2>4, <3>1
    <3>2. CASE b # y /\ b = k
      BY <1>11, <2>4, <3>2
    <3>3. CASE b # y /\ b # k /\ b # x
      BY <1>11, <2>4, <2>5, <3>3
    <3>4. CASE b # y /\ b # k /\ b = x
      BY <1>4, <1>12, <2>4, <2>6, <3>4
    <3> QED BY <3>1, <3>2, <3>3, <3>4
  <2>8. n \in Keys /\ n \in Node /\ n # NULL /\ n # k
    BY <1>1, <1>2
  <2>9. CASE n = x
    <3>1. m = n /\ tree.colour[m] = "red" /\ h[m] = 0
      BY <1>1, <1>7, <1>8, <2>1, <2>8, <2>9 DEF Origin, Red
    <3>2. h[b] = 0
      BY <1>4, <2>5, <3>1
    <3>3. u.colour[n] = IF Red(tree, y) THEN "red" ELSE "black"
      BY <1>9, <2>4, <2>8, <2>9, <3>1
    <3> QED BY <1>7, <1>11, <2>2, <2>7, <2>9, <3>2, <3>3
  <2>10. CASE n # x
    <3>1. u.colour[n] = tree.colour[m]
      BY <1>9, <2>4, <2>8, <2>10
    <3>2. g[n] = h[m]
      BY <1>11, <2>1, <2>8, <2>10 DEF Origin
    <3> QED BY <2>2, <2>5, <2>7, <3>1, <3>2
  <2> QED BY <2>9, <2>10
<1>14. Balance(u, g)
  BY <1>9, <1>12, <1>13 DEF Balance
<1> QED BY <1>8, <1>14 DEF Balanced

------------------------------------------------------------------------------
(* One turn of delete_fixup.  No node is red with a red parent when it     *)
(* begins, for x is black; it may leave one such pair, at the new x.       *)

\* Painting a black w red, which has no red child, leaves no red pair but the one
\* with its parent.
LEMMA Reddened ==
  ASSUME NEW t, IsTree(t), NoRed(t), FreshOutside(t), NEW w \in NodesOf(t),
         \A d \in Sides : ~Red(t, t.child[d][w])
  PROVE  LET s == Paint(t, w, "red") IN
         /\ IsTree(s) /\ NodesOf(s) = NodesOf(t) /\ FreshOutside(s) /\ OnlyRed(s, w)
<1>1. PICK s : s = Paint(t, w, "red")
  OBVIOUS
<1>2. w \in Keys /\ w \in Node
  BY TreeFacts, KeyFacts
<1>3. IsTree(s) /\ NodesOf(s) = NodesOf(t) /\ Painted(s, t, w, "red")
  BY <1>1, <1>2, TreePaint
<1>4. ASSUME NEW n \in NodesOf(t), NEW d \in Sides, RedEdge(s, n, d), s.child[d][n] # w
      PROVE  FALSE
  <2>1. n \in Keys /\ s.child[d][n] = t.child[d][n] /\ t.child[d][n] \in Node
    BY <1>3, NodeFacts DEF Painted
  <2>2. Red(s, n) /\ Red(s, t.child[d][n]) /\ t.child[d][n] # w
    BY <1>4, <2>1 DEF RedEdge
  <2>3. \A m \in Node : Red(s, m) => m = w \/ Red(t, m)
    BY <1>2, <1>3, KeyFacts DEF Red, Painted
  <2>4. Red(t, t.child[d][n])
    BY <2>1, <2>2, <2>3
  <2>5. n # w
    BY <2>4
  <2> QED BY <2>1, <2>2, <2>3, <2>4, <2>5, KeyFacts DEF NoRed, RedEdge
<1>5. FreshOutside(s)
  BY <1>2, <1>3 DEF FreshOutside, Painted
<1> QED BY <1>1, <1>3, <1>4, <1>5 DEF OnlyRed

\* s is t with a red sibling w of p's child on side d rotated away.
RedSibling(t, p, d, w, s) ==
  /\ IsTree(t) /\ NoRed(t) /\ FreshOutside(t) /\ p \in NodesOf(t) /\ d \in Sides
  /\ w = t.child[Other(d)][p] /\ Red(t, w) /\ ~Red(t, t.child[d][p])
  /\ s = Rotate(Paint(Paint(t, w, "black"), p, "red"), p, d)

\* A red w that hangs from a black p is rotated above it, and they exchange colours.
LEMMA Exchanged ==
  ASSUME NEW t, NEW p, NEW d, NEW w, NEW s, RedSibling(t, p, d, w, s)
  PROVE  /\ IsTree(s) /\ NodesOf(s) = NodesOf(t) /\ FreshOutside(s) /\ NoRed(s)
         /\ s.child[d][p] = t.child[d][p] /\ Red(s, p)
         /\ \A m \in NodesOf(t), e \in Sides : m # p /\ m # w =>
              s.child[e][m] = IF t.child[e][m] = p THEN w ELSE t.child[e][m]
<1>0. /\ IsTree(t) /\ NoRed(t) /\ FreshOutside(t) /\ p \in NodesOf(t) /\ d \in Sides
      /\ w = t.child[Other(d)][p] /\ Red(t, w) /\ ~Red(t, t.child[d][p])
  BY DEF RedSibling
<1>1. /\ Other(d) \in Sides /\ Other(d) # d /\ \A e \in Sides : e = d \/ e = Other(d)
      /\ w # NULL /\ NodesOf(t) \subseteq Keys /\ p \in Keys
  BY <1>0, SideFacts, TreeFacts DEF Red
<1>2. ChildOf(t, p, Other(d), w)
  BY <1>0, <1>1, ChildFacts
<1>3. /\ w \in NodesOf(t) /\ w \in Keys /\ w # p
      /\ \A e \in Sides : t.child[e][w] # p /\ t.child[e][w] # w
      /\ \A m \in NodesOf(t), e \in Sides : t.child[e][m] = w => m = p /\ e = Other(d)
  BY <1>2 DEF ChildOf
<1>4. \A m \in NodesOf(t), e \in Sides : t.child[e][m] \in Node /\ t.child[e][m] # m
  BY <1>0, NoLoop
<1>5. PICK u : u = Paint(t, w, "black")
  OBVIOUS
<1>6. IsTree(u) /\ NodesOf(u) = NodesOf(t) /\ Painted(u, t, w, "black")
  BY <1>0, <1>3, <1>5, TreePaint, KeyFacts
<1>7. PICK v : v = Paint(u, p, "red")
  OBVIOUS
<1>8. IsTree(v) /\ NodesOf(v) = NodesOf(t) /\ Painted(v, u, p, "red")
  BY <1>1, <1>6, <1>7, TreePaint, KeyFacts
<1>9. /\ v.child = t.child
      /\ \A m \in Keys : v.colour[m] = IF m = p THEN "red" ELSE IF m = w THEN "black"
                                       ELSE t.colour[m]
  BY <1>6, <1>8 DEF Painted
<1>10. /\ IsTree(s) /\ NodesOf(s) = NodesOf(t)
       /\ Rotation(s, v, p, d, w, t.child[d][w])
  <2>1. v.child[Other(d)][p] # NULL
    BY <1>0, <1>1, <1>9
  <2>2. s = Rotate(v, p, d) /\ p \in NodesOf(v)
    BY <1>0, <1>5, <1>7, <1>8 DEF RedSibling
  <2>3. /\ IsTree(s) /\ NodesOf(s) = NodesOf(v)
        /\ Rotation(s, v, p, d, v.child[Other(d)][p], v.child[d][v.child[Other(d)][p]])
    BY <1>0, <1>8, <2>1, <2>2, TreeRotate
  <2> QED BY <1>0, <1>8, <1>9, <2>3
<1>11. \A e \in Sides, m \in Keys :
         s.child[e][m] = IF e = d /\ m = w THEN p
                         ELSE IF e = Other(d) /\ m = p THEN t.child[d][w]
                         ELSE IF t.child[e][m] = p THEN w ELSE t.child[e][m]
  BY <1>9, <1>10 DEF Rotation
<1>12. \A m \in Keys : s.colour[m] = IF m = p THEN "red" ELSE IF m = w THEN "black"
                                     ELSE t.colour[m]
  BY <1>9, <1>10 DEF Rotation
<1>13. \A m \in Node : Red(s, m) <=> m = p \/ (m # w /\ Red(t, m))
  BY <1>1, <1>3, <1>12, KeyFacts DEF Red
<1>14. s.child[d][p] = t.child[d][p]
  BY <1>0, <1>1, <1>3, <1>4, <1>11
<1>15. ASSUME NEW n \in NodesOf(t), NEW e \in Sides, RedEdge(s, n, e) PROVE FALSE
  <2>1. n \in Keys /\ n \in Node
    BY <1>1, KeyFacts
  <2>2. Red(s, n) /\ Red(s, s.child[e][n])
    BY <1>15 DEF RedEdge
  <2>3. CASE n = p
    <3>1. s.child[e][n] = t.child[d][p] \/ s.child[e][n] = t.child[d][w]
      BY <1>0, <1>1, <1>11, <1>14, <2>3
    <3>2. ~Red(t, t.child[d][w])
      BY <1>0, <1>3 DEF NoRed, RedEdge
    <3>3. \A c \in {t.child[d][p], t.child[d][w]} : c \in Node /\ c # p /\ ~Red(t, c)
      BY <1>0, <1>1, <1>3, <1>4, <3>2
    <3> QED BY <1>13, <2>2, <3>1, <3>3
  <2>4. CASE n # p
    <3>1. Red(t, n) /\ n # w
      BY <1>13, <2>1, <2>2, <2>4
    <3>2. t.child[e][n] \in Node /\ t.child[e][n] # w /\ ~Red(t, t.child[e][n])
      BY <1>0, <1>3, <1>4, <2>4, <3>1 DEF NoRed, RedEdge
    <3>3. s.child[e][n] = w \/ (s.child[e][n] = t.child[e][n] /\ t.child[e][n] # p)
      BY <1>11, <2>1, <2>4, <3>1
    <3> QED BY <1>3, <1>13, <2>2, <3>2, <3>3, KeyFacts
  <2> QED BY <2>3, <2>4
<1>16. FreshOutside(s)
  BY <1>0, <1>3, <1>10, <1>12 DEF FreshOutside
<1>17. \A m \in NodesOf(t), e \in Sides : m # p /\ m # w =>
         s.child[e][m] = IF t.child[e][m] = p THEN w ELSE t.child[e][m]
  BY <1>1, <1>11
<1>18. Red(s, p)
  BY <1>1, <1>13, KeyFacts
<1> QED BY <1>10, <1>14, <1>15, <1>16, <1>17, <1>18, Zenon DEF NoRed

\* s is t with a node p relieved by v, the sibling of its light child on side d.
Relief(t, p, d, v, s) ==
  /\ IsTree(t) /\ NoRed(t) /\ FreshOutside(t) /\ p \in NodesOf(t) /\ d \in Sides
  /\ v = t.child[Other(d)][p] /\ v # NULL
  /\ s = Rotate(Paint(Paint(Paint(t, v, t.colour[p]), p, "black"),
                       t.child[Other(d)][v], "black"), p, d)

\* The last rotation of delete_fixup: v takes the place and the colour of p, and has two
\* black children.
LEMMA Relieved ==
  ASSUME NEW t, NEW p, NEW d, NEW v, NEW s, Relief(t, p, d, v, s)
  PROVE  IsTree(s) /\ NodesOf(s) = NodesOf(t) /\ FreshOutside(s) /\ NoRed(s)
<1>0. /\ IsTree(t) /\ NoRed(t) /\ FreshOutside(t) /\ p \in NodesOf(t) /\ d \in Sides
      /\ v = t.child[Other(d)][p] /\ v # NULL
  BY DEF Relief
<1>1. /\ Other(d) \in Sides /\ Other(d) # d /\ \A e \in Sides : e = d \/ e = Other(d)
      /\ NodesOf(t) \subseteq Keys /\ p \in Keys /\ t.colour[p] \in {"red", "black"}
  <2>1. NodesOf(t) \subseteq Keys /\ t.colour \in [Keys -> {"red", "black"}]
    BY <1>0, TreeFacts DEF Tree
  <2> QED BY <1>0, <2>1, SideFacts
<1>2. ChildOf(t, p, Other(d), v)
  BY <1>0, <1>1, ChildFacts
<1>3. /\ v \in NodesOf(t) /\ v \in Keys /\ v # p
      /\ \A e \in Sides : t.child[e][v] # p /\ t.child[e][v] # v
      /\ \A m \in NodesOf(t), e \in Sides : t.child[e][m] = v => m = p /\ e = Other(d)
  BY <1>2 DEF ChildOf
<1>4. \A m \in NodesOf(t), e \in Sides : t.child[e][m] \in Node
  BY <1>0, NoLoop
<1>5. PICK far : far = t.child[Other(d)][v]
  OBVIOUS
<1>6. far \in Node /\ far # v /\ far # p
  BY <1>1, <1>3, <1>4, <1>5
<1>7. /\ far # NULL => far \in NodesOf(t)
      /\ \A m \in NodesOf(t), e \in Sides : far # NULL /\ t.child[e][m] = far => m = v
  <2>1. ASSUME far # NULL PROVE ChildOf(t, v, Other(d), far)
    BY <1>0, <1>1, <1>3, <1>5, <2>1, ChildFacts
  <2> QED BY <2>1 DEF ChildOf
<1>8. PICK u : u = Paint(t, v, t.colour[p])
  OBVIOUS
<1>9. IsTree(u) /\ NodesOf(u) = NodesOf(t) /\ Painted(u, t, v, t.colour[p])
  BY <1>0, <1>1, <1>3, <1>8, TreePaint, KeyFacts
<1>10. PICK q : q = Paint(u, p, "black")
  OBVIOUS
<1>11. IsTree(q) /\ NodesOf(q) = NodesOf(t) /\ Painted(q, u, p, "black")
  BY <1>1, <1>9, <1>10, TreePaint, KeyFacts
<1>12. PICK r : r = Paint(q, far, "black")
  OBVIOUS
<1>13. IsTree(r) /\ NodesOf(r) = NodesOf(t) /\ Painted(r, q, far, "black")
  BY <1>6, <1>11, <1>12, TreePaint
<1>14. /\ r.child = t.child
       /\ \A m \in Keys : r.colour[m] = IF m = p \/ m = far THEN "black"
                                        ELSE IF m = v THEN t.colour[p] ELSE t.colour[m]
  <2>1. r.child = t.child
    BY <1>9, <1>11, <1>13 DEF Painted
  <2>2. \A m \in Keys : r.colour[m] = IF m = far THEN "black" ELSE q.colour[m]
    BY <1>13 DEF Painted
  <2>3. \A m \in Keys : q.colour[m] = IF m = p THEN "black" ELSE u.colour[m]
    BY <1>11 DEF Painted
  <2>4. \A m \in Keys : u.colour[m] = IF m = v THEN t.colour[p] ELSE t.colour[m]
    BY <1>9 DEF Painted
  <2> QED BY <2>1, <2>2, <2>3, <2>4
<1>15. /\ IsTree(s) /\ NodesOf(s) = NodesOf(t)
       /\ Rotation(s, r, p, d, v, t.child[d][v])
  <2>1. r.child[Other(d)][p] # NULL
    BY <1>0, <1>1, <1>14
  <2>2. s = Rotate(r, p, d) /\ p \in NodesOf(r) /\ d \in Sides
    BY <1>0, <1>5, <1>8, <1>10, <1>12, <1>13 DEF Relief
  <2>3. /\ IsTree(s) /\ NodesOf(s) = NodesOf(r)
        /\ Rotation(s, r, p, d, r.child[Other(d)][p], r.child[d][r.child[Other(d)][p]])
    BY <1>13, <2>1, <2>2, TreeRotate
  <2> QED BY <1>0, <1>13, <1>14, <2>3
<1>16. \A e \in Sides, m \in Keys :
         s.child[e][m] = IF e = d /\ m = v THEN p
                         ELSE IF e = Other(d) /\ m = p THEN t.child[d][v]
                         ELSE IF t.child[e][m] = p THEN v ELSE t.child[e][m]
  <2>1. \A e \in Sides, m \in Keys :
          s.child[e][m] = IF e = d /\ m = v THEN p
                          ELSE IF e = Other(d) /\ m = p THEN t.child[d][v]
                          ELSE IF r.child[e][m] = p THEN v ELSE r.child[e][m]
    BY <1>15, Zenon DEF Rotation
  <2> QED BY <1>14, <2>1
<1>17. \A m \in Keys : s.colour[m] = IF m = p \/ m = far THEN "black"
                                     ELSE IF m = v THEN t.colour[p] ELSE t.colour[m]
  <2>1. s.colour = r.colour
    BY <1>15, Zenon DEF Rotation
  <2> QED BY <1>14, <2>1
<1>18. \A m \in Node : Red(s, m) <=> /\ m # p /\ m # far
                                     /\ IF m = v THEN Red(t, p) ELSE Red(t, m)
  BY <1>1, <1>3, <1>17, KeyFacts DEF Red
<1>19. ASSUME NEW n \in NodesOf(t), NEW e \in Sides, RedEdge(s, n, e) PROVE FALSE
  <2>1. n \in Keys /\ n \in Node
    BY <1>1, KeyFacts
  <2>2. Red(s, n) /\ Red(s, s.child[e][n])
    BY <1>19 DEF RedEdge
  <2>3. n # p
    BY <1>18, <2>1, <2>2
  <2>4. CASE n = v
    <3>1. s.child[e][n] = p \/ s.child[e][n] = far
      BY <1>1, <1>3, <1>5, <1>16, <2>4
    <3>2. p \in Node /\ far \in Node
      BY <1>1, <1>6, KeyFacts
    <3> QED BY <1>18, <2>2, <3>1, <3>2
  <2>5. CASE n # v
    <3>1. Red(t, n) /\ t.child[e][n] \in Node /\ t.child[e][n] # v
      BY <1>3, <1>4, <1>18, <2>1, <2>2, <2>3, <2>5
    <3>2. ~Red(t, t.child[e][n])
      BY <1>0, <3>1 DEF NoRed, RedEdge
    <3>3. IF t.child[e][n] = p THEN s.child[e][n] = v ELSE s.child[e][n] = t.child[e][n]
      BY <1>16, <2>1, <2>3, <2>5
    <3>4. CASE t.child[e][n] = p
      <4>1. v \in Node /\ s.child[e][n] = v /\ ~Red(t, p)
        BY <1>3, <3>2, <3>3, <3>4, KeyFacts
      <4> QED BY <1>18, <2>2, <4>1
    <3>5. CASE t.child[e][n] # p
      BY <1>18, <2>2, <3>1, <3>2, <3>3, <3>5
    <3> QED BY <3>4, <3>5
  <2> QED BY <2>4, <2>5
<1>20. FreshOutside(s)
  <2>1. ASSUME NEW m \in Keys \ NodesOf(t) PROVE s.colour[m] = "red"
    <3>1. m # p /\ m # v /\ m # far
      BY <1>0, <1>3, <1>7, <2>1, KeyFacts
    <3> QED BY <1>0, <1>17, <2>1, <3>1 DEF FreshOutside
  <2> QED BY <1>15, <2>1, Zenon DEF FreshOutside
<1> QED BY <1>15, <1>19, <1>20 DEF NoRed

------------------------------------------------------------------------------
(* The invariant.                                                          *)

Control ==
  /\ pc \in {"idle", "insert_fixup", "delete_fixup", "fault"} /\ skipped \in BOOLEAN
  /\ IF pc = "idle" THEN cursor = NULL ELSE cursor \in NodesOf(tree)

\* Between two calls no red node has a red parent and the root is black.  insert_fixup
\* has one such pair to mend, below a red node z, and z alone may be a red root.  In
\* delete_fixup x may be in such a pair.
Colours ==
  /\ FreshOutside(tree)
  /\ IF pc = "idle" THEN NoRed(tree) /\ ~Red(tree, tree.root)
     ELSE IF pc = "insert_fixup"
     THEN /\ OnlyRed(tree, cursor) /\ Red(tree, cursor)
          /\ Red(tree, tree.root) => tree.root = cursor
     ELSE RedAt(tree, cursor)

\* Until a removal skips the repair every way down has as many black nodes, but for a
\* red x that delete_fixup is about to paint.
Heights ==
  ~skipped => /\ pc # "fault"
              /\ IF pc = "delete_fixup"
                 THEN Red(tree, cursor) /\ Balanced(Paint(tree, cursor, "black"))
                 ELSE Balanced(tree)

Inv == /\ IsTree(tree) /\ size_ = Cardinality(NodesOf(tree))
       /\ Control /\ Colours /\ Heights

\* The empty tree satisfies the invariant.
LEMMA InitHolds == Init => Inv /\ NodesOf(tree) = {}
<1> SUFFICES ASSUME Init PROVE Inv /\ NodesOf(tree) = {}
  OBVIOUS
<1>1. IsTree(tree) /\ NodesOf(tree) = {}
  BY TreeEmpty DEF Init
<1>2. size_ = Cardinality(NodesOf(tree))
  BY <1>1, FS_EmptySet DEF Init
<1>3. Balanced(tree)
  BY <1>1, BalanceEmpty
<1>4. Colours
  BY <1>1, KeyFacts DEF Init, Colours, FreshOutside, NoRed, Empty, Red
<1> QED BY <1>1, <1>2, <1>3, <1>4 DEF Init, Inv, Control, Heights

\* Every call ends in the same way.
LEMMA FinishStep ==
  ASSUME NEW t, IsTree(t), NoRed(t), FreshOutside(t), Finish(t)
  PROVE  /\ IsTree(tree') /\ NodesOf(tree') = NodesOf(t) /\ Colours'
         /\ pc' = "idle" /\ cursor' = NULL
         /\ Balanced(t) => Balanced(tree')
<1>1. PICK s : s = Paint(t, t.root, "black")
  OBVIOUS
<1>2. /\ IsTree(s) /\ NodesOf(s) = NodesOf(t)
      /\ NoRed(s) /\ ~Red(s, s.root) /\ FreshOutside(s)
      /\ Balanced(t) => Balanced(s)
  BY <1>1, Finished
<1>3. tree' = s /\ pc' = "idle" /\ cursor' = NULL
  BY <1>1 DEF Finish
<1> QED BY <1>2, <1>3 DEF Colours

\* insert() keeps the invariant and adds its key.
LEMMA InsertStep ==
  ASSUME Inv, NEW k \in Keys, Insert(k)
  PROVE  Inv' /\ NodesOf(tree') = NodesOf(tree) \cup {k}
<1>1. IsTree(tree) /\ size_ = Cardinality(NodesOf(tree)) /\ IsFiniteSet(NodesOf(tree))
  BY TreeFacts DEF Inv
<1>2. pc = "idle"
  BY DEF Insert
<1>3. CASE Find(tree, k)
  <2>1. UNCHANGED vars
    BY <1>3 DEF Insert
  <2>2. k \in NodesOf(tree)
    BY <1>1, <1>3, TreeFind
  <2> QED BY <2>1, <2>2 DEF vars, Inv, Control, Colours, Heights
<1>4. CASE ~Find(tree, k)
  <2>1. PICK s : s = Linked(k)
    OBVIOUS
  <2>2. /\ tree' = s /\ size_' = size_ + 1 /\ pc' = "insert_fixup" /\ cursor' = k
        /\ skipped' = skipped
    BY <1>4, <2>1 DEF Insert
  <2>3. IsTree(s) /\ NodesOf(s) = NodesOf(tree) \cup {k} /\ k \notin NodesOf(tree)
    BY <1>1, <1>4, <2>1, TreeLink
  <2>4. NoRed(tree) /\ ~Red(tree, tree.root) /\ FreshOutside(tree)
    BY <1>2 DEF Inv, Colours
  <2>5. /\ OnlyRed(s, k) /\ Red(s, k) /\ (Red(s, s.root) => s.root = k) /\ FreshOutside(s)
        /\ Balanced(tree) => Balanced(s)
    BY <1>1, <1>4, <2>1, <2>4, LinkColours
  <2>6. Cardinality(NodesOf(s)) = Cardinality(NodesOf(tree)) + 1
    BY <1>1, <2>3, FS_AddElement
  <2>7. Control' /\ Colours'
    BY <2>2, <2>3, <2>5 DEF Inv, Control, Colours
  <2>8. Heights'
    BY <1>2, <2>2, <2>5 DEF Inv, Heights
  <2> QED BY <1>1, <2>2, <2>3, <2>6, <2>7, <2>8 DEF Inv
<1> QED BY <1>3, <1>4

\* A turn of insert_fixup keeps the invariant and the nodes.
LEMMA InsertFixupStep ==
  ASSUME Inv, InsertFixup
  PROVE  Inv' /\ NodesOf(tree') = NodesOf(tree)
<1>1. pc = "insert_fixup" /\ size_' = size_ /\ pc' = pc /\ skipped' = skipped
  BY DEF InsertFixup
<1>2. /\ IsTree(tree) /\ FreshOutside(tree) /\ cursor \in NodesOf(tree)
      /\ OnlyRed(tree, cursor) /\ Red(tree, cursor)
      /\ Red(tree, tree.root) => tree.root = cursor
  BY <1>1 DEF Inv, Control, Colours
<1>3. PICK z : z = cursor
  OBVIOUS
<1>4. PICK p : p = tree.parent[z]
  OBVIOUS
<1>5. PICK d : d = Side(tree, p)
  OBVIOUS
<1>6. PICK g : g = tree.parent[p]
  OBVIOUS
<1>7. PICK y : y = tree.child[Other(d)][g]
  OBVIOUS
<1>8. p # NULL /\ Red(tree, p)
  BY <1>3, <1>4 DEF InsertFixup, Parent
<1>9. Bent(tree, z, p, g, y, d)
  BY <1>2, <1>3, <1>4, <1>5, <1>6, <1>7, <1>8, BentFacts
<1>10. Uncle(tree, z) = y /\ Grandparent(tree, z) = g /\ Parent(tree, z) = p
  BY <1>4, <1>5, <1>6, <1>7 DEF Uncle, Grandparent, Parent
<1>11. /\ IsTree(tree') /\ NodesOf(tree') = NodesOf(tree) /\ cursor' \in NodesOf(tree')
       /\ OnlyRed(tree', cursor') /\ Red(tree', cursor')
       /\ Red(tree', tree'.root) => tree'.root = cursor'
       /\ FreshOutside(tree')
       /\ Balanced(tree) => Balanced(tree')
  <2>1. CASE Red(tree, y)
    <3>1. /\ tree' = Paint(Paint(Paint(tree, p, "black"), y, "black"), g, "red")
          /\ cursor' = g
      BY <1>3, <1>5, <1>10, <2>1 DEF InsertFixup
    <3>2. PICK s : s = Paint(Paint(Paint(tree, p, "black"), y, "black"), g, "red")
      OBVIOUS
    <3>3. /\ IsTree(s) /\ NodesOf(s) = NodesOf(tree) /\ g \in NodesOf(s)
          /\ OnlyRed(s, g) /\ Red(s, g) /\ (Red(s, s.root) => s.root = g)
          /\ FreshOutside(s)
          /\ Balanced(tree) => Balanced(s)
      BY <1>2, <1>9, <2>1, <3>2, Recoloured
    <3> QED BY <3>1, <3>2, <3>3
  <2>2. CASE ~Red(tree, y)
    <3>1. PICK low : low = IF z # tree.child[d][p] THEN p ELSE z
      OBVIOUS
    <3>2. PICK u : u = IF z # tree.child[d][p] THEN Rotate(tree, p, d) ELSE tree
      OBVIOUS
    <3>3. PICK top : top = Grandparent(u, low)
      OBVIOUS
    <3>4. PICK s : s = Rotate(Paint(Paint(u, Parent(u, low), "black"), top, "red"), top,
                              Other(d))
      OBVIOUS
    <3>5. tree' = s /\ cursor' = low
      BY <1>3, <1>5, <1>10, <2>2, <3>1, <3>2, <3>3, <3>4 DEF InsertFixup
    <3>6. /\ IsTree(s) /\ NodesOf(s) = NodesOf(tree) /\ low \in NodesOf(s)
          /\ NoRed(s) /\ ~Red(s, s.root) /\ Red(s, low) /\ FreshOutside(s)
          /\ Balanced(tree) => Balanced(s)
      <4>1. TurnedBy(tree, z, p, d, low, u, top, s)
        BY <3>1, <3>2, <3>3, <3>4 DEF TurnedBy
      <4> QED BY <1>2, <1>9, <2>2, <4>1, Turned
    <3> QED BY <3>5, <3>6 DEF NoRed, OnlyRed
  <2> QED BY <2>1, <2>2
<1>12. Control' /\ Colours'
  BY <1>1, <1>11 DEF Inv, Control, Colours
<1>13. Heights'
  BY <1>1, <1>11 DEF Inv, Heights
<1>14. size_' = Cardinality(NodesOf(tree'))
  BY <1>1, <1>11 DEF Inv
<1> QED BY <1>11, <1>12, <1>13, <1>14 DEF Inv

\* The end of insert_fixup leaves no red pair.
LEMMA InsertDoneStep ==
  ASSUME Inv, InsertDone
  PROVE  Inv' /\ NodesOf(tree') = NodesOf(tree)
<1>1. /\ pc = "insert_fixup" /\ size_' = size_ /\ skipped' = skipped /\ Finish(tree)
      /\ ~Red(tree, tree.parent[cursor])
  BY DEF InsertDone, Parent
<1>2. /\ IsTree(tree) /\ FreshOutside(tree) /\ cursor \in NodesOf(tree)
      /\ OnlyRed(tree, cursor) /\ Red(tree, cursor)
  BY <1>1 DEF Inv, Control, Colours
<1>3. ASSUME NEW n \in NodesOf(tree), NEW d \in Sides, RedEdge(tree, n, d) PROVE FALSE
  <2>1. tree.child[d][n] = cursor
    BY <1>2, <1>3 DEF OnlyRed
  <2>2. tree.child[d][n] # NULL
    BY <1>3 DEF RedEdge, Red
  <2>3. ChildOf(tree, n, d, tree.child[d][n])
    BY <1>2, <2>2, ChildFacts
  <2>4. tree.parent[cursor] = n
    BY <2>1, <2>3 DEF ChildOf
  <2> QED BY <1>1, <1>3, <2>4 DEF RedEdge
<1>4. NoRed(tree)
  BY <1>3 DEF NoRed
<1>5. /\ IsTree(tree') /\ NodesOf(tree') = NodesOf(tree) /\ Colours'
      /\ pc' = "idle" /\ cursor' = NULL
      /\ Balanced(tree) => Balanced(tree')
  BY <1>1, <1>2, <1>4, FinishStep
<1>6. Control' /\ Heights' /\ size_' = Cardinality(NodesOf(tree'))
  BY <1>1, <1>5 DEF Inv, Control, Heights
<1> QED BY <1>5, <1>6 DEF Inv

\* remove() keeps the invariant and takes out its key.
LEMMA RemoveStep ==
  ASSUME Inv, NEW k \in Keys, Remove(k)
  PROVE  Inv' /\ NodesOf(tree') = NodesOf(tree) \ {k}
<1>1. /\ IsTree(tree) /\ size_ = Cardinality(NodesOf(tree)) /\ IsFiniteSet(NodesOf(tree))
      /\ pc = "idle" /\ k \in NodesOf(tree)
      /\ NoRed(tree) /\ ~Red(tree, tree.root) /\ FreshOutside(tree)
  <2>1. IsTree(tree) /\ pc = "idle" /\ Find(tree, k)
    BY DEF Inv, Remove
  <2> QED BY <2>1, TreeFind, TreeFacts DEF Inv, Colours
<1>2. PICK y : y = Leaver(k)
  OBVIOUS
<1>3. PICK x : x = Heir(k)
  OBVIOUS
<1>4. PICK s : s = Cleared(Unlinked(k), k)
  OBVIOUS
<1>5. Moved(s, k, y, x)
  BY <1>1, <1>2, <1>3, <1>4, UnlinkMoves
<1>6. /\ size_' = size_ - 1
      /\ IF ~Red(tree, y) /\ x # NULL
         THEN tree' = s /\ pc' = "delete_fixup" /\ cursor' = x
         ELSE Finish(s)
      /\ skipped' = (s.root # NULL /\ (skipped \/ (~Red(tree, y) /\ x = NULL)))
  BY <1>2, <1>3, <1>4 DEF Remove, Leaver, Heir
<1>7. /\ IsTree(s) /\ NodesOf(s) = NodesOf(tree) \ {k}
      /\ x # NULL => x \in NodesOf(s)
  BY <1>5 DEF Moved
<1>8. /\ FreshOutside(s) /\ OnlyRed(s, x)
      /\ Red(tree, y) \/ x = NULL => NoRed(s)
  BY <1>1, <1>5, UnlinkColours
<1>9. Cardinality(NodesOf(s)) = size_ - 1
  BY <1>1, <1>7, FS_RemoveElement
<1>10. skipped' \in BOOLEAN
  BY <1>6
<1>11. ~skipped' => s.root = NULL \/ (~skipped /\ (Red(tree, y) \/ x # NULL))
  BY <1>6
<1>12. s.root = NULL => NodesOf(s) = {} /\ Balanced(s)
  BY <1>7, TreeFacts, BalanceEmpty
<1>13. ~skipped => Balanced(tree)
  BY <1>1 DEF Inv, Heights
<1>14. CASE ~Red(tree, y) /\ x # NULL
  <2>1. tree' = s /\ pc' = "delete_fixup" /\ cursor' = x
    BY <1>6, <1>14
  <2>2. ASSUME ~skipped' PROVE Red(s, x) /\ Balanced(Paint(s, x, "black"))
    <3>1. Balanced(tree)
      BY <1>7, <1>11, <1>12, <1>13, <1>14, <2>2
    <3>2. PICK u : u = IF Red(tree, y) THEN s ELSE Paint(s, x, "black")
      OBVIOUS
    <3>3. Balanced(u) /\ Red(s, x)
      BY <1>1, <1>5, <1>14, <3>1, <3>2, UnlinkBalance
    <3> QED BY <1>14, <3>2, <3>3
  <2>3. Control' /\ Colours'
    BY <1>7, <1>8, <1>10, <1>14, <2>1 DEF Control, Colours, OnlyRed, RedAt
  <2>4. Heights'
    BY <2>1, <2>2 DEF Heights
  <2> QED BY <1>6, <1>7, <1>9, <2>1, <2>3, <2>4 DEF Inv
<1>15. CASE Red(tree, y) \/ x = NULL
  <2>1. Finish(s)
    BY <1>6, <1>15
  <2>2. /\ IsTree(tree') /\ NodesOf(tree') = NodesOf(s) /\ Colours'
        /\ pc' = "idle" /\ cursor' = NULL
        /\ Balanced(s) => Balanced(tree')
    BY <1>7, <1>8, <1>15, <2>1, FinishStep
  <2>3. ASSUME ~skipped' PROVE Balanced(s)
    <3>1. CASE s.root = NULL
      BY <1>12, <3>1
    <3>2. CASE s.root # NULL
      <4>1. Balanced(tree) /\ Red(tree, y)
        BY <1>11, <1>13, <1>15, <2>3, <3>2
      <4>2. PICK u : u = IF Red(tree, y) THEN s ELSE Paint(s, x, "black")
        OBVIOUS
      <4>3. Balanced(u)
        BY <1>1, <1>5, <4>1, <4>2, UnlinkBalance
      <4> QED BY <4>1, <4>2, <4>3
    <3> QED BY <3>1, <3>2
  <2>4. Control' /\ Heights'
    BY <1>10, <2>2, <2>3 DEF Control, Heights
  <2> QED BY <1>6, <1>7, <1>9, <2>2, <2>4 DEF Inv
<1> QED BY <1>14, <1>15

\* s is t with the sibling w of a light node x, below p on side d, rotated away if red.
SiblingTurn(t, x, p, d, w, s) ==
  /\ IsTree(t) /\ NoRed(t) /\ FreshOutside(t) /\ x \in NodesOf(t) /\ ~Red(t, x)
  /\ x # t.root /\ d = Side(t, x) /\ p = t.parent[x] /\ w = t.child[Other(d)][p]
  /\ s = IF Red(t, w) THEN Rotate(Paint(Paint(t, w, "black"), p, "red"), p, d) ELSE t

\* One turn of delete_fixup, after a red sibling has been rotated away.
LEMMA RedSiblingGone ==
  ASSUME NEW t, NEW x, NEW p, NEW d, NEW w, NEW s, SiblingTurn(t, x, p, d, w, s)
  PROVE  /\ IsTree(s) /\ NodesOf(s) = NodesOf(t) /\ NoRed(s) /\ FreshOutside(s)
         /\ d \in Sides /\ p \in NodesOf(s) /\ s.child[d][p] = x /\ s.parent[x] = p
         /\ ~Red(s, s.child[Other(d)][p])
<1>1. /\ IsTree(t) /\ NoRed(t) /\ FreshOutside(t) /\ x \in NodesOf(t) /\ ~Red(t, x)
      /\ x # t.root /\ d = Side(t, x) /\ p = t.parent[x] /\ w = t.child[Other(d)][p]
  BY DEF SiblingTurn
<1>2. d \in Sides /\ p \in NodesOf(t) /\ t.child[d][p] = x /\ x # NULL
  <2>1. p \in NodesOf(t) /\ x # NULL
    BY <1>1, NodeFacts
  <2> QED BY <1>1, <2>1, ParentFacts
<1>3. CASE Red(t, w)
  <2>1. s = Rotate(Paint(Paint(t, w, "black"), p, "red"), p, d)
    BY <1>3 DEF SiblingTurn
  <2>2. RedSibling(t, p, d, w, s)
    BY <1>1, <1>2, <1>3, <2>1 DEF RedSibling
  <2>3. /\ IsTree(s) /\ NodesOf(s) = NodesOf(t) /\ FreshOutside(s) /\ NoRed(s)
        /\ s.child[d][p] = x /\ Red(s, p)
    BY <1>2, <2>2, Exchanged
  <2>4. s.parent[x] = p
    <3>1. ChildOf(s, p, d, s.child[d][p])
      BY <1>2, <2>3, ChildFacts
    <3> QED BY <2>3, <3>1 DEF ChildOf
  <2>5. ~Red(s, s.child[Other(d)][p])
    BY <1>2, <2>3, SideFacts DEF NoRed, RedEdge
  <2> QED BY <1>2, <2>3, <2>4, <2>5
<1>4. CASE ~Red(t, w)
  <2>1. s = t
    BY <1>4 DEF SiblingTurn
  <2> QED BY <1>1, <1>2, <1>4, <2>1
<1> QED BY <1>3, <1>4

Raised(s, t, w, d) ==
  s = IF Red(t, t.child[Other(d)][w]) THEN t
      ELSE Rotate(Paint(Paint(t, t.child[d][w], "black"), w, "red"), w, Other(d))

\* A black sibling with a red child on the side of x, and a black one on the other side,
\* exchanges with the red child.
LEMMA NearRaised ==
  ASSUME NEW t, IsTree(t), NoRed(t), FreshOutside(t), NEW x, NEW d \in Sides,
         NEW p \in NodesOf(t), t.child[d][p] = x, x # NULL, t.parent[x] = p,
         NEW w, w = t.child[Other(d)][p], w # NULL,
         Red(t, t.child[d][w]) \/ Red(t, t.child[Other(d)][w]),
         NEW s, Raised(s, t, w, d)
  PROVE  /\ IsTree(s) /\ NodesOf(s) = NodesOf(t) /\ NoRed(s) /\ FreshOutside(s)
         /\ s.child[d][p] = x /\ s.parent[x] = p /\ s.child[Other(d)][p] # NULL
<1>1. CASE Red(t, t.child[Other(d)][w])
  BY <1>1 DEF Raised
<1>2. CASE ~Red(t, t.child[Other(d)][w])
  <2>1. PICK e : e = Other(d)
    OBVIOUS
  <2>2. e \in Sides /\ Other(e) = d /\ e # d
    BY <2>1, SideFacts
  <2>3. PICK v : v = t.child[d][w]
    OBVIOUS
  <2>4. Red(t, v) /\ v # NULL
    BY <1>2, <2>3 DEF Red
  <2>5. ChildOf(t, p, e, w)
    BY <2>1, <2>2, ChildFacts
  <2>6. w \in NodesOf(t) /\ w # p /\ t.child[d][p] # w /\ t.child[d][w] # p
        /\ t.child[e][p] = w
    BY <2>1, <2>2, <2>5 DEF ChildOf
  <2>7. s = Rotate(Paint(Paint(t, v, "black"), w, "red"), w, e)
    BY <1>2, <2>1, <2>3 DEF Raised
  <2>8. v = t.child[Other(e)][w] /\ ~Red(t, t.child[e][w]) /\ v # p
    BY <1>2, <2>1, <2>2, <2>3, <2>6
  <2>9. /\ IsTree(s) /\ NodesOf(s) = NodesOf(t) /\ FreshOutside(s) /\ NoRed(s)
        /\ \A m \in NodesOf(t), f \in Sides : m # w /\ m # v =>
             s.child[f][m] = IF t.child[f][m] = w THEN v ELSE t.child[f][m]
    <3>1. RedSibling(t, w, e, v, s)
      BY <2>2, <2>4, <2>6, <2>7, <2>8 DEF RedSibling
    <3> QED BY <3>1, Exchanged
  <2>10. s.child[d][p] = x /\ s.child[e][p] = v
    BY <2>2, <2>6, <2>8, <2>9
  <2>11. ChildOf(s, p, d, s.child[d][p])
    BY <2>9, <2>10, ChildFacts
  <2>12. s.parent[x] = p
    BY <2>10, <2>11 DEF ChildOf
  <2> QED BY <2>1, <2>4, <2>9, <2>10, <2>12
<1> QED BY <1>1, <1>2

\* A turn of delete_fixup keeps the invariant and the nodes; it runs after a skip only.
LEMMA DeleteFixupStep ==
  ASSUME Inv, DeleteFixup
  PROVE  Inv' /\ NodesOf(tree') = NodesOf(tree)
<1>1. /\ pc = "delete_fixup" /\ size_' = size_ /\ pc' = pc /\ skipped' = skipped
      /\ cursor # tree.root /\ ~Red(tree, cursor)
  BY DEF DeleteFixup, Rebalancing
<1>2. IsTree(tree) /\ FreshOutside(tree) /\ cursor \in NodesOf(tree) /\ RedAt(tree, cursor)
  BY <1>1 DEF Inv, Control, Colours
<1>3. skipped /\ skipped'
  <2>1. skipped \in BOOLEAN
    BY DEF Inv, Control
  <2>2. ~skipped => FALSE
    BY <1>1 DEF Inv, Heights
  <2> QED BY <1>1, <2>1, <2>2
<1>4. NoRed(tree)
  BY <1>1, <1>2 DEF NoRed, RedAt, RedEdge
<1>5. PICK x : x = cursor
  OBVIOUS
<1>6. PICK p : p = tree.parent[x]
  OBVIOUS
<1>7. PICK d : d = Side(tree, x)
  OBVIOUS
<1>8. PICK w0 : w0 = tree.child[Other(d)][p]
  OBVIOUS
<1>9. Sibling(tree, x, d) = w0 /\ w0 # NULL
  BY <1>5, <1>6, <1>7, <1>8, Zenon DEF DeleteFixup, Sibling, Parent
<1>10. PICK t : t = AfterRedSibling
  OBVIOUS
<1>11. t = IF Red(tree, w0)
           THEN Rotate(Paint(Paint(tree, w0, "black"), p, "red"), p, d) ELSE tree
  BY <1>5, <1>6, <1>7, <1>9, <1>10 DEF AfterRedSibling, Parent
<1>12. /\ IsTree(t) /\ NodesOf(t) = NodesOf(tree) /\ NoRed(t) /\ FreshOutside(t)
       /\ d \in Sides /\ p \in NodesOf(t) /\ t.child[d][p] = x /\ t.parent[x] = p
       /\ ~Red(t, t.child[Other(d)][p])
  <2>1. SiblingTurn(tree, x, p, d, w0, t)
    BY <1>1, <1>2, <1>4, <1>5, <1>6, <1>7, <1>8, <1>11 DEF SiblingTurn
  <2> QED BY <2>1, RedSiblingGone
<1>13. PICK w : w = t.child[Other(d)][p]
  OBVIOUS
<1>14. Sibling(t, x, d) = w /\ Other(d) \in Sides /\ x # NULL
  BY <1>2, <1>5, <1>12, <1>13, NodeFacts, SideFacts DEF Sibling, Parent
<1>15. PICK s : s = IF Red(t, t.child[Other(d)][w]) THEN t
                    ELSE Rotate(Paint(Paint(t, t.child[d][w], "black"), w, "red"), w,
                                Other(d))
  OBVIOUS
<1>16. PICK v : v = Sibling(s, x, d)
  OBVIOUS
<1>17. /\ w # NULL
       /\ IF ~Red(t, t.child[d][w]) /\ ~Red(t, t.child[Other(d)][w])
          THEN tree' = Paint(t, w, "red") /\ cursor' = p
          ELSE /\ tree' = Rotate(Paint(Paint(Paint(s, v, s.colour[p]), p, "black"),
                                       s.child[Other(d)][v], "black"), p, d)
               /\ cursor' = tree'.root
  BY <1>5, <1>6, <1>7, <1>10, <1>14, <1>15, <1>16 DEF DeleteFixup, Parent
<1>18. w \in NodesOf(t)
  BY <1>12, <1>13, <1>14, <1>17, NodeFacts
<1>19. /\ IsTree(tree') /\ NodesOf(tree') = NodesOf(tree) /\ FreshOutside(tree')
       /\ cursor' \in NodesOf(tree') /\ RedAt(tree', cursor')
  <2>1. CASE ~Red(t, t.child[d][w]) /\ ~Red(t, t.child[Other(d)][w])
    <3>1. PICK u : u = Paint(t, w, "red")
      OBVIOUS
    <3>2. \A e \in Sides : ~Red(t, t.child[e][w])
      BY <1>12, <2>1, SideFacts
    <3>3. IsTree(u) /\ NodesOf(u) = NodesOf(t) /\ FreshOutside(u) /\ OnlyRed(u, w)
      BY <1>12, <1>18, <3>1, <3>2, Reddened
    <3>4. u.child = t.child
      BY <1>12, <1>18, <3>1, TreePaint, TreeFacts, KeyFacts DEF Painted
    <3>5. RedAt(u, p)
      <4> SUFFICES ASSUME NEW n \in NodesOf(u), NEW e \in Sides, RedEdge(u, n, e)
                   PROVE  n = p
        BY DEF RedAt
      <4>1. t.child[e][n] = w
        BY <3>3, <3>4 DEF OnlyRed
      <4>2. ChildOf(t, p, Other(d), w)
        BY <1>12, <1>13, <1>14, <1>17, ChildFacts
      <4> QED BY <3>3, <4>1, <4>2 DEF ChildOf
    <3>6. tree' = u /\ cursor' = p
      BY <1>17, <2>1, <3>1
    <3> QED BY <1>12, <3>3, <3>5, <3>6
  <2>2. CASE Red(t, t.child[d][w]) \/ Red(t, t.child[Other(d)][w])
    <3>1. /\ IsTree(s) /\ NodesOf(s) = NodesOf(t) /\ NoRed(s) /\ FreshOutside(s)
          /\ s.child[d][p] = x /\ s.parent[x] = p /\ s.child[Other(d)][p] # NULL
      <4>1. Raised(s, t, w, d)
        BY <1>15 DEF Raised
      <4> QED BY <1>12, <1>13, <1>14, <1>17, <2>2, <4>1, NearRaised
    <3>2. v = s.child[Other(d)][p]
      BY <1>16, <3>1 DEF Sibling, Parent
    <3>3. PICK u : u = Rotate(Paint(Paint(Paint(s, v, s.colour[p]), p, "black"),
                                    s.child[Other(d)][v], "black"), p, d)
      OBVIOUS
    <3>4. IsTree(u) /\ NodesOf(u) = NodesOf(s) /\ FreshOutside(u) /\ NoRed(u)
      <4>1. Relief(s, p, d, v, u)
        BY <1>12, <3>1, <3>2, <3>3 DEF Relief
      <4> QED BY <4>1, Relieved
    <3>5. u.root \in NodesOf(u)
      BY <1>12, <3>1, <3>4, NodeFacts
    <3>6. RedAt(u, u.root)
      BY <3>4 DEF NoRed, RedAt
    <3>7. tree' = u /\ cursor' = u.root
      BY <1>17, <2>2, <3>3
    <3> QED BY <1>12, <3>1, <3>4, <3>5, <3>6, <3>7
  <2> QED BY <2>1, <2>2
<1>20. Control' /\ Colours' /\ Heights'
  BY <1>1, <1>3, <1>19 DEF Inv, Control, Colours, Heights
<1>21. size_' = Cardinality(NodesOf(tree'))
  BY <1>1, <1>19 DEF Inv
<1> QED BY <1>19, <1>20, <1>21 DEF Inv

\* A null sibling is met after a skip only, and leaves the tree as it was.
LEMMA DeleteFaultStep ==
  ASSUME Inv, DeleteFault
  PROVE  Inv' /\ NodesOf(tree') = NodesOf(tree)
<1>1. /\ pc = "delete_fixup" /\ ~Red(tree, cursor) /\ pc' = "fault"
      /\ tree' = tree /\ size_' = size_ /\ cursor' = cursor /\ skipped' = skipped
  BY DEF DeleteFault, Rebalancing
<1>2. skipped
  BY <1>1 DEF Inv, Heights
<1> QED BY <1>1, <1>2 DEF Inv, Control, Colours, Heights

\* The end of delete_fixup leaves no red pair and repairs the balance.
LEMMA DeleteDoneStep ==
  ASSUME Inv, DeleteDone
  PROVE  Inv' /\ NodesOf(tree') = NodesOf(tree)
<1>1. PICK t : t = Paint(tree, cursor, "black")
  OBVIOUS
<1>2. pc = "delete_fixup" /\ size_' = size_ /\ skipped' = skipped /\ Finish(t)
  BY <1>1 DEF DeleteDone
<1>3. IsTree(tree) /\ FreshOutside(tree) /\ cursor \in NodesOf(tree) /\ RedAt(tree, cursor)
  BY <1>2 DEF Inv, Control, Colours
<1>4. IsTree(t) /\ NodesOf(t) = NodesOf(tree) /\ NoRed(t) /\ FreshOutside(t)
  BY <1>1, <1>3, Blackened
<1>5. /\ IsTree(tree') /\ NodesOf(tree') = NodesOf(t) /\ Colours'
      /\ pc' = "idle" /\ cursor' = NULL
      /\ Balanced(t) => Balanced(tree')
  BY <1>2, <1>4, FinishStep
<1>6. Control' /\ Heights' /\ size_' = Cardinality(NodesOf(tree'))
  BY <1>1, <1>2, <1>4, <1>5 DEF Inv, Control, Heights
<1> QED BY <1>4, <1>5, <1>6 DEF Inv

\* clear() leaves the empty tree.
LEMMA ClearStep ==
  ASSUME Inv, Clear
  PROVE  Inv' /\ NodesOf(tree') = {}
<1>1. tree' = Empty /\ size_' = 0 /\ skipped' = FALSE /\ pc' = pc /\ cursor' = cursor
      /\ pc = "idle"
  BY DEF Clear
<1>2. IsTree(tree') /\ NodesOf(tree') = {}
  BY <1>1, TreeEmpty
<1>3. Balanced(tree') /\ Cardinality(NodesOf(tree')) = 0
  BY <1>2, BalanceEmpty, FS_EmptySet
<1>4. FreshOutside(tree') /\ NoRed(tree') /\ ~Red(tree', tree'.root)
  BY <1>1, <1>2 DEF FreshOutside, NoRed, Empty, Red
<1>5. Control' /\ Colours' /\ Heights'
  BY <1>1, <1>3, <1>4 DEF Inv, Control, Colours, Heights
<1> QED BY <1>1, <1>2, <1>3, <1>5 DEF Inv

\* Every step keeps the invariant.
LEMMA Inductive == Inv /\ [Next]_vars => Inv'
<1> SUFFICES ASSUME Inv, [Next]_vars PROVE Inv'
  OBVIOUS
<1>1. ASSUME NEW k \in Keys, Insert(k) PROVE Inv'
  BY <1>1, InsertStep
<1>2. ASSUME NEW k \in Removable, Remove(k) PROVE Inv'
  BY <1>2, RemoveStep, KeysAssumption
<1>3. CASE Fixup
  BY <1>3, InsertFixupStep, InsertDoneStep, DeleteFixupStep, DeleteFaultStep, DeleteDoneStep
     DEF Fixup
<1>4. CASE Clear
  BY <1>4, ClearStep
<1>5. CASE UNCHANGED vars
  BY <1>5 DEF vars, Inv, Control, Colours, Heights
<1> QED BY <1>1, <1>2, <1>3, <1>4, <1>5 DEF Next

\* The invariant, for every set of keys and every sequence of calls: a binary search
\* tree with right back pointers, size() nodes, and the colours that the loops rely on
\* (intrusive_tree.hpp:62-360).
THEOREM Invariance == Spec => []Inv
<1>1. Init => Inv
  BY InitHolds
<1> QED BY <1>1, Inductive, PTL DEF Spec

------------------------------------------------------------------------------
(* What the runs check, of every reachable state.                          *)

\* Nodes of the model is NodesOf of the current tree.
LEMMA NodesAre == Nodes = NodesOf(tree)
BY DEF Nodes, NodesOf

\* TypeOK (intrusive_tree.hpp:69, 86, 137): every pointer is a node or nullptr, the
\* loops have a node to work on, and size() is the number of nodes.
THEOREM TypeCorrect == Spec => []TypeOK
<1>1. Inv => TypeOK
  <2> SUFFICES ASSUME Inv PROVE TypeOK
    OBVIOUS
  <2>1. tree \in Tree /\ NodesOf(tree) \subseteq Keys
    BY TreeFacts DEF Inv
  <2>2. Control /\ size_ = Cardinality(NodesOf(tree))
    BY DEF Inv
  <2>3. cursor \in Node /\ (cursor = NULL <=> pc = "idle")
    BY <2>1, <2>2, KeyFacts DEF Control
  <2> QED BY <2>1, <2>2, <2>3, NodesAre DEF TypeOK, Tree, Control
<1> QED BY <1>1, Invariance, PTL

\* No red node has a red parent between two calls, and the root is black, whatever has
\* been removed and in whatever order (intrusive_tree.hpp:266-360).
LEMMA NoRedPairHolds == Inv => NoRedPair
<1> SUFFICES ASSUME Inv, pc = "idle"
             PROVE  /\ ~Red(tree, tree.root)
                    /\ \A n \in Nodes : Red(tree, n) => ~Red(tree, Parent(tree, n))
  BY DEF NoRedPair
<1>1. IsTree(tree) /\ NoRed(tree) /\ ~Red(tree, tree.root)
  BY DEF Inv, Colours
<1>2. ASSUME NEW n \in NodesOf(tree), Red(tree, n), Red(tree, tree.parent[n]) PROVE FALSE
  <2>1. tree.parent[n] # NULL
    BY <1>2 DEF Red
  <2>2. /\ tree.parent[n] \in NodesOf(tree) /\ Side(tree, n) \in Sides
        /\ tree.child[Side(tree, n)][tree.parent[n]] = n
    BY <1>1, <2>1, NodeFacts
  <2> QED BY <1>1, <1>2, <2>2 DEF NoRed, RedEdge
<1> QED BY <1>1, <1>2, NodesAre DEF Parent

\* NoRedPair (intrusive_tree.hpp:266-360): between two calls the root is black and no
\* red node has a red parent, after any sequence of insertions and removals.
THEOREM NoTwoReds == Spec => []NoRedPair
BY NoRedPairHolds, Invariance, PTL

\* The heights of a balanced tree are what BlackHeights counts.
LEMMA HeightsCounted ==
  ASSUME IsTree(tree), Balanced(tree)
  PROVE  \E i : BlackHeights = {i}
<1> DEFINE black(n) == IF Red(tree, n) THEN 0 ELSE 1
           Step(f) == [n \in Node |->
                         IF n = NULL THEN {0}
                         ELSE {h + (IF Red(tree, n) THEN 0 ELSE 1) :
                                 h \in f[Left(tree, n)] \cup f[Right(tree, n)]}]
<1>1. PICK h : Balance(tree, h)
  BY DEF Balanced
<1>2. PICK sub : Shape(tree, sub)
  BY DEF IsTree
<1>3. NodesOf(tree) = sub[tree.root] /\ NodesOf(tree) \subseteq Keys /\ tree.root \in Node
  BY <1>2, NodesOfShape, Members
<1>4. PICK g : g = [n \in Node |-> IF n \in NodesOf(tree) \cup {NULL} THEN h[n] ELSE black(n)]
  OBVIOUS
<1>5. /\ g[NULL] = 0 /\ g \in [Node -> Nat]
      /\ \A n \in Keys : g[n] = IF n \in NodesOf(tree) THEN h[n] ELSE black(n)
  BY <1>1, <1>4, KeyFacts DEF Balance
<1>6. ASSUME NEW n \in Keys, NEW d \in Sides
      PROVE  tree.child[d][n] \in Node /\ g[n] = g[tree.child[d][n]] + black(n)
  <2>1. CASE n \in NodesOf(tree)
    <3>1. tree.child[d][n] \in Node /\ (tree.child[d][n] # NULL => tree.child[d][n] \in NodesOf(tree))
      BY <2>1, NodeFacts
    <3>2. g[tree.child[d][n]] = h[tree.child[d][n]]
      BY <1>3, <1>4, <1>5, <3>1, KeyFacts
    <3>3. h[n] = h[tree.child[d][n]] + (IF tree.colour[n] = "red" THEN 0 ELSE 1)
      BY <1>1, <2>1 DEF Balance
    <3>4. n # NULL
      BY KeyFacts
    <3> QED BY <1>5, <2>1, <3>1, <3>2, <3>3, <3>4 DEF Red
  <2>2. CASE n \notin NodesOf(tree)
    <3>1. tree.child[d][n] = NULL
      BY <1>2, <1>3, <2>2 DEF Shape, Threaded
    <3> QED BY <1>5, <2>2, <3>1, KeyFacts
  <2> QED BY <2>1, <2>2
<1>7. "left" \in Sides /\ "right" \in Sides /\ \A d \in Sides : d = "left" \/ d = "right"
  BY DEF Sides
<1>8. PICK full : full = [n \in Node |-> {g[n]}]
  OBVIOUS
<1>9. full = Step(full)
  <2>1. ASSUME NEW n \in Node PROVE full[n] = Step(full)[n]
    <3>1. CASE n = NULL
      BY <1>5, <1>8, <3>1
    <3>2. CASE n # NULL
      <4>1. n \in Keys
        BY <3>2, KeyFacts
      <4>2. /\ Left(tree, n) \in Node /\ Right(tree, n) \in Node
            /\ g[n] = g[Left(tree, n)] + black(n) /\ g[n] = g[Right(tree, n)] + black(n)
        BY <1>6, <1>7, <4>1 DEF Left, Right
      <4>3. g[Left(tree, n)] \in Nat /\ g[Right(tree, n)] \in Nat
        BY <1>5, <4>2
      <4>4. g[Left(tree, n)] = g[Right(tree, n)]
        BY <4>2, <4>3
      <4>5. full[Left(tree, n)] \cup full[Right(tree, n)] = {g[Left(tree, n)]}
        BY <1>8, <4>2, <4>4
      <4>6. Step(full)[n] = {i + black(n) : i \in {g[Left(tree, n)]}}
        BY <3>2, <4>5
      <4>7. {i + black(n) : i \in {g[Left(tree, n)]}} = {g[n]}
        BY <4>2
      <4> QED BY <1>8, <4>6, <4>7
    <3> QED BY <3>1, <3>2
  <2>2. full = [n \in Node |-> full[n]]
    BY <1>8
  <2> HIDE DEF Step
  <2>3. Step(full) = [n \in Node |-> Step(full)[n]]
    BY DEF Step
  <2> QED BY <2>1, <2>2, <2>3
<1>10. PICK heights : heights = Step(heights) /\ BlackHeights = heights[tree.root]
  <2>1. PICK f : f = CHOOSE i : i = Step(i)
    OBVIOUS
  <2> QED BY <1>9, <2>1 DEF BlackHeights
<1>11. \A n \in Keys :
         heights[n] = {i + black(n) : i \in heights[Left(tree, n)] \cup heights[Right(tree, n)]}
  <2> SUFFICES ASSUME NEW n \in Keys
               PROVE  heights[n] = {i + black(n) :
                        i \in heights[Left(tree, n)] \cup heights[Right(tree, n)]}
    OBVIOUS
  <2>1. n \in Node /\ n # NULL
    BY KeyFacts
  <2>2. heights[n] = Step(heights)[n]
    BY <1>10
  <2> QED BY <2>1, <2>2
<1>12. heights[NULL] = {0}
  <2>1. heights[NULL] = Step(heights)[NULL]
    BY <1>10
  <2> QED BY <2>1, KeyFacts
<1> DEFINE Bad == {n \in Keys : heights[n] # {g[n]}}
<1>13. Bad = {}
  <2> SUFFICES ASSUME Bad # {} PROVE FALSE
    OBVIOUS
  <2>1. PICK n \in Bad : \A d \in Sides : tree.child[d][n] \notin Bad
    <3>1. Bad \in SUBSET Keys
      OBVIOUS
    <3> HIDE DEF Bad
    <3> QED BY <1>2, <3>1, FirstBad
  <2>2. n \in Keys /\ heights[n] # {g[n]}
    BY <2>1
  <2>3. \A d \in Sides : heights[tree.child[d][n]] = {g[tree.child[d][n]]}
    <3> SUFFICES ASSUME NEW d \in Sides
                 PROVE  heights[tree.child[d][n]] = {g[tree.child[d][n]]}
      OBVIOUS
    <3>1. tree.child[d][n] \in Node
      BY <1>6, <2>2
    <3>2. CASE tree.child[d][n] = NULL
      BY <1>5, <1>12, <3>2
    <3>3. CASE tree.child[d][n] # NULL
      BY <2>1, <3>1, <3>3, KeyFacts
    <3> QED BY <3>2, <3>3
  <2>4. /\ Left(tree, n) \in Node /\ Right(tree, n) \in Node
        /\ g[n] = g[Left(tree, n)] + black(n) /\ g[n] = g[Right(tree, n)] + black(n)
    BY <1>6, <1>7, <2>2 DEF Left, Right
  <2>5. g[Left(tree, n)] \in Nat /\ g[Right(tree, n)] \in Nat
    BY <1>5, <2>4
  <2>6. g[Left(tree, n)] = g[Right(tree, n)]
    BY <2>4, <2>5
  <2>7. heights[Left(tree, n)] \cup heights[Right(tree, n)] = {g[Left(tree, n)]}
    BY <1>7, <2>3, <2>6 DEF Left, Right
  <2>8. heights[n] = {i + black(n) : i \in {g[Left(tree, n)]}}
    BY <1>11, <2>2, <2>7
  <2>9. {i + black(n) : i \in {g[Left(tree, n)]}} = {g[n]}
    BY <2>4
  <2> QED BY <2>2, <2>8, <2>9
<1>14. heights[tree.root] = {g[tree.root]}
  <2>1. CASE tree.root = NULL
    BY <1>5, <1>12, <2>1
  <2>2. CASE tree.root # NULL
    BY <1>3, <1>13, <2>2, KeyFacts
  <2> QED BY <2>1, <2>2
<1> QED BY <1>10, <1>14

\* RedBlackUnlessSkipped: until remove() takes out a black node that has no child
\* (intrusive_tree.hpp:139) every way down from the root of a tree at rest has the same
\* number of black nodes, and delete_fixup reads no null pointer.
THEOREM RedBlackKept == Spec => []RedBlackUnlessSkipped
<1>1. Inv => RedBlackUnlessSkipped
  <2> SUFFICES ASSUME Inv, ~skipped
               PROVE  /\ pc # "fault"
                      /\ pc = "idle" => NoRedPair /\ Cardinality(BlackHeights) = 1
    BY DEF RedBlackUnlessSkipped
  <2>1. pc # "fault" /\ IsTree(tree) /\ (pc = "idle" => Balanced(tree))
    BY DEF Inv, Heights
  <2>2. ASSUME pc = "idle" PROVE Cardinality(BlackHeights) = 1
    <3>1. PICK i : BlackHeights = {i}
      BY <2>1, <2>2, HeightsCounted
    <3> QED BY <3>1, FS_Singleton
  <2> QED BY <2>1, <2>2, NoRedPairHolds
<1> QED BY <1>1, Invariance, PTL

\* The least number of a set on one side, and the neighbours that OrderedSet asks for.
LEMMA OneChoice ==
  ASSUME NEW S \in SUBSET Int, NEW m \in S
  PROVE  /\ (\A j \in S : m <= j) => m = CHOOSE i \in S : \A j \in S : i <= j
         /\ (\A j \in S : j <= m) => m = CHOOSE i \in S : \A j \in S : j <= i
<1>1. ASSUME \A j \in S : m <= j PROVE m = CHOOSE i \in S : \A j \in S : i <= j
  <2>1. PICK c : c = CHOOSE i \in S : \A j \in S : i <= j
    OBVIOUS
  <2>2. c \in S /\ \A j \in S : c <= j
    BY <1>1, <2>1
  <2>3. c <= m /\ m <= c /\ c \in Int /\ m \in Int
    BY <1>1, <2>2
  <2> QED BY <2>1, <2>3
<1>2. ASSUME \A j \in S : j <= m PROVE m = CHOOSE i \in S : \A j \in S : j <= i
  <2>1. PICK c : c = CHOOSE i \in S : \A j \in S : j <= i
    OBVIOUS
  <2>2. c \in S /\ \A j \in S : j <= c
    BY <1>2, <2>1
  <2>3. c <= m /\ m <= c /\ c \in Int /\ m \in Int
    BY <1>2, <2>2
  <2> QED BY <2>1, <2>3
<1> QED BY <1>1, <1>2

\* The walk starts at the first node and goes from each to the next, in both directions
\* (intrusive_tree.hpp:148-214).
LEMMA MinimumIsFirst ==
  ASSUME IsTree(tree)
  PROVE  Minimum(tree) = Ordered!First
<1>1. PICK sub : Shape(tree, sub)
  BY DEF IsTree
<1>2. Nodes = sub[tree.root] /\ Nodes \subseteq Int
  BY <1>1, NodesAre, NodesOfShape, Members, KeyFacts
<1>3. CASE tree.root = NULL
  <2>1. Nodes = {}
    BY <1>1, <1>2, <1>3, Members
  <2> QED BY <1>3, <2>1 DEF Minimum, Ordered!First
<1>4. CASE tree.root # NULL
  <2>1. tree.root \in Keys /\ tree.root \in Nodes /\ "left" \in Sides
    BY <1>1, <1>2, <1>4, Members DEF Sides
  <2>2. PICK m : m = Utmost(tree, "left", tree.root)
    OBVIOUS
  <2>3. m \in Nodes /\ \A j \in Nodes : j = m \/ On("left", m, j)
    BY <1>1, <1>2, <2>1, <2>2, UtmostFacts
  <2>4. \A j \in Nodes : m <= j
    BY <1>2, <2>3 DEF On
  <2>5. m = CHOOSE i \in Nodes : \A j \in Nodes : i <= j
    BY <1>2, <2>3, <2>4, OneChoice
  <2> QED BY <1>4, <2>1, <2>2, <2>5 DEF Minimum, Ordered!First
<1> QED BY <1>3, <1>4

\* successor and predecessor go to the next node on either side.
LEMMA NeighboursAreNext ==
  ASSUME IsTree(tree), NEW n \in Nodes
  PROVE  /\ Neighbour(tree, n, "right") = Ordered!After(n)
         /\ Neighbour(tree, n, "left") = Ordered!Before(n)
<1>1. PICK sub : Shape(tree, sub)
  BY DEF IsTree
<1>2. /\ Nodes = sub[tree.root] /\ Nodes \subseteq Int /\ NULL \notin Nodes
      /\ "left" \in Sides /\ "right" \in Sides
  BY <1>1, NodesAre, NodesOfShape, Members, KeyFacts DEF Sides
<1>3. ASSUME NEW d \in Sides, NEW a, a = Neighbour(tree, n, d)
      PROVE  IF a = NULL THEN \A c \in Nodes : ~On(d, c, n)
             ELSE /\ a \in Nodes /\ On(d, a, n)
                  /\ \A c \in Nodes : On(d, c, n) => c = a \/ On(d, c, a)
  BY <1>1, <1>2, <1>3, NeighbourFacts
<1>4. Neighbour(tree, n, "right") = Ordered!After(n)
  <2>1. PICK a : a = Neighbour(tree, n, "right")
    OBVIOUS
  <2>2. PICK S : S = {j \in Nodes : j > n}
    OBVIOUS
  <2>3. S \subseteq Int /\ \A c \in Nodes : On("right", c, n) <=> c \in S
    BY <1>2, <2>2 DEF On
  <2>4. CASE a = NULL
    <3>1. S = {}
      BY <1>2, <1>3, <2>1, <2>2, <2>3, <2>4
    <3> QED BY <2>1, <2>2, <2>4, <3>1 DEF Ordered!After
  <2>5. CASE a # NULL
    <3>1. a \in S /\ \A c \in S : c = a \/ On("right", c, a)
      BY <1>2, <1>3, <2>1, <2>2, <2>3, <2>5
    <3>2. \A c \in S : a <= c
      BY <2>3, <3>1 DEF On
    <3>3. a = CHOOSE i \in S : \A j \in S : i <= j
      BY <2>3, <3>1, <3>2, OneChoice
    <3> QED BY <2>1, <2>2, <3>1, <3>3 DEF Ordered!After
  <2> QED BY <2>4, <2>5
<1>5. Neighbour(tree, n, "left") = Ordered!Before(n)
  <2>1. PICK a : a = Neighbour(tree, n, "left")
    OBVIOUS
  <2>2. PICK S : S = {j \in Nodes : j < n}
    OBVIOUS
  <2>3. S \subseteq Int /\ \A c \in Nodes : On("left", c, n) <=> c \in S
    BY <1>2, <2>2 DEF On
  <2>4. CASE a = NULL
    <3>1. S = {}
      BY <1>2, <1>3, <2>1, <2>2, <2>3, <2>4
    <3> QED BY <2>1, <2>2, <2>4, <3>1 DEF Ordered!Before
  <2>5. CASE a # NULL
    <3>1. a \in S /\ \A c \in S : c = a \/ On("left", c, a)
      BY <1>2, <1>3, <2>1, <2>2, <2>3, <2>5
    <3>2. \A c \in S : c <= a
      BY <2>3, <3>1 DEF On
    <3>3. a = CHOOSE i \in S : \A j \in S : j <= i
      BY <2>3, <3>1, <3>2, OneChoice
    <3> QED BY <2>1, <2>2, <3>1, <3>3 DEF Ordered!Before
  <2> QED BY <2>4, <2>5
<1> QED BY <1>4, <1>5

\* WalksInOrder: find, minimum, successor and predecessor agree with the set of nodes in
\* every state, the middle of a fixup and the stop at a null pointer included.
THEOREM QueriesAgree == Spec => []WalksInOrder
<1>1. Inv => WalksInOrder
  <2> SUFFICES ASSUME Inv PROVE WalksInOrder
    OBVIOUS
  <2>1. IsTree(tree)
    BY DEF Inv
  <2>2. \A k \in Keys : Find(tree, k) <=> k \in Nodes
    BY <2>1, TreeFind, NodesAre
  <2> QED BY <2>1, <2>2, MinimumIsFirst, NeighboursAreNext DEF WalksInOrder
<1> QED BY <1>1, Invariance, PTL

\* ImplementsOrderedSet: for every set of keys and every sequence of calls the tree is a
\* set; a rotation, a recolouring or a stop at a null pointer loses and adds nothing.
THEOREM SetImplemented == Spec => ImplementsOrderedSet
<1> DEFINE Steps == /\ \A k \in Keys : Insert(k) => Ordered!Insert(k)
                    /\ \A k \in Removable : Remove(k) => Ordered!Remove(k)
                    /\ Clear => Ordered!Clear
                    /\ Fixup => UNCHANGED Nodes
<1>1. Init => Ordered!Init
  BY InitHolds, NodesAre DEF Ordered!Init
<1>2. Nodes' = NodesOf(tree')
  BY DEF Nodes, NodesOf
<1>3. ASSUME Inv PROVE Steps
  <2>1. ASSUME NEW k \in Keys, Insert(k) PROVE Ordered!Insert(k)
    BY <1>2, <1>3, <2>1, InsertStep, NodesAre DEF Ordered!Insert
  <2>2. ASSUME NEW k \in Removable, Remove(k) PROVE Ordered!Remove(k)
    BY <1>2, <1>3, <2>2, RemoveStep, KeysAssumption, NodesAre DEF Ordered!Remove
  <2>3. ASSUME Clear PROVE Ordered!Clear
    BY <1>2, <1>3, <2>3, ClearStep DEF Ordered!Clear
  <2>4. ASSUME Fixup PROVE UNCHANGED Nodes
    BY <1>2, <1>3, <2>4, InsertFixupStep, InsertDoneStep, DeleteFixupStep, DeleteFaultStep,
       DeleteDoneStep, NodesAre DEF Fixup
  <2> QED BY <2>1, <2>2, <2>3, <2>4
<1>4. ASSUME Inv, [Next]_vars PROVE [Ordered!Next]_Nodes
  <2>1. CASE Next
    BY <1>3, <1>4, <2>1, KeysAssumption DEF Next, Ordered!Next
  <2>2. CASE UNCHANGED vars
    BY <1>2, <2>2, NodesAre DEF vars
  <2> QED BY <1>4, <2>1, <2>2
<1> HIDE DEF Steps
<1>5. Inv /\ [Next]_vars => [Ordered!Next]_Nodes /\ [Steps]_vars
  BY <1>3, <1>4
<1>6. Spec => Ordered!Spec /\ [][Steps]_vars
  BY <1>1, <1>5, Invariance, PTL DEF Spec, Ordered!Spec
<1> QED BY <1>6 DEF ImplementsOrderedSet, Steps
==============================================================================
