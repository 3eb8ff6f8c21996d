-------------------------- MODULE ProcessTreeProofs --------------------------
(***************************************************************************)
(* Proofs about the red-black tree of process.c, for any number of         *)
(* processes and any pids: links, search order, colors and black heights   *)
(* through every rotation and every turn of the fixup loops.               *)
(***************************************************************************)
EXTENDS ProcessTree, FiniteSetTheorems, TLAPS

(***************************************************************************)
(* The inductive invariant.  D[n] is the set of processes in the subtree   *)
(* at n and h[n] the number of black nodes on each way down from n, n      *)
(* itself not counted: with them, all of the tree's properties become      *)
(* conditions on a node and its two children.                              *)
(***************************************************************************)
Trees == [child : [Nodes -> [Sides -> Pointers]], parent : [Nodes -> Pointers],
          color : [Nodes -> {"RED", "BLACK"}], root : Nodes]

(* The child of n on side d, and what is below it and its sibling.         *)
Branch(t, D, n, d) ==
    LET c == t.child[n][d]
        e == t.child[n][Opposite(d)]
    IN  /\ c \in Nodes
        /\ c # NIL => c \in D[c] /\ t.parent[c] = n
        /\ D[n] = {n} \cup D[c] \cup D[e]
        /\ n \notin D[c]
        /\ D[c] \cap D[e] = {}

(* The links form a tree with the subtrees D.                              *)
Shape(t, D) ==
    /\ t \in Trees
    /\ D \in [Nodes -> SUBSET Processes] /\ D[NIL] = {}
    /\ t.root # NIL => t.root \in D[t.root] /\ t.parent[t.root] = NULL
    /\ \A n \in D[t.root] : \A d \in Sides : Branch(t, D, n, d)

(* The pid of m may stand on side d below that of n.                       *)
Beside(d, m, n) == IF d = "left" THEN PidOf[m] <= PidOf[n] ELSE PidOf[n] <= PidOf[m]

(* The pids below a node are on the sides they belong to.                  *)
InOrder(t, D) ==
    \A n \in D[t.root] : \A d \in Sides : \A m \in D[t.child[n][d]] : Beside(d, m, n)

(* The black nodes from n downwards, n included.                           *)
Weight(t, h, n) == h[n] + IF t.color[n] = "BLACK" THEN 1 ELSE 0

(* One for the child of q on side s, zero elsewhere.                       *)
Extra(n, d, q, s) == IF n = q /\ d = s THEN 1 ELSE 0

(* Both ways down from a node have as many black nodes; the child of q on  *)
(* side s counts for one more, the one a deletion has taken away.          *)
Heights(t, D, h, q, s) ==
    /\ h \in [Nodes -> Nat] /\ h[NIL] = 0
    /\ \A n \in D[t.root] : \A d \in Sides :
         h[n] = Weight(t, h, t.child[n][d]) + Extra(n, d, q, s)

(* No red node has a red child, unless the node is a or the child is b.    *)
Reds(t, D, a, b) ==
    \A n \in D[t.root] : \A d \in Sides :
        t.color[n] = "RED" /\ t.color[t.child[n][d]] = "RED" => n = a \/ t.child[n][d] = b

(* The sentinel, but for its parent.                                       *)
Sentinel(t) == t.color[NIL] = "BLACK" /\ \A d \in Sides : t.child[NIL][d] = NIL

(* Between operations.                                                     *)
Balanced(t, D, h) == Heights(t, D, h, NULL, "left") /\ Reds(t, D, NULL, NULL) /\ t.color[t.root] = "BLACK"

(* In the loop of fixupInsert(), at x: only x may be a red child of red.   *)
Inserting(t, D, h, x) ==
    /\ x \in D[t.root] /\ t.color[x] = "RED"
    /\ Heights(t, D, h, NULL, "left") /\ Reds(t, D, NULL, x)

(* In the loop of rbDeleteFixup(), at x, which may be NIL: x counts for    *)
(* one more black node, and only x may be red next to red.                 *)
Deleting(t, D, h, x) ==
    /\ x \in D[t.root] \cup {NIL}
    /\ t.color[t.root] = "BLACK" \/ x = t.root
    /\ Reds(t, D, x, x)
    /\ x = t.root => Heights(t, D, h, NULL, "left")
    /\ x # t.root => /\ t.parent[x] \in D[t.root]
                     /\ \E s \in Sides : t.child[t.parent[x]][s] = x /\ Heights(t, D, h, t.parent[x], s)

(* D and h witness that the tree is what fixup f expects.                  *)
Certified(t, f, D, h) ==
    /\ Shape(t, D) /\ InOrder(t, D) /\ Sentinel(t)
    /\ \/ f = NoFix /\ Balanced(t, D, h)
       \/ f = [op |-> "insert", node |-> f.node] /\ Inserting(t, D, h, f.node)
       \/ f = [op |-> "delete", node |-> f.node] /\ Deleting(t, D, h, f.node)

(* The inductive invariant of the specification.                           *)
TInv == \E D, h : Certified(tree, fix, D, h)
-----------------------------------------------------------------------------
(***************************************************************************)
(* Sides.                                                                  *)
(***************************************************************************)
LEMMA SideFacts ==
    /\ "left" \in Sides /\ "right" \in Sides
    /\ Opposite("left") = "right" /\ Opposite("right") = "left"
    /\ \A d \in Sides : Opposite(d) \in Sides /\ Opposite(d) # d /\ Opposite(Opposite(d)) = d
    /\ \A d, e \in Sides : e = d \/ e = Opposite(d)
BY DEF Sides, Opposite

(***************************************************************************)
(* A nonempty set of naturals has a least element.                         *)
(***************************************************************************)
LEMMA Least ==
    ASSUME NEW S \in SUBSET Nat, S # {}
    PROVE  \E i \in S : \A j \in S : i <= j
<1>1. PICK i \in S : \A j \in S : ~(<<j, i>> \in OpToRel(<, Nat))
  BY NatLessThanWellFounded, WFMin
<1>2. \A j \in S : ~(j < i)
  BY <1>1 DEF OpToRel
<1>3. QED
  BY <1>2

(* The values f of a loop with body F, N times from a.                     *)
Loop(f, F, a, N) == f = [k \in 0 .. N |-> IF k = 0 THEN a ELSE F[f[k - 1]]]

(***************************************************************************)
(* A loop whose body is the function F, run N times from a, has a value    *)
(* after each turn: the recursive functions of ProcessTree.tla exist.      *)
(***************************************************************************)
LEMMA Iterate ==
    ASSUME NEW S, NEW F \in [S -> S], NEW a \in S, NEW N \in Nat
    PROVE  \E f \in [0 .. N -> S] : Loop(f, F, a, N)
<1> DEFINE Runs(n) == \E f \in [0 .. n -> S] : Loop(f, F, a, n)
           Bad == {n \in Nat : ~Runs(n)}
<1>1. SUFFICES ASSUME Bad # {} PROVE FALSE
  OBVIOUS
<1>2. PICK n \in Bad : \A j \in Bad : n <= j
  <2> HIDE DEF Bad
  <2>1. Bad \in SUBSET Nat
    BY DEF Bad
  <2>2. QED
    BY <1>1, <2>1, Least
<1>3. n # 0
  <2>1. SUFFICES Runs(0)
    OBVIOUS
  <2> DEFINE f == [k \in 0 .. 0 |-> a]
  <2>2. f \in [0 .. 0 -> S] /\ Loop(f, F, a, 0)
    BY DEF Loop
  <2>3. QED
    BY <2>2
<1>4. n \in Nat /\ n - 1 \in Nat /\ n - 1 < n
  BY <1>3
<1>5. Runs(n - 1)
  BY <1>2, <1>4
<1>6. PICK g \in [0 .. (n - 1) -> S] :
        g = [k \in 0 .. (n - 1) |-> IF k = 0 THEN a ELSE F[g[k - 1]]]
  BY <1>5 DEF Loop
<1> DEFINE f == [k \in 0 .. n |-> IF k = n THEN F[g[n - 1]] ELSE g[k]]
<1>7. f \in [0 .. n -> S]
  <2>1. n - 1 \in 0 .. (n - 1) /\ \A k \in 0 .. n : k # n => k \in 0 .. (n - 1)
    BY <1>4
  <2>2. QED
    BY <2>1
<1>8. \A k \in 0 .. n : f[k] = IF k = 0 THEN a ELSE F[f[k - 1]]
  <2> SUFFICES ASSUME NEW k \in 0 .. n PROVE f[k] = IF k = 0 THEN a ELSE F[f[k - 1]]
    OBVIOUS
  <2>1. CASE k = n
    <3>1. n - 1 \in 0 .. n /\ n - 1 # n
      BY <1>4
    <3>2. QED
      BY <1>3, <2>1, <3>1
  <2>2. CASE k # n
    <3>1. k \in 0 .. (n - 1) /\ (k # 0 => k - 1 \in 0 .. n /\ k - 1 # n)
      BY <1>4, <2>2
    <3>2. g[k] = IF k = 0 THEN a ELSE F[g[k - 1]]
      BY <1>6, <3>1
    <3>3. QED
      BY <2>2, <3>1, <3>2
  <2>3. QED
    BY <2>1, <2>2
<1>9. Runs(n)
  <2>1. Loop(f, F, a, n)
    <3> HIDE DEF f
    <3>1. QED
      BY <1>7, <1>8 DEF Loop
  <2>2. QED
    BY <1>7, <2>1
<1>10. QED
  BY <1>2, <1>9

(***************************************************************************)
(* What holds of 0 and passes from k to k + 1 holds up to N.               *)
(***************************************************************************)
LEMMA Climb ==
    ASSUME NEW N \in Nat, NEW S, 0 \in S, \A k \in 0 .. (N - 1) : k \in S => k + 1 \in S
    PROVE  0 .. N \subseteq S
<1> DEFINE Bad == (0 .. N) \ S
<1>1. SUFFICES ASSUME Bad # {} PROVE FALSE
  OBVIOUS
<1>2. PICK n \in Bad : \A j \in Bad : n <= j
  <2>1. Bad \in SUBSET Nat
    OBVIOUS
  <2> HIDE DEF Bad
  <2>2. QED
    BY <1>1, <2>1, Least
<1>3. n # 0 /\ n \in 1 .. N /\ n - 1 \in 0 .. (N - 1) /\ n - 1 \in 0 .. N
  OBVIOUS
<1>4. n - 1 \in S
  BY <1>2, <1>3
<1>5. (n - 1) + 1 = n
  BY <1>3
<1>6. QED
  BY <1>3, <1>4, <1>5
(***************************************************************************)
(* Subtrees are finite sets.                                               *)
(***************************************************************************)
LEMMA Finite ==
    ASSUME NEW S \in SUBSET Processes
    PROVE  IsFiniteSet(S) /\ Cardinality(S) \in Nat /\ Cardinality(S) <= Size /\ Size \in Nat
BY PidsAssumption, FS_Subset, FS_CardinalityType DEF Size

(***************************************************************************)
(* A subtree has fewer processes than the one it is part of.               *)
(***************************************************************************)
LEMMA Fewer ==
    ASSUME NEW S \in SUBSET Processes, NEW T \in SUBSET S, NEW n \in S, n \notin T
    PROVE  Cardinality(T) < Cardinality(S)
<1>1. IsFiniteSet(S) /\ Cardinality(S) \in Nat /\ Cardinality(T) \in Nat
  BY Finite
<1>2. Cardinality(T) <= Cardinality(S) /\ (Cardinality(S) = Cardinality(T) => S = T)
  BY <1>1, FS_Subset
<1>3. QED
  BY <1>1, <1>2

(***************************************************************************)
(* The parts of a branch, under names.                                     *)
(***************************************************************************)
LEMMA Children ==
    ASSUME NEW t, NEW D, Shape(t, D), NEW n \in D[t.root], NEW d \in Sides
    PROVE  /\ t.child[n][d] \in Nodes
           /\ t.child[n][d] # NIL => t.child[n][d] \in D[t.child[n][d]] /\ t.parent[t.child[n][d]] = n
           /\ D[n] = {n} \cup D[t.child[n][d]] \cup D[t.child[n][Opposite(d)]]
           /\ n \notin D[t.child[n][d]]
           /\ D[t.child[n][d]] \cap D[t.child[n][Opposite(d)]] = {}
BY DEF Shape, Branch

(***************************************************************************)
(* D[n] is a set of processes.                                             *)
(***************************************************************************)
LEMMA Typed ==
    ASSUME NEW t, NEW D, Shape(t, D)
    PROVE  /\ t.root \in Nodes /\ D[NIL] = {} /\ NIL \notin Processes /\ NULL \notin Nodes
           /\ \A n \in Nodes : D[n] \in SUBSET Processes
           /\ \A n \in D[t.root] : n \in Processes /\ n \in Nodes /\ n # NIL
           /\ t.root # NIL => t.root \in D[t.root] /\ t.parent[t.root] = NULL
BY PointersAssumption DEF Shape, Trees, Nodes

(***************************************************************************)
(* A set that has the root of a subtree and with a process its children    *)
(* has the whole subtree.                                                  *)
(***************************************************************************)
LEMMA Closed ==
    ASSUME NEW t, NEW D, Shape(t, D), NEW r \in D[t.root], D[r] \subseteq D[t.root], NEW S, r \in S,
           \A n \in S \cap D[t.root] : D[n] \subseteq D[t.root] =>
               \A d \in Sides : t.child[n][d] # NIL => t.child[n][d] \in S
    PROVE  D[r] \subseteq S
<1>1. SUFFICES ASSUME NEW m \in D[r], m \notin S PROVE FALSE
  OBVIOUS
<1> DEFINE T == {n \in S \cap D[t.root] : m \in D[n] /\ D[n] \subseteq D[t.root]}
           Sizes == {Cardinality(D[n]) : n \in T}
<1>2. \A n \in T : n \in Nodes /\ D[n] \in SUBSET Processes /\ Cardinality(D[n]) \in Nat
  BY Typed, Finite
<1>3. r \in T
  BY <1>1
<1>4. PICK i \in Sizes : \A j \in Sizes : i <= j
  <2>1. Sizes \in SUBSET Nat /\ Sizes # {}
    BY <1>2, <1>3
  <2> HIDE DEF Sizes
  <2>2. QED
    BY <2>1, Least
<1>5. PICK n \in T : \A k \in T : Cardinality(D[n]) <= Cardinality(D[k])
  BY <1>4
<1>6. n \in D[t.root] /\ n \in S /\ m \in D[n] /\ D[n] \subseteq D[t.root] /\ m # n
  BY <1>1
<1>7. PICK d \in Sides : m \in D[t.child[n][d]]
  <2>1. D[n] = {n} \cup D[t.child[n]["left"]] \cup D[t.child[n]["right"]]
    BY <1>6, Children, SideFacts
  <2>2. QED
    BY <1>6, <2>1, SideFacts
<1> DEFINE c == t.child[n][d]
<1>8. /\ c \in Nodes /\ n \notin D[c] /\ D[c] \subseteq D[n]
      /\ c # NIL => c \in D[c]
  BY <1>6, Children
<1>9. c # NIL
  BY <1>7, Typed
<1>10. c \in S
  BY <1>6, <1>9
<1>11. c \in T
  BY <1>6, <1>7, <1>8, <1>9, <1>10
<1>12. n \in D[n]
  BY <1>6, Children
<1>13. Cardinality(D[c]) < Cardinality(D[n])
  BY <1>2, <1>8, <1>12, Fewer
<1>14. QED
  <2>1. Cardinality(D[n]) <= Cardinality(D[c]) /\ Cardinality(D[n]) \in Nat /\ Cardinality(D[c]) \in Nat
    BY <1>2, <1>5, <1>11
  <2>2. QED
    BY <1>13, <2>1

(***************************************************************************)
(* All subtrees are below the root.                                        *)
(***************************************************************************)
LEMMA BelowRoot ==
    ASSUME NEW t, NEW D, Shape(t, D), NEW n \in D[t.root]
    PROVE  /\ D[n] \subseteq D[t.root]
           /\ n \in D[n]
           /\ \A d \in Sides : D[t.child[n][d]] \subseteq D[n]
           /\ \A d \in Sides : t.child[n][d] # NIL => t.child[n][d] \in D[t.root]
<1> DEFINE S == {k \in D[t.root] : D[k] \subseteq D[t.root]}
<1>1. \A k \in D[t.root] : \A d \in Sides :
        /\ D[t.child[k][d]] \subseteq D[k] /\ k \in D[k]
        /\ t.child[k][d] # NIL => t.child[k][d] \in D[t.child[k][d]]
  BY Children
<1>2. t.root \in D[t.root]
  BY Typed
<1>3. \A k \in S \cap D[t.root] : D[k] \subseteq D[t.root] =>
        \A d \in Sides : t.child[k][d] # NIL => t.child[k][d] \in S
  BY <1>1
<1>4. t.root \in S
  BY <1>2
<1>5. D[t.root] \subseteq S
  <2> HIDE DEF S
  <2>1. QED
    BY <1>2, <1>3, <1>4, Closed
<1>6. QED
  BY <1>1, <1>5, SideFacts

(***************************************************************************)
(* A process in a subtree has its own subtree and, unless it is the root   *)
(* of the subtree, its parent in it.                                       *)
(***************************************************************************)
LEMMA Nested ==
    ASSUME NEW t, NEW D, Shape(t, D), NEW r \in D[t.root], NEW m \in D[r]
    PROVE  /\ m \in D[t.root] /\ D[m] \subseteq D[r]
           /\ m # r => t.parent[m] \in D[r] /\ \E d \in Sides : t.child[t.parent[m]][d] = m
<1> DEFINE S == {k \in D[r] : /\ D[k] \subseteq D[r]
                              /\ k # r => t.parent[k] \in D[r] /\ \E d \in Sides : t.child[t.parent[k]][d] = k}
<1>1. D[r] \subseteq D[t.root] /\ r \in D[r]
  BY BelowRoot
<1>2. r \in S
  BY <1>1
<1>3. ASSUME NEW k \in S, NEW d \in Sides, t.child[k][d] # NIL PROVE t.child[k][d] \in S
  <2> DEFINE c == t.child[k][d]
  <2>1. k \in D[r] /\ D[k] \subseteq D[r] /\ k \in D[t.root]
    BY <1>1
  <2>2. c \in D[c] /\ D[c] \subseteq D[k] /\ t.parent[c] = k
    BY <1>3, <2>1, Children
  <2>3. QED
    BY <2>1, <2>2
<1>4. D[r] \subseteq S
  <2>1. \A k \in S \cap D[t.root] : D[k] \subseteq D[t.root] =>
            \A d \in Sides : t.child[k][d] # NIL => t.child[k][d] \in S
    BY <1>3
  <2> HIDE DEF S
  <2>2. QED
    BY <1>1, <1>2, <2>1, Closed
<1>5. QED
  BY <1>1, <1>4
(***************************************************************************)
(* Subtree(t, n), which collects nodes level by level, is D[n]: Size turns *)
(* are enough, because each turn adds a process until there is none left.  *)
(***************************************************************************)
LEMMA SubtreeIs ==
    ASSUME NEW t, NEW D, Shape(t, D), NEW n \in D[t.root] \cup {NIL}
    PROVE  Subtree(t, n) = D[n]
<1> DEFINE upTo[k \in 0 .. Size] ==
                IF k = 0 THEN {n} \ {NIL}
                ELSE LET s == upTo[k - 1]
                     IN  s \cup ({t.child[m][d] : m \in s, d \in Sides} \ {NIL})
           Step(s) == s \cup ({t.child[m][d] : m \in s, d \in Sides} \ {NIL})
           a == {n} \ {NIL}
           Q == SUBSET D[n]
<1>1. n \in Nodes /\ D[n] \in SUBSET Processes /\ Size \in Nat
  BY Typed, Finite DEF Nodes
<1>2. \A m \in D[n] : \A d \in Sides : t.child[m][d] # NIL => t.child[m][d] \in D[n]
  <2>1. CASE n = NIL
    BY <2>1, Typed
  <2>2. CASE n \in D[t.root]
    BY <2>2, Nested, Children
  <2>3. QED
    BY <2>1, <2>2
<1>3. a \in Q
  BY BelowRoot
<1>4. \A s \in Q : Step(s) \in Q
  BY <1>2
<1>5. upTo = [k \in 0 .. Size |-> IF k = 0 THEN a ELSE Step(upTo[k - 1])]
  <2> DEFINE P(g) == g = [k \in 0 .. Size |-> IF k = 0 THEN a ELSE Step(g[k - 1])]
  <2>1. \E f : P(f)
    <3> DEFINE F == [s \in Q |-> Step(s)]
    <3> HIDE DEF Step, Q, a
    <3>1. F \in [Q -> Q]
      BY <1>4
    <3>2. PICK f \in [0 .. Size -> Q] : Loop(f, F, a, Size)
      <4> HIDE DEF F
      <4>1. QED
        BY <1>1, <1>3, <3>1, Iterate
    <3>3. \A k \in 0 .. Size : k # 0 => F[f[k - 1]] = Step(f[k - 1])
      <4>1. \A k \in 0 .. Size : k # 0 => k - 1 \in 0 .. Size
        BY <1>1
      <4>2. QED
        BY <4>1
    <3> HIDE DEF F
    <3>4. P(f)
      BY <3>2, <3>3 DEF Loop
    <3>5. QED
      BY <3>4
  <2>2. upTo = CHOOSE g : P(g)
    BY SMT
  <2> HIDE DEF P, upTo, Step, a
  <2>3. P(CHOOSE g : P(g))
    BY Zenon, <2>1
  <2>4. P(upTo)
    BY Zenon, <2>2, <2>3
  <2>5. QED
    BY <2>4 DEF P
<1>6. \A k \in 0 .. Size : upTo[k] \in Q
  <2> DEFINE S == {k \in 0 .. Size : upTo[k] \in Q}
  <2> HIDE DEF upTo, Q, a, Step
  <2>1. 0 \in S
    <3>1. 0 \in 0 .. Size
      BY <1>1
    <3>2. upTo[0] = a
      BY <1>5, <3>1
    <3>3. QED
      BY <1>3, <3>1, <3>2
  <2>2. \A k \in 0 .. (Size - 1) : k \in S => k + 1 \in S
    <3>1. SUFFICES ASSUME NEW k \in 0 .. (Size - 1), k \in S PROVE k + 1 \in S
      OBVIOUS
    <3>2. k + 1 \in 0 .. Size /\ k + 1 # 0 /\ (k + 1) - 1 = k
      BY <1>1
    <3>3. upTo[k + 1] = Step(upTo[k])
      BY <1>5, <3>2
    <3>4. QED
      BY <1>4, <3>1, <3>2, <3>3
  <2>3. 0 .. Size \subseteq S
    <3> HIDE DEF S
    <3>1. QED
      BY <1>1, <2>1, <2>2, Climb
  <2>4. QED
    BY <2>3
<1>7. Subtree(t, n) = upTo[Size]
  BY DEF Subtree
<1> HIDE DEF upTo
<1> DEFINE Full(s) == \A m \in s : \A d \in Sides : t.child[m][d] # NIL => t.child[m][d] \in s
           S == {k \in 0 .. Size : upTo[k] # {} => Full(upTo[k]) \/ Cardinality(upTo[k]) >= k + 1}
<1>8. \A k \in 0 .. (Size - 1) : k + 1 \in 0 .. Size /\ k \in 0 .. Size /\ upTo[k + 1] = Step(upTo[k])
  <2>1. SUFFICES ASSUME NEW k \in 0 .. (Size - 1) PROVE k + 1 \in 0 .. Size /\ k \in 0 .. Size /\ upTo[k + 1] = Step(upTo[k])
    OBVIOUS
  <2>2. k + 1 \in 0 .. Size /\ k \in 0 .. Size /\ k + 1 # 0 /\ (k + 1) - 1 = k
    BY <1>1
  <2> HIDE DEF Step, a
  <2>3. QED
    BY <1>5, <2>2
<1>9. upTo[0] = {n} \ {NIL}
  BY <1>1, <1>5
<1>10. 0 \in S
  <2>1. n # NIL => Cardinality({n}) = 1 /\ {n} \ {NIL} = {n}
    BY FS_Singleton
  <2>2. QED
    BY <1>1, <1>9, <2>1
<1>11. ASSUME NEW k \in 0 .. (Size - 1), k \in S PROVE k + 1 \in S
  <2> DEFINE s == upTo[k]
             s2 == upTo[k + 1]
  <2>1. s2 = Step(s) /\ s \in SUBSET D[n] /\ s2 \in SUBSET D[n] /\ k + 1 \in 0 .. Size
    BY <1>6, <1>8
  <2>2. CASE Full(s)
    <3>1. s2 = s
      BY <2>1, <2>2
    <3>2. QED
      BY <2>1, <2>2, <3>1
  <2>3. CASE ~Full(s)
    <3>1. PICK m \in s, d \in Sides : t.child[m][d] # NIL /\ t.child[m][d] \notin s
      BY <2>3
    <3>2. t.child[m][d] \in s2 /\ s \subseteq s2
      BY <2>1, <3>1
    <3> HIDE DEF s, s2
    <3>3. s2 \in SUBSET Processes /\ s \in SUBSET Processes
      BY <1>1, <2>1
    <3>4. Cardinality(s) < Cardinality(s2) /\ Cardinality(s) \in Nat /\ Cardinality(s2) \in Nat
      BY <3>1, <3>2, <3>3, Fewer, Finite
    <3>5. Cardinality(s) >= k + 1
      BY <1>11, <2>3, <3>1 DEF s
    <3>6. Cardinality(s2) >= (k + 1) + 1
      BY <3>4, <3>5
    <3>7. QED
      BY <2>1, <3>6 DEF s2
  <2>4. QED
    BY <2>2, <2>3
<1>12. Size \in S
  <2>1. 0 .. Size \subseteq S
    <3>1. \A k \in 0 .. (Size - 1) : k \in S => k + 1 \in S
      BY <1>11
    <3> HIDE DEF S
    <3>2. QED
      BY <1>1, <1>10, <3>1, Climb
  <2>2. QED
    BY <1>1, <2>1
<1>13. upTo[Size] \in SUBSET D[n] /\ Cardinality(upTo[Size]) <= Size
  <2>1. upTo[Size] \in SUBSET D[n]
    BY <1>1, <1>6
  <2>2. QED
    BY <1>1, <2>1, Finite
<1>14. Full(upTo[Size])
  <2>1. Cardinality(upTo[Size]) \in Nat
    BY <1>1, <1>13, Finite
  <2>2. QED
    BY <1>1, <1>12, <1>13, <2>1
<1>15. n # NIL => n \in upTo[Size]
  <2> DEFINE R == {k \in 0 .. Size : n # NIL => n \in upTo[k]}
  <2>1. 0 \in R
    BY <1>1, <1>9
  <2>2. \A k \in 0 .. (Size - 1) : k \in R => k + 1 \in R
    BY <1>8
  <2>3. 0 .. Size \subseteq R
    <3> HIDE DEF R
    <3>1. QED
      BY <1>1, <2>1, <2>2, Climb
  <2>4. QED
    BY <1>1, <2>3
<1>16. D[n] \subseteq upTo[Size]
  <2>1. CASE n = NIL
    BY <2>1, Typed
  <2>2. CASE n \in D[t.root]
    <3>1. n # NIL /\ D[n] \subseteq D[t.root]
      BY <2>2, Typed, BelowRoot
    <3>2. QED
      BY <1>14, <1>15, <2>2, <3>1, Closed
  <2>3. QED
    BY <2>1, <2>2
<1>17. QED
  BY <1>7, <1>13, <1>16
(***************************************************************************)
(* Turn() goes to a child.                                                 *)
(***************************************************************************)
LEMMA TurnIs ==
    ASSUME NEW t, NEW n, NEW p
    PROVE  \E d \in Sides : /\ Turn(t, n, p) = t.child[n][d]
                            /\ d = IF p < PidOf[n] THEN "left" ELSE "right"
BY SideFacts DEF Turn

(***************************************************************************)
(* Every turn of a descent leaves a smaller subtree.                       *)
(***************************************************************************)
LEMMA Descent ==
    ASSUME NEW t, NEW D, Shape(t, D), NEW n \in D[t.root], NEW d \in Sides, NEW k \in Nat,
           Cardinality(D[n]) <= Size - k
    PROVE  /\ t.child[n][d] \in D[t.root] \cup {NIL}
           /\ Cardinality(D[t.child[n][d]]) <= Size - (k + 1)
<1> DEFINE c == t.child[n][d]
<1>1. c \in Nodes /\ c \in D[t.root] \cup {NIL}
  BY Children, BelowRoot
<1>2. D[n] \in SUBSET Processes /\ D[c] \in SUBSET D[n] /\ n \in D[n] /\ n \notin D[c]
  BY Children, BelowRoot, Typed
<1> HIDE DEF c
<1>3. Cardinality(D[c]) < Cardinality(D[n])
  BY <1>2, Fewer
<1>4. Cardinality(D[c]) \in Nat /\ Cardinality(D[n]) \in Nat /\ Size \in Nat
  BY <1>2, Finite
<1>5. Cardinality(D[c]) <= Size - (k + 1)
  BY <1>3, <1>4
<1>6. QED
  BY <1>1, <1>5 DEF c

(***************************************************************************)
(* A subtree without processes is NIL.                                     *)
(***************************************************************************)
LEMMA NoneLeft ==
    ASSUME NEW t, NEW D, Shape(t, D), NEW n \in D[t.root] \cup {NIL},
           Cardinality(D[n]) <= Size - Size
    PROVE  n = NIL
<1>1. SUFFICES ASSUME n \in D[t.root] PROVE FALSE
  OBVIOUS
<1>2. D[n] \in SUBSET Processes /\ n \in D[n]
  BY <1>1, Typed, BelowRoot
<1>3. Cardinality(D[n]) \in Nat /\ Size \in Nat /\ IsFiniteSet(D[n])
  BY <1>2, Finite
<1>4. Cardinality(D[n]) = 0
  BY <1>3
<1>5. QED
  BY <1>2, <1>3, <1>4, FS_EmptySet

(***************************************************************************)
(* rbSearch() finds a process with the pid if there is one, and NIL        *)
(* otherwise.                                                              *)
(***************************************************************************)
LEMMA SearchIs ==
    ASSUME NEW t, NEW D, Shape(t, D), InOrder(t, D), NEW p \in Nat
    PROVE  IF \E m \in D[t.root] : PidOf[m] = p
             THEN rbSearch(t, p) \in D[t.root] /\ PidOf[rbSearch(t, p)] = p
             ELSE rbSearch(t, p) = NIL
<1> DEFINE at[k \in 0 .. Size] ==
                IF k = 0 THEN t.root
                ELSE LET n == at[k - 1]
                     IN  IF n = NIL \/ PidOf[n] = p THEN n ELSE Turn(t, n, p)
           Step(n) == IF n = NIL \/ PidOf[n] = p THEN n ELSE Turn(t, n, p)
           Q == D[t.root] \cup {NIL}
<1>1. Size \in Nat /\ t.root \in Q /\ t.root \in Nodes
  BY Finite, Typed
<1>2. \A n \in Q : Step(n) \in Q
  BY TurnIs, BelowRoot
<1>3. at = [k \in 0 .. Size |-> IF k = 0 THEN t.root ELSE Step(at[k - 1])]
  <2> DEFINE P(g) == g = [k \in 0 .. Size |-> IF k = 0 THEN t.root ELSE Step(g[k - 1])]
  <2>1. \E f : P(f)
    <3> DEFINE F == [n \in Q |-> Step(n)]
    <3> HIDE DEF Step, Q
    <3>1. F \in [Q -> Q]
      BY <1>2
    <3>2. PICK f \in [0 .. Size -> Q] : Loop(f, F, t.root, Size)
      <4> HIDE DEF F
      <4>1. QED
        BY <1>1, <3>1, Iterate
    <3>3. \A k \in 0 .. Size : k # 0 => F[f[k - 1]] = Step(f[k - 1])
      <4>1. \A k \in 0 .. Size : k # 0 => k - 1 \in 0 .. Size
        BY <1>1
      <4>2. QED
        BY <4>1
    <3> HIDE DEF F
    <3>4. P(f)
      BY <3>2, <3>3 DEF Loop
    <3>5. QED
      BY <3>4
  <2>2. at = CHOOSE g : P(g)
    BY SMT
  <2> HIDE DEF P, at, Step
  <2>3. P(CHOOSE g : P(g))
    BY Zenon, <2>1
  <2>4. P(at)
    BY Zenon, <2>2, <2>3
  <2>5. QED
    BY <2>4 DEF P
<1>4. rbSearch(t, p) = at[Size]
  BY DEF rbSearch
<1> HIDE DEF at
<1> DEFINE Good(n, k) == /\ n = NIL \/ PidOf[n] = p \/ Cardinality(D[n]) <= Size - k
                         /\ (\E m \in D[t.root] : PidOf[m] = p) => \E m \in D[n] : PidOf[m] = p
           S == {k \in 0 .. Size : at[k] \in Q /\ Good(at[k], k)}
<1>5. 0 \in S
  <2>1. at[0] = t.root
    BY <1>1, <1>3
  <2>2. Cardinality(D[t.root]) <= Size - 0
    BY <1>1, Typed, Finite
  <2>3. QED
    BY <1>1, <2>1, <2>2
<1>6. ASSUME NEW k \in 0 .. (Size - 1), k \in S PROVE k + 1 \in S
  <2>1. k + 1 \in 0 .. Size /\ k + 1 # 0 /\ (k + 1) - 1 = k /\ k \in Nat
    BY <1>1
  <2>2. at[k + 1] = Step(at[k])
    <3> HIDE DEF Step
    <3>1. QED
      BY <1>3, <2>1
  <2> DEFINE n == at[k]
  <2>3. n \in Q /\ Good(n, k)
    BY <1>6
  <2> HIDE DEF n
  <2>4. CASE n = NIL \/ PidOf[n] = p
    <3>1. at[k + 1] = n
      BY <2>2, <2>4 DEF n
    <3>2. QED
      BY <2>1, <2>3, <2>4, <3>1
  <2>5. CASE n # NIL /\ PidOf[n] # p
    <3>1. n \in D[t.root] /\ Cardinality(D[n]) <= Size - k
      BY <2>3, <2>5
    <3>2. PICK d \in Sides : /\ Turn(t, n, p) = t.child[n][d]
                             /\ d = IF p < PidOf[n] THEN "left" ELSE "right"
      BY TurnIs
    <3> DEFINE c == t.child[n][d]
    <3>3. at[k + 1] = c
      BY <2>2, <2>5, <3>2 DEF n
    <3>4. c \in Q /\ Cardinality(D[c]) <= Size - (k + 1)
      BY <2>1, <3>1, Descent
    <3>5. ASSUME \E m \in D[t.root] : PidOf[m] = p PROVE \E m \in D[c] : PidOf[m] = p
      <4>1. PICK m \in D[n] : PidOf[m] = p
        BY <2>3, <3>5
      <4>2. D[n] = {n} \cup D[c] \cup D[t.child[n][Opposite(d)]]
        BY <3>1, Children
      <4>3. CASE m \in D[t.child[n][Opposite(d)]]
        <5>1. Beside(Opposite(d), m, n)
          BY <3>1, <4>3, SideFacts DEF InOrder
        <5>2. PidOf[n] \in Nat /\ PidOf[n] # p
          BY <2>5, <3>1, PidsAssumption, Typed
        <5>3. CASE p < PidOf[n]
          <6>1. Opposite(d) = "right"
            BY <3>2, <5>3, SideFacts
          <6>2. PidOf[n] <= PidOf[m]
            BY <5>1, <6>1 DEF Beside
          <6>3. QED
            BY <4>1, <5>2, <5>3, <6>2
        <5>4. CASE ~(p < PidOf[n])
          <6>1. Opposite(d) = "left"
            BY <3>2, <5>4, SideFacts
          <6>2. PidOf[m] <= PidOf[n]
            BY <5>1, <6>1 DEF Beside
          <6>3. QED
            BY <4>1, <5>2, <5>4, <6>2
        <5>5. QED
          BY <5>3, <5>4
      <4>4. QED
        BY <2>5, <4>1, <4>2, <4>3
    <3> HIDE DEF c
    <3>6. QED
      BY <2>1, <3>3, <3>4, <3>5
  <2>6. QED
    BY <2>4, <2>5
<1>7. Size \in S
  <2>1. 0 .. Size \subseteq S
    <3>1. \A k \in 0 .. (Size - 1) : k \in S => k + 1 \in S
      BY <1>6
    <3> HIDE DEF S
    <3>2. QED
      BY <1>1, <1>5, <3>1, Climb
  <2>2. QED
    BY <1>1, <2>1
<1>8. at[Size] \in Q /\ (at[Size] = NIL \/ PidOf[at[Size]] = p)
  BY <1>7, NoneLeft
<1>9. CASE \E m \in D[t.root] : PidOf[m] = p
  <2>1. at[Size] # NIL
    BY <1>7, <1>9, Typed
  <2>2. QED
    BY <1>4, <1>8, <1>9, <2>1
<1>10. CASE ~\E m \in D[t.root] : PidOf[m] = p
  BY <1>4, <1>8, <1>10
<1>11. QED
  BY <1>9, <1>10
(***************************************************************************)
(* pid p may stand below n on side d.                                      *)
(***************************************************************************)
Allows(n, d, p) == IF d = "left" THEN p <= PidOf[n] ELSE PidOf[n] <= p

(* p may stand wherever y may.                                             *)
OnTheWay(t, D, y, p) ==
    \A n \in D[t.root] : \A d \in Sides : y \in D[t.child[n][d]] => Allows(n, d, p)

(***************************************************************************)
(* A step down keeps to the way.                                           *)
(***************************************************************************)
LEMMA TurnsOnTheWay ==
    ASSUME NEW t, NEW D, Shape(t, D), NEW p \in Nat, NEW y \in D[t.root] \cup {NULL}, NEW x \in D[t.root],
           y = NULL => x = t.root,
           y # NULL => x = Turn(t, y, p) /\ OnTheWay(t, D, y, p)
    PROVE  OnTheWay(t, D, x, p)
<1>1. SUFFICES ASSUME NEW n \in D[t.root], NEW d \in Sides, x \in D[t.child[n][d]]
               PROVE  Allows(n, d, p)
  BY DEF OnTheWay
<1> DEFINE c == t.child[n][d]
<1>2. c \in D[t.root] /\ n \notin D[c] /\ t.parent[c] = n
  BY <1>1, Children, BelowRoot, Typed
<1>3. CASE y = NULL
  <2>1. D[t.root] \subseteq D[c]
    BY <1>1, <1>2, <1>3, Nested
  <2>2. QED
    BY <1>2, <2>1
<1>4. CASE y # NULL
  <2>1. y \in D[t.root]
    BY <1>4
  <2>2. PICK e \in Sides : x = t.child[y][e] /\ e = IF p < PidOf[y] THEN "left" ELSE "right"
    BY <1>4, TurnIs
  <2>3. x # NIL /\ t.parent[x] = y /\ x \in D[x]
    BY <2>1, <2>2, Children, Typed
  <2>4. CASE x = c
    <3>1. n = y
      BY <1>2, <2>3, <2>4
    <3>2. e = d
      <4>1. e = d \/ e = Opposite(d)
        BY SideFacts
      <4>2. D[c] \cap D[t.child[n][Opposite(d)]] = {}
        BY Children
      <4>3. QED
        BY <2>2, <2>3, <2>4, <3>1, <4>1, <4>2
    <3>3. PidOf[y] \in Nat
      BY <2>1, Typed, PidsAssumption
    <3>4. QED
      BY <2>2, <3>1, <3>2, <3>3 DEF Allows
  <2>5. CASE x # c
    <3>1. y \in D[c]
      BY <1>1, <1>2, <2>3, <2>5, Nested
    <3>2. QED
      BY <1>4, <3>1 DEF OnTheWay
  <2>6. QED
    BY <2>4, <2>5
<1>5. QED
  BY <1>3, <1>4

(***************************************************************************)
(* The descent of rbInsert() ends at a free place, and the pid may stand   *)
(* there.                                                                  *)
(***************************************************************************)
LEMMA InsertionIs ==
    ASSUME NEW t, NEW D, Shape(t, D), NEW p \in Nat, NEW y, y = InsertionParent(t, p)
    PROVE  /\ y = NULL => t.root = NIL
           /\ y # NULL => y \in D[t.root] /\ Turn(t, y, p) = NIL /\ OnTheWay(t, D, y, p)
<1> DEFINE at[k \in 0 .. Size] ==
                IF k = 0 THEN [y |-> NULL, x |-> t.root]
                ELSE LET s == at[k - 1]
                     IN  IF s.x = NIL THEN s ELSE [y |-> s.x, x |-> Turn(t, s.x, p)]
           Step(s) == IF s.x = NIL THEN s ELSE [y |-> s.x, x |-> Turn(t, s.x, p)]
           a == [y |-> NULL, x |-> t.root]
           Q == [y : D[t.root] \cup {NULL}, x : D[t.root] \cup {NIL}]
<1>1. Size \in Nat /\ t.root \in D[t.root] \cup {NIL} /\ t.root \in Nodes /\ a \in Q
  BY Finite, Typed
<1>2. \A s \in Q : Step(s) \in Q
  BY TurnIs, BelowRoot
<1>3. at = [k \in 0 .. Size |-> IF k = 0 THEN a ELSE Step(at[k - 1])]
  <2> DEFINE P(g) == g = [k \in 0 .. Size |-> IF k = 0 THEN a ELSE Step(g[k - 1])]
  <2>1. \E f : P(f)
    <3> DEFINE F == [s \in Q |-> Step(s)]
    <3> HIDE DEF Step, Q, a
    <3>1. F \in [Q -> Q]
      BY <1>2
    <3>2. PICK f \in [0 .. Size -> Q] : Loop(f, F, a, Size)
      <4> HIDE DEF F
      <4>1. QED
        BY <1>1, <3>1, Iterate
    <3>3. \A k \in 0 .. Size : k # 0 => F[f[k - 1]] = Step(f[k - 1])
      <4>1. \A k \in 0 .. Size : k # 0 => k - 1 \in 0 .. Size
        BY <1>1
      <4>2. QED
        BY <4>1
    <3> HIDE DEF F
    <3>4. P(f)
      BY <3>2, <3>3 DEF Loop
    <3>5. QED
      BY <3>4
  <2>2. at = CHOOSE g : P(g)
    BY SMT
  <2> HIDE DEF P, at, Step, a
  <2>3. P(CHOOSE g : P(g))
    BY Zenon, <2>1
  <2>4. P(at)
    BY Zenon, <2>2, <2>3
  <2>5. QED
    BY <2>4 DEF P
<1>4. InsertionParent(t, p) = at[Size].y
  BY DEF InsertionParent
<1> HIDE DEF at
<1> DEFINE Good(s, k) == /\ s.x = NIL \/ Cardinality(D[s.x]) <= Size - k
                         /\ s.y = NULL => s.x = t.root
                         /\ s.y # NULL => s.x = Turn(t, s.y, p) /\ OnTheWay(t, D, s.y, p)
           S == {k \in 0 .. Size : at[k] \in Q /\ Good(at[k], k)}
<1>5. 0 \in S
  <2>1. at[0] = a
    <3> HIDE DEF a, Step
    <3>1. QED
      BY <1>1, <1>3
  <2>2. Cardinality(D[t.root]) <= Size - 0
    BY <1>1, Typed, Finite
  <2>3. QED
    BY <1>1, <2>1, <2>2
<1>6. ASSUME NEW k \in 0 .. (Size - 1), k \in S PROVE k + 1 \in S
  <2>1. k + 1 \in 0 .. Size /\ k + 1 # 0 /\ (k + 1) - 1 = k /\ k \in Nat
    BY <1>1
  <2>2. at[k + 1] = Step(at[k])
    <3> HIDE DEF Step, a
    <3>1. QED
      BY <1>3, <2>1
  <2> DEFINE s == at[k]
  <2>3. s \in Q /\ Good(s, k) /\ Step(s) \in Q
    BY <1>2, <1>6
  <2>4. CASE s.x = NIL
    <3>1. at[k + 1] = s
      BY <2>2, <2>4
    <3> HIDE DEF s
    <3>2. Good(s, k + 1)
      BY <2>3, <2>4
    <3>3. QED
      BY <2>1, <2>3, <3>1, <3>2
  <2>5. CASE s.x # NIL
    <3> DEFINE n == s.x
    <3>1. n \in D[t.root] /\ Cardinality(D[n]) <= Size - k /\ s.y \in D[t.root] \cup {NULL}
      BY <2>3, <2>5
    <3>2. at[k + 1] = [y |-> n, x |-> Turn(t, n, p)]
      BY <2>2, <2>5
    <3>3. OnTheWay(t, D, n, p)
      <4>1. /\ s.y = NULL => n = t.root
            /\ s.y # NULL => n = Turn(t, s.y, p) /\ OnTheWay(t, D, s.y, p)
        BY <2>3
      <4> HIDE DEF s, n
      <4>2. QED
        BY <3>1, <4>1, TurnsOnTheWay
    <3>4. Cardinality(D[Turn(t, n, p)]) <= Size - (k + 1)
      <4> HIDE DEF n
      <4>1. QED
        BY <2>1, <3>1, Descent, TurnIs
    <3>5. n # NULL
      BY <3>1, Typed
    <3> HIDE DEF n
    <3>6. Good(at[k + 1], k + 1)
      BY <3>2, <3>3, <3>4, <3>5
    <3>7. QED
      BY <2>1, <2>2, <2>3, <3>6
  <2>6. QED
    BY <2>4, <2>5
<1>7. Size \in S
  <2>1. 0 .. Size \subseteq S
    <3>1. \A k \in 0 .. (Size - 1) : k \in S => k + 1 \in S
      BY <1>6
    <3> HIDE DEF S
    <3>2. QED
      BY <1>1, <1>5, <3>1, Climb
  <2>2. QED
    BY <1>1, <2>1
<1>8. at[Size] \in Q /\ Good(at[Size], Size)
  BY <1>7
<1>9. at[Size].x = NIL
  BY <1>8, NoneLeft
<1>10. QED
  BY <1>4, <1>8, <1>9

(***************************************************************************)
(* treeMinimum() finds the leftmost process, and no pid is below its.      *)
(***************************************************************************)
LEMMA MinimumIs ==
    ASSUME NEW t, NEW D, Shape(t, D), InOrder(t, D), NEW r \in D[t.root], NEW y, y = treeMinimum(t, r)
    PROVE  /\ y \in D[r] /\ t.child[y]["left"] = NIL
           /\ \A m \in D[r] : PidOf[y] <= PidOf[m]
<1> DEFINE at[k \in 0 .. Size] ==
                IF k = 0 THEN r
                ELSE LET m == at[k - 1]
                     IN  IF t.child[m].left = NIL THEN m ELSE t.child[m].left
           Step(m) == IF t.child[m].left = NIL THEN m ELSE t.child[m].left
           Q == D[r]
<1>1. Size \in Nat /\ r \in Q /\ r \in Nodes
  BY Finite, Typed, BelowRoot
<1>2. \A m \in Q : /\ m \in D[t.root] /\ m \in Nodes /\ PidOf[m] \in Nat
                   /\ t.child[m].left = t.child[m]["left"]
                   /\ t.child[m].left # NIL => t.child[m].left \in Q
  <2>1. SUFFICES ASSUME NEW m \in Q
                 PROVE  /\ m \in D[t.root] /\ m \in Nodes /\ PidOf[m] \in Nat
                        /\ t.child[m]["left"] # NIL => t.child[m]["left"] \in Q
    OBVIOUS
  <2>2. m \in D[t.root] /\ D[m] \subseteq D[r]
    BY Nested
  <2>3. m \in Nodes /\ PidOf[m] \in Nat
    BY <2>2, Typed, PidsAssumption
  <2>4. QED
    BY <2>2, <2>3, Children, SideFacts
<1>3. at = [k \in 0 .. Size |-> IF k = 0 THEN r ELSE Step(at[k - 1])]
  <2> DEFINE P(g) == g = [k \in 0 .. Size |-> IF k = 0 THEN r ELSE Step(g[k - 1])]
  <2>1. \E f : P(f)
    <3> DEFINE F == [s \in Q |-> Step(s)]
    <3>0. \A m \in Q : Step(m) \in Q
      BY <1>2
    <3> HIDE DEF Step, Q
    <3>1. F \in [Q -> Q]
      BY <3>0
    <3>2. PICK f \in [0 .. Size -> Q] : Loop(f, F, r, Size)
      <4> HIDE DEF F
      <4>1. QED
        BY <1>1, <3>1, Iterate
    <3>3. \A k \in 0 .. Size : k # 0 => F[f[k - 1]] = Step(f[k - 1])
      <4>1. \A k \in 0 .. Size : k # 0 => k - 1 \in 0 .. Size
        BY <1>1
      <4>2. QED
        BY <4>1
    <3> HIDE DEF F
    <3>4. P(f)
      BY <3>2, <3>3 DEF Loop
    <3>5. QED
      BY <3>4
  <2>2. at = CHOOSE g : P(g)
    BY SMT
  <2> HIDE DEF P, at, Step
  <2>3. P(CHOOSE g : P(g))
    BY Zenon, <2>1
  <2>4. P(at)
    BY Zenon, <2>2, <2>3
  <2>5. QED
    BY <2>4 DEF P
<1>4. treeMinimum(t, r) = at[Size]
  BY DEF treeMinimum
<1> HIDE DEF at
<1> DEFINE Good(n, k) == /\ t.child[n]["left"] = NIL \/ Cardinality(D[n]) <= Size - k
                         /\ \A m \in D[r] : m \notin D[n] => \A q \in D[n] : PidOf[q] <= PidOf[m]
           S == {k \in 0 .. Size : at[k] \in Q /\ Good(at[k], k)}
<1>5. 0 \in S
  <2>1. at[0] = r
    <3> HIDE DEF Step
    <3>1. QED
      BY <1>1, <1>3
  <2>2. Cardinality(D[r]) <= Size - 0
    BY <1>1, Typed, Finite
  <2>3. QED
    BY <1>1, <2>1, <2>2
<1>6. ASSUME NEW k \in 0 .. (Size - 1), k \in S PROVE k + 1 \in S
  <2>1. k + 1 \in 0 .. Size /\ k + 1 # 0 /\ (k + 1) - 1 = k /\ k \in Nat
    BY <1>1
  <2>2. at[k + 1] = Step(at[k])
    <3> HIDE DEF Step
    <3>1. QED
      BY <1>3, <2>1
  <2> DEFINE n == at[k]
             c == t.child[n]["left"]
  <2>3. n \in Q /\ Good(n, k)
    BY <1>6
  <2>4. CASE c = NIL
    <3>1. at[k + 1] = n
      BY <1>2, <2>2, <2>3, <2>4
    <3> HIDE DEF n
    <3>2. QED
      BY <2>1, <2>3, <2>4, <3>1
  <2>5. CASE c # NIL
    <3>1. at[k + 1] = c /\ c \in Q /\ n \in D[t.root]
      BY <1>2, <2>2, <2>3, <2>5
    <3>2. Cardinality(D[c]) <= Size - (k + 1)
      <4> HIDE DEF n
      <4>1. QED
        BY <2>1, <2>3, <2>5, <3>1, Descent, SideFacts
    <3>3. ASSUME NEW m \in D[r], m \notin D[c], NEW q \in D[c] PROVE PidOf[q] <= PidOf[m]
      <4>1. D[n] = {n} \cup D[c] \cup D[t.child[n]["right"]]
        BY <3>1, Children, SideFacts
      <4>2. q \in D[n]
        BY <3>3, <4>1
      <4>3. PidOf[q] <= PidOf[n]
        BY <3>1, <3>3, SideFacts DEF InOrder, Beside
      <4>4. CASE m \notin D[n]
        BY <2>3, <4>2, <4>4
      <4>5. CASE m = n
        BY <4>3, <4>5
      <4>6. CASE m \in D[t.child[n]["right"]]
        <5>1. Beside("right", m, n)
          BY <3>1, <4>6, SideFacts DEF InOrder
        <5>2. PidOf[n] <= PidOf[m]
          BY <5>1 DEF Beside
        <5>3. q \in D[r] /\ m \in D[r] /\ n \in D[r]
          BY <2>3, <3>1, <3>3, <4>2, Nested
        <5>4. PidOf[q] \in Nat /\ PidOf[m] \in Nat /\ PidOf[n] \in Nat
          BY <1>2, <5>3
        <5>5. QED
          BY <4>3, <5>2, <5>4
      <4>7. QED
        BY <3>3, <4>1, <4>4, <4>5, <4>6
    <3> HIDE DEF c
    <3>4. Good(c, k + 1)
      BY <3>2, <3>3
    <3>5. QED
      BY <2>1, <3>1, <3>4
  <2>6. QED
    BY <2>4, <2>5
<1>7. Size \in S
  <2>1. 0 .. Size \subseteq S
    <3>1. \A k \in 0 .. (Size - 1) : k \in S => k + 1 \in S
      BY <1>6
    <3> HIDE DEF S
    <3>2. QED
      BY <1>1, <1>5, <3>1, Climb
  <2>2. QED
    BY <1>1, <2>1
<1>8. y \in Q /\ Good(y, Size)
  BY <1>4, <1>7
<1>9. t.child[y]["left"] = NIL
  <2>1. y \in D[t.root] /\ y # NIL
    BY <1>2, <1>8, Typed
  <2>2. QED
    BY <1>8, <2>1, NoneLeft
<1>10. ASSUME NEW m \in D[r] PROVE PidOf[y] <= PidOf[m]
  <2>1. y \in D[t.root] /\ y \in D[y] /\ PidOf[y] \in Nat /\ PidOf[m] \in Nat
    BY <1>2, <1>8, <1>10, BelowRoot
  <2>2. D[y] = {y} \cup {} \cup D[t.child[y]["right"]]
    BY <1>9, <2>1, Children, SideFacts, Typed
  <2>3. CASE m \in D[t.child[y]["right"]]
    <3>1. Beside("right", m, y)
      BY <2>1, <2>3, SideFacts DEF InOrder
    <3>2. QED
      BY <3>1 DEF Beside
  <2>4. QED
    BY <1>8, <2>1, <2>2, <2>3
<1>11. QED
  BY <1>8, <1>9, <1>10
(***************************************************************************)
(* The fields of a tree.                                                   *)
(***************************************************************************)
LEMMA Fields ==
    ASSUME NEW t \in Trees
    PROVE  /\ t.child \in [Nodes -> [Sides -> Pointers]] /\ t.parent \in [Nodes -> Pointers]
           /\ t.color \in [Nodes -> {"RED", "BLACK"}] /\ t.root \in Nodes
           /\ \A n \in Nodes : /\ t.parent[n] \in Pointers /\ t.color[n] \in {"RED", "BLACK"}
                               /\ \A d \in Sides : t.child[n][d] \in Pointers
BY DEF Trees

(***************************************************************************)
(* What the stores to a field do.                                          *)
(***************************************************************************)
LEMMA SetChildIs ==
    ASSUME NEW t \in Trees, NEW n \in Nodes, NEW d \in Sides, NEW m \in Pointers
    PROVE  /\ SetChild(t, n, d, m) \in Trees
           /\ SetChild(t, n, d, m).parent = t.parent /\ SetChild(t, n, d, m).color = t.color
           /\ SetChild(t, n, d, m).root = t.root
           /\ \A k \in Nodes : \A e \in Sides :
                SetChild(t, n, d, m).child[k][e] = IF k = n /\ e = d THEN m ELSE t.child[k][e]
<1> DEFINE C == [t.child EXCEPT ![n][d] = m]
<1>1. C \in [Nodes -> [Sides -> Pointers]]
  BY Fields
<1>2. \A k \in Nodes : \A e \in Sides : C[k][e] = IF k = n /\ e = d THEN m ELSE t.child[k][e]
  BY Fields
<1>3. SetChild(t, n, d, m) = [t EXCEPT !.child = C]
  BY DEF SetChild, Trees
<1> HIDE DEF C
<1> DEFINE u == SetChild(t, n, d, m)
<1>4. u.child = C /\ u.parent = t.parent /\ u.color = t.color /\ u.root = t.root
  BY <1>3 DEF Trees
<1>5. u = [child |-> C, parent |-> t.parent, color |-> t.color, root |-> t.root]
  BY <1>3 DEF Trees
<1>6. u \in Trees
  <2> HIDE DEF u
  <2>1. QED
    BY <1>1, <1>5, Fields DEF Trees
<1> HIDE DEF u
<1>7. QED
  BY <1>2, <1>4, <1>6 DEF u

(***************************************************************************)
(* The same for parents.                                                   *)
(***************************************************************************)
LEMMA SetParentIs ==
    ASSUME NEW t \in Trees, NEW n \in Nodes, NEW p \in Pointers
    PROVE  /\ SetParent(t, n, p) \in Trees
           /\ SetParent(t, n, p).child = t.child /\ SetParent(t, n, p).color = t.color
           /\ SetParent(t, n, p).root = t.root
           /\ \A k \in Nodes : SetParent(t, n, p).parent[k] = IF k = n THEN p ELSE t.parent[k]
BY Fields DEF SetParent, Trees

(***************************************************************************)
(* The same for colors.                                                    *)
(***************************************************************************)
LEMMA SetColorIs ==
    ASSUME NEW t \in Trees, NEW n \in Nodes, NEW c \in {"RED", "BLACK"}
    PROVE  /\ SetColor(t, n, c) \in Trees
           /\ SetColor(t, n, c).child = t.child /\ SetColor(t, n, c).parent = t.parent
           /\ SetColor(t, n, c).root = t.root
           /\ \A k \in Nodes : SetColor(t, n, c).color[k] = IF k = n THEN c ELSE t.color[k]
BY Fields DEF SetColor, Trees

(***************************************************************************)
(* v in the place of u.                                                    *)
(***************************************************************************)
LEMMA ReplaceIs ==
    ASSUME NEW t \in Trees, NEW u \in Nodes, NEW v \in Nodes
    PROVE  LET s == ReplaceBelowParent(t, u, v)
               p == t.parent[u]
           IN  /\ s \in Trees /\ s.parent = t.parent /\ s.color = t.color
               /\ s.root = IF p = NULL THEN v ELSE t.root
               /\ \A k \in Nodes : \A e \in Sides :
                    s.child[k][e] = IF k = p /\ e = NodeSide(t, u) THEN v ELSE t.child[k][e]
<1> DEFINE s == ReplaceBelowParent(t, u, v)
           p == t.parent[u]
<1>1. p \in Pointers /\ v \in Pointers
  BY Fields DEF Pointers
<1>2. CASE p = NULL
  <2>1. s = [t EXCEPT !.root = v]
    BY <1>2 DEF ReplaceBelowParent
  <2>2. \A k \in Nodes : k # p
    BY <1>2, PointersAssumption DEF Nodes
  <2>3. QED
    BY <1>2, <2>1, <2>2 DEF Trees
<1>3. CASE p # NULL
  <2>1. s = SetChild(t, p, NodeSide(t, u), v)
    BY <1>3 DEF ReplaceBelowParent, NodeSide
  <2>2. p \in Nodes /\ NodeSide(t, u) \in Sides
    BY <1>1, <1>3, SideFacts DEF Pointers, NodeSide
  <2> DEFINE q == NodeSide(t, u)
  <2> HIDE DEF s, p, q
  <2>3. SetChild(t, p, q, v).root = t.root /\ SetChild(t, p, q, v) \in Trees
    BY <1>1, <2>2, SetChildIs DEF q
  <2>4. SetChild(t, p, q, v).parent = t.parent /\ SetChild(t, p, q, v).color = t.color
    BY <1>1, <2>2, SetChildIs DEF q
  <2>5. \A k \in Nodes : \A e \in Sides :
            SetChild(t, p, q, v).child[k][e] = IF k = p /\ e = q THEN v ELSE t.child[k][e]
    BY <1>1, <2>2, SetChildIs DEF q
  <2>6. QED
    BY <1>3, <2>1, <2>3, <2>4, <2>5 DEF s, p, q
<1>4. QED
  BY <1>2, <1>3

(***************************************************************************)
(* A process is a child of its parent, and of nobody else; the root has no *)
(* parent.                                                                 *)
(***************************************************************************)
LEMMA ParentIs ==
    ASSUME NEW t, NEW D, Shape(t, D), NEW n \in D[t.root]
    PROVE  /\ t.parent[n] = NULL <=> n = t.root
           /\ n # t.root => /\ t.parent[n] \in D[t.root] /\ t.parent[n] \in Nodes /\ t.parent[n] \notin D[n]
                            /\ t.child[t.parent[n]][NodeSide(t, n)] = n
                            /\ t.child[t.parent[n]][Opposite(NodeSide(t, n))] # n
                            /\ n \in D[t.parent[n]]
           /\ NodeSide(t, n) \in Sides
<1>1. t.root \in D[t.root] /\ t.parent[t.root] = NULL
  BY Typed
<1>2. NodeSide(t, n) \in Sides
  BY SideFacts DEF NodeSide
<1>3. CASE n # t.root
  <2> DEFINE p == t.parent[n]
  <2>1. p \in D[t.root] /\ \E d \in Sides : t.child[p][d] = n
    BY <1>1, <1>3, Nested
  <2>2. PICK d \in Sides : t.child[p][d] = n
    BY <2>1
  <2>3. n # NIL /\ p \in Nodes /\ p # NULL
    BY <2>1, Typed
  <2>4. n \in D[n] /\ p \notin D[n] /\ D[n] \cap D[t.child[p][Opposite(d)]] = {} /\ n \in D[p]
    BY <2>1, <2>2, <2>3, Children
  <2>5. t.child[p][Opposite(d)] # n
    BY <2>4
  <2>6. NodeSide(t, n) = d
    BY <2>2, <2>5, SideFacts DEF NodeSide, Sides
  <2>7. QED
    BY <1>2, <2>1, <2>2, <2>3, <2>4, <2>5, <2>6
<1>4. QED
  BY <1>1, <1>2, <1>3
(* The fields of u = rotate(t, x, d), y and z being the nodes that move.    *)
Stores(t, x, d, y, z, p, u) ==
    /\ u \in Trees /\ u.color = t.color
    /\ u.root = IF p = NULL THEN y ELSE t.root
    /\ \A n \in Nodes : \A e \in Sides : u.child[n][e] =
         IF n = x /\ e = Opposite(d) THEN z
         ELSE IF n = y /\ e = d THEN x
         ELSE IF n = p /\ e = NodeSide(t, x) THEN y ELSE t.child[n][e]
    /\ \A n \in Nodes : u.parent[n] =
         IF n = x THEN y ELSE IF n = y THEN p
         ELSE IF n = z /\ z # NIL THEN x ELSE t.parent[n]

(***************************************************************************)
(* What a rotation stores, on either side.                                 *)
(***************************************************************************)
LEMMA RotateStores ==
    ASSUME NEW t \in Trees, NEW x \in Nodes, NEW y \in Nodes, NEW z \in Nodes, NEW d \in Sides,
           y = t.child[x][Opposite(d)], z = t.child[y][d], x # y, z # y, z # x,
           NEW p, p = t.parent[x], p # x, p # y, NEW u, u = rotate(t, x, d)
    PROVE  Stores(t, x, d, y, z, p, u)
<1> DEFINE s == ReplaceBelowParent(t, x, y)
           o == Opposite(d)
           C == [s.child EXCEPT ![x][o] = z, ![y][d] = x]
           P == [s.parent EXCEPT ![z] = IF z = NIL THEN @ ELSE x, ![y] = p, ![x] = y]
<1>1. /\ s \in Trees /\ s.parent = t.parent /\ s.color = t.color
      /\ s.root = IF p = NULL THEN y ELSE t.root
      /\ \A k \in Nodes : \A e \in Sides :
            s.child[k][e] = IF k = p /\ e = NodeSide(t, x) THEN y ELSE t.child[k][e]
  BY ReplaceIs
<1>2. u = [s EXCEPT !.child[x][o] = z,
                  !.child[y][d] = x,
                  !.parent[z] = IF z = NIL THEN @ ELSE x,
                  !.parent[y] = p,
                  !.parent[x] = y]
  BY DEF rotate
<1> HIDE DEF s
<1>3. p \in Pointers /\ x \in Pointers /\ y \in Pointers /\ z \in Pointers /\ o \in Sides
  BY Fields, SideFacts DEF Pointers
<1>4. s.child \in [Nodes -> [Sides -> Pointers]] /\ s.parent \in [Nodes -> Pointers]
  BY <1>1, Fields
<1> HIDE DEF o
<1>5. C \in [Nodes -> [Sides -> Pointers]] /\ P \in [Nodes -> Pointers]
  BY <1>3, <1>4
<1>6. u \in Trees /\ u.child = C /\ u.parent = P /\ u.color = s.color /\ u.root = s.root
  <2>0. s \in Trees
    BY <1>1
  <2>1. u.child = C
    BY <1>2, <2>0 DEF Trees
  <2>2. u.parent = P
    BY <1>2, <2>0 DEF Trees
  <2>3. u.color = s.color /\ u.root = s.root
    BY <1>2, <2>0 DEF Trees
  <2>4. u \in Trees
    <3>1. u = [child |-> u.child, parent |-> u.parent, color |-> u.color, root |-> u.root]
      BY <1>2, <2>0 DEF Trees
    <3>2. s.color \in [Nodes -> {"RED", "BLACK"}] /\ s.root \in Nodes
      BY <1>1, Fields
    <3> HIDE DEF C, P
    <3>3. QED
      BY <1>5, <2>1, <2>2, <2>3, <3>1, <3>2 DEF Trees
  <2>5. QED
    BY <2>1, <2>2, <2>3, <2>4
<1>7. \A n \in Nodes : \A e \in Sides : C[n][e] =
                    IF n = x /\ e = o THEN z
                    ELSE IF n = y /\ e = d THEN x
                    ELSE s.child[n][e]
  BY <1>3, <1>4
<1>8. \A n \in Nodes : P[n] = IF n = x THEN y ELSE IF n = y THEN p
                    ELSE IF n = z /\ z # NIL THEN x ELSE s.parent[n]
  BY <1>3, <1>4
<1> HIDE DEF C, P
<1>9. \A n \in Nodes : \A e \in Sides : u.child[n][e] =
         IF n = x /\ e = o THEN z
         ELSE IF n = y /\ e = d THEN x
         ELSE IF n = p /\ e = NodeSide(t, x) THEN y ELSE t.child[n][e]
  BY <1>1, <1>6, <1>7
<1>10. \A n \in Nodes : u.parent[n] =
         IF n = x THEN y ELSE IF n = y THEN p
         ELSE IF n = z /\ z # NIL THEN x ELSE t.parent[n]
  BY <1>1, <1>6, <1>8
<1>11. u \in Trees /\ u.color = t.color /\ u.root = IF p = NULL THEN y ELSE t.root
  BY <1>1, <1>6
<1>12. QED
  BY <1>9, <1>10, <1>11 DEF Stores, o

(* u is t with the child y of x in x's place: what the proofs use of       *)
(* rotate().                                                               *)
RotatedLinks(child, parent, root, D, x, d, u) ==
    LET y == child[x][Opposite(d)]
        z == child[y][d]
    IN  /\ u \in Trees
        /\ u.root = IF x = root THEN y ELSE root
        /\ u.child[x][Opposite(d)] = z /\ u.child[x][d] = child[x][d]
        /\ u.child[y][d] = x /\ u.child[y][Opposite(d)] = child[y][Opposite(d)]
        /\ \A n \in D[root] \ {x, y} : \A e \in Sides :
              u.child[n][e] = IF child[n][e] = x THEN y ELSE child[n][e]
        /\ \A e \in Sides : u.child[NIL][e] = child[NIL][e]
        /\ u.parent[x] = y /\ u.parent[y] = parent[x]
        /\ \A n \in Nodes \ {x, y} : u.parent[n] = IF n = z /\ z # NIL THEN x ELSE parent[n]

(* The same for the fields of t.                                           *)
Rotated(t, D, x, d, u) == RotatedLinks(t.child, t.parent, t.root, D, x, d, u)

(***************************************************************************)
(* The nodes of a rotation are different.                                  *)
(***************************************************************************)
LEMMA RotationNodes ==
    ASSUME NEW t, NEW D, Shape(t, D), NEW x \in D[t.root], NEW d \in Sides,
           NEW y, y = t.child[x][Opposite(d)], y # NIL, NEW z, z = t.child[y][d]
    PROVE  /\ y \in D[t.root] /\ x \in Nodes /\ y \in Nodes /\ z \in Nodes
           /\ x # NIL /\ x # y /\ z # y /\ z # x /\ y \in D[x] /\ t.parent[y] = x
           /\ t.parent[x] # x /\ t.parent[x] # y
           /\ z # NIL => z \in D[y] /\ t.parent[z] = y /\ z \in D[t.root]
           /\ y # t.root /\ z # t.root
<1>1. Opposite(d) \in Sides
  BY SideFacts
<1>2. y \in D[t.root] /\ y \in D[x] /\ y \in D[y] /\ x \notin D[y] /\ t.parent[y] = x /\ x \in D[x] /\ D[y] \subseteq D[x]
  BY <1>1, BelowRoot, Children
<1>3. x \in Nodes /\ y \in Nodes /\ x # NIL
  BY <1>2, Typed
<1>4. z \in Nodes /\ y \notin D[z] /\ (z # NIL => z \in D[z] /\ t.parent[z] = y /\ z \in D[y] /\ z \in D[t.root])
  <2>1. y \in D[t.root]
    BY <1>2
  <2>2. z \in Nodes /\ y \notin D[z] /\ (z # NIL => z \in D[z] /\ t.parent[z] = y)
    BY <2>1, Children
  <2>3. D[z] \subseteq D[y] /\ (z # NIL => z \in D[t.root])
    BY <2>1, BelowRoot
  <2>4. QED
    BY <2>2, <2>3
<1>5. t.parent[x] \notin D[x]
  <2>1. CASE x = t.root
    BY <2>1, Typed
  <2>2. CASE x # t.root
    BY <2>2, ParentIs
  <2>3. QED
    BY <2>1, <2>2
<1>6. y # t.root /\ z # t.root
  <2>1. NULL # x /\ NULL # y
    BY <1>3, Typed
  <2>2. t.root \in D[t.root] /\ t.parent[t.root] = NULL
    BY Typed
  <2>3. QED
    BY <1>2, <1>4, <2>1, <2>2, Typed
<1>7. QED
  BY <1>2, <1>3, <1>4, <1>5, <1>6

(***************************************************************************)
(* leftRotate() and rightRotate() rotate.                                  *)
(***************************************************************************)
LEMMA RotateIs ==
    ASSUME NEW t, NEW D, Shape(t, D), NEW x \in D[t.root], NEW d \in Sides,
           t.child[x][Opposite(d)] # NIL
    PROVE  Rotated(t, D, x, d, rotate(t, x, d)) /\ rotate(t, x, d).color = t.color
<1> DEFINE y == t.child[x][Opposite(d)]
           z == t.child[y][d]
           p == t.parent[x]
           u == rotate(t, x, d)
<1>1. /\ y \in D[t.root] /\ x \in Nodes /\ y \in Nodes /\ z \in Nodes
      /\ x # NIL /\ y # NIL /\ x # y /\ z # y /\ z # x /\ p # x /\ p # y
  BY RotationNodes
<1>2. t \in Trees
  BY DEF Shape
<1>3. y = t.child[x][Opposite(d)] /\ z = t.child[y][d] /\ p = t.parent[x] /\ u = rotate(t, x, d)
  OBVIOUS
<1> HIDE DEF y, z, p, u
<1>4. /\ u \in Trees /\ u.color = t.color
      /\ u.root = IF p = NULL THEN y ELSE t.root
      /\ \A n \in Nodes : \A e \in Sides : u.child[n][e] =
            IF n = x /\ e = Opposite(d) THEN z
            ELSE IF n = y /\ e = d THEN x
            ELSE IF n = p /\ e = NodeSide(t, x) THEN y ELSE t.child[n][e]
      /\ \A n \in Nodes : u.parent[n] =
            IF n = x THEN y ELSE IF n = y THEN p
            ELSE IF n = z /\ z # NIL THEN x ELSE t.parent[n]
  <2>1. Stores(t, x, d, y, z, p, u)
    BY <1>3, <1>1, <1>2, RotateStores
  <2>2. QED
    BY <2>1 DEF Stores
<1>5. /\ p = NULL <=> x = t.root
      /\ x # t.root => /\ p \in D[t.root] /\ t.child[p][NodeSide(t, x)] = x
                       /\ t.child[p][Opposite(NodeSide(t, x))] # x
      /\ NodeSide(t, x) \in Sides
  BY <1>3, ParentIs
<1>6. \A n \in D[t.root] : \A e \in Sides : t.child[n][e] = x => n = p
  BY <1>3, <1>1, Children
<1>7. Opposite(d) \in Sides /\ Opposite(d) # d
  BY SideFacts
<1>8. /\ u.child[x][Opposite(d)] = z /\ u.child[x][d] = t.child[x][d]
      /\ u.child[y][d] = x /\ u.child[y][Opposite(d)] = t.child[y][Opposite(d)]
  BY <1>1, <1>4, <1>7
<1>9. ASSUME NEW n \in D[t.root] \ {x, y}, NEW e \in Sides
      PROVE  u.child[n][e] = IF t.child[n][e] = x THEN y ELSE t.child[n][e]
  <2>1. n \in Nodes /\ u.child[n][e] = IF n = p /\ e = NodeSide(t, x) THEN y ELSE t.child[n][e]
    BY <1>4, <1>9, Typed
  <2>2. CASE n = p
    <3>1. x # t.root
      BY <1>5, <2>1, <2>2, Typed
    <3>2. e = NodeSide(t, x) \/ e = Opposite(NodeSide(t, x))
      BY <1>5, SideFacts
    <3>3. QED
      BY <1>5, <2>1, <2>2, <3>1, <3>2
  <2>3. CASE n # p
    BY <1>6, <2>1, <2>3
  <2>4. QED
    BY <2>2, <2>3
<1>10. \A e \in Sides : u.child[NIL][e] = t.child[NIL][e]
  <2>1. NIL \in Nodes /\ p # NIL
    BY <1>5, Typed, PointersAssumption DEF Nodes
  <2>2. QED
    BY <1>1, <1>4, <2>1
<1>11. u.root = IF x = t.root THEN y ELSE t.root
  BY <1>4, <1>5
<1>12. /\ u.parent[x] = y /\ u.parent[y] = p
       /\ \A n \in Nodes \ {x, y} : u.parent[n] = IF n = z /\ z # NIL THEN x ELSE t.parent[n]
  BY <1>1, <1>4
<1>13. u \in Trees /\ u.color = t.color
  BY <1>4
<1>14. QED
  BY <1>8, <1>9, <1>10, <1>11, <1>12, <1>13 DEF Rotated, RotatedLinks, y, z, p, u
(* The subtrees after a rotation.                                          *)
Below(t, D, x, d) ==
    LET y == t.child[x][Opposite(d)]
    IN  [D EXCEPT ![y] = D[x], ![x] = {x} \cup D[t.child[x][d]] \cup D[t.child[y][d]]]

(***************************************************************************)
(* The search order is an order, from either side.                         *)
(***************************************************************************)
LEMMA BesideIs ==
    ASSUME NEW d \in Sides, NEW m \in Processes, NEW n \in Processes
    PROVE  /\ Beside(Opposite(d), m, n) => Beside(d, n, m)
           /\ \A k \in Processes : Beside(d, m, n) /\ Beside(d, n, k) => Beside(d, m, k)
<1>1. \A k \in Processes : PidOf[k] \in Nat
  BY PidsAssumption
<1>2. CASE d = "left"
  BY <1>1, <1>2, SideFacts DEF Beside
<1>3. CASE d = "right"
  BY <1>1, <1>3, SideFacts DEF Beside
<1>4. QED
  BY <1>2, <1>3 DEF Sides

(***************************************************************************)
(* A rotation keeps the tree a tree, of the same processes in order.       *)
(***************************************************************************)
LEMMA RotateKeeps ==
    ASSUME NEW t, NEW D, Shape(t, D), NEW x \in D[t.root], NEW d \in Sides,
           t.child[x][Opposite(d)] # NIL, NEW u, Rotated(t, D, x, d, u),
           NEW E, E = Below(t, D, x, d)
    PROVE  /\ Shape(u, E) /\ E[u.root] = D[t.root]
           /\ InOrder(t, D) => InOrder(u, E)
<1> DEFINE o == Opposite(d)
           y == t.child[x][o]
           z == t.child[y][d]
           a == t.child[x][d]
           b == t.child[y][o]
<1>1. o \in Sides /\ o # d /\ Opposite(o) = d /\ \A e \in Sides : e = d \/ e = o
  BY SideFacts
<1>2. /\ y \in D[t.root] /\ x \in Nodes /\ y \in Nodes /\ z \in Nodes /\ x # NIL /\ y # NIL
      /\ x # y /\ z # y /\ z # x /\ y \in D[x] /\ t.parent[y] = x
      /\ y # t.root /\ z # t.root
  BY RotationNodes
<1>3. /\ a \in Nodes /\ (a # NIL => a \in D[a] /\ t.parent[a] = x) /\ D[a] \cap D[y] = {}
      /\ D[x] = {x} \cup D[a] \cup D[y] /\ x \notin D[a] /\ x \notin D[y] /\ y \in D[y]
  <2>1. /\ a \in Nodes /\ (a # NIL => a \in D[a] /\ t.parent[a] = x) /\ D[a] \cap D[y] = {}
        /\ D[x] = {x} \cup D[a] \cup D[y] /\ x \notin D[a]
    BY Children
  <2>2. x \notin D[y] /\ y \in D[y]
    BY <1>1, <1>2, Children
  <2>3. QED
    BY <2>1, <2>2
<1>4. /\ b \in Nodes /\ (b # NIL => b \in D[b] /\ t.parent[b] = y) /\ D[z] \cap D[b] = {}
      /\ D[y] = {y} \cup D[z] \cup D[b] /\ y \notin D[z] /\ y \notin D[b]
      /\ z # NIL => z \in D[z] /\ t.parent[z] = y
  <2> HIDE DEF y
  <2>1. /\ z \in Nodes /\ (z # NIL => z \in D[z] /\ t.parent[z] = y) /\ D[z] \cap D[b] = {}
        /\ D[y] = {y} \cup D[z] \cup D[b] /\ y \notin D[z]
    BY <1>2, Children
  <2>2. b \in Nodes /\ (b # NIL => b \in D[b] /\ t.parent[b] = y) /\ y \notin D[b]
    BY <1>1, <1>2, Children
  <2>3. QED
    BY <2>1, <2>2
<1>5. /\ D \in [Nodes -> SUBSET Processes] /\ D[NIL] = {} /\ NIL \in Nodes /\ D[t.root] \subseteq Processes
      /\ \A n \in D[t.root] : n \in Nodes /\ n # NIL
  BY Typed DEF Shape, Nodes
<1>6. D[x] \in SUBSET Processes /\ ({x} \cup D[a] \cup D[z]) \in SUBSET Processes /\ D[x] \subseteq D[t.root]
  BY <1>2, <1>3, <1>4, <1>5, Typed, BelowRoot
<1>7. /\ u \in Trees
      /\ u.root = IF x = t.root THEN y ELSE t.root
      /\ u.child[x][o] = z /\ u.child[x][d] = a
      /\ u.child[y][d] = x /\ u.child[y][o] = b
      /\ \A n \in D[t.root] \ {x, y} : \A e \in Sides :
            u.child[n][e] = IF t.child[n][e] = x THEN y ELSE t.child[n][e]
      /\ u.parent[x] = y /\ u.parent[y] = t.parent[x]
      /\ \A n \in Nodes \ {x, y} : u.parent[n] = IF n = z /\ z # NIL THEN x ELSE t.parent[n]
  BY DEF Rotated, RotatedLinks
<1>8. E = [D EXCEPT ![y] = D[x], ![x] = {x} \cup D[a] \cup D[z]]
  BY DEF Below
<1>9. \A n \in D[t.root] : \A e \in Sides : t.child[n][e] # NIL => t.parent[t.child[n][e]] = n
  BY Children
<1>10. \A n \in D[t.root] : \A e \in Sides :
          /\ t.child[n][e] \in Nodes /\ D[n] = {n} \cup D[t.child[n][e]] \cup D[t.child[n][Opposite(e)]]
          /\ t.child[n][e] # NIL => t.child[n][e] \in D[t.child[n][e]]
          /\ n \notin D[t.child[n][e]]
          /\ D[t.child[n][e]] \cap D[t.child[n][Opposite(e)]] = {}
  BY Children
<1> HIDE DEF o, y, z, a, b
<1>11. /\ E \in [Nodes -> SUBSET Processes] /\ E[x] = {x} \cup D[a] \cup D[z] /\ E[y] = D[x]
       /\ \A n \in Nodes : n # x /\ n # y => E[n] = D[n]
  BY <1>2, <1>5, <1>6, <1>8
<1>12. a # x /\ a # y /\ b # x /\ b # y /\ (b # NIL => b # z) /\ (a # NIL => a # z) /\ (a # NIL => a # b)
  BY <1>2, <1>3, <1>4
<1>13. E[a] = D[a] /\ E[z] = D[z] /\ E[b] = D[b] /\ E[NIL] = {}
  BY <1>2, <1>3, <1>4, <1>5, <1>11, <1>12
<1>14. E[u.root] = D[t.root]
  <2>1. CASE x = t.root
    BY <1>7, <1>11, <2>1
  <2>2. CASE x # t.root
    <3>1. t.root \in Nodes
      BY Typed
    <3>2. QED
      BY <1>2, <1>7, <1>11, <2>2, <3>1
  <2>3. QED
    BY <2>1, <2>2
<1>15. ASSUME NEW n \in D[t.root] \ {x, y}, NEW e \in Sides
       PROVE  LET c == t.child[n][e]
                  v == u.child[n][e]
              IN  E[v] = D[c] /\ v \in Nodes /\ (v = NIL <=> c = NIL) /\ (v # NIL => v \in D[c] /\ u.parent[v] = n)
  <2> DEFINE c == t.child[n][e]
             v == u.child[n][e]
  <2>1. v = IF c = x THEN y ELSE c
    BY <1>7, <1>15
  <2>2. c \in Nodes /\ (c # NIL => c \in D[c] /\ t.parent[c] = n)
    BY <1>9, <1>10, <1>15
  <2> HIDE DEF c, v
  <2>3. c # y /\ (c # NIL => c # z)
    BY <1>2, <1>4, <1>15, <2>2
  <2>4. CASE c = x
    <3>1. v = y /\ E[v] = D[c] /\ v \in D[c] /\ u.parent[v] = n
      BY <1>2, <1>7, <1>11, <2>1, <2>2, <2>4
    <3>2. QED
      BY <1>2, <2>4, <3>1 DEF c, v
  <2>5. CASE c # x
    <3>1. v = c /\ E[c] = D[c]
      BY <1>11, <2>1, <2>2, <2>3, <2>5
    <3>2. c # NIL => u.parent[c] = t.parent[c]
      BY <1>7, <2>2, <2>3, <2>5
    <3>3. QED
      BY <2>2, <3>1, <3>2 DEF c, v
  <2>6. QED
    BY <2>4, <2>5
<1>16. ASSUME NEW n \in D[t.root], NEW e \in Sides PROVE Branch(u, E, n, e)
  <2>1. CASE n = x
    <3>1. a # NIL => u.parent[a] = x
      BY <1>3, <1>7, <1>12
    <3>2. z # NIL => u.parent[z] = x
      BY <1>2, <1>7
    <3>3. x \notin D[z] /\ D[a] \cap D[z] = {}
      BY <1>3, <1>4
    <3>4. CASE e = d
      <4>1. u.child[x][e] = a /\ u.child[x][Opposite(e)] = z
        BY <1>7, <3>4 DEF o
      <4>2. QED
        BY <1>3, <1>11, <1>13, <2>1, <3>1, <3>3, <4>1 DEF Branch
    <3>5. CASE e = o
      <4>1. u.child[x][e] = z /\ u.child[x][Opposite(e)] = a
        BY <1>1, <1>7, <3>5
      <4>2. QED
        BY <1>2, <1>4, <1>11, <1>13, <2>1, <3>2, <3>3, <4>1 DEF Branch
    <3>6. QED
      BY <1>1, <3>4, <3>5
  <2>2. CASE n = y
    <3>1. b # NIL => u.parent[b] = y
      BY <1>4, <1>7, <1>12
    <3>2. /\ E[y] = {y} \cup E[x] \cup D[b] /\ y \notin E[x] /\ E[x] \cap D[b] = {} /\ x \in E[x]
      BY <1>2, <1>3, <1>4, <1>11
    <3>4. CASE e = d
      <4>1. u.child[y][e] = x /\ u.child[y][Opposite(e)] = b
        BY <1>7, <3>4 DEF o
      <4>2. QED
        BY <1>2, <1>7, <1>13, <2>2, <3>2, <4>1 DEF Branch
    <3>5. CASE e = o
      <4>1. u.child[y][e] = b /\ u.child[y][Opposite(e)] = x
        BY <1>1, <1>7, <3>5
      <4>2. QED
        BY <1>4, <1>13, <2>2, <3>1, <3>2, <4>1 DEF Branch
    <3>6. QED
      BY <1>1, <3>4, <3>5
  <2>3. CASE n # x /\ n # y
    <3>1. Opposite(e) \in Sides
      BY SideFacts
    <3> DEFINE c == t.child[n][e]
               f == t.child[n][Opposite(e)]
               v == u.child[n][e]
               w == u.child[n][Opposite(e)]
    <3>2. E[v] = D[c] /\ v \in Nodes /\ (v # NIL => v \in D[c] /\ u.parent[v] = n)
      BY <1>15, <2>3
    <3>3. E[w] = D[f]
      BY <1>15, <2>3, <3>1
    <3>4. E[n] = D[n]
      BY <1>5, <1>11, <2>3
    <3>5. D[n] = {n} \cup D[c] \cup D[f] /\ n \notin D[c] /\ D[c] \cap D[f] = {}
      BY <1>10
    <3> HIDE DEF c, f
    <3>6. QED
      BY <3>2, <3>3, <3>4, <3>5 DEF Branch
  <2>4. QED
    BY <2>1, <2>2, <2>3
<1>17. u.root # NIL => u.root \in E[u.root] /\ u.parent[u.root] = NULL
  <2>1. CASE x = t.root
    BY <1>2, <1>7, <1>14, <2>1, Typed
  <2>2. CASE x # t.root
    <3>1. u.root = t.root /\ t.root \in Nodes
      BY <1>7, <2>2, Typed
    <3>2. u.parent[t.root] = t.parent[t.root]
      BY <1>2, <1>7, <2>2, <3>1
    <3>3. QED
      BY <1>14, <3>1, <3>2, Typed
  <2>3. QED
    BY <2>1, <2>2
<1>18. Shape(u, E)
  BY <1>7, <1>11, <1>13, <1>14, <1>16, <1>17 DEF Shape
<1>19. ASSUME InOrder(t, D), NEW n \in D[t.root], NEW e \in Sides, NEW m \in E[u.child[n][e]]
       PROVE  Beside(e, m, n)
  <2>0. \A k \in D[t.root] : \A f \in Sides : \A q \in D[t.child[k][f]] : Beside(f, q, k)
    BY <1>19 DEF InOrder
  <2>1. CASE n = x
    <3>1. CASE e = d
      <4>1. m \in D[t.child[x][d]]
        BY <1>7, <1>13, <2>1, <3>1 DEF a
      <4>2. QED
        BY <2>0, <2>1, <3>1, <4>1
    <3>2. CASE e = o
      <4>1. m \in D[t.child[x][o]]
        BY <1>4, <1>7, <1>13, <2>1, <3>2 DEF y
      <4>2. QED
        BY <2>0, <2>1, <3>2, <4>1
    <3>3. QED
      BY <1>1, <3>1, <3>2
  <2>2. CASE n = y
    <3>1. x \in Processes /\ y \in Processes
      BY <1>2, Typed
    <3>2. Beside(d, x, y)
      <4>1. Beside(o, y, x)
        BY <1>1, <1>3, <2>0 DEF y
      <4>2. QED
        BY <3>1, <4>1, BesideIs DEF o
    <3>3. CASE e = d
      <4>1. m \in {x} \cup D[a] \cup D[z]
        BY <1>7, <1>11, <2>2, <3>3
      <4>2. CASE m = x
        BY <2>2, <3>2, <3>3, <4>2
      <4>3. CASE m \in D[z]
        BY <1>2, <2>0, <2>2, <3>3, <4>3 DEF z
      <4>4. CASE m \in D[a]
        <5>1. Beside(d, m, x) /\ m \in Processes
          BY <1>6, <2>0, <4>4 DEF a
        <5>2. QED
          BY <2>2, <3>1, <3>2, <3>3, <5>1, BesideIs
      <4>5. QED
        BY <4>1, <4>2, <4>3, <4>4
    <3>4. CASE e = o
      <4>1. m \in D[t.child[y][o]]
        BY <1>7, <1>13, <2>2, <3>4 DEF b
      <4>2. QED
        BY <1>2, <2>0, <2>2, <3>4, <4>1
    <3>5. QED
      BY <1>1, <3>3, <3>4
  <2>3. CASE n # x /\ n # y
    <3>1. m \in D[t.child[n][e]]
      BY <1>15, <1>19, <2>3
    <3>2. QED
      BY <2>0, <3>1
  <2>4. QED
    BY <2>1, <2>2, <2>3
<1>20. QED
  BY <1>14, <1>18, <1>19 DEF InOrder
(***************************************************************************)
(* Colors have nothing to do with the shape.                               *)
(***************************************************************************)
LEMMA RecolorKeeps ==
    ASSUME NEW t, NEW D, Shape(t, D), NEW u \in Trees, u.child = t.child, u.parent = t.parent, u.root = t.root
    PROVE  Shape(u, D) /\ (InOrder(t, D) => InOrder(u, D))
BY DEF Shape, Branch, InOrder

(***************************************************************************)
(* A rotation of a tree that has just been recolored.                      *)
(***************************************************************************)
LEMMA RotateRecolored ==
    ASSUME NEW t, NEW D, Shape(t, D), NEW x \in D[t.root], NEW d \in Sides, t.child[x][Opposite(d)] # NIL,
           NEW v \in Trees, v.child = t.child, v.parent = t.parent, v.root = t.root,
           NEW u, u = rotate(v, x, d)
    PROVE  Rotated(t, D, x, d, u) /\ u.color = v.color
<1>1. Shape(v, D)
  BY RecolorKeeps
<1>2. Rotated(v, D, x, d, u) /\ u.color = v.color
  BY <1>1, RotateIs
<1>3. QED
  BY <1>2 DEF Rotated

(* The six places of a child after a rotation: below x or y, y in the      *)
(* place of x, or where it was.                                            *)
Place(t, x, d, n, e, v) ==
    LET y == t.child[x][Opposite(d)]
    IN  \/ n = x /\ e = d /\ v = t.child[x][d]
        \/ n = x /\ e = Opposite(d) /\ v = t.child[y][d]
        \/ n = y /\ e = d /\ v = x
        \/ n = y /\ e = Opposite(d) /\ v = t.child[y][Opposite(d)]
        \/ n \notin {x, y} /\ t.child[n][e] = x /\ v = y /\ n = t.parent[x]
        \/ n \notin {x, y} /\ v = t.child[n][e] /\ v \notin {x, y}
           /\ (v # NIL => v # t.child[y][Opposite(d)])

(***************************************************************************)
(* There are no others.                                                    *)
(***************************************************************************)
LEMMA Places ==
    ASSUME NEW t, NEW D, Shape(t, D), NEW x \in D[t.root], NEW d \in Sides, t.child[x][Opposite(d)] # NIL,
           NEW u, Rotated(t, D, x, d, u), NEW n \in D[t.root], NEW e \in Sides
    PROVE  Place(t, x, d, n, e, u.child[n][e])
<1> DEFINE y == t.child[x][Opposite(d)]
           v == u.child[n][e]
           c == t.child[n][e]
           b == t.child[y][Opposite(d)]
<1>1. e = d \/ e = Opposite(d)
  BY SideFacts
<1>2. n = x \/ n = y => Place(t, x, d, n, e, v)
  BY <1>1 DEF Rotated, RotatedLinks, Place
<1>3. CASE n \notin {x, y}
  <2>1. v = IF c = x THEN y ELSE c
    BY <1>3 DEF Rotated, RotatedLinks
  <2>2. y \in D[t.root] /\ t.parent[y] = x /\ x # NIL /\ y # NIL
    BY RotationNodes
  <2>3. c # NIL => t.parent[c] = n
    BY Children
  <2>4. b # NIL => t.parent[b] = y
    <3> HIDE DEF y
    <3>1. QED
      BY <2>2, Children, SideFacts
  <2>5. v # NIL => v # b \/ c = x
    BY <1>3, <2>1, <2>3, <2>4
  <2>6. c # y
    BY <1>3, <2>2, <2>3
  <2>7. c = x => n = t.parent[x]
    BY <2>2, <2>3
  <2> HIDE DEF c, v, b
  <2>8. CASE c = x
    BY <1>3, <2>1, <2>7, <2>8 DEF Place, c, v
  <2>9. CASE c # x
    <3>1. v = c /\ v \notin {x, y} /\ (v # NIL => v # b)
      BY <2>1, <2>5, <2>6, <2>9
    <3>2. QED
      BY <1>3, <3>1 DEF Place, c, v, b
  <2>10. QED
    BY <2>8, <2>9
<1>4. QED
  BY <1>2, <1>3
(***************************************************************************)
(* The nodes fixupInsert() works on: a red x below a red p below a black   *)
(* g, and the other child w of g.                                          *)
(***************************************************************************)
LEMMA InsertNodes ==
    ASSUME NEW t, NEW D, NEW h, NEW x, Shape(t, D), Inserting(t, D, h, x), InsertLoops(t, x),
           NEW p, p = t.parent[x], NEW g, g = t.parent[p], NEW d, d = ParentSide(t, x), NEW w, w = Uncle(t, x)
    PROVE  /\ p \in D[t.root] /\ g \in D[t.root] /\ p \in Nodes /\ g \in Nodes /\ w \in Nodes
           /\ d \in Sides /\ Opposite(d) \in Sides
           /\ t.child[g][d] = p /\ t.child[g][Opposite(d)] = w
           /\ x # p /\ x # g /\ p # g /\ p # NIL /\ g # NIL /\ x # NIL
           /\ w # p /\ w # g /\ w # x
           /\ t.color[x] = "RED" /\ t.color[p] = "RED" /\ t.color[g] = "BLACK"
           /\ \E e \in Sides : t.child[p][e] = x
           /\ w # NIL => t.parent[w] = g
<1>1. x \in D[t.root] /\ p # NULL /\ t.color[p] = "RED" /\ g # NULL /\ t.color[x] = "RED"
  BY DEF Inserting, InsertLoops
<1>2. /\ x # t.root /\ p \in D[t.root] /\ p \in Nodes /\ p \notin D[x]
      /\ t.child[p][NodeSide(t, x)] = x /\ NodeSide(t, x) \in Sides
  BY <1>1, ParentIs
<1>3. /\ p # t.root /\ g \in D[t.root] /\ g \in Nodes /\ g \notin D[p]
      /\ t.child[g][NodeSide(t, p)] = p /\ t.child[g][Opposite(NodeSide(t, p))] # p
      /\ NodeSide(t, p) \in Sides
  BY <1>1, <1>2, ParentIs
<1>4. d = NodeSide(t, p)
  BY DEF ParentSide, NodeSide
<1>5. w = t.child[g][Opposite(d)] /\ Opposite(d) \in Sides
  BY <1>3, <1>4, SideFacts DEF Uncle
<1>6. w \in Nodes /\ g \notin D[w] /\ (w # NIL => t.parent[w] = g)
  <2> DEFINE o == Opposite(d)
  <2>1. t.child[g][o] \in Nodes /\ g \notin D[t.child[g][o]] /\ (t.child[g][o] # NIL => t.parent[t.child[g][o]] = g)
    <3> HIDE DEF o
    <3>1. g \in D[t.root] /\ o \in Sides
      BY <1>3, <1>5 DEF o
    <3>2. QED
      BY <3>1, Children
  <2>2. QED
    BY <1>5, <2>1
<1>7. x \in D[x] /\ p \in D[p] /\ g \in D[g] /\ x # NIL /\ p # NIL /\ g # NIL
  BY <1>1, <1>2, <1>3, BelowRoot, Typed
<1>8. x \in D[p]
  BY <1>2, <1>7, Children
<1>9. x # p /\ x # g /\ p # g /\ w # p /\ w # g
  BY <1>2, <1>3, <1>4, <1>5, <1>6, <1>7, <1>8
<1>10. w # x
  BY <1>6, <1>7, <1>9
<1>11. t.color[g] = "BLACK"
  <2>1. t.color[g] \in {"RED", "BLACK"}
    BY <1>3, Fields DEF Shape
  <2>2. Reds(t, D, NULL, x)
    BY DEF Inserting
  <2>3. g # NULL /\ p # x
    BY <1>1, <1>9
  <2>4. QED
    BY <1>1, <1>3, <2>1, <2>2, <2>3 DEF Reds
<1>12. QED
  BY <1>1, <1>2, <1>3, <1>4, <1>5, <1>6, <1>7, <1>9, <1>10, <1>11

(***************************************************************************)
(* Colors are red or black, so that a weight is a natural number.          *)
(***************************************************************************)
LEMMA Weights ==
    ASSUME NEW t \in Trees, NEW h \in [Nodes -> Nat], NEW n \in Nodes
    PROVE  /\ h[n] \in Nat /\ Weight(t, h, n) \in Nat
           /\ t.color[n] = "RED" => Weight(t, h, n) = h[n]
           /\ t.color[n] = "BLACK" => Weight(t, h, n) = h[n] + 1
           /\ t.color[n] = "RED" \/ t.color[n] = "BLACK"
BY Fields DEF Weight

(***************************************************************************)
(* Case 1 of fixupInsert().                                                *)
(***************************************************************************)
LEMMA InsertRecolorKeeps ==
    ASSUME NEW D, NEW h, Certified(tree, fix, D, h), FixupInsertRecolor
    PROVE  \E E, k : Certified(tree', fix', E, k) /\ E[tree'.root] = D[tree.root]
<1> DEFINE t == tree
           u == tree'
           x == fix.node
           p == t.parent[x]
           g == t.parent[p]
           d == ParentSide(t, x)
           w == Uncle(t, x)
           v1 == SetColor(t, p, "BLACK")
           v2 == SetColor(v1, w, "BLACK")
           k == [h EXCEPT ![g] = h[g] + 1]
<1>1. /\ fix.op = "insert" /\ InsertLoops(t, x) /\ UncleIsRed(t, x)
      /\ u = SetColor(v2, g, "RED") /\ fix' = [fix EXCEPT !.node = g]
  BY DEF FixupInsertRecolor
<1>2. /\ Shape(t, D) /\ InOrder(t, D) /\ Sentinel(t) /\ Inserting(t, D, h, x)
      /\ fix = [op |-> "insert", node |-> x] /\ t \in Trees
  BY <1>1 DEF Certified, NoFix, Shape
<1>3. fix' = [op |-> "insert", node |-> g]
  BY <1>1, <1>2
<1>4. t.color[w] = "RED" /\ t.color[NIL] = "BLACK" /\ w # NIL
  BY <1>1, <1>2 DEF UncleIsRed, Sentinel
<1> HIDE DEF t, u, x, d, w, v1, v2
<1>5. /\ p \in D[t.root] /\ g \in D[t.root] /\ p \in Nodes /\ g \in Nodes /\ w \in Nodes
      /\ d \in Sides /\ Opposite(d) \in Sides
      /\ t.child[g][d] = p /\ t.child[g][Opposite(d)] = w
      /\ x # p /\ x # g /\ p # g /\ p # NIL /\ g # NIL /\ x # NIL
      /\ w # p /\ w # g /\ w # x
      /\ t.color[x] = "RED" /\ t.color[p] = "RED" /\ t.color[g] = "BLACK"
      /\ w # NIL => t.parent[w] = g
  BY <1>1, <1>2, InsertNodes DEF d, w
<1>6. \A n \in D[t.root] : \A e \in Sides : t.child[n][e] \in Nodes /\ (t.child[n][e] # NIL => t.parent[t.child[n][e]] = n)
  BY <1>2, Children
<1> HIDE DEF p, g
<1>7. /\ u \in Trees /\ u.child = t.child /\ u.parent = t.parent /\ u.root = t.root
      /\ \A n \in Nodes : u.color[n] = IF n = g THEN "RED" ELSE IF n \in {p, w} THEN "BLACK" ELSE t.color[n]
  <2>1. /\ v1 \in Trees /\ v1.child = t.child /\ v1.parent = t.parent /\ v1.root = t.root
        /\ \A n \in Nodes : v1.color[n] = IF n = p THEN "BLACK" ELSE t.color[n]
    BY <1>2, <1>5, SetColorIs DEF v1
  <2>2. /\ v2 \in Trees /\ v2.child = t.child /\ v2.parent = t.parent /\ v2.root = t.root
        /\ \A n \in Nodes : v2.color[n] = IF n = w THEN "BLACK" ELSE v1.color[n]
    BY <1>5, <2>1, SetColorIs DEF v2
  <2>3. /\ SetColor(v2, g, "RED") \in Trees /\ SetColor(v2, g, "RED").child = v2.child
        /\ SetColor(v2, g, "RED").parent = v2.parent /\ SetColor(v2, g, "RED").root = v2.root
        /\ \A n \in Nodes : SetColor(v2, g, "RED").color[n] = IF n = g THEN "RED" ELSE v2.color[n]
    BY <1>5, <2>2, SetColorIs
  <2>4. QED
    BY <1>1, <2>1, <2>2, <2>3
<1>8. Shape(u, D) /\ InOrder(u, D)
  BY <1>2, <1>7, RecolorKeeps
<1>9. NIL \in Nodes /\ \A n \in D[t.root] : n \in Nodes /\ n # NULL
  BY <1>2, Typed DEF Nodes
<1>10. Sentinel(u)
  BY <1>2, <1>4, <1>5, <1>7, <1>9 DEF Sentinel
<1>11. /\ h \in [Nodes -> Nat] /\ h[NIL] = 0
       /\ \A n \in D[t.root] : \A e \in Sides : h[n] = Weight(t, h, t.child[n][e])
  <2>1. Heights(t, D, h, NULL, "left")
    BY <1>2 DEF Inserting
  <2>2. h \in [Nodes -> Nat]
    BY <2>1 DEF Heights
  <2>3. ASSUME NEW n \in D[t.root], NEW e \in Sides PROVE h[n] = Weight(t, h, t.child[n][e])
    <3>1. h[n] = Weight(t, h, t.child[n][e]) + 0
      BY <1>9, <2>1 DEF Heights, Extra
    <3>2. Weight(t, h, t.child[n][e]) \in Nat
      BY <1>2, <1>6, <2>2, Weights
    <3>3. QED
      BY <3>1, <3>2
  <2>4. QED
    BY <2>1, <2>2, <2>3 DEF Heights
<1>12. k \in [Nodes -> Nat] /\ k[g] = h[g] + 1 /\ \A n \in Nodes : n # g => k[n] = h[n]
  BY <1>5, <1>11
<1> HIDE DEF k
<1>13. ASSUME NEW n \in D[t.root], NEW e \in Sides
       PROVE  k[n] = Weight(u, k, t.child[n][e])
  <2> DEFINE c == t.child[n][e]
  <2>1. c \in Nodes /\ n \in Nodes /\ (c # NIL => t.parent[c] = n) /\ h[n] = Weight(t, h, c)
    BY <1>6, <1>9, <1>11
  <2> HIDE DEF c
  <2>2. CASE n = g
    <3>1. c = p \/ c = w
      BY <1>5, <2>2, SideFacts DEF c
    <3>2. t.color[c] = "RED" /\ u.color[c] = "BLACK" /\ k[c] = h[c] /\ h[c] \in Nat
      BY <1>4, <1>5, <1>7, <1>11, <1>12, <3>1
    <3>3. QED
      BY <1>12, <2>1, <2>2, <3>2 DEF Weight, c
  <2>3. CASE n # g
    <3>1. c # p /\ c # w
      BY <1>4, <1>5, <2>1, <2>3 DEF g
    <3>2. CASE c = g
      <4>1. u.color[c] = "RED" /\ t.color[c] = "BLACK" /\ k[c] = h[c] + 1 /\ h[c] \in Nat
        BY <1>5, <1>7, <1>11, <1>12, <3>2
      <4>2. QED
        BY <1>12, <2>1, <2>3, <4>1 DEF Weight, c
    <3>3. CASE c # g
      <4>1. u.color[c] = t.color[c] /\ k[c] = h[c]
        BY <1>7, <1>12, <2>1, <3>1, <3>3
      <4>2. QED
        BY <1>12, <2>1, <2>3, <4>1 DEF Weight, c
    <3>4. QED
      BY <3>2, <3>3
  <2>4. QED
    BY <2>2, <2>3
<1>14. Heights(u, D, k, NULL, "left")
  <2>1. k[NIL] = 0
    BY <1>5, <1>9, <1>11, <1>12
  <2>2. ASSUME NEW n \in D[t.root], NEW e \in Sides
        PROVE  k[n] = Weight(u, k, u.child[n][e]) + Extra(n, e, NULL, "left")
    <3>1. Weight(u, k, t.child[n][e]) \in Nat
      BY <1>6, <1>7, <1>12, Weights
    <3>2. QED
      BY <1>7, <1>9, <1>13, <3>1 DEF Extra
  <2>3. QED
    BY <1>7, <1>12, <2>1, <2>2 DEF Heights
<1>15. ASSUME NEW n \in D[t.root], NEW e \in Sides, u.color[n] = "RED", u.color[t.child[n][e]] = "RED"
       PROVE  t.child[n][e] = g
  <2> DEFINE c == t.child[n][e]
  <2>1. c \in Nodes /\ n \in Nodes /\ (c # NIL => t.parent[c] = n)
    BY <1>6, <1>9
  <2>2. SUFFICES ASSUME c # g PROVE FALSE
    OBVIOUS
  <2> HIDE DEF c
  <2>3. c \notin {p, w} /\ t.color[c] = "RED" /\ n \notin {p, w}
    BY <1>5, <1>7, <1>15, <2>1, <2>2 DEF c
  <2>4. n # g
    BY <1>5, <2>3, SideFacts DEF c
  <2>5. t.color[n] = "RED"
    BY <1>7, <1>15, <2>1, <2>3, <2>4
  <2>6. c = x
    BY <1>2, <1>9, <1>15, <2>3, <2>5 DEF Inserting, Reds, c
  <2>7. QED
    BY <1>5, <2>1, <2>3, <2>6 DEF p
<1>16. Reds(u, D, NULL, g)
  BY <1>7, <1>15 DEF Reds
<1>17. Inserting(u, D, k, g)
  BY <1>5, <1>7, <1>14, <1>16 DEF Inserting
<1>18. Certified(u, fix', D, k) /\ D[u.root] = D[t.root]
  BY <1>3, <1>7, <1>8, <1>10, <1>17 DEF Certified
<1>19. QED
  BY <1>18 DEF u, t

(* What a rotation and the recoloring that goes with it must do to the     *)
(* counts: the four places below x and y are right, and y weighs in the    *)
(* place of x what x did.  Only x, y and the child of y that stays change  *)
(* color.                                                                  *)
Weighed(t, h, q, s, x, d, u, k, r, f) ==
    LET o == Opposite(d)
        y == t.child[x][o]
        b == t.child[y][o]
    IN  /\ k \in [Nodes -> Nat] /\ \A n \in Nodes : n \notin {x, y} => k[n] = h[n]
        /\ \A n \in Nodes : n \notin {x, y} /\ (n = b => b = NIL) => u.color[n] = t.color[n]
        /\ k[x] = Weight(u, k, t.child[x][d]) + Extra(x, d, r, f)
        /\ k[x] = Weight(u, k, t.child[y][d]) + Extra(x, o, r, f)
        /\ k[y] = Weight(u, k, x) + Extra(y, d, r, f)
        /\ k[y] = Weight(u, k, b) + Extra(y, o, r, f)
        /\ Weight(u, k, y) = Weight(t, h, x)
        /\ \A n \in Nodes, e \in Sides : n \notin {x, y} => Extra(n, e, r, f) = Extra(n, e, q, s)

(***************************************************************************)
(* Then the counts are right everywhere.                                   *)
(***************************************************************************)
LEMMA RotateHeights ==
    ASSUME NEW t, NEW D, NEW h, NEW q, NEW s, Shape(t, D), Heights(t, D, h, q, s),
           NEW x \in D[t.root], NEW d \in Sides, t.child[x][Opposite(d)] # NIL,
           NEW u, Rotated(t, D, x, d, u), NEW E, E = Below(t, D, x, d),
           NEW k, NEW r, NEW f, Weighed(t, h, q, s, x, d, u, k, r, f)
    PROVE  Heights(u, E, k, r, f)
<1> DEFINE o == Opposite(d)
           y == t.child[x][o]
           b == t.child[y][o]
<1>1. E[u.root] = D[t.root]
  BY RotateKeeps
<1>2. x \in Nodes /\ y \in Nodes /\ x # NIL /\ y # NIL /\ NIL \in Nodes
  BY RotationNodes DEF Nodes
<1>3. k \in [Nodes -> Nat] /\ k[NIL] = 0
  BY <1>2 DEF Weighed, Heights
<1>4. ASSUME NEW n \in D[t.root], NEW e \in Sides
      PROVE  k[n] = Weight(u, k, u.child[n][e]) + Extra(n, e, r, f)
  <2> DEFINE v == u.child[n][e]
             c == t.child[n][e]
  <2>1. Place(t, x, d, n, e, v)
    BY Places
  <2>2. n \in Nodes /\ c \in Nodes
    BY Typed, Children
  <2>3. h[n] = Weight(t, h, c) + Extra(n, e, q, s)
    BY DEF Heights
  <2> HIDE DEF v, c
  <2>4. CASE n = x /\ e = d /\ v = t.child[x][d]
    BY <2>4 DEF Weighed, v
  <2>5. CASE n = x /\ e = o /\ v = t.child[y][d]
    BY <2>5 DEF Weighed, v
  <2>6. CASE n = y /\ e = d /\ v = x
    BY <2>6 DEF Weighed, v
  <2>7. CASE n = y /\ e = o /\ v = b
    BY <2>7 DEF Weighed, v
  <2>8. CASE n \notin {x, y} /\ c = x /\ v = y
    <3>1. k[n] = h[n] /\ Extra(n, e, r, f) = Extra(n, e, q, s) /\ Weight(u, k, y) = Weight(t, h, x)
      BY <2>2, <2>8 DEF Weighed
    <3>2. QED
      BY <2>3, <2>8, <3>1 DEF v
  <2>9. CASE n \notin {x, y} /\ v = c /\ v \notin {x, y} /\ (v # NIL => v # b)
    <3>1. k[n] = h[n] /\ Extra(n, e, r, f) = Extra(n, e, q, s) /\ k[c] = h[c]
      BY <2>2, <2>9 DEF Weighed
    <3>2. u.color[c] = t.color[c]
      BY <2>2, <2>9 DEF Weighed
    <3>3. Weight(u, k, c) = Weight(t, h, c)
      BY <3>1, <3>2 DEF Weight
    <3>4. QED
      BY <2>3, <2>9, <3>1, <3>3 DEF v
  <2>10. QED
    BY <2>1, <2>4, <2>5, <2>6, <2>7, <2>8, <2>9 DEF Place, c
<1>5. QED
  BY <1>1, <1>3, <1>4 DEF Heights

(* The same for red below red, but for a and b before and a2 and b2 after. *)
Colored(t, a, b, x, d, u, a2, b2) ==
    LET o == Opposite(d)
        y == t.child[x][o]
        c == t.child[y][o]
        Fine(n, m) == u.color[n] = "RED" /\ u.color[m] = "RED" => n = a2 \/ m = b2
    IN  /\ \A n \in Nodes : n \notin {x, y} => u.color[n] = t.color[n] \/ u.color[n] = "BLACK"
        /\ u.color[y] = t.color[x]
        /\ Fine(x, t.child[x][d]) /\ Fine(x, t.child[y][d]) /\ Fine(y, x) /\ Fine(y, c)
        /\ \A n \in Nodes \ {x, y} : n = a => n = a2
        /\ \A n \in Nodes \ {x, y} : n = b => n = b2
        /\ x = b => y = b2

(***************************************************************************)
(* Then there is no red below red anywhere else.                           *)
(***************************************************************************)
LEMMA RotateReds ==
    ASSUME NEW t, NEW D, NEW a, NEW b, Shape(t, D), Reds(t, D, a, b),
           NEW x \in D[t.root], NEW d \in Sides, t.child[x][Opposite(d)] # NIL,
           NEW u, Rotated(t, D, x, d, u), NEW E, E = Below(t, D, x, d),
           NEW a2, NEW b2, Colored(t, a, b, x, d, u, a2, b2)
    PROVE  Reds(u, E, a2, b2)
<1> DEFINE o == Opposite(d)
           y == t.child[x][o]
           z == t.child[y][o]
<1>1. E[u.root] = D[t.root]
  BY RotateKeeps
<1>2. ASSUME NEW n \in D[t.root], NEW e \in Sides, u.color[n] = "RED", u.color[u.child[n][e]] = "RED"
      PROVE  n = a2 \/ u.child[n][e] = b2
  <2> DEFINE v == u.child[n][e]
             c == t.child[n][e]
  <2>1. Place(t, x, d, n, e, v)
    BY Places
  <2>2. n \in Nodes /\ c \in Nodes
    BY Typed, Children
  <2>3. t.color[n] = "RED" /\ t.color[c] = "RED" => n = a \/ c = b
    BY DEF Reds
  <2>4. u.color[v] = "RED"
    BY <1>2
  <2>5. n \notin {x, y} => t.color[n] = "RED"
    BY <1>2, <2>2 DEF Colored
  <2> HIDE DEF v, c
  <2>6. CASE n = x \/ n = y
    BY <1>2, <2>1, <2>4, <2>6 DEF Colored, Place, v
  <2>7. CASE n \notin {x, y} /\ c = x /\ v = y
    BY <2>2, <2>3, <2>4, <2>5, <2>7 DEF Colored, v
  <2>8. CASE n \notin {x, y} /\ v = c /\ v \notin {x, y}
    BY <2>2, <2>3, <2>4, <2>5, <2>8 DEF Colored, v
  <2>9. QED
    BY <2>1, <2>6, <2>7, <2>8 DEF Place, c, v
<1>3. QED
  BY <1>1, <1>2 DEF Reds

(***************************************************************************)
(* Without an extra count, a node's count is what a child weighs.          *)
(***************************************************************************)
LEMMA EvenHeights ==
    ASSUME NEW t, NEW D, NEW h, Shape(t, D), Heights(t, D, h, NULL, "left"), NEW n \in D[t.root], NEW e \in Sides
    PROVE  /\ h[n] = Weight(t, h, t.child[n][e])
           /\ t.color[t.child[n][e]] = "RED" => h[n] = h[t.child[n][e]]
           /\ t.color[t.child[n][e]] = "BLACK" => h[n] = h[t.child[n][e]] + 1
<1> DEFINE c == t.child[n][e]
<1>1. n # NULL /\ c \in Nodes /\ h \in [Nodes -> Nat] /\ t \in Trees
  BY Typed, Children DEF Heights, Shape
<1>2. h[n] = Weight(t, h, c) + 0
  BY <1>1 DEF Heights, Extra
<1> HIDE DEF c
<1>3. Weight(t, h, c) \in Nat /\ h[c] \in Nat
  BY <1>1, Weights
<1>4. QED
  BY <1>1, <1>2, <1>3, Weights DEF c

(***************************************************************************)
(* Case 2 of fixupInsert().                                                *)
(***************************************************************************)
LEMMA InsertInnerKeeps ==
    ASSUME NEW D, NEW h, Certified(tree, fix, D, h), FixupInsertInner
    PROVE  \E E, k : Certified(tree', fix', E, k) /\ E[tree'.root] = D[tree.root]
<1> DEFINE t == tree
           u == tree'
           x == fix.node
           p == t.parent[x]
           g == t.parent[p]
           d == ParentSide(t, x)
           w == Uncle(t, x)
           E == Below(t, D, p, d)
<1>1. /\ fix.op = "insert" /\ InsertLoops(t, x) /\ x = t.child[p][Opposite(d)]
      /\ u = rotate(t, p, d) /\ fix' = [fix EXCEPT !.node = p]
  BY DEF FixupInsertInner
<1>2. /\ Shape(t, D) /\ InOrder(t, D) /\ Sentinel(t) /\ Inserting(t, D, h, x)
      /\ fix = [op |-> "insert", node |-> x] /\ t \in Trees
  BY <1>1 DEF Certified, NoFix, Shape
<1>3. fix' = [op |-> "insert", node |-> p]
  BY <1>1, <1>2
<1> HIDE DEF t, u, x, d, w, E
<1>4. /\ p \in D[t.root] /\ p \in Nodes /\ d \in Sides /\ Opposite(d) \in Sides
      /\ x # p /\ p # NIL /\ x # NIL /\ t.color[x] = "RED" /\ t.color[p] = "RED"
  BY <1>1, <1>2, InsertNodes DEF d, w
<1> HIDE DEF p, g
<1>5. Rotated(t, D, p, d, u) /\ u.color = t.color
  BY <1>1, <1>2, <1>4, RotateIs
<1>6. Shape(u, E) /\ E[u.root] = D[t.root] /\ InOrder(u, E)
  BY <1>1, <1>2, <1>4, <1>5, RotateKeeps DEF E
<1>7. x \in D[t.root] /\ x \in Nodes /\ Heights(t, D, h, NULL, "left") /\ Reds(t, D, NULL, x) /\ h \in [Nodes -> Nat]
  BY <1>2, Typed DEF Inserting, Heights
<1> DEFINE a == t.child[p][d]
           b == t.child[x][Opposite(d)]
           z == t.child[x][d]
<1>8. h[p] = Weight(t, h, a) /\ h[p] = h[x] /\ h[x] = Weight(t, h, b) /\ h[x] = Weight(t, h, z)
  BY <1>1, <1>2, <1>4, <1>7, EvenHeights
<1>9. a # x /\ b # x /\ z # x
  <2>1. D[a] \cap D[x] = {} /\ x \in D[x]
    BY <1>1, <1>2, <1>4, <1>7, Children, BelowRoot
  <2>2. x \notin D[b] /\ x \notin D[z]
    BY <1>2, <1>4, <1>7, Children
  <2> HIDE DEF a, b, z
  <2>3. QED
    BY <2>1, <2>2
<1>10. Weighed(t, h, NULL, "left", p, d, u, h, NULL, "left")
  <2>1. \A n : Weight(u, h, n) = Weight(t, h, n)
    BY <1>5 DEF Weight
  <2>2. \A n \in D[t.root], e \in Sides : Extra(n, e, NULL, "left") = 0
    BY <1>2, Typed DEF Extra
  <2>3. Weight(t, h, p) = h[p] /\ h[p] \in Nat /\ h[x] \in Nat /\ Weight(t, h, x) = h[x]
    BY <1>2, <1>4, <1>7, Weights
  <2>4. h[p] = h[p] + 0 /\ h[x] = h[x] + 0
    BY <2>3
  <2> HIDE DEF a, b, z
  <2>5. /\ h[p] = Weight(u, h, a) + Extra(p, d, NULL, "left") /\ h[p] = Weight(u, h, z) + Extra(p, Opposite(d), NULL, "left")
        /\ h[x] = Weight(u, h, p) + Extra(x, d, NULL, "left") /\ h[x] = Weight(u, h, b) + Extra(x, Opposite(d), NULL, "left")
        /\ Weight(u, h, x) = Weight(t, h, p)
    BY <1>4, <1>7, <1>8, <2>1, <2>2, <2>3, <2>4
  <2>6. QED
    BY <1>1, <1>5, <1>7, <2>5 DEF Weighed, a, b, z
<1>11. Colored(t, NULL, x, p, d, u, NULL, p)
  <2>1. \A n \in D[t.root] : \A e \in Sides : t.color[n] = "RED" /\ t.color[t.child[n][e]] = "RED" => t.child[n][e] = x
    BY <1>2, <1>7, Typed DEF Reds
  <2>2. t.color[a] # "RED" /\ t.color[b] # "RED" /\ t.color[z] # "RED"
    BY <1>4, <1>7, <1>9, <2>1
  <2>3. \A n \in Nodes : n # NULL
    BY PointersAssumption DEF Nodes
  <2>4. QED
    BY <1>1, <1>4, <1>5, <2>2, <2>3 DEF Colored
<1>12. Heights(u, E, h, NULL, "left") /\ Reds(u, E, NULL, p)
  <2>1. Heights(u, E, h, NULL, "left")
    BY <1>1, <1>2, <1>4, <1>5, <1>7, <1>10, RotateHeights DEF E
  <2>2. Reds(u, E, NULL, p)
    BY <1>1, <1>2, <1>4, <1>5, <1>7, <1>11, RotateReds DEF E
  <2>3. QED
    BY <2>1, <2>2
<1>13. Sentinel(u)
  BY <1>2, <1>5 DEF Sentinel, Rotated, RotatedLinks
<1>14. Certified(u, fix', E, h)
  BY <1>3, <1>4, <1>5, <1>6, <1>12, <1>13 DEF Certified, Inserting
<1>15. QED
  BY <1>6, <1>14 DEF u, t

(***************************************************************************)
(* Case 3 of fixupInsert().                                                *)
(***************************************************************************)
LEMMA InsertOuterKeeps ==
    ASSUME NEW D, NEW h, Certified(tree, fix, D, h), FixupInsertOuter
    PROVE  \E E, k : Certified(tree', fix', E, k) /\ E[tree'.root] = D[tree.root]
<1> DEFINE t == tree
           u == tree'
           x == fix.node
           p == t.parent[x]
           g == t.parent[p]
           d == ParentSide(t, x)
           o == Opposite(d)
           w == Uncle(t, x)
           v1 == SetColor(t, p, "BLACK")
           v == SetColor(v1, g, "RED")
           E == Below(t, D, g, o)
<1>1. /\ fix.op = "insert" /\ InsertLoops(t, x) /\ ~UncleIsRed(t, x) /\ x # t.child[p][o]
      /\ u = rotate(v, g, o) /\ fix' = fix
  BY DEF FixupInsertOuter
<1>2. /\ Shape(t, D) /\ InOrder(t, D) /\ Sentinel(t) /\ Inserting(t, D, h, x)
      /\ fix = [op |-> "insert", node |-> x] /\ t \in Trees
  BY <1>1 DEF Certified, NoFix, Shape
<1>3. fix' = [op |-> "insert", node |-> x]
  BY <1>1, <1>2
<1>4. t.color[w] # "RED"
  BY <1>1, <1>2 DEF UncleIsRed, Sentinel
<1> HIDE DEF t, u, x, d, w, E, v, v1
<1>5. /\ p \in D[t.root] /\ g \in D[t.root] /\ p \in Nodes /\ g \in Nodes /\ w \in Nodes
      /\ d \in Sides /\ o \in Sides /\ t.child[g][d] = p /\ t.child[g][o] = w
      /\ x # p /\ x # g /\ p # g /\ p # NIL /\ g # NIL /\ x # NIL
      /\ t.color[x] = "RED" /\ t.color[p] = "RED" /\ t.color[g] = "BLACK"
      /\ w # p /\ w # g /\ \E e \in Sides : t.child[p][e] = x
  BY <1>1, <1>2, InsertNodes DEF d, w
<1>6. Opposite(o) = d /\ t.child[p][d] = x
  BY <1>1, <1>5, SideFacts
<1> HIDE DEF p, g, o
<1>7. /\ v \in Trees /\ v.child = t.child /\ v.parent = t.parent /\ v.root = t.root
      /\ \A n \in Nodes : v.color[n] = IF n = g THEN "RED" ELSE IF n = p THEN "BLACK" ELSE t.color[n]
  <2>1. /\ v1 \in Trees /\ v1.child = t.child /\ v1.parent = t.parent /\ v1.root = t.root
        /\ \A n \in Nodes : v1.color[n] = IF n = p THEN "BLACK" ELSE t.color[n]
    BY <1>2, <1>5, SetColorIs DEF v1
  <2>2. /\ v \in Trees /\ v.child = t.child /\ v.parent = t.parent /\ v.root = t.root
        /\ \A n \in Nodes : v.color[n] = IF n = g THEN "RED" ELSE v1.color[n]
    BY <1>5, <2>1, SetColorIs DEF v
  <2>3. QED
    BY <2>1, <2>2
<1>8. Rotated(t, D, g, o, u) /\ u.color = v.color
  BY <1>1, <1>2, <1>5, <1>6, <1>7, RotateRecolored
<1>9. Shape(u, E) /\ E[u.root] = D[t.root] /\ InOrder(u, E)
  BY <1>2, <1>5, <1>6, <1>8, RotateKeeps DEF E
<1>10. x \in D[t.root] /\ x \in Nodes /\ Heights(t, D, h, NULL, "left") /\ Reds(t, D, NULL, x) /\ h \in [Nodes -> Nat]
  BY <1>2, Typed DEF Inserting, Heights
<1> DEFINE z == t.child[p][o]
<1>11. h[g] = Weight(t, h, w) /\ h[g] = h[p] /\ h[p] = Weight(t, h, z) /\ h[p] = Weight(t, h, x)
  BY <1>2, <1>5, <1>6, <1>10, EvenHeights
<1>12. z \in Nodes /\ z # p /\ z # g
  <2>1. p = t.child[g][Opposite(o)]
    BY <1>5, <1>6
  <2>2. QED
    BY <1>2, <1>5, <2>1, RotationNodes
<1>13. Weighed(t, h, NULL, "left", g, o, u, h, NULL, "left")
  <2> HIDE DEF z
  <2>1. \A n \in Nodes : n # g /\ n # p => u.color[n] = t.color[n] /\ Weight(u, h, n) = Weight(t, h, n)
    BY <1>7, <1>8 DEF Weight
  <2>2. \A n \in D[t.root], e \in Sides : Extra(n, e, NULL, "left") = 0
    BY <1>2, Typed DEF Extra
  <2>3. h[p] \in Nat /\ h[g] \in Nat /\ Weight(t, h, g) = h[g] + 1
    BY <1>2, <1>5, <1>10, Weights
  <2>4. Weight(u, h, p) = h[p] + 1 /\ Weight(u, h, g) = h[g] /\ h[p] = h[p] + 0 /\ h[g] = h[g] + 0
    BY <1>5, <1>7, <1>8, <2>3 DEF Weight
  <2>5. /\ h[g] = Weight(u, h, w) + Extra(g, o, NULL, "left") /\ h[g] = Weight(u, h, z) + Extra(g, d, NULL, "left")
        /\ h[p] = Weight(u, h, g) + Extra(p, o, NULL, "left") /\ h[p] = Weight(u, h, x) + Extra(p, d, NULL, "left")
        /\ Weight(u, h, p) = Weight(t, h, g)
    BY <1>5, <1>10, <1>11, <1>12, <2>1, <2>2, <2>3, <2>4
  <2>6. QED
    BY <1>5, <1>6, <1>10, <2>1, <2>5 DEF Weighed, z
<1>14. Colored(t, NULL, x, g, o, u, NULL, x)
  <2>1. \A n \in D[t.root] : \A e \in Sides : t.color[n] = "RED" /\ t.color[t.child[n][e]] = "RED" => t.child[n][e] = x
    BY <1>2, <1>10, Typed DEF Reds
  <2>2. t.color[z] # "RED"
    BY <1>1, <1>5, <2>1
  <2>3. \A n \in Nodes : n # NULL
    BY PointersAssumption DEF Nodes
  <2> HIDE DEF z
  <2>4. u.color[w] # "RED" /\ u.color[z] # "RED" /\ u.color[p] = "BLACK" /\ t.color[g] = "BLACK"
    BY <1>4, <1>5, <1>7, <1>8, <1>12, <2>2
  <2>5. QED
    BY <1>5, <1>6, <1>7, <1>8, <2>3, <2>4 DEF Colored, z
<1>15. Heights(u, E, h, NULL, "left") /\ Reds(u, E, NULL, x)
  <2>1. Heights(u, E, h, NULL, "left")
    BY <1>2, <1>5, <1>6, <1>8, <1>10, <1>13, RotateHeights DEF E
  <2>2. Reds(u, E, NULL, x)
    BY <1>2, <1>5, <1>6, <1>8, <1>10, <1>14, RotateReds DEF E
  <2>3. QED
    BY <2>1, <2>2
<1>16. Sentinel(u) /\ u.color[x] = "RED"
  <2>1. u.color[NIL] = t.color[NIL] /\ u.color[x] = t.color[x]
    BY <1>5, <1>7, <1>8, <1>10 DEF Nodes
  <2>2. QED
    BY <1>2, <1>5, <1>8, <2>1 DEF Sentinel, Rotated, RotatedLinks
<1>17. Certified(u, fix', E, h)
  BY <1>3, <1>9, <1>10, <1>15, <1>16 DEF Certified, Inserting
<1>18. QED
  BY <1>9, <1>17 DEF u, t

(***************************************************************************)
(* The end of fixupInsert(): the root turns black.                         *)
(***************************************************************************)
LEMMA InsertEndsKeeps ==
    ASSUME NEW D, NEW h, Certified(tree, fix, D, h), FixupInsertEnds
    PROVE  \E E, k : Certified(tree', fix', E, k) /\ E[tree'.root] = D[tree.root]
<1> DEFINE t == tree
           u == tree'
           x == fix.node
           r == t.root
<1>1. fix.op = "insert" /\ ~InsertLoops(t, x) /\ u = SetColor(t, r, "BLACK") /\ fix' = NoFix
  BY DEF FixupInsertEnds
<1>2. /\ Shape(t, D) /\ InOrder(t, D) /\ Sentinel(t) /\ Inserting(t, D, h, x) /\ t \in Trees
  BY <1>1 DEF Certified, NoFix, Shape
<1> HIDE DEF t, u, x
<1>3. r \in Nodes /\ x \in D[r] /\ x \in Nodes /\ Heights(t, D, h, NULL, "left") /\ Reds(t, D, NULL, x) /\ h \in [Nodes -> Nat]
  BY <1>2, Typed DEF Inserting, Heights
<1>4. /\ SetColor(t, r, "BLACK") \in Trees /\ SetColor(t, r, "BLACK").child = t.child
      /\ SetColor(t, r, "BLACK").parent = t.parent /\ SetColor(t, r, "BLACK").root = t.root
      /\ \A n \in Nodes : SetColor(t, r, "BLACK").color[n] = IF n = r THEN "BLACK" ELSE t.color[n]
  BY <1>2, <1>3, SetColorIs
<1>5. /\ u \in Trees /\ u.child = t.child /\ u.parent = t.parent /\ u.root = t.root
      /\ \A n \in Nodes : u.color[n] = IF n = r THEN "BLACK" ELSE t.color[n]
  BY <1>1, <1>4
<1>6. Shape(u, D) /\ InOrder(u, D)
  BY <1>2, <1>5, RecolorKeeps
<1>7. Sentinel(u)
  BY <1>2, <1>5 DEF Sentinel, Nodes
<1>8. \A n \in D[r] : \A e \in Sides : /\ t.child[n][e] \in Nodes /\ t.child[n][e] # r /\ n \in Nodes /\ n # NULL
                                       /\ t.child[n][e] # NIL => t.parent[t.child[n][e]] = n
  <2>1. r # NIL => t.parent[r] = NULL
    BY <1>2, Typed
  <2>2. r # NIL
    BY <1>2, <1>3, Typed
  <2>3. QED
    BY <1>2, <2>1, <2>2, Typed, Children
<1>9. Heights(u, D, h, NULL, "left")
  BY <1>3, <1>5, <1>8 DEF Heights, Weight
<1>10. ASSUME NEW n \in D[r], NEW e \in Sides, u.color[n] = "RED", u.color[t.child[n][e]] = "RED" PROVE FALSE
  <2>1. n # r /\ t.color[n] = "RED" /\ t.color[t.child[n][e]] = "RED"
    BY <1>5, <1>8, <1>10
  <2>2. t.child[n][e] = x
    BY <1>3, <1>8, <2>1 DEF Reds
  <2>3. t.parent[x] = n
    BY <1>2, <1>3, <1>8, <2>2, Typed
  <2>4. t.parent[n] # NULL
    BY <1>2, <2>1, ParentIs
  <2>5. QED
    BY <1>1, <1>8, <2>1, <2>3, <2>4 DEF InsertLoops
<1>11. Reds(u, D, NULL, NULL)
  BY <1>5, <1>10 DEF Reds
<1>12. Certified(u, fix', D, h) /\ D[u.root] = D[t.root]
  BY <1>1, <1>3, <1>5, <1>6, <1>7, <1>9, <1>11 DEF Certified, Balanced
<1>13. QED
  BY <1>12 DEF u, t

(***************************************************************************)
(* The nodes rbDeleteFixup() works on: x, which may be NIL, is short of a  *)
(* black node, so that its sibling w cannot be NIL; nothing is red below   *)
(* red while x is black.                                                   *)
(***************************************************************************)
LEMMA DeleteNodes ==
    ASSUME NEW t, NEW D, NEW h, NEW x, Shape(t, D), Sentinel(t), Deleting(t, D, h, x), DeleteLoops(t, x),
           NEW p, p = t.parent[x], NEW s, s = NodeSide(t, x), NEW w, w = Sibling(t, x)
    PROVE  /\ x \in Nodes /\ p \in D[t.root] /\ p \in Nodes /\ w \in D[t.root] /\ w \in Nodes
           /\ s \in Sides /\ Opposite(s) \in Sides /\ Opposite(s) # s
           /\ t.child[p][s] = x /\ t.child[p][Opposite(s)] = w
           /\ p # NIL /\ w # NIL /\ x # p /\ x # w /\ p # w /\ t.parent[w] = p /\ w # t.root
           /\ Heights(t, D, h, p, s) /\ Reds(t, D, NULL, NULL) /\ t.color[t.root] = "BLACK"
           /\ h[p] = h[x] + 2 /\ h[p] = Weight(t, h, w) /\ t.color[x] = "BLACK"
<1>1. /\ x # t.root /\ t.color[x] = "BLACK" /\ x \in D[t.root] \cup {NIL} /\ t.color[t.root] = "BLACK"
      /\ p \in D[t.root] /\ \E e \in Sides : t.child[p][e] = x /\ Heights(t, D, h, p, e)
  BY DEF Deleting, DeleteLoops
<1>2. PICK e \in Sides : t.child[p][e] = x /\ Heights(t, D, h, p, e)
  BY <1>1
<1> DEFINE o == Opposite(e)
           c == t.child[p][o]
<1>3. o \in Sides /\ o # e /\ t \in Trees /\ h \in [Nodes -> Nat] /\ h[NIL] = 0
  BY <1>2, SideFacts DEF Shape, Heights
<1>4. x \in Nodes /\ p \in Nodes /\ p # NIL /\ c \in Nodes
  <2> HIDE DEF o
  <2>1. QED
    BY <1>1, <1>2, <1>3, Typed, Children
<1>5. h[p] = Weight(t, h, x) + 1 /\ h[p] = Weight(t, h, c) + 0
  <2> HIDE DEF o
  <2>1. h[p] = Weight(t, h, t.child[p][e]) + Extra(p, e, p, e)
    BY <1>1, <1>2 DEF Heights
  <2>2. h[p] = Weight(t, h, t.child[p][o]) + Extra(p, o, p, e)
    BY <1>1, <1>2, <1>3 DEF Heights
  <2>3. QED
    BY <1>2, <1>3, <2>1, <2>2 DEF Extra
<1> HIDE DEF c
<1>6. h[x] \in Nat /\ Weight(t, h, c) \in Nat /\ Weight(t, h, x) = h[x] + 1
  BY <1>1, <1>3, <1>4, Weights
<1>7. h[p] = h[x] + 2 /\ h[p] = Weight(t, h, c) /\ c # x
  BY <1>5, <1>6
<1>8. c # NIL
  BY <1>3, <1>6, <1>7 DEF Sentinel, Weight
<1>9. s = e
  BY <1>2, <1>7, SideFacts DEF NodeSide, c, Sides
<1>10. w = c
  BY <1>9 DEF Sibling, c
<1>11. c \in D[c] /\ t.parent[c] = p /\ c \in D[t.root] /\ p \notin D[c]
  <2> HIDE DEF o
  <2>1. QED
    BY <1>1, <1>3, <1>8, Children, BelowRoot DEF c
<1>12. c # p /\ c # t.root
  BY <1>1, <1>4, <1>11, Typed
<1>13. x # p
  <2>1. x # NIL => p \notin D[x] /\ x \in D[x]
    BY <1>1, <1>2, Children
  <2>2. QED
    BY <1>4, <2>1
<1>14. Reds(t, D, NULL, NULL)
  BY <1>1 DEF Deleting, Reds
<1>15. QED
  BY <1>1, <1>2, <1>3, <1>4, <1>7, <1>8, <1>9, <1>10, <1>11, <1>12, <1>13, <1>14 DEF c

(***************************************************************************)
(* Away from the extra count, a node's count is what a child weighs.       *)
(***************************************************************************)
LEMMA OtherHeights ==
    ASSUME NEW t, NEW D, NEW h, NEW q, NEW s, Shape(t, D), Heights(t, D, h, q, s), NEW n \in D[t.root], n # q, NEW e \in Sides
    PROVE  /\ h[n] = Weight(t, h, t.child[n][e])
           /\ t.color[t.child[n][e]] = "RED" => h[n] = h[t.child[n][e]]
           /\ t.color[t.child[n][e]] = "BLACK" => h[n] = h[t.child[n][e]] + 1
<1> DEFINE c == t.child[n][e]
<1>1. c \in Nodes /\ h \in [Nodes -> Nat] /\ t \in Trees
  BY Children DEF Heights, Shape
<1>2. h[n] = Weight(t, h, c) + 0
  BY DEF Heights, Extra
<1> HIDE DEF c
<1>3. Weight(t, h, c) \in Nat /\ h[c] \in Nat
  BY <1>1, Weights
<1>4. QED
  BY <1>1, <1>2, <1>3, Weights DEF c

(* v is t with the colors c at m and then e at n.                          *)
Painted(t, m, c, n, e, v) ==
    /\ v \in Trees /\ v.child = t.child /\ v.parent = t.parent /\ v.root = t.root
    /\ \A k \in Nodes : v.color[k] = IF k = n THEN e ELSE IF k = m THEN c ELSE t.color[k]

(***************************************************************************)
(* Two nodes are recolored.                                                *)
(***************************************************************************)
LEMMA TwoColors ==
    ASSUME NEW t \in Trees, NEW m \in Nodes, NEW n \in Nodes, NEW c, c = "RED" \/ c = "BLACK", NEW e, e = "RED" \/ e = "BLACK"
    PROVE  Painted(t, m, c, n, e, SetColor(SetColor(t, m, c), n, e))
<1> DEFINE v1 == SetColor(t, m, c)
<1>1. /\ v1 \in Trees /\ v1.child = t.child /\ v1.parent = t.parent /\ v1.root = t.root
      /\ \A k \in Nodes : v1.color[k] = IF k = m THEN c ELSE t.color[k]
  BY Fields DEF SetColor, Trees
<1> HIDE DEF v1
<1> DEFINE v == SetColor(v1, n, e)
<1>2. /\ v \in Trees /\ v.child = v1.child /\ v.parent = v1.parent /\ v.root = v1.root
      /\ \A k \in Nodes : v.color[k] = IF k = n THEN e ELSE v1.color[k]
  BY <1>1, Fields DEF SetColor, Trees
<1> HIDE DEF v
<1>3. v = SetColor(SetColor(t, m, c), n, e)
  BY DEF v, v1
<1>4. QED
  BY <1>1, <1>2, <1>3 DEF Painted

(***************************************************************************)
(* Case 1 of rbDeleteFixup().                                              *)
(***************************************************************************)
LEMMA DeleteRedSiblingKeeps ==
    ASSUME NEW D, NEW h, Certified(tree, fix, D, h), DeleteFixupRedSibling
    PROVE  \E E, k : Certified(tree', fix', E, k) /\ E[tree'.root] = D[tree.root]
<1> DEFINE t == tree
           u == tree'
           x == fix.node
           p == t.parent[x]
           s == NodeSide(t, x)
           o == Opposite(s)
           w == Sibling(t, x)
           v == SetColor(SetColor(t, w, "BLACK"), p, "RED")
           E == Below(t, D, p, s)
<1>1. /\ fix.op = "delete" /\ DeleteLoops(t, x) /\ t.color[w] = "RED"
      /\ u = rotate(v, p, s) /\ fix' = fix
  BY DEF DeleteFixupRedSibling, InDeleteLoop
<1>2. /\ Shape(t, D) /\ InOrder(t, D) /\ Sentinel(t) /\ Deleting(t, D, h, x)
      /\ fix = [op |-> "delete", node |-> x] /\ t \in Trees
  BY <1>1 DEF Certified, NoFix, Shape
<1>3. fix' = [op |-> "delete", node |-> x]
  BY <1>1, <1>2
<1>4. p = t.parent[x] /\ s = NodeSide(t, x) /\ w = Sibling(t, x) /\ v = SetColor(SetColor(t, w, "BLACK"), p, "RED")
  OBVIOUS
<1> HIDE DEF t, u, x, p, s, w, v, E
<1>5. /\ x \in Nodes /\ p \in D[t.root] /\ p \in Nodes /\ w \in D[t.root] /\ w \in Nodes
      /\ s \in Sides /\ o \in Sides /\ o # s
      /\ t.child[p][s] = x /\ t.child[p][o] = w
      /\ p # NIL /\ w # NIL /\ x # p /\ x # w /\ p # w /\ t.parent[w] = p /\ w # t.root
      /\ Heights(t, D, h, p, s) /\ Reds(t, D, NULL, NULL) /\ t.color[t.root] = "BLACK"
      /\ h[p] = h[x] + 2 /\ h[p] = Weight(t, h, w) /\ t.color[x] = "BLACK"
  BY <1>1, <1>2, <1>4, DeleteNodes
<1>6. /\ v \in Trees /\ v.child = t.child /\ v.parent = t.parent /\ v.root = t.root
      /\ \A n \in Nodes : v.color[n] = IF n = p THEN "RED" ELSE IF n = w THEN "BLACK" ELSE t.color[n]
  <2>1. Painted(t, w, "BLACK", p, "RED", v)
    BY <1>2, <1>4, <1>5, TwoColors
  <2>2. QED
    BY <2>1 DEF Painted
<1>7. Rotated(t, D, p, s, u) /\ u.color = v.color
  BY <1>1, <1>2, <1>5, <1>6, RotateRecolored
<1>8. Shape(u, E) /\ E[u.root] = D[t.root] /\ InOrder(u, E)
  BY <1>2, <1>5, <1>7, RotateKeeps DEF E
<1> DEFINE z == t.child[w][s]
           b == t.child[w][o]
<1>9. /\ h[w] = Weight(t, h, z) /\ h[w] = Weight(t, h, b)
  BY <1>2, <1>5, OtherHeights
<1>10. z \in Nodes /\ b \in Nodes /\ z # p /\ z # w /\ b # p /\ b # w /\ (z # NIL => t.parent[z] = w)
  <2>1. z \in Nodes /\ z # p /\ z # w /\ (z # NIL => t.parent[z] = w)
    BY <1>2, <1>5, RotationNodes
  <2>2. b \in Nodes /\ w \notin D[b] /\ w \in D[w] /\ (b # NIL => t.parent[b] = w)
    <3> HIDE DEF o
    <3>1. QED
      BY <1>2, <1>5, Children, BelowRoot
  <2>3. b # p
    <3>1. t.parent[p] # w
      BY <1>2, <1>5, RotationNodes
    <3>2. QED
      BY <1>5, <2>2, <3>1
  <2>4. QED
    BY <1>5, <2>1, <2>2, <2>3
<1>11. \A n \in D[t.root] : \A e \in Sides : ~(t.color[n] = "RED" /\ t.color[t.child[n][e]] = "RED")
  <2>1. \A n \in D[t.root] : \A e \in Sides : n # NULL /\ t.child[n][e] # NULL
    BY <1>2, Typed, Children
  <2>2. QED
    BY <1>5, <2>1 DEF Reds
<1>12. t.color[p] = "BLACK" /\ t.color[z] # "RED"
  <2>1. t.color[p] # "RED"
    BY <1>1, <1>5, <1>11
  <2>2. QED
    BY <1>1, <1>2, <1>5, <1>11, <2>1, Fields
<1>13. h \in [Nodes -> Nat] /\ h[p] \in Nat /\ h[w] \in Nat /\ h[x] \in Nat
  BY <1>5 DEF Heights
<1> HIDE DEF z, b, o
<1>14. \A n \in Nodes : n # p /\ n # w => u.color[n] = t.color[n] /\ Weight(u, h, n) = Weight(t, h, n)
  BY <1>6, <1>7 DEF Weight
<1>15. /\ Weight(u, h, p) = h[p] /\ Weight(u, h, w) = h[w] + 1 /\ h[p] = h[w]
       /\ Weight(t, h, x) = h[x] + 1 /\ Weight(t, h, p) = h[p] + 1
  BY <1>1, <1>5, <1>6, <1>7, <1>12, <1>13 DEF Weight
<1>16. Weighed(t, h, p, s, p, s, u, h, p, s)
  <2>1. /\ Extra(p, s, p, s) = 1 /\ Extra(p, o, p, s) = 0 /\ Extra(w, s, p, s) = 0 /\ Extra(w, o, p, s) = 0
    BY <1>5 DEF Extra
  <2>2. /\ h[p] = Weight(u, h, x) + Extra(p, s, p, s) /\ h[p] = Weight(u, h, z) + Extra(p, o, p, s)
        /\ h[w] = Weight(u, h, p) + Extra(w, s, p, s) /\ h[w] = Weight(u, h, b) + Extra(w, o, p, s)
        /\ Weight(u, h, w) = Weight(t, h, p)
    <3>1. Weight(u, h, x) = h[x] + 1 /\ Weight(u, h, z) = h[w] /\ Weight(u, h, b) = h[w]
      BY <1>5, <1>9, <1>10, <1>14, <1>15
    <3>2. QED
      BY <1>5, <1>13, <1>15, <2>1, <3>1
  <2>3. QED
    BY <1>5, <1>13, <1>14, <2>2 DEF Weighed, z, b, o
<1>17. Colored(t, NULL, NULL, p, s, u, x, x)
  <2>1. u.color[w] = "BLACK" /\ u.color[z] # "RED" /\ \A n \in Nodes : n # NULL
    BY <1>5, <1>6, <1>7, <1>10, <1>12, PointersAssumption DEF Nodes
  <2>2. QED
    BY <1>5, <1>12, <1>14, <2>1 DEF Colored, z, b, o
<1>18. Heights(u, E, h, p, s)
  BY <1>2, <1>5, <1>7, <1>16, RotateHeights DEF E, o
<1>19. Reds(u, E, x, x)
  BY <1>2, <1>5, <1>7, <1>17, RotateReds DEF E, o
<1>20. Sentinel(u)
  <2>1. u.color[NIL] = t.color[NIL]
    BY <1>5, <1>14 DEF Nodes
  <2>2. QED
    BY <1>2, <1>7, <2>1 DEF Sentinel, Rotated, RotatedLinks
<1>21. /\ u.root = IF p = t.root THEN w ELSE t.root
       /\ u.child[p][s] = x /\ u.parent[x] = p
  <2>1. u.parent[x] = IF x = z /\ z # NIL THEN p ELSE t.parent[x]
    BY <1>5, <1>7 DEF Rotated, RotatedLinks, o, z
  <2>2. QED
    BY <1>4, <1>5, <1>7, <2>1 DEF Rotated, RotatedLinks, o
<1>22. u.color[u.root] = "BLACK" /\ x # u.root
  <2>1. CASE p = t.root
    BY <1>5, <1>6, <1>7, <1>21, <2>1
  <2>2. CASE p # t.root
    <3>1. x # t.root /\ t.root \in Nodes
      BY <1>1, <1>2, Fields DEF DeleteLoops
    <3>2. QED
      BY <1>5, <1>14, <1>21, <2>2, <3>1
  <2>3. QED
    BY <2>1, <2>2
<1>23. Deleting(u, E, h, x)
  <2>1. x \in D[t.root] \cup {NIL}
    BY <1>2 DEF Deleting
  <2>2. QED
    BY <1>5, <1>8, <1>18, <1>19, <1>21, <1>22, <2>1 DEF Deleting
<1>24. Certified(u, fix', E, h)
  BY <1>3, <1>8, <1>20, <1>23 DEF Certified
<1>25. QED
  BY <1>8, <1>24 DEF u, t

(***************************************************************************)
(* Case 2 of rbDeleteFixup().                                              *)
(***************************************************************************)
LEMMA DeleteMovesUpKeeps ==
    ASSUME NEW D, NEW h, Certified(tree, fix, D, h), DeleteFixupMovesUp
    PROVE  \E E, k : Certified(tree', fix', E, k) /\ E[tree'.root] = D[tree.root]
<1> DEFINE t == tree
           u == tree'
           x == fix.node
           p == t.parent[x]
           s == NodeSide(t, x)
           o == Opposite(s)
           w == Sibling(t, x)
           z == t.child[w][s]
           b == t.child[w][o]
           k == [h EXCEPT ![p] = h[p] - 1]
<1>1. /\ fix.op = "delete" /\ DeleteLoops(t, x) /\ t.color[w] = "BLACK"
      /\ t.color[z] = "BLACK" /\ t.color[b] = "BLACK"
      /\ u = SetColor(t, w, "RED") /\ fix' = [fix EXCEPT !.node = p]
  BY DEF DeleteFixupMovesUp, InDeleteLoop, InnerNephew, OuterNephew
<1>2. /\ Shape(t, D) /\ InOrder(t, D) /\ Sentinel(t) /\ Deleting(t, D, h, x)
      /\ fix = [op |-> "delete", node |-> x] /\ t \in Trees
  BY <1>1 DEF Certified, NoFix, Shape
<1>3. fix' = [op |-> "delete", node |-> p]
  BY <1>1, <1>2
<1>4. p = t.parent[x] /\ s = NodeSide(t, x) /\ w = Sibling(t, x)
  OBVIOUS
<1> HIDE DEF t, u, x, p, s, w
<1>5. /\ x \in Nodes /\ p \in D[t.root] /\ p \in Nodes /\ w \in D[t.root] /\ w \in Nodes
      /\ s \in Sides /\ o \in Sides /\ o # s
      /\ t.child[p][s] = x /\ t.child[p][o] = w
      /\ p # NIL /\ w # NIL /\ x # p /\ x # w /\ p # w /\ t.parent[w] = p /\ w # t.root
      /\ Heights(t, D, h, p, s) /\ Reds(t, D, NULL, NULL) /\ t.color[t.root] = "BLACK"
      /\ h[p] = h[x] + 2 /\ h[p] = Weight(t, h, w) /\ t.color[x] = "BLACK"
  BY <1>1, <1>2, <1>4, DeleteNodes
<1>6. /\ u \in Trees /\ u.child = t.child /\ u.parent = t.parent /\ u.root = t.root
      /\ \A n \in Nodes : u.color[n] = IF n = w THEN "RED" ELSE t.color[n]
  <2>1. /\ SetColor(t, w, "RED") \in Trees /\ SetColor(t, w, "RED").child = t.child
        /\ SetColor(t, w, "RED").parent = t.parent /\ SetColor(t, w, "RED").root = t.root
        /\ \A n \in Nodes : SetColor(t, w, "RED").color[n] = IF n = w THEN "RED" ELSE t.color[n]
    BY <1>2, <1>5, SetColorIs
  <2>2. QED
    BY <1>1, <2>1
<1>7. Shape(u, D) /\ InOrder(u, D)
  BY <1>2, <1>6, RecolorKeeps
<1>8. NIL \in Nodes /\ \A n \in D[t.root] : n \in Nodes /\ n # NULL
  BY <1>2, Typed DEF Nodes
<1>9. Sentinel(u)
  BY <1>2, <1>5, <1>6, <1>8 DEF Sentinel
<1>10. h \in [Nodes -> Nat] /\ h[NIL] = 0 /\ h[x] \in Nat /\ h[w] \in Nat /\ h[p] \in Nat
  BY <1>5 DEF Heights
<1>11. h[p] = h[w] + 1 /\ h[p] - 1 = h[w] /\ h[p] - 1 = h[x] + 1 /\ h[p] - 1 \in Nat
  BY <1>1, <1>5, <1>10 DEF Weight
<1>12. k \in [Nodes -> Nat] /\ k[p] = h[p] - 1 /\ \A n \in Nodes : n # p => k[n] = h[n]
  BY <1>5, <1>10, <1>11
<1> HIDE DEF k
<1>13. \A n \in D[t.root] : \A e \in Sides : t.child[n][e] \in Nodes /\ (t.child[n][e] # NIL => t.parent[t.child[n][e]] = n)
  BY <1>2, Children
<1>14. ASSUME NEW n \in D[t.root], NEW e \in Sides
       PROVE  k[n] = Weight(u, k, t.child[n][e]) + IF t.child[n][e] = p THEN 1 ELSE 0
  <2> DEFINE c == t.child[n][e]
  <2>1. c \in Nodes /\ n \in Nodes /\ (c # NIL => t.parent[c] = n)
    BY <1>8, <1>13
  <2>2. n # p => h[n] = Weight(t, h, c)
    BY <1>2, <1>5, OtherHeights
  <2>3. n = p => c = x \/ c = w
    BY <1>5, SideFacts
  <2> HIDE DEF c
  <2>4. CASE n = p
    <3>1. u.color[x] = "BLACK" /\ u.color[w] = "RED" /\ k[x] = h[x] /\ k[w] = h[w]
      BY <1>5, <1>6, <1>12
    <3>2. Weight(u, k, x) = h[p] - 1 /\ Weight(u, k, w) = h[p] - 1
      BY <1>10, <1>11, <3>1 DEF Weight
    <3>3. QED
      BY <1>5, <1>11, <1>12, <2>3, <2>4, <3>2 DEF c
  <2>5. CASE n # p /\ c = p
    <3>1. u.color[p] = t.color[p] /\ Weight(u, k, p) = Weight(t, h, p) - 1 /\ Weight(t, h, p) \in Nat
      BY <1>5, <1>6, <1>10, <1>12 DEF Weight
    <3>2. QED
      BY <1>12, <2>1, <2>2, <2>5, <3>1 DEF c
  <2>6. CASE n # p /\ c # p
    <3>1. c # w
      BY <1>5, <2>1, <2>6
    <3>2. Weight(u, k, c) = Weight(t, h, c) /\ Weight(t, h, c) \in Nat
      BY <1>6, <1>10, <1>12, <2>1, <2>6, <3>1 DEF Weight
    <3>3. QED
      BY <1>12, <2>1, <2>2, <2>6, <3>2 DEF c
  <2>7. QED
    BY <2>4, <2>5, <2>6
<1>15. k[NIL] = 0
  BY <1>5, <1>8, <1>10, <1>12
<1>16. p = t.root => Heights(u, D, k, NULL, "left")
  <2>1. ASSUME p = t.root, NEW n \in D[t.root], NEW e \in Sides
        PROVE  Extra(n, e, NULL, "left") = IF t.child[n][e] = p THEN 1 ELSE 0
    <3>1. t.parent[p] = NULL
      BY <1>2, <1>5, <2>1, ParentIs
    <3>2. QED
      BY <1>5, <1>8, <1>13, <3>1 DEF Extra
  <2>2. QED
    BY <1>6, <1>12, <1>14, <1>15, <2>1 DEF Heights
<1> DEFINE q == t.parent[p]
           f == NodeSide(t, p)
<1>17. p # t.root => q \in D[t.root] /\ f \in Sides /\ t.child[q][f] = p /\ t.child[q][Opposite(f)] # p
  BY <1>2, <1>5, ParentIs
<1> HIDE DEF q, f
<1>18. p # t.root => Heights(u, D, k, q, f)
  <2>1. ASSUME p # t.root, NEW n \in D[t.root], NEW e \in Sides
        PROVE  Extra(n, e, q, f) = IF t.child[n][e] = p THEN 1 ELSE 0
    <3>1. t.child[n][e] = p => n = q
      BY <1>5, <1>13 DEF q
    <3>2. e = f \/ e = Opposite(f)
      BY <1>17, <2>1, SideFacts
    <3>3. QED
      BY <1>17, <2>1, <3>1, <3>2 DEF Extra
  <2>2. QED
    BY <1>6, <1>12, <1>14, <1>15, <2>1 DEF Heights
<1>19. Reds(u, D, p, p)
  <2>1. ASSUME NEW n \in D[t.root], NEW e \in Sides, u.color[n] = "RED", u.color[t.child[n][e]] = "RED"
        PROVE  n = p
    <3> DEFINE c == t.child[n][e]
    <3>1. c \in Nodes /\ n \in Nodes /\ (c # NIL => t.parent[c] = n) /\ n # NULL /\ c # NULL
      BY <1>8, <1>13, PointersAssumption DEF Nodes
    <3>2. c # w => t.color[c] = "RED"
      BY <1>6, <2>1, <3>1
    <3>3. n = w => c = z \/ c = b
      BY <1>5, SideFacts
    <3>4. ~(t.color[n] = "RED" /\ t.color[c] = "RED")
      BY <1>5, <3>1 DEF Reds
    <3> HIDE DEF c, z, b
    <3>5. CASE c = w
      BY <1>5, <3>1, <3>5
    <3>6. CASE c # w
      BY <1>1, <1>6, <2>1, <3>1, <3>2, <3>3, <3>4, <3>6
    <3>7. QED
      BY <3>5, <3>6
  <2>2. QED
    BY <1>6, <2>1 DEF Reds
<1>20. Deleting(u, D, k, p)
  <2>1. u.color[t.root] = "BLACK"
    BY <1>2, <1>5, <1>6, Fields
  <2>2. QED
    BY <1>5, <1>6, <1>16, <1>17, <1>18, <1>19, <2>1 DEF Deleting, q
<1>21. Certified(u, fix', D, k) /\ D[u.root] = D[t.root]
  BY <1>3, <1>6, <1>7, <1>9, <1>20 DEF Certified
<1>22. QED
  BY <1>21 DEF u, t

(***************************************************************************)
(* Case 3 of rbDeleteFixup().                                              *)
(***************************************************************************)
LEMMA DeleteInnerNephewKeeps ==
    ASSUME NEW D, NEW h, Certified(tree, fix, D, h), DeleteFixupInnerNephew
    PROVE  \E E, k : Certified(tree', fix', E, k) /\ E[tree'.root] = D[tree.root]
<1> DEFINE t == tree
           u == tree'
           x == fix.node
           p == t.parent[x]
           s == NodeSide(t, x)
           o == Opposite(s)
           w == Sibling(t, x)
           y == t.child[w][s]
           a == t.child[w][o]
           v == SetColor(SetColor(t, y, "BLACK"), w, "RED")
           E == Below(t, D, w, o)
<1>1. /\ fix.op = "delete" /\ DeleteLoops(t, x) /\ t.color[w] = "BLACK"
      /\ t.color[y] = "RED" /\ t.color[a] = "BLACK" /\ u = rotate(v, w, o) /\ fix' = fix
  BY DEF DeleteFixupInnerNephew, InDeleteLoop, InnerNephew, OuterNephew
<1>2. /\ Shape(t, D) /\ InOrder(t, D) /\ Sentinel(t) /\ Deleting(t, D, h, x)
      /\ fix = [op |-> "delete", node |-> x] /\ t \in Trees
  BY <1>1 DEF Certified, NoFix, Shape
<1>3. fix' = [op |-> "delete", node |-> x]
  BY <1>1, <1>2
<1>4. p = t.parent[x] /\ s = NodeSide(t, x) /\ w = Sibling(t, x) /\ v = SetColor(SetColor(t, y, "BLACK"), w, "RED")
  OBVIOUS
<1> HIDE DEF t, u, x, p, s, w, v, E
<1>5. /\ x \in Nodes /\ p \in D[t.root] /\ p \in Nodes /\ w \in D[t.root] /\ w \in Nodes
      /\ s \in Sides /\ o \in Sides /\ o # s
      /\ t.child[p][s] = x /\ t.child[p][o] = w
      /\ p # NIL /\ w # NIL /\ x # p /\ x # w /\ p # w /\ t.parent[w] = p /\ w # t.root
      /\ Heights(t, D, h, p, s) /\ Reds(t, D, NULL, NULL) /\ t.color[t.root] = "BLACK" /\ t.color[x] = "BLACK"
  BY <1>1, <1>2, <1>4, DeleteNodes
<1>6. Opposite(o) = s /\ y # NIL
  BY <1>1, <1>2, <1>5, SideFacts DEF Sentinel
<1>7. y = t.child[w][Opposite(o)] /\ a = t.child[w][o]
  BY <1>6
<1> HIDE DEF y, o
<1> DEFINE z == t.child[y][o]
           b == t.child[y][s]
<1>8. /\ y \in D[t.root] /\ y \in Nodes /\ z \in Nodes /\ w # y /\ z # y /\ z # w /\ y \in D[w] /\ t.parent[y] = w
      /\ (z # NIL => t.parent[z] = y) /\ y # t.root
  BY <1>2, <1>5, <1>6, <1>7, RotationNodes
<1>9. a \in Nodes /\ a # y /\ a # w
  <2>1. a \in Nodes /\ w \notin D[a] /\ D[a] \cap D[t.child[w][Opposite(o)]] = {}
    BY <1>2, <1>5, Children
  <2>2. y \in D[y] /\ w \in D[w]
    BY <1>2, <1>5, <1>8, BelowRoot
  <2> HIDE DEF a
  <2>3. QED
    BY <1>7, <2>1, <2>2
<1>10. b \in Nodes /\ b # y /\ b # w
  <2>1. b \in Nodes /\ y \notin D[b] /\ y \in D[y] /\ (b # NIL => t.parent[b] = y)
    BY <1>2, <1>5, <1>8, Children, BelowRoot
  <2>2. t.parent[w] # y
    BY <1>2, <1>5, <1>6, <1>7, RotationNodes
  <2> HIDE DEF b
  <2>3. QED
    BY <1>5, <2>1, <2>2
<1>11. /\ v \in Trees /\ v.child = t.child /\ v.parent = t.parent /\ v.root = t.root
       /\ \A n \in Nodes : v.color[n] = IF n = w THEN "RED" ELSE IF n = y THEN "BLACK" ELSE t.color[n]
  <2>1. Painted(t, y, "BLACK", w, "RED", v)
    BY <1>2, <1>4, <1>5, <1>8, TwoColors
  <2>2. QED
    BY <2>1 DEF Painted
<1>12. Rotated(t, D, w, o, u) /\ u.color = v.color
  BY <1>1, <1>2, <1>5, <1>6, <1>7, <1>11, RotateRecolored
<1>13. Shape(u, E) /\ E[u.root] = D[t.root] /\ InOrder(u, E)
  BY <1>2, <1>5, <1>6, <1>7, <1>12, RotateKeeps DEF E
<1>14. p # y
  <2>1. t.parent[w] # y
    BY <1>2, <1>5, <1>6, <1>7, RotationNodes
  <2>2. QED
    BY <1>5, <2>1
<1>15. /\ h[w] = Weight(t, h, a) /\ h[w] = h[y] /\ h[y] = Weight(t, h, z) /\ h[y] = Weight(t, h, b)
  <2>1. h[w] = Weight(t, h, a)
    BY <1>2, <1>5, OtherHeights
  <2>2. h[w] = h[y]
    BY <1>1, <1>2, <1>5, OtherHeights DEF y
  <2>3. h[y] = Weight(t, h, z) /\ h[y] = Weight(t, h, b)
    BY <1>2, <1>5, <1>8, <1>14, OtherHeights
  <2>4. QED
    BY <2>1, <2>2, <2>3
<1>16. \A n \in D[t.root] : \A e \in Sides : ~(t.color[n] = "RED" /\ t.color[t.child[n][e]] = "RED")
  <2>1. \A n \in D[t.root] : \A e \in Sides : n # NULL /\ t.child[n][e] # NULL
    BY <1>2, Typed, Children
  <2>2. QED
    BY <1>5, <2>1 DEF Reds
<1>17. t.color[z] # "RED"
  BY <1>1, <1>5, <1>8, <1>16
<1>18. h \in [Nodes -> Nat] /\ h[y] \in Nat /\ h[w] \in Nat
  BY <1>5, <1>8 DEF Heights
<1> HIDE DEF z, b, a
<1>19. \A n \in Nodes : n # y /\ n # w => u.color[n] = t.color[n] /\ Weight(u, h, n) = Weight(t, h, n)
  BY <1>11, <1>12 DEF Weight
<1>20. Weight(u, h, w) = h[w] /\ Weight(u, h, y) = h[y] + 1 /\ Weight(t, h, w) = h[w] + 1
  BY <1>1, <1>5, <1>8, <1>11, <1>12, <1>18 DEF Weight
<1>21. Weighed(t, h, p, s, w, o, u, h, p, s)
  <2>1. Extra(w, s, p, s) = 0 /\ Extra(w, o, p, s) = 0 /\ Extra(y, s, p, s) = 0 /\ Extra(y, o, p, s) = 0
    BY <1>5, <1>14 DEF Extra
  <2>2. Weight(u, h, a) = h[w] /\ Weight(u, h, z) = h[w] /\ Weight(u, h, b) = h[y] /\ Weight(u, h, w) = h[y]
    BY <1>8, <1>9, <1>10, <1>15, <1>19, <1>20
  <2>3. /\ h[w] = Weight(u, h, a) + Extra(w, o, p, s) /\ h[w] = Weight(u, h, z) + Extra(w, s, p, s)
        /\ h[y] = Weight(u, h, w) + Extra(y, o, p, s) /\ h[y] = Weight(u, h, b) + Extra(y, s, p, s)
        /\ Weight(u, h, y) = Weight(t, h, w)
    BY <1>15, <1>18, <1>20, <2>1, <2>2
  <2>4. QED
    BY <1>6, <1>7, <1>18, <1>19, <2>3 DEF Weighed, z, b
<1>22. Colored(t, NULL, NULL, w, o, u, x, x)
  <2>1. u.color[y] = "BLACK" /\ u.color[z] # "RED" /\ u.color[a] # "RED" /\ \A n \in Nodes : n # NULL
    BY <1>1, <1>8, <1>9, <1>11, <1>12, <1>17, <1>19, PointersAssumption DEF Nodes
  <2>2. QED
    BY <1>1, <1>5, <1>6, <1>7, <1>19, <2>1 DEF Colored, z, b
<1>23. Heights(u, E, h, p, s)
  BY <1>2, <1>5, <1>6, <1>7, <1>12, <1>21, RotateHeights DEF E
<1>24. Reds(u, E, x, x)
  BY <1>2, <1>5, <1>6, <1>7, <1>12, <1>22, RotateReds DEF E
<1>25. Sentinel(u)
  <2>1. u.color[NIL] = t.color[NIL]
    BY <1>5, <1>6, <1>19 DEF Nodes
  <2>2. QED
    BY <1>2, <1>12, <2>1 DEF Sentinel, Rotated, RotatedLinks
<1>26. x # y
  BY <1>1, <1>5
<1>27. u.root = t.root /\ u.child[p][s] = x /\ u.parent[x] = p
  <2>1. u.parent[x] = IF x = z /\ z # NIL THEN w ELSE t.parent[x]
    BY <1>5, <1>6, <1>7, <1>12, <1>26 DEF Rotated, RotatedLinks, z
  <2>2. u.parent[x] = p
    BY <1>4, <1>8, <1>14, <2>1
  <2>3. u.child[p][s] = IF t.child[p][s] = w THEN y ELSE t.child[p][s]
    BY <1>5, <1>6, <1>7, <1>12, <1>14 DEF Rotated, RotatedLinks
  <2>4. u.root = t.root
    BY <1>5, <1>12 DEF Rotated, RotatedLinks
  <2>5. QED
    BY <1>5, <2>2, <2>3, <2>4
<1>28. u.color[u.root] = "BLACK" /\ x # u.root
  <2>1. x # t.root /\ t.root \in Nodes
    BY <1>1, <1>2, Fields DEF DeleteLoops
  <2>2. QED
    BY <1>5, <1>8, <1>19, <1>27, <2>1
<1>29. Deleting(u, E, h, x)
  <2>1. x \in D[t.root] \cup {NIL}
    BY <1>2 DEF Deleting
  <2>2. QED
    BY <1>5, <1>13, <1>23, <1>24, <1>27, <1>28, <2>1 DEF Deleting
<1>30. Certified(u, fix', E, h)
  BY <1>3, <1>13, <1>25, <1>29 DEF Certified
<1>31. QED
  BY <1>13, <1>30 DEF u, t

(***************************************************************************)
(* Case 4 of rbDeleteFixup(): the sibling's black outer child makes up for *)
(* the node that x is short of.                                            *)
(***************************************************************************)
LEMMA DeleteOuterNephewKeeps ==
    ASSUME NEW D, NEW h, Certified(tree, fix, D, h), DeleteFixupOuterNephew
    PROVE  \E E, k : Certified(tree', fix', E, k) /\ E[tree'.root] = D[tree.root]
<1> DEFINE t == tree
           u == tree'
           x == fix.node
           p == t.parent[x]
           s == NodeSide(t, x)
           o == Opposite(s)
           w == Sibling(t, x)
           b == t.child[w][o]
           v1 == SetColor(SetColor(t, w, t.color[p]), p, "BLACK")
           v == SetColor(v1, b, "BLACK")
           E == Below(t, D, p, s)
           k == [h EXCEPT ![w] = h[p], ![p] = h[p] - 1]
<1>1. /\ fix.op = "delete" /\ DeleteLoops(t, x) /\ t.color[w] = "BLACK" /\ t.color[b] = "RED"
      /\ u = rotate(v, p, s) /\ fix' = [fix EXCEPT !.node = u.root]
  BY DEF DeleteFixupOuterNephew, InDeleteLoop, OuterNephew
<1>2. /\ Shape(t, D) /\ InOrder(t, D) /\ Sentinel(t) /\ Deleting(t, D, h, x)
      /\ fix = [op |-> "delete", node |-> x] /\ t \in Trees
  BY <1>1 DEF Certified, NoFix, Shape
<1>3. fix' = [op |-> "delete", node |-> u.root]
  BY <1>1, <1>2
<1>4. p = t.parent[x] /\ s = NodeSide(t, x) /\ w = Sibling(t, x)
  OBVIOUS
<1> HIDE DEF t, u, x, p, s, w, v1, v, E
<1>5. /\ x \in Nodes /\ p \in D[t.root] /\ p \in Nodes /\ w \in D[t.root] /\ w \in Nodes
      /\ s \in Sides /\ o \in Sides /\ o # s
      /\ t.child[p][s] = x /\ t.child[p][o] = w
      /\ p # NIL /\ w # NIL /\ x # p /\ x # w /\ p # w /\ t.parent[w] = p /\ w # t.root
      /\ Heights(t, D, h, p, s) /\ Reds(t, D, NULL, NULL)
      /\ h[p] = h[x] + 2 /\ h[p] = Weight(t, h, w) /\ t.color[x] = "BLACK"
  BY <1>1, <1>2, <1>4, DeleteNodes
<1> DEFINE z == t.child[w][s]
<1>6. z \in Nodes /\ z # p /\ z # w
  BY <1>2, <1>5, RotationNodes
<1>7. b \in Nodes /\ w \notin D[b] /\ w \in D[w] /\ b # NIL /\ t.parent[b] = w
  <2>1. t.color[NIL] # "RED"
    BY <1>2 DEF Sentinel
  <2> HIDE DEF o
  <2>2. QED
    BY <1>1, <1>2, <1>5, <2>1, Children, BelowRoot
<1>8. b # p /\ b # w /\ b # x /\ b # z
  <2>1. t.parent[p] # w
    BY <1>2, <1>5, RotationNodes
  <2>2. D[z] \cap D[b] = {} /\ b \in D[b]
    <3> HIDE DEF o
    <3>1. D[b] \cap D[t.child[w][Opposite(o)]] = {} /\ b \in D[b]
      BY <1>2, <1>5, <1>7, Children
    <3>2. Opposite(o) = s
      BY <1>5, SideFacts DEF o
    <3>3. QED
      BY <3>1, <3>2
  <2> HIDE DEF b, z
  <2>3. QED
    BY <1>1, <1>5, <1>7, <2>1, <2>2
<1> HIDE DEF b
<1>9. /\ v \in Trees /\ v.child = t.child /\ v.parent = t.parent /\ v.root = t.root
      /\ \A n \in Nodes : v.color[n] = IF n = b \/ n = p THEN "BLACK" ELSE IF n = w THEN t.color[p] ELSE t.color[n]
  <2>1. t.color[p] = "RED" \/ t.color[p] = "BLACK"
    BY <1>2, <1>5, Fields
  <2>2. Painted(t, w, t.color[p], p, "BLACK", v1)
    BY <1>2, <1>5, <2>1, TwoColors DEF v1
  <2>3. /\ v1 \in Trees /\ v1.child = t.child /\ v1.parent = t.parent /\ v1.root = t.root
        /\ \A n \in Nodes : v1.color[n] = IF n = p THEN "BLACK" ELSE IF n = w THEN t.color[p] ELSE t.color[n]
    BY <2>2 DEF Painted
  <2>4. /\ v \in Trees /\ v.child = v1.child /\ v.parent = v1.parent /\ v.root = v1.root
        /\ \A n \in Nodes : v.color[n] = IF n = b THEN "BLACK" ELSE v1.color[n]
    BY <1>7, <2>3, SetColorIs DEF v
  <2>5. QED
    BY <2>3, <2>4
<1>10. Rotated(t, D, p, s, u) /\ u.color = v.color
  BY <1>1, <1>2, <1>5, <1>9, RotateRecolored
<1>11. Shape(u, E) /\ E[u.root] = D[t.root] /\ InOrder(u, E)
  BY <1>2, <1>5, <1>10, RotateKeeps DEF E
<1>12. h[w] = Weight(t, h, z) /\ h[w] = h[b]
  <2>1. h[w] = Weight(t, h, z)
    BY <1>2, <1>5, OtherHeights
  <2>2. h[w] = h[b]
    BY <1>1, <1>2, <1>5, OtherHeights DEF b
  <2>3. QED
    BY <2>1, <2>2
<1>13. h \in [Nodes -> Nat] /\ h[p] \in Nat /\ h[w] \in Nat /\ h[x] \in Nat
  BY <1>5 DEF Heights
<1> HIDE DEF z, o
<1>14. h[p] - 1 = h[w] /\ h[p] - 1 = h[x] + 1 /\ h[p] - 1 \in Nat /\ h[p] = h[w] + 1 /\ (h[p] - 1) + 1 = h[p]
  BY <1>1, <1>5, <1>13 DEF Weight
<1>15. k \in [Nodes -> Nat] /\ k[p] = h[p] - 1 /\ k[w] = h[p] /\ \A n \in Nodes : n # p /\ n # w => k[n] = h[n]
  BY <1>5, <1>13, <1>14
<1> HIDE DEF k
<1>16. /\ \A n \in Nodes : n \notin {p, w, b} => u.color[n] = t.color[n] /\ Weight(u, k, n) = Weight(t, h, n)
       /\ u.color[p] = "BLACK" /\ u.color[b] = "BLACK" /\ u.color[w] = t.color[p]
  BY <1>5, <1>7, <1>8, <1>9, <1>10, <1>15 DEF Weight
<1>17. /\ Weight(u, k, x) = h[x] + 1 /\ Weight(u, k, z) = h[w] /\ Weight(u, k, b) = h[w] + 1
       /\ Weight(u, k, p) = h[p] /\ Weight(u, k, w) = Weight(t, h, p)
  <2>1. Weight(u, k, x) = h[x] + 1 /\ Weight(u, k, z) = h[w]
    BY <1>5, <1>6, <1>8, <1>12, <1>16 DEF Weight
  <2>2. Weight(u, k, b) = h[w] + 1 /\ Weight(u, k, p) = h[p]
    BY <1>7, <1>8, <1>12, <1>14, <1>15, <1>16 DEF Weight
  <2>3. Weight(u, k, w) = Weight(t, h, p)
    BY <1>15, <1>16 DEF Weight
  <2>4. QED
    BY <2>1, <2>2, <2>3
<1>18. \A n \in Nodes : n # NULL
  BY PointersAssumption DEF Nodes
<1>19. Weighed(t, h, p, s, p, s, u, k, NULL, "left")
  <2>1. \A n \in Nodes, e \in Sides : Extra(n, e, NULL, "left") = 0 /\ (n # p => Extra(n, e, p, s) = 0)
    BY <1>18 DEF Extra
  <2>2. /\ k[p] = Weight(u, k, x) + Extra(p, s, NULL, "left") /\ k[p] = Weight(u, k, z) + Extra(p, o, NULL, "left")
        /\ k[w] = Weight(u, k, p) + Extra(w, s, NULL, "left") /\ k[w] = Weight(u, k, b) + Extra(w, o, NULL, "left")
    BY <1>5, <1>13, <1>14, <1>15, <1>17, <2>1
  <2>3. \A n \in Nodes : n \notin {p, w} /\ (n = b => b = NIL) => u.color[n] = t.color[n]
    BY <1>7, <1>16
  <2>4. QED
    BY <1>5, <1>15, <1>17, <2>1, <2>2, <2>3 DEF Weighed, z, b, o
<1>20. Colored(t, NULL, NULL, p, s, u, NULL, NULL)
  BY <1>5, <1>16, <1>18 DEF Colored, z, b, o
<1>21. Heights(u, E, k, NULL, "left")
  BY <1>2, <1>5, <1>10, <1>19, RotateHeights DEF E, o
<1>22. Reds(u, E, NULL, NULL)
  BY <1>2, <1>5, <1>10, <1>20, RotateReds DEF E, o
<1>23. Sentinel(u)
  <2>1. u.color[NIL] = t.color[NIL]
    BY <1>5, <1>7, <1>16 DEF Nodes
  <2>2. QED
    BY <1>2, <1>10, <2>1 DEF Sentinel, Rotated, RotatedLinks
<1>24. u.root \in E[u.root] \cup {NIL}
  BY <1>11, Typed
<1>25. Reds(u, E, u.root, u.root)
  <2>1. \A n \in E[u.root] : \A e \in Sides : n # NULL /\ u.child[n][e] # NULL
    BY <1>11, <1>18, Typed, Children
  <2>2. QED
    BY <1>22, <2>1 DEF Reds
<1>26. Deleting(u, E, k, u.root)
  BY <1>21, <1>24, <1>25 DEF Deleting
<1>27. Certified(u, fix', E, k)
  BY <1>3, <1>11, <1>23, <1>26 DEF Certified
<1>28. QED
  BY <1>11, <1>27 DEF u, t

(***************************************************************************)
(* The end of rbDeleteFixup(): x is the root, or a red node that makes up  *)
(* for the missing black one by turning black.                             *)
(***************************************************************************)
LEMMA DeleteEndsKeeps ==
    ASSUME NEW D, NEW h, Certified(tree, fix, D, h), DeleteFixupEnds
    PROVE  \E E, k : Certified(tree', fix', E, k) /\ E[tree'.root] = D[tree.root]
<1> DEFINE t == tree
           u == tree'
           x == fix.node
<1>1. fix.op = "delete" /\ ~DeleteLoops(t, x) /\ u = SetColor(t, x, "BLACK") /\ fix' = NoFix
  BY DEF DeleteFixupEnds
<1>2. /\ Shape(t, D) /\ InOrder(t, D) /\ Sentinel(t) /\ Deleting(t, D, h, x) /\ t \in Trees
  BY <1>1 DEF Certified, NoFix, Shape
<1> HIDE DEF t, u, x
<1>3. x \in Nodes /\ t.root \in Nodes /\ NIL \in Nodes
  BY <1>2, Typed DEF Deleting, Nodes
<1>4. /\ u \in Trees /\ u.child = t.child /\ u.parent = t.parent /\ u.root = t.root
      /\ \A n \in Nodes : u.color[n] = IF n = x THEN "BLACK" ELSE t.color[n]
  <2>1. /\ SetColor(t, x, "BLACK") \in Trees /\ SetColor(t, x, "BLACK").child = t.child
        /\ SetColor(t, x, "BLACK").parent = t.parent /\ SetColor(t, x, "BLACK").root = t.root
        /\ \A n \in Nodes : SetColor(t, x, "BLACK").color[n] = IF n = x THEN "BLACK" ELSE t.color[n]
    BY <1>2, <1>3, SetColorIs
  <2>2. QED
    BY <1>1, <2>1
<1>5. Shape(u, D) /\ InOrder(u, D)
  BY <1>2, <1>4, RecolorKeeps
<1>6. Sentinel(u)
  BY <1>2, <1>3, <1>4 DEF Sentinel
<1>7. \A n \in D[t.root] : \A e \in Sides : /\ t.child[n][e] \in Nodes /\ n \in Nodes /\ n # NULL /\ t.child[n][e] # NULL
                                            /\ t.child[n][e] # NIL => t.parent[t.child[n][e]] = n
  BY <1>2, Typed, Children
<1>8. Reds(u, D, NULL, NULL)
  <2>1. ASSUME NEW n \in D[t.root], NEW e \in Sides, u.color[n] = "RED", u.color[t.child[n][e]] = "RED" PROVE FALSE
    <3>1. n # x /\ t.child[n][e] # x /\ t.color[n] = "RED" /\ t.color[t.child[n][e]] = "RED"
      BY <1>4, <1>7, <2>1
    <3>2. Reds(t, D, x, x)
      BY <1>2 DEF Deleting
    <3>3. QED
      BY <3>1, <3>2 DEF Reds
  <2>2. QED
    BY <1>4, <2>1 DEF Reds
<1>9. u.color[u.root] = "BLACK"
  BY <1>2, <1>3, <1>4 DEF Deleting
<1>10. Heights(u, D, h, NULL, "left")
  <2>1. CASE x = t.root
    <3>1. Heights(t, D, h, NULL, "left")
      BY <1>2, <2>1 DEF Deleting
    <3>2. ASSUME NEW n \in D[t.root], NEW e \in Sides PROVE t.child[n][e] # x
      <4>1. t.root # NIL /\ t.parent[t.root] = NULL
        BY <1>2, <2>1, Typed
      <4>2. QED
        BY <1>7, <2>1, <4>1
    <3>3. \A n \in D[t.root] : \A e \in Sides : u.color[t.child[n][e]] = t.color[t.child[n][e]]
      BY <1>4, <1>7, <3>2
    <3>4. QED
      BY <1>4, <3>1, <3>3 DEF Heights, Weight
  <2>2. CASE x # t.root
    <3> DEFINE p == t.parent[x]
    <3>1. t.color[x] = "RED"
      BY <1>1, <1>2, <1>3, <2>2, Fields DEF DeleteLoops
    <3>2. x # NIL /\ x \in D[t.root]
      BY <1>2, <3>1 DEF Sentinel, Deleting
    <3>3. p \in D[t.root] /\ \E s \in Sides : t.child[p][s] = x /\ Heights(t, D, h, p, s)
      BY <1>2, <2>2 DEF Deleting
    <3>4. PICK s \in Sides : t.child[p][s] = x /\ Heights(t, D, h, p, s)
      BY <3>3
    <3>5. t.child[p][Opposite(s)] # x
      <4> HIDE DEF p
      <4>1. t.child[p][s] # NIL => t.child[p][s] \in D[t.child[p][s]]
        BY <1>2, <3>3, Children
      <4>2. D[t.child[p][s]] \cap D[t.child[p][Opposite(s)]] = {}
        BY <1>2, <3>3, Children
      <4>3. QED
        BY <3>2, <3>4, <4>1, <4>2
    <3>6. h \in [Nodes -> Nat] /\ h[NIL] = 0
      BY <3>4 DEF Heights
    <3>7. ASSUME NEW n \in D[t.root], NEW e \in Sides
          PROVE  h[n] = Weight(u, h, t.child[n][e]) + Extra(n, e, NULL, "left")
      <4> DEFINE c == t.child[n][e]
      <4>1. c \in Nodes /\ n # NULL /\ (c # NIL => t.parent[c] = n) /\ h[c] \in Nat
        BY <1>7, <3>6
      <4>2. h[n] = Weight(t, h, c) + Extra(n, e, p, s)
        BY <3>4 DEF Heights
      <4>3. n = p /\ e = s <=> c = x
        <5>1. e = s \/ e = Opposite(s)
          BY SideFacts
        <5>2. QED
          BY <3>2, <3>4, <3>5, <4>1, <5>1
      <4>4. Extra(n, e, NULL, "left") = 0 /\ Extra(n, e, p, s) = IF c = x THEN 1 ELSE 0
        BY <4>1, <4>3 DEF Extra
      <4> HIDE DEF c, p
      <4>5. CASE c = x
        <5>1. Weight(u, h, c) = h[c] + 1 /\ Weight(t, h, c) = h[c] + 0
          BY <1>4, <3>1, <4>1, <4>5 DEF Weight
        <5>2. QED
          BY <4>1, <4>2, <4>4, <4>5, <5>1 DEF c
      <4>6. CASE c # x
        <5>1. Weight(u, h, c) = Weight(t, h, c)
          BY <1>4, <4>1, <4>6 DEF Weight
        <5>2. QED
          BY <4>2, <4>4, <4>6, <5>1 DEF c
      <4>7. QED
        BY <4>5, <4>6
    <3>8. QED
      BY <1>4, <3>6, <3>7 DEF Heights
  <2>3. QED
    BY <2>1, <2>2
<1>11. Certified(u, fix', D, h) /\ D[u.root] = D[t.root]
  BY <1>1, <1>4, <1>5, <1>6, <1>8, <1>9, <1>10 DEF Certified, Balanced
<1>12. QED
  BY <1>11 DEF u, t

(* u is t with n below y on side q, or as the root.                        *)
Inserted(t, n, y, q, u) ==
    /\ u \in Trees
    /\ u.root = IF y = NULL THEN n ELSE t.root
    /\ \A m \in Nodes : \A e \in Sides :
         u.child[m][e] = IF m = n THEN NIL ELSE IF m = y /\ e = q THEN n ELSE t.child[m][e]
    /\ \A m \in Nodes : u.parent[m] = IF m = n THEN y ELSE t.parent[m]
    /\ \A m \in Nodes : u.color[m] = IF m = n THEN "RED" ELSE t.color[m]

(* The tree rbInsert() leaves to fixupInsert().                            *)
Linked(t, n, y, q) ==
    LET t1 == SetParent(t, n, y)
        t2 == IF y = NULL THEN [t1 EXCEPT !.root = n] ELSE SetChild(t1, y, q, n)
    IN  SetColor(SetChild(SetChild(t2, n, "left", NIL), n, "right", NIL), n, "RED")

(***************************************************************************)
(* What rbInsert() stores.                                                 *)
(***************************************************************************)
LEMMA InsertStores ==
    ASSUME NEW t \in Trees, NEW n \in Processes, NEW y \in Pointers, NEW q \in Sides, y # n
    PROVE  Inserted(t, n, y, q, Linked(t, n, y, q))
<1> DEFINE t1 == SetParent(t, n, y)
           t2 == IF y = NULL THEN [t1 EXCEPT !.root = n] ELSE SetChild(t1, y, q, n)
           t3 == SetChild(t2, n, "left", NIL)
           t4 == SetChild(t3, n, "right", NIL)
           u == SetColor(t4, n, "RED")
<1>1. n \in Nodes /\ n \in Pointers /\ NIL \in Pointers /\ "left" \in Sides /\ "right" \in Sides /\ NULL \notin Nodes
  BY PointersAssumption DEF Nodes, Pointers, Sides
<1>2. /\ t1 \in Trees /\ t1.child = t.child /\ t1.color = t.color /\ t1.root = t.root
      /\ \A m \in Nodes : t1.parent[m] = IF m = n THEN y ELSE t.parent[m]
  BY <1>1, SetParentIs
<1> HIDE DEF t1
<1>3. /\ t2 \in Trees /\ t2.parent = t1.parent /\ t2.color = t1.color
      /\ t2.root = IF y = NULL THEN n ELSE t1.root
      /\ \A m \in Nodes : \A e \in Sides : t2.child[m][e] = IF m = y /\ e = q THEN n ELSE t1.child[m][e]
  <2>1. CASE y = NULL
    <3>1. t2 = [t1 EXCEPT !.root = n]
      BY <2>1
    <3> HIDE DEF t2
    <3>2. t2.child = t1.child /\ t2.parent = t1.parent /\ t2.color = t1.color /\ t2.root = n /\ t2 \in Trees
      BY <1>1, <1>2, <3>1 DEF Trees
    <3>3. QED
      BY <1>1, <2>1, <3>2
  <2>2. CASE y # NULL
    <3>1. y \in Nodes /\ n \in Pointers /\ t1 \in Trees
      BY <1>1, <1>2, <2>2 DEF Pointers
    <3>2. /\ SetChild(t1, y, q, n) \in Trees
          /\ SetChild(t1, y, q, n).parent = t1.parent /\ SetChild(t1, y, q, n).color = t1.color
      BY <3>1, SetChildIs
    <3>3. SetChild(t1, y, q, n).root = t1.root
      BY <3>1, SetChildIs
    <3>4. \A m \in Nodes : \A e \in Sides :
               SetChild(t1, y, q, n).child[m][e] = IF m = y /\ e = q THEN n ELSE t1.child[m][e]
      BY <3>1, SetChildIs
    <3>5. t2 = SetChild(t1, y, q, n)
      BY <2>2
    <3> HIDE DEF t2
    <3>6. QED
      BY <2>2, <3>2, <3>3, <3>4, <3>5
  <2>3. QED
    BY <2>1, <2>2
<1> HIDE DEF t2
<1>4. /\ t3 \in Trees /\ t3.parent = t2.parent /\ t3.color = t2.color /\ t3.root = t2.root
      /\ \A m \in Nodes : \A e \in Sides : t3.child[m][e] = IF m = n /\ e = "left" THEN NIL ELSE t2.child[m][e]
  BY <1>1, <1>3, SetChildIs
<1> HIDE DEF t3
<1>5. /\ t4 \in Trees /\ t4.parent = t3.parent /\ t4.color = t3.color /\ t4.root = t3.root
      /\ \A m \in Nodes : \A e \in Sides : t4.child[m][e] = IF m = n /\ e = "right" THEN NIL ELSE t3.child[m][e]
  BY <1>1, <1>4, SetChildIs
<1> HIDE DEF t4
<1>6. /\ u \in Trees /\ u.child = t4.child /\ u.parent = t4.parent /\ u.root = t4.root
      /\ \A m \in Nodes : u.color[m] = IF m = n THEN "RED" ELSE t4.color[m]
  <2>1. u \in Trees /\ u.child = t4.child /\ u.parent = t4.parent /\ u.root = t4.root
    BY <1>1, <1>5, SetColorIs
  <2>2. \A m \in Nodes : u.color[m] = IF m = n THEN "RED" ELSE t4.color[m]
    BY <1>1, <1>5, Fields DEF SetColor, Trees
  <2>3. QED
    BY <2>1, <2>2
<1>7. u = Linked(t, n, y, q)
  BY DEF Linked, u, t4, t3, t2, t1
<1> HIDE DEF u
<1>8. \A m \in Nodes : \A e \in Sides :
         u.child[m][e] = IF m = n THEN NIL ELSE IF m = y /\ e = q THEN n ELSE t.child[m][e]
  BY <1>2, <1>3, <1>4, <1>5, <1>6 DEF Sides
<1>9. /\ u \in Trees /\ u.root = IF y = NULL THEN n ELSE t.root
      /\ \A m \in Nodes : u.parent[m] = IF m = n THEN y ELSE t.parent[m]
      /\ \A m \in Nodes : u.color[m] = IF m = n THEN "RED" ELSE t.color[m]
  BY <1>2, <1>3, <1>4, <1>5, <1>6
<1>10. QED
  BY <1>7, <1>8, <1>9 DEF Inserted

(* The subtrees after an insertion.                                        *)
Grown(D, n, y) ==
    [m \in Nodes |-> IF m = n THEN {n} ELSE IF y \in D[m] THEN D[m] \cup {n} ELSE D[m]]

(***************************************************************************)
(* A new leaf at the end of the descent for its pid.                       *)
(***************************************************************************)
LEMMA InsertedKeeps ==
    ASSUME NEW t, NEW D, Shape(t, D), InOrder(t, D), NEW n \in Processes, n \notin D[t.root],
           NEW y \in D[t.root], NEW q \in Sides, q = (IF PidOf[n] < PidOf[y] THEN "left" ELSE "right"),
           t.child[y][q] = NIL, OnTheWay(t, D, y, PidOf[n]),
           NEW u, Inserted(t, n, y, q, u), NEW E, E = Grown(D, n, y)
    PROVE  Shape(u, E) /\ E[u.root] = D[t.root] \cup {n} /\ InOrder(u, E)
<1>1. /\ y \in Nodes /\ y # NULL /\ n \in Nodes /\ n # NIL /\ NIL \in Nodes /\ t.root \in Nodes /\ D[NIL] = {}
      /\ t.root \in D[t.root] /\ t.root # n /\ t.root # NIL /\ t.parent[t.root] = NULL /\ n # y
      /\ \A m \in Nodes : D[m] \in SUBSET Processes
      /\ \A m \in D[t.root] : m \in Nodes /\ m # n /\ m # NIL
  BY Typed, PointersAssumption DEF Nodes
<1>2. /\ u \in Trees /\ u.root = t.root
      /\ \A m \in Nodes : \A e \in Sides :
           u.child[m][e] = IF m = n THEN NIL ELSE IF m = y /\ e = q THEN n ELSE t.child[m][e]
      /\ \A m \in Nodes : u.parent[m] = IF m = n THEN y ELSE t.parent[m]
  BY <1>1 DEF Inserted
<1>3. /\ E \in [Nodes -> SUBSET Processes] /\ E[n] = {n} /\ E[NIL] = {}
      /\ \A m \in Nodes : m # n => E[m] = IF y \in D[m] THEN D[m] \cup {n} ELSE D[m]
  BY <1>1 DEF Grown
<1>4. E[u.root] = D[t.root] \cup {n}
  BY <1>1, <1>2, <1>3
<1>5. ASSUME NEW m \in D[t.root], NEW e \in Sides
      PROVE  LET c == t.child[m][e]
                 f == t.child[m][Opposite(e)]
             IN  /\ c \in Nodes /\ c # n /\ n \notin D[c]
                 /\ c # NIL => c \in D[c] /\ t.parent[c] = m
                 /\ D[m] = {m} \cup D[c] \cup D[f] /\ m \notin D[c] /\ D[c] \cap D[f] = {}
  <2> DEFINE c == t.child[m][e]
             f == t.child[m][Opposite(e)]
  <2>1. /\ c \in Nodes /\ (c # NIL => c \in D[c] /\ t.parent[c] = m)
        /\ D[m] = {m} \cup D[c] \cup D[f] /\ m \notin D[c] /\ D[c] \cap D[f] = {}
    BY Children
  <2>2. D[m] \subseteq D[t.root]
    BY BelowRoot
  <2> HIDE DEF c, f
  <2>3. n \notin D[c] /\ c # n
    BY <1>1, <2>1, <2>2
  <2>4. QED
    BY <2>1, <2>3 DEF c, f
<1>6. ASSUME NEW m \in D[t.root], NEW e \in Sides PROVE Branch(u, E, m, e)
  <2> DEFINE c == t.child[m][e]
             f == t.child[m][Opposite(e)]
             o == Opposite(e)
  <2>1. o \in Sides /\ o # e /\ Opposite(o) = e /\ (q = e \/ q = o)
    BY SideFacts
  <2>2. /\ c \in Nodes /\ c # n /\ n \notin D[c] /\ (c # NIL => c \in D[c] /\ t.parent[c] = m)
        /\ D[m] = {m} \cup D[c] \cup D[f] /\ m \notin D[c] /\ D[c] \cap D[f] = {}
    BY <1>5
  <2>3. f \in Nodes /\ f # n /\ n \notin D[f] /\ m \notin D[f]
    <3> HIDE DEF o
    <3>1. t.child[m][o] \in Nodes /\ t.child[m][o] # n /\ n \notin D[t.child[m][o]] /\ m \notin D[t.child[m][o]]
      BY <1>5, <2>1
    <3>2. QED
      BY <3>1 DEF o
  <2>4. m \in Nodes /\ m # n
    BY <1>1
  <2>5. u.child[m][e] = IF m = y /\ e = q THEN n ELSE c
    BY <1>2, <2>4
  <2>6. u.child[m][o] = IF m = y /\ o = q THEN n ELSE f
    <3> HIDE DEF o
    <3>1. u.child[m][o] = IF m = y /\ o = q THEN n ELSE t.child[m][o]
      BY <1>2, <2>1, <2>4
    <3>2. QED
      BY <3>1 DEF o
  <2>7. /\ m = y /\ e = q => c = NIL
        /\ m = y /\ o = q => f = NIL
    OBVIOUS
  <2> HIDE DEF c, f
  <2>8. m = y => y \notin D[c] /\ y \notin D[f] /\ y \in D[m]
    BY <2>2, <2>3
  <2>9. E[m] = IF y \in D[m] THEN D[m] \cup {n} ELSE D[m]
    BY <1>3, <2>4
  <2>10. E[c] = (IF y \in D[c] THEN D[c] \cup {n} ELSE D[c]) /\ E[f] = IF y \in D[f] THEN D[f] \cup {n} ELSE D[f]
    BY <1>3, <2>2, <2>3
  <2>11. c # NIL => u.parent[c] = m
    BY <1>2, <2>2
  <2>12. u.parent[n] = y
    BY <1>1, <1>2
  <2> DEFINE c2 == u.child[m][e]
             f2 == u.child[m][o]
  <2>13. c2 \in Nodes /\ (c2 # NIL => c2 \in E[c2] /\ u.parent[c2] = m)
    BY <1>1, <1>3, <2>2, <2>5, <2>10, <2>11, <2>12
  <2>14. E[m] = {m} \cup E[c2] \cup E[f2] /\ m \notin E[c2] /\ E[c2] \cap E[f2] = {}
    <3> HIDE DEF c2, f2, o
    <3>1. CASE m # y
      <4>1. c2 = c /\ f2 = f
        BY <2>5, <2>6, <3>1 DEF c2, f2
      <4>2. QED
        BY <2>2, <2>3, <2>4, <2>9, <2>10, <3>1, <4>1
    <3>2. CASE m = y /\ e = q
      <4>1. c2 = n /\ f2 = f /\ c = NIL
        BY <2>1, <2>5, <2>6, <2>7, <3>2 DEF c2, f2
      <4>2. QED
        BY <1>1, <1>3, <2>2, <2>3, <2>4, <2>8, <2>9, <2>10, <3>2, <4>1
    <3>3. CASE m = y /\ o = q
      <4>1. c2 = c /\ f2 = n /\ f = NIL
        BY <2>1, <2>5, <2>6, <2>7, <3>3 DEF c2, f2
      <4>2. QED
        BY <1>1, <1>3, <2>2, <2>3, <2>4, <2>8, <2>9, <2>10, <3>3, <4>1
    <3>4. QED
      BY <2>1, <3>1, <3>2, <3>3
  <2>15. QED
    BY <2>13, <2>14 DEF Branch
<1>7. ASSUME NEW e \in Sides PROVE Branch(u, E, n, e)
  <2>1. u.child[n][e] = NIL /\ u.child[n][Opposite(e)] = NIL
    BY <1>1, <1>2, SideFacts
  <2>2. QED
    BY <1>1, <1>3, <2>1 DEF Branch
<1>8. Shape(u, E)
  <2>1. u.root \in E[u.root] /\ u.parent[u.root] = NULL
    BY <1>1, <1>2, <1>4
  <2>2. \A m \in E[u.root] : \A e \in Sides : Branch(u, E, m, e)
    BY <1>4, <1>6, <1>7
  <2>3. QED
    BY <1>2, <1>3, <2>1, <2>2 DEF Shape
<1>9. InOrder(u, E)
  <2>1. ASSUME NEW m \in D[t.root] \cup {n}, NEW e \in Sides, NEW k \in E[u.child[m][e]]
        PROVE  Beside(e, k, m)
    <3>1. m # n
      BY <1>1, <1>2, <1>3, <2>1
    <3> DEFINE c == t.child[m][e]
    <3>2. m \in D[t.root] /\ m \in Nodes /\ c \in Nodes /\ c # n
      BY <1>1, <1>5, <3>1
    <3>3. k \in D[c] => Beside(e, k, m)
      BY <3>2 DEF InOrder
    <3>4. PidOf[n] \in Nat /\ PidOf[m] \in Nat
      <4>1. m \in Processes
        BY <3>2, Typed
      <4>2. QED
        BY <4>1, PidsAssumption
    <3>5. u.child[m][e] = IF m = y /\ e = q THEN n ELSE c
      BY <1>2, <3>1, <3>2
    <3>6. CASE m = y /\ e = q
      <4>1. k = n
        BY <1>3, <2>1, <3>5, <3>6
      <4>2. QED
        BY <3>4, <3>6, <4>1 DEF Beside
    <3>7. CASE ~(m = y /\ e = q)
      <4>1. k \in D[c] \/ (k = n /\ y \in D[c])
        BY <1>3, <2>1, <3>2, <3>5, <3>7
      <4>2. CASE k = n /\ y \in D[c]
        <5>1. Allows(m, e, PidOf[n])
          BY <3>2, <4>2 DEF OnTheWay
        <5>2. QED
          BY <4>2, <5>1 DEF Allows, Beside
      <4>3. QED
        BY <3>3, <4>1, <4>2
    <3>8. QED
      BY <3>6, <3>7
  <2>2. QED
    BY <1>4, <2>1 DEF InOrder
<1>10. QED
  BY <1>4, <1>8, <1>9

(***************************************************************************)
(* A red leaf leaves the counts alone and can be wrong only below red.     *)
(***************************************************************************)
LEMMA InsertedColors ==
    ASSUME NEW t, NEW D, NEW h, Shape(t, D), Sentinel(t), Balanced(t, D, h), NEW n \in Processes, n \notin D[t.root],
           NEW y \in D[t.root], NEW q \in Sides, t.child[y][q] = NIL,
           NEW u, Inserted(t, n, y, q, u), NEW k, k = [h EXCEPT ![n] = 1],
           NEW E, E[u.root] = D[t.root] \cup {n}
    PROVE  Heights(u, E, k, NULL, "left") /\ Reds(u, E, NULL, n)
<1>1. /\ y \in Nodes /\ y # NULL /\ n \in Nodes /\ n # NIL /\ NIL \in Nodes /\ n # y /\ n # NULL
      /\ \A m \in D[t.root] : m \in Nodes /\ m # n /\ m # NIL /\ m # NULL
  BY Typed, PointersAssumption DEF Nodes
<1>2. /\ \A m \in Nodes : \A e \in Sides :
           u.child[m][e] = IF m = n THEN NIL ELSE IF m = y /\ e = q THEN n ELSE t.child[m][e]
      /\ \A m \in Nodes : u.color[m] = IF m = n THEN "RED" ELSE t.color[m]
  BY <1>1 DEF Inserted
<1>3. /\ h \in [Nodes -> Nat] /\ h[NIL] = 0 /\ Heights(t, D, h, NULL, "left") /\ Reds(t, D, NULL, NULL)
      /\ t.color[NIL] = "BLACK"
  BY DEF Balanced, Heights, Sentinel
<1>4. k \in [Nodes -> Nat] /\ k[n] = 1 /\ k[NIL] = 0 /\ \A m \in Nodes : m # n => k[m] = h[m]
  BY <1>1, <1>3
<1>5. \A m \in D[t.root] : \A e \in Sides : t.child[m][e] \in Nodes /\ t.child[m][e] # n /\ t.child[m][e] # NULL
  <2>1. \A m \in D[t.root] : \A e \in Sides : t.child[m][e] \in Nodes /\ (t.child[m][e] # NIL => t.child[m][e] \in D[t.root])
    BY Children, BelowRoot
  <2>2. QED
    BY <1>1, <2>1, PointersAssumption DEF Nodes
<1>6. ASSUME NEW m \in D[t.root] \cup {n}, NEW e \in Sides
      PROVE  k[m] = Weight(u, k, u.child[m][e]) + Extra(m, e, NULL, "left")
  <2>1. Extra(m, e, NULL, "left") = 0
    BY <1>1, <1>6 DEF Extra
  <2>2. CASE m = n
    <3>1. u.child[m][e] = NIL /\ Weight(u, k, NIL) = 1
      BY <1>1, <1>2, <1>3, <1>4, <2>2 DEF Weight
    <3>2. QED
      BY <1>4, <2>1, <2>2, <3>1
  <2>3. CASE m \in D[t.root]
    <3> DEFINE c == t.child[m][e]
    <3>1. h[m] = Weight(t, h, c) /\ c \in Nodes /\ c # n /\ k[m] = h[m] /\ m \in Nodes
      BY <1>1, <1>3, <1>4, <1>5, <2>3, EvenHeights
    <3>2. u.child[m][e] = IF m = y /\ e = q THEN n ELSE c
      BY <1>1, <1>2, <2>3
    <3>3. m = y /\ e = q => c = NIL
      OBVIOUS
    <3> HIDE DEF c
    <3>4. CASE m = y /\ e = q
      <4>1. Weight(u, k, n) = 1 /\ Weight(t, h, c) = 1
        BY <1>1, <1>2, <1>3, <1>4, <3>3, <3>4 DEF Weight
      <4>2. QED
        BY <2>1, <3>1, <3>2, <3>4, <4>1
    <3>5. CASE ~(m = y /\ e = q)
      <4>1. Weight(u, k, c) = Weight(t, h, c) /\ h[m] \in Nat
        BY <1>2, <1>3, <1>4, <3>1 DEF Weight
      <4>2. QED
        BY <2>1, <3>1, <3>2, <3>5, <4>1
    <3>6. QED
      BY <3>4, <3>5
  <2>4. QED
    BY <2>2, <2>3
<1>7. ASSUME NEW m \in D[t.root] \cup {n}, NEW e \in Sides, u.color[m] = "RED", u.color[u.child[m][e]] = "RED"
      PROVE  u.child[m][e] = n
  <2>1. CASE m = n
    BY <1>1, <1>2, <1>3, <1>7, <2>1
  <2>2. CASE m \in D[t.root]
    <3>1. t.color[m] = "RED" /\ (u.child[m][e] # n => u.child[m][e] = t.child[m][e])
      BY <1>1, <1>2, <1>7, <2>2
    <3>2. u.child[m][e] # n => t.color[t.child[m][e]] = "RED"
      BY <1>2, <1>5, <1>7, <2>2, <3>1
    <3>3. QED
      BY <1>1, <1>3, <1>5, <2>2, <3>1, <3>2 DEF Reds
  <2>3. QED
    BY <2>1, <2>2
<1>8. QED
  BY <1>4, <1>6, <1>7 DEF Heights, Reds

(***************************************************************************)
(* The first process becomes the root.                                     *)
(***************************************************************************)
LEMMA InsertedFirst ==
    ASSUME NEW t, NEW D, NEW h, Shape(t, D), Sentinel(t), Balanced(t, D, h), NEW n \in Processes,
           t.root = NIL, NEW q, NEW u, Inserted(t, n, NULL, q, u), NEW k, k = [h EXCEPT ![n] = 1],
           NEW E, E = Grown(D, n, NULL)
    PROVE  /\ Shape(u, E) /\ E[u.root] = D[t.root] \cup {n} /\ InOrder(u, E)
           /\ Heights(u, E, k, NULL, "left") /\ Reds(u, E, NULL, n)
<1>1. n \in Nodes /\ n # NIL /\ NIL \in Nodes /\ D[NIL] = {} /\ n # NULL
      /\ \A m \in Nodes : m # NULL /\ D[m] \in SUBSET Processes
  BY Typed, PointersAssumption DEF Nodes
<1>2. /\ u \in Trees /\ u.root = n /\ u.parent[n] = NULL /\ \A e \in Sides : u.child[n][e] = NIL
      /\ u.color[NIL] = "BLACK"
  BY <1>1 DEF Inserted, Sentinel
<1>3. E \in [Nodes -> SUBSET Processes] /\ E[n] = {n} /\ E[NIL] = {}
  BY <1>1 DEF Grown
<1>4. \A e \in Sides : Branch(u, E, n, e)
  BY <1>1, <1>2, <1>3, SideFacts DEF Branch
<1>5. Shape(u, E)
  BY <1>1, <1>2, <1>3, <1>4 DEF Shape
<1>6. InOrder(u, E)
  BY <1>2, <1>3 DEF InOrder
<1>7. h \in [Nodes -> Nat] /\ h[NIL] = 0
  BY DEF Balanced, Heights
<1>8. k \in [Nodes -> Nat] /\ k[NIL] = 0 /\ k[n] = 1
  BY <1>1, <1>7
<1>9. Heights(u, E, k, NULL, "left")
  BY <1>1, <1>2, <1>3, <1>8 DEF Heights, Weight, Extra
<1>10. Reds(u, E, NULL, n)
  BY <1>2, <1>3 DEF Reds
<1>11. QED
  BY <1>1, <1>2, <1>3, <1>5, <1>6, <1>9, <1>10

(***************************************************************************)
(* rbInsert() adds n to the tree.                                          *)
(***************************************************************************)
LEMMA InsertKeeps ==
    ASSUME NEW D, NEW h, Certified(tree, fix, D, h), NEW n \in Processes, rbInsert(n)
    PROVE  /\ n \notin D[tree.root]
           /\ \E E, k : Certified(tree', fix', E, k) /\ E[tree'.root] = D[tree.root] \cup {n}
<1> DEFINE t == tree
           u == tree'
           y == InsertionParent(t, PidOf[n])
           q == IF PidOf[n] < PidOf[y] THEN "left" ELSE "right"
           E == Grown(D, n, y)
           k == [h EXCEPT ![n] = 1]
<1>1. /\ fix.op = "none" /\ n \notin Subtree(t, t.root) /\ u = Linked(t, n, y, q)
      /\ fix' = [op |-> "insert", node |-> n]
  BY DEF rbInsert, InTree, Linked
<1>2. Shape(t, D) /\ InOrder(t, D) /\ Sentinel(t) /\ Balanced(t, D, h) /\ t \in Trees
  BY <1>1 DEF Certified, Shape
<1> HIDE DEF t, u, y, E, k
<1>3. n \notin D[t.root]
  <2>1. t.root \in D[t.root] \cup {NIL}
    BY <1>2, Typed
  <2>2. Subtree(t, t.root) = D[t.root]
    BY <1>2, <2>1, SubtreeIs
  <2>3. QED
    BY <1>1, <2>2
<1>4. PidOf[n] \in Nat
  BY PidsAssumption
<1>5. /\ y = NULL => t.root = NIL
      /\ y # NULL => y \in D[t.root] /\ Turn(t, y, PidOf[n]) = NIL /\ OnTheWay(t, D, y, PidOf[n])
  BY <1>2, <1>4, InsertionIs DEF y
<1>6. q \in Sides /\ Turn(t, y, PidOf[n]) = t.child[y][q]
  BY SideFacts DEF Turn
<1>7. y \in Pointers /\ y # n
  BY <1>2, <1>3, <1>5, Typed, PointersAssumption DEF Pointers, Nodes
<1>8. q = IF PidOf[n] < PidOf[y] THEN "left" ELSE "right"
  OBVIOUS
<1> HIDE DEF q
<1>9. Inserted(t, n, y, q, u)
  BY <1>1, <1>2, <1>6, <1>7, InsertStores
<1>10. Shape(u, E) /\ E[u.root] = D[t.root] \cup {n} /\ InOrder(u, E)
       /\ Heights(u, E, k, NULL, "left") /\ Reds(u, E, NULL, n)
  <2>1. CASE y = NULL
    BY <1>2, <1>5, <1>9, <2>1, InsertedFirst DEF E, k
  <2>2. CASE y # NULL
    <3>1. y \in D[t.root] /\ t.child[y][q] = NIL /\ OnTheWay(t, D, y, PidOf[n])
      BY <1>5, <1>6, <2>2
    <3>2. Shape(u, E) /\ E[u.root] = D[t.root] \cup {n} /\ InOrder(u, E)
      BY <1>2, <1>3, <1>6, <1>8, <1>9, <3>1, InsertedKeeps DEF E
    <3>3. Heights(u, E, k, NULL, "left") /\ Reds(u, E, NULL, n)
      BY <1>2, <1>3, <1>6, <1>9, <3>1, <3>2, InsertedColors DEF k
    <3>4. QED
      BY <3>2, <3>3
  <2>3. QED
    BY <2>1, <2>2
<1>11. Sentinel(u) /\ u.color[n] = "RED"
  <2>1. NIL \in Nodes /\ n # NIL /\ y # NIL /\ n \in Nodes
    BY <1>2, <1>5, Typed, PointersAssumption DEF Nodes
  <2>2. QED
    BY <1>2, <1>9, <2>1 DEF Inserted, Sentinel
<1>12. Certified(u, fix', E, k)
  BY <1>1, <1>10, <1>11 DEF Certified, Inserting
<1>13. QED
  BY <1>3, <1>10, <1>12 DEF u, t

(* s is t with v in the place of u, its parent pointer included.           *)
Transplants(t, u, v, s) ==
    /\ s \in Trees /\ s.color = t.color
    /\ s.root = IF t.parent[u] = NULL THEN v ELSE t.root
    /\ \A k \in Nodes : \A e \in Sides :
         s.child[k][e] = IF k = t.parent[u] /\ e = NodeSide(t, u) THEN v ELSE t.child[k][e]
    /\ \A k \in Nodes : s.parent[k] = IF k = v THEN t.parent[u] ELSE t.parent[k]

(***************************************************************************)
(* What rbTransplant() stores.                                             *)
(***************************************************************************)
LEMMA TransplantIs ==
    ASSUME NEW t \in Trees, NEW u \in Nodes, NEW v \in Nodes
    PROVE  Transplants(t, u, v, rbTransplant(t, u, v))
<1> DEFINE s == ReplaceBelowParent(t, u, v)
           r == SetParent(s, v, t.parent[u])
<1>1. /\ s \in Trees /\ s.parent = t.parent /\ s.color = t.color
      /\ s.root = IF t.parent[u] = NULL THEN v ELSE t.root
      /\ \A k \in Nodes : \A e \in Sides :
           s.child[k][e] = IF k = t.parent[u] /\ e = NodeSide(t, u) THEN v ELSE t.child[k][e]
  BY ReplaceIs
<1>2. t.parent[u] \in Pointers
  BY Fields
<1> HIDE DEF s
<1>3. /\ r \in Trees /\ r.child = s.child /\ r.color = s.color /\ r.root = s.root
      /\ \A k \in Nodes : r.parent[k] = IF k = v THEN t.parent[u] ELSE s.parent[k]
  <2> DEFINE p == t.parent[u]
  <2> HIDE DEF p
  <2>1. s \in Trees /\ p \in Pointers
    BY <1>1, <1>2 DEF p
  <2>2. /\ SetParent(s, v, p) \in Trees /\ SetParent(s, v, p).child = s.child /\ SetParent(s, v, p).color = s.color
        /\ SetParent(s, v, p).root = s.root
        /\ \A k \in Nodes : SetParent(s, v, p).parent[k] = IF k = v THEN p ELSE s.parent[k]
    BY <2>1, SetParentIs
  <2>3. QED
    BY <2>2 DEF p
<1>4. rbTransplant(t, u, v) = r
  BY DEF rbTransplant, s
<1> HIDE DEF r
<1>5. QED
  BY <1>1, <1>3, <1>4 DEF Transplants

(***************************************************************************)
(* A structure given back is cleared, and nothing else.                    *)
(***************************************************************************)
LEMMA FreedIs ==
    ASSUME NEW t \in Trees, NEW z \in Nodes, NEW u, u = Freed(t, z)
    PROVE  /\ u \in Trees /\ u.root = t.root
           /\ \A m \in Nodes \ {z} : /\ u.child[m] = t.child[m] /\ u.parent[m] = t.parent[m]
                                     /\ u.color[m] = t.color[m]
<1> DEFINE C == [t.child EXCEPT ![z] = [d \in Sides |-> NULL]]
           P == [t.parent EXCEPT ![z] = NULL]
           Q == [t.color EXCEPT ![z] = "BLACK"]
<1>1. NULL \in Pointers
  BY DEF Pointers
<1>2. /\ C \in [Nodes -> [Sides -> Pointers]] /\ P \in [Nodes -> Pointers] /\ Q \in [Nodes -> {"RED", "BLACK"}]
      /\ \A m \in Nodes \ {z} : C[m] = t.child[m] /\ P[m] = t.parent[m] /\ Q[m] = t.color[m]
  BY <1>1, Fields
<1>3. u.child = C
  BY DEF Freed, Trees
<1>4. u.parent = P
  BY DEF Freed, Trees
<1>5. u.color = Q /\ u.root = t.root
  BY DEF Freed, Trees
<1>6. u = [child |-> u.child, parent |-> u.parent, color |-> u.color, root |-> u.root]
  BY DEF Freed, Trees
<1> HIDE DEF C, P, Q
<1>7. u \in Trees
  BY <1>2, <1>3, <1>4, <1>5, <1>6, Fields DEF Trees
<1>8. QED
  BY <1>2, <1>3, <1>4, <1>5, <1>7

(* u is t with z taken out and v in its place.                             *)
Spliced(t, D, z, v, u) ==
    /\ u \in Trees
    /\ u.root = IF z = t.root THEN v ELSE t.root
    /\ \A m \in D[t.root] \ {z} : \A e \in Sides :
         u.child[m][e] = IF t.child[m][e] = z THEN v ELSE t.child[m][e]
    /\ \A e \in Sides : u.child[NIL][e] = t.child[NIL][e]
    /\ \A m \in Nodes \ {z} : u.parent[m] = IF m = v THEN t.parent[z] ELSE t.parent[m]
    /\ \A m \in Nodes \ {z} : u.color[m] = t.color[m]

(***************************************************************************)
(* That is what rbTransplant() does to a node that is then freed.          *)
(***************************************************************************)
LEMMA SpliceIs ==
    ASSUME NEW t, NEW D, Shape(t, D), NEW z \in D[t.root], NEW v \in Nodes, v # z
    PROVE  Spliced(t, D, z, v, Freed(rbTransplant(t, z, v), z))
<1> DEFINE s == rbTransplant(t, z, v)
           u == Freed(s, z)
           p == t.parent[z]
<1>1. t \in Trees /\ z \in Nodes /\ z # NIL /\ NIL \in Nodes /\ NULL \notin Nodes
  BY Typed DEF Shape, Nodes
<1>2. Transplants(t, z, v, s)
  BY <1>1, TransplantIs
<1> HIDE DEF s
<1>3. s \in Trees
  BY <1>2 DEF Transplants
<1>4. /\ u \in Trees /\ u.root = s.root
      /\ \A m \in Nodes \ {z} : u.child[m] = s.child[m] /\ u.parent[m] = s.parent[m] /\ u.color[m] = s.color[m]
  BY <1>1, <1>3, FreedIs
<1>5. /\ p = NULL <=> z = t.root
      /\ z # t.root => /\ p \in D[t.root] /\ t.child[p][NodeSide(t, z)] = z
                       /\ t.child[p][Opposite(NodeSide(t, z))] # z
      /\ NodeSide(t, z) \in Sides
  BY ParentIs
<1> HIDE DEF u
<1>6. u.root = IF z = t.root THEN v ELSE t.root
  BY <1>2, <1>4, <1>5 DEF Transplants
<1>7. \A m \in Nodes \ {z} : u.parent[m] = (IF m = v THEN p ELSE t.parent[m]) /\ u.color[m] = t.color[m]
  BY <1>2, <1>4 DEF Transplants
<1>8. \A m \in Nodes \ {z} : \A e \in Sides :
         u.child[m][e] = IF m = p /\ e = NodeSide(t, z) THEN v ELSE t.child[m][e]
  BY <1>2, <1>4 DEF Transplants
<1>9. \A e \in Sides : u.child[NIL][e] = t.child[NIL][e]
  <2>1. p # NIL
    BY <1>1, <1>5, Typed
  <2>2. QED
    BY <1>1, <1>8, <2>1
<1>10. ASSUME NEW m \in D[t.root] \ {z}, NEW e \in Sides
       PROVE  u.child[m][e] = IF t.child[m][e] = z THEN v ELSE t.child[m][e]
  <2>1. m \in Nodes /\ m # NULL /\ u.child[m][e] = IF m = p /\ e = NodeSide(t, z) THEN v ELSE t.child[m][e]
    BY <1>8, <1>10, Typed
  <2>2. t.child[m][e] = z => m = p
    BY <1>1, Children
  <2>3. e = NodeSide(t, z) \/ e = Opposite(NodeSide(t, z))
    BY <1>5, SideFacts
  <2>4. m = p => z # t.root
    BY <1>5, <2>1
  <2> HIDE DEF p
  <2>5. m = p => (t.child[m][e] = z <=> e = NodeSide(t, z))
    BY <1>5, <2>3, <2>4
  <2>6. QED
    BY <2>1, <2>2, <2>5
<1>11. QED
  BY <1>4, <1>6, <1>7, <1>9, <1>10 DEF Spliced, u, s

(* The subtrees without z.                                                 *)
Without(D, z) == [m \in Nodes |-> D[m] \ {z}]

(***************************************************************************)
(* A node with at most one child is taken out.                             *)
(***************************************************************************)
LEMMA SpliceKeeps ==
    ASSUME NEW t, NEW D, Shape(t, D), NEW z \in D[t.root], NEW a \in Sides, NEW v, v = t.child[z][a],
           t.child[z][Opposite(a)] = NIL, NEW u, Spliced(t, D, z, v, u), NEW E, E = Without(D, z)
    PROVE  /\ Shape(u, E) /\ E[u.root] = D[t.root] \ {z}
           /\ InOrder(t, D) => InOrder(u, E)
           /\ \A m \in D[t.root] \ {z} : \A e \in Sides : E[u.child[m][e]] = D[t.child[m][e]] \ {z}
<1>1. /\ z \in Nodes /\ z # NIL /\ NIL \in Nodes /\ NULL \notin Nodes /\ D[NIL] = {} /\ t.root \in Nodes
      /\ t.root # NIL /\ t.root \in D[t.root] /\ t.parent[t.root] = NULL
      /\ \A m \in Nodes : D[m] \in SUBSET Processes
      /\ \A m \in D[t.root] : m \in Nodes /\ m # NIL /\ m # NULL
  BY Typed DEF Nodes
<1>2. /\ v \in Nodes /\ (v # NIL => v \in D[v] /\ t.parent[v] = z) /\ D[z] = {z} \cup D[v] \cup D[NIL] /\ z \notin D[v]
  BY Children
<1>3. v # z /\ D[v] = D[z] \ {z} /\ v # t.root
  BY <1>1, <1>2
<1>4. /\ u \in Trees
      /\ u.root = IF z = t.root THEN v ELSE t.root
      /\ \A m \in D[t.root] \ {z} : \A e \in Sides :
           u.child[m][e] = IF t.child[m][e] = z THEN v ELSE t.child[m][e]
      /\ \A m \in Nodes \ {z} : u.parent[m] = IF m = v THEN t.parent[z] ELSE t.parent[m]
  BY DEF Spliced
<1>5. E \in [Nodes -> SUBSET Processes] /\ \A m \in Nodes : E[m] = D[m] \ {z}
  BY <1>1 DEF Without
<1>6. E[NIL] = {}
  BY <1>1, <1>5
<1>7. E[u.root] = D[t.root] \ {z}
  BY <1>1, <1>2, <1>3, <1>4, <1>5
<1>8. u.root # NIL => u.root \in E[u.root] /\ u.parent[u.root] = NULL
  <2>1. CASE z = t.root
    <3>1. u.root = v /\ u.parent[v] = NULL
      BY <1>1, <1>2, <1>3, <1>4, <2>1
    <3>2. QED
      BY <1>2, <1>3, <1>5, <3>1
  <2>2. CASE z # t.root
    <3>1. u.root = t.root /\ u.parent[t.root] = NULL
      BY <1>1, <1>3, <1>4, <2>2
    <3>2. QED
      BY <1>1, <1>5, <2>2, <3>1
  <2>3. QED
    BY <2>1, <2>2
<1>9. ASSUME NEW m \in D[t.root] \ {z}, NEW e \in Sides
      PROVE  /\ u.child[m][e] \in Nodes /\ E[u.child[m][e]] = D[t.child[m][e]] \ {z}
             /\ u.child[m][e] # NIL => u.child[m][e] \in E[u.child[m][e]] /\ u.parent[u.child[m][e]] = m
  <2> DEFINE c == t.child[m][e]
             b == u.child[m][e]
  <2>1. b = IF c = z THEN v ELSE c
    BY <1>4, <1>9
  <2>2. c \in Nodes /\ (c # NIL => c \in D[c] /\ t.parent[c] = m)
    BY Children
  <2> HIDE DEF b, c
  <2>3. CASE c = z
    <3>1. b = v /\ E[b] = D[c] \ {z}
      BY <1>2, <1>3, <1>5, <2>1, <2>3
    <3>2. v # NIL => v \in E[v] /\ u.parent[v] = m
      BY <1>1, <1>2, <1>3, <1>4, <1>5, <2>2, <2>3
    <3>3. QED
      BY <1>2, <3>1, <3>2 DEF b, c
  <2>4. CASE c # z
    <3>1. b = c /\ E[b] = D[c] \ {z}
      BY <1>5, <2>1, <2>2, <2>4
    <3>2. c # NIL => c # v
      BY <1>2, <1>9, <2>2
    <3>3. c # NIL => c \in E[c] /\ u.parent[c] = m
      BY <1>4, <1>5, <2>2, <2>4, <3>2
    <3>4. QED
      BY <2>2, <3>1, <3>3 DEF b, c
  <2>5. QED
    BY <2>3, <2>4
<1>10. ASSUME NEW m \in D[t.root] \ {z}, NEW e \in Sides PROVE Branch(u, E, m, e)
  <2> DEFINE c == t.child[m][e]
             f == t.child[m][Opposite(e)]
             b == u.child[m][e]
             g == u.child[m][Opposite(e)]
  <2>1. b \in Nodes /\ E[b] = D[c] \ {z} /\ (b # NIL => b \in E[b] /\ u.parent[b] = m)
    BY <1>9
  <2>2. E[g] = D[f] \ {z}
    BY <1>9, SideFacts
  <2>3. D[m] = {m} \cup D[c] \cup D[f] /\ m \notin D[c] /\ D[c] \cap D[f] = {}
    BY Children
  <2>4. E[m] = D[m] \ {z} /\ m # z
    BY <1>1, <1>5
  <2> HIDE DEF c, f
  <2>5. QED
    BY <2>1, <2>2, <2>3, <2>4 DEF Branch
<1>11. Shape(u, E)
  BY <1>4, <1>5, <1>6, <1>7, <1>8, <1>10 DEF Shape
<1>12. InOrder(t, D) => InOrder(u, E)
  BY <1>7, <1>9 DEF InOrder
<1>13. QED
  BY <1>7, <1>9, <1>11, <1>12

(***************************************************************************)
(* A red node can be taken out; where a black one was, its child counts    *)
(* for one more.                                                           *)
(***************************************************************************)
LEMMA SpliceColors ==
    ASSUME NEW t, NEW D, NEW h, Shape(t, D), Sentinel(t), Balanced(t, D, h),
           NEW z \in D[t.root], NEW a \in Sides, NEW v, v = t.child[z][a],
           t.child[z][Opposite(a)] = NIL, NEW u, Spliced(t, D, z, v, u), NEW E, E = Without(D, z)
    PROVE  /\ Sentinel(u)
           /\ t.color[z] = "BLACK" => Deleting(u, E, h, v)
           /\ t.color[z] # "BLACK" => Balanced(u, E, h)
<1> DEFINE p == t.parent[z]
           s == NodeSide(t, z)
<1>1. /\ z \in Nodes /\ z # NIL /\ NIL \in Nodes /\ NULL \notin Nodes /\ t.root \in Nodes /\ t \in Trees
      /\ t.root # NIL /\ t.root \in D[t.root] /\ t.parent[t.root] = NULL
      /\ \A m \in D[t.root] : m \in Nodes /\ m # NIL /\ m # NULL
  BY Typed DEF Nodes, Shape
<1>2. v \in Nodes /\ (v # NIL => v \in D[v] /\ t.parent[v] = z) /\ z \notin D[v] /\ (v # NIL => v \in D[t.root])
  BY Children, BelowRoot
<1>3. v # z /\ v # t.root
  BY <1>1, <1>2
<1>4. /\ u.root = IF z = t.root THEN v ELSE t.root
      /\ \A m \in D[t.root] \ {z} : \A e \in Sides :
           u.child[m][e] = IF t.child[m][e] = z THEN v ELSE t.child[m][e]
      /\ \A e \in Sides : u.child[NIL][e] = t.child[NIL][e]
      /\ \A m \in Nodes \ {z} : u.parent[m] = IF m = v THEN t.parent[z] ELSE t.parent[m]
      /\ \A m \in Nodes \ {z} : u.color[m] = t.color[m]
  BY DEF Spliced
<1>5. E[u.root] = D[t.root] \ {z}
  BY SpliceKeeps
<1>6. Sentinel(u)
  BY <1>1, <1>4 DEF Sentinel
<1>7. /\ h \in [Nodes -> Nat] /\ h[NIL] = 0 /\ Heights(t, D, h, NULL, "left") /\ Reds(t, D, NULL, NULL)
      /\ t.color[t.root] = "BLACK"
  BY DEF Balanced, Heights
<1>8. \A m \in D[t.root] : \A e \in Sides : /\ t.child[m][e] \in Nodes /\ t.child[m][e] # NULL
                                            /\ t.child[m][e] = z => m = p
                                            /\ h[m] = Weight(t, h, t.child[m][e])
  BY <1>1, <1>7, Children, EvenHeights
<1>9. /\ p = NULL <=> z = t.root
      /\ z # t.root => p \in D[t.root] /\ p # z /\ t.child[p][s] = z /\ t.child[p][Opposite(s)] # z
      /\ s \in Sides
  <2>1. z \in D[z]
    BY BelowRoot
  <2>2. QED
    BY <2>1, ParentIs
<1>10. h[z] = Weight(t, h, v) /\ Weight(u, h, v) = Weight(t, h, v) /\ Weight(t, h, v) \in Nat /\ h[z] \in Nat
  <2>1. h[z] = Weight(t, h, v)
    BY <1>8
  <2>2. u.color[v] = t.color[v]
    BY <1>2, <1>3, <1>4
  <2>3. QED
    BY <1>1, <1>2, <1>7, <2>1, <2>2, Weights DEF Weight
<1>11. ASSUME NEW m \in D[t.root] \ {z}, NEW e \in Sides, t.color[m] = "RED", u.color[u.child[m][e]] = "RED"
       PROVE  u.child[m][e] = v /\ t.child[m][e] = z
  <2>1. t.child[m][e] # z => t.color[t.child[m][e]] = "RED"
    BY <1>4, <1>8, <1>11
  <2>2. ~(t.color[m] = "RED" /\ t.color[t.child[m][e]] = "RED")
    BY <1>1, <1>7, <1>8 DEF Reds
  <2>3. t.child[m][e] = z
    BY <1>11, <2>1, <2>2
  <2>4. QED
    BY <1>4, <2>3
<1>12. ASSUME NEW m \in D[t.root] \ {z}, NEW e \in Sides
       PROVE  h[m] = Weight(u, h, u.child[m][e]) + IF t.child[m][e] = z /\ t.color[z] = "BLACK" THEN 1 ELSE 0
  <2> DEFINE c == t.child[m][e]
  <2>1. c \in Nodes /\ h[m] = Weight(t, h, c) /\ h[m] \in Nat /\ h[c] \in Nat
    BY <1>1, <1>7, <1>8
  <2>2. u.child[m][e] = IF c = z THEN v ELSE c
    BY <1>4
  <2> HIDE DEF c
  <2>3. CASE c = z
    <3>1. h[m] = h[z] + IF t.color[z] = "BLACK" THEN 1 ELSE 0
      BY <2>1, <2>3 DEF Weight
    <3>2. QED
      BY <1>10, <2>2, <2>3, <3>1 DEF c
  <2>4. CASE c # z
    <3>1. Weight(u, h, c) = Weight(t, h, c)
      BY <1>4, <2>1, <2>4 DEF Weight
    <3>2. QED
      BY <2>1, <2>2, <2>4, <3>1 DEF c
  <2>5. QED
    BY <2>3, <2>4
<1>13. ASSUME t.color[z] = "BLACK" PROVE Deleting(u, E, h, v)
  <2>1. v \in E[u.root] \cup {NIL}
    BY <1>2, <1>3, <1>5
  <2>2. Reds(u, E, v, v)
    BY <1>1, <1>4, <1>5, <1>11 DEF Reds
  <2>3. v = u.root <=> z = t.root
    BY <1>3, <1>4
  <2>4. u.color[u.root] = "BLACK" \/ v = u.root
    BY <1>1, <1>4, <1>7, <2>3
  <2>5. ASSUME z = t.root PROVE Heights(u, E, h, NULL, "left")
    <3>1. \A m \in D[t.root] \ {z} : \A e \in Sides : t.child[m][e] # z /\ Extra(m, e, NULL, "left") = 0
      BY <1>1, <1>8, <1>9, <2>5 DEF Extra
    <3>2. QED
      BY <1>5, <1>7, <1>12, <3>1 DEF Heights
  <2>6. ASSUME z # t.root
        PROVE  u.parent[v] \in E[u.root] /\ u.child[u.parent[v]][s] = v /\ Heights(u, E, h, u.parent[v], s)
    <3>1. u.parent[v] = p /\ p \in D[t.root] \ {z}
      BY <1>2, <1>3, <1>4, <1>9, <2>6
    <3>2. u.child[p][s] = v
      BY <1>4, <1>9, <2>6, <3>1
    <3>3. ASSUME NEW m \in D[t.root] \ {z}, NEW e \in Sides
          PROVE  Extra(m, e, p, s) = IF t.child[m][e] = z THEN 1 ELSE 0
      <4>1. e = s \/ e = Opposite(s)
        BY <1>9, SideFacts
      <4>2. t.child[m][e] = z => m = p
        BY <1>8
      <4> HIDE DEF p, s
      <4>3. QED
        BY <1>9, <2>6, <4>1, <4>2 DEF Extra
    <3>4. \A m \in D[t.root] \ {z} : \A e \in Sides : h[m] = Weight(u, h, u.child[m][e]) + Extra(m, e, p, s)
      BY <1>12, <1>13, <3>3
    <3>5. Heights(u, E, h, p, s)
      BY <1>5, <1>7, <3>4 DEF Heights
    <3>6. QED
      BY <1>5, <3>1, <3>2, <3>5
  <2>7. QED
    BY <1>9, <2>1, <2>2, <2>3, <2>4, <2>5, <2>6 DEF Deleting
<1>14. ASSUME t.color[z] # "BLACK" PROVE Balanced(u, E, h)
  <2>1. t.color[z] = "RED" /\ z # t.root
    BY <1>1, <1>7, <1>14, Fields
  <2>2. u.root = t.root /\ u.color[t.root] = "BLACK"
    BY <1>1, <1>4, <1>7, <2>1
  <2>3. t.color[v] # "RED"
    BY <1>1, <1>7, <1>8, <2>1 DEF Reds
  <2>4. \A m \in D[t.root] \ {z} : \A e \in Sides : ~(u.color[m] = "RED" /\ u.color[u.child[m][e]] = "RED")
    BY <1>1, <1>2, <1>3, <1>4, <1>11, <2>3
  <2>5. Reds(u, E, NULL, NULL)
    BY <1>5, <2>4 DEF Reds
  <2>6. \A m \in D[t.root] \ {z} : \A e \in Sides : h[m] = Weight(u, h, u.child[m][e]) + Extra(m, e, NULL, "left")
    BY <1>1, <1>12, <1>14 DEF Extra
  <2>7. Heights(u, E, h, NULL, "left")
    BY <1>5, <1>7, <2>6 DEF Heights
  <2>8. QED
    BY <2>2, <2>5, <2>7 DEF Balanced
<1>15. QED
  BY <1>6, <1>13, <1>14

(* u is t with y, which t does not have, in the place of z, its links and  *)
(* its color; x may be NIL and has its parent, too.                        *)
Renamed(t, D, z, y, x, u) ==
    /\ u \in Trees
    /\ u.root = IF z = t.root THEN y ELSE t.root
    /\ \A m \in D[t.root] \ {z} : \A e \in Sides :
         u.child[m][e] = IF t.child[m][e] = z THEN y ELSE t.child[m][e]
    /\ \A e \in Sides : u.child[y][e] = t.child[z][e] /\ u.child[NIL][e] = t.child[NIL][e]
    /\ u.parent[y] = t.parent[z]
    /\ \A m \in (D[t.root] \cup {x}) \ {z} : u.parent[m] = IF t.parent[m] = z THEN y ELSE t.parent[m]
    /\ u.color[y] = t.color[z]
    /\ \A m \in (D[t.root] \cup {NIL}) \ {z} : u.color[m] = t.color[m]

(* The subtrees with y in the place of z.                                  *)
Swapped(D, z, y) ==
    [m \in Nodes |-> IF m = y THEN (D[z] \ {z}) \cup {y}
                     ELSE IF z \in D[m] THEN (D[m] \ {z}) \cup {y} ELSE D[m]]

(* The heights with y in the place of z.                                   *)
Takes(h, z, y) == [h EXCEPT ![y] = h[z]]

(* y may stand where z stands.                                             *)
FitsAt(t, D, z, y) ==
    /\ \A m \in D[t.root] : \A e \in Sides : z \in D[t.child[m][e]] => Beside(e, y, m)
    /\ \A e \in Sides : \A m \in D[t.child[z][e]] : Beside(e, m, y)

(***************************************************************************)
(* The successor takes the place of the deleted node.                      *)
(***************************************************************************)
LEMMA RenameKeeps ==
    ASSUME NEW t, NEW D, Shape(t, D), NEW z \in D[t.root], NEW y \in Processes, y \notin D[t.root], NEW x,
           NEW u, Renamed(t, D, z, y, x, u), NEW E, E = Swapped(D, z, y)
    PROVE  /\ Shape(u, E) /\ E[u.root] = (D[t.root] \ {z}) \cup {y}
           /\ InOrder(t, D) /\ FitsAt(t, D, z, y) => InOrder(u, E)
<1>1. /\ z \in Nodes /\ z # NIL /\ NIL \in Nodes /\ NULL \notin Nodes /\ D[NIL] = {} /\ t.root \in Nodes
      /\ t.root # NIL /\ t.root \in D[t.root] /\ t.parent[t.root] = NULL
      /\ \A m \in Nodes : D[m] \in SUBSET Processes
      /\ \A m \in D[t.root] : m \in Nodes /\ m # NIL /\ m # NULL /\ m # y
      /\ y \in Nodes /\ y # NIL
  BY Typed DEF Nodes
<1>2. z \in D[z] /\ D[z] \subseteq D[t.root] /\ z # y
  BY BelowRoot
<1>3. /\ u \in Trees
      /\ u.root = IF z = t.root THEN y ELSE t.root
      /\ \A m \in D[t.root] \ {z} : \A e \in Sides :
           u.child[m][e] = IF t.child[m][e] = z THEN y ELSE t.child[m][e]
      /\ \A e \in Sides : u.child[y][e] = t.child[z][e]
      /\ u.parent[y] = t.parent[z]
      /\ \A m \in D[t.root] \ {z} : u.parent[m] = IF t.parent[m] = z THEN y ELSE t.parent[m]
  BY DEF Renamed
<1>4. /\ E \in [Nodes -> SUBSET Processes] /\ E[y] = (D[z] \ {z}) \cup {y}
      /\ \A m \in Nodes : m # y => E[m] = IF z \in D[m] THEN (D[m] \ {z}) \cup {y} ELSE D[m]
  BY <1>1 DEF Swapped
<1>5. E[NIL] = {}
  BY <1>1, <1>4
<1>6. E[u.root] = (D[t.root] \ {z}) \cup {y}
  <2>1. CASE z = t.root
    BY <1>3, <1>4, <2>1
  <2>2. CASE z # t.root
    <3>1. u.root = t.root /\ t.root # y
      BY <1>1, <1>3, <2>2
    <3>2. QED
      BY <1>1, <1>4, <3>1
  <2>3. QED
    BY <2>1, <2>2
<1>7. u.root # NIL => u.root \in E[u.root] /\ u.parent[u.root] = NULL
  <2>1. CASE z = t.root
    BY <1>1, <1>3, <1>4, <2>1
  <2>2. CASE z # t.root
    <3>1. u.root = t.root /\ u.parent[t.root] = NULL
      BY <1>1, <1>3, <2>2
    <3>2. QED
      BY <1>1, <1>6, <2>2, <3>1
  <2>3. QED
    BY <2>1, <2>2
<1>8. ASSUME NEW m \in D[t.root], NEW e \in Sides
      PROVE  LET c == t.child[m][e]
             IN  /\ c \in Nodes /\ c # y /\ y \notin D[c] /\ D[c] \subseteq D[t.root]
                 /\ c # NIL => c \in D[c] /\ t.parent[c] = m /\ c \in D[t.root]
                 /\ m \notin D[c]
  <2> DEFINE c == t.child[m][e]
  <2>1. c \in Nodes /\ (c # NIL => c \in D[c] /\ t.parent[c] = m) /\ m \notin D[c]
    BY Children
  <2>2. D[c] \subseteq D[m] /\ D[m] \subseteq D[t.root]
    BY BelowRoot
  <2> HIDE DEF c
  <2>3. QED
    BY <1>1, <2>1, <2>2 DEF c
<1>9. ASSUME NEW m \in D[t.root] \ {z}, NEW e \in Sides
      PROVE  LET c == t.child[m][e]
                 b == u.child[m][e]
             IN  /\ b \in Nodes /\ E[b] = (IF z \in D[c] THEN (D[c] \ {z}) \cup {y} ELSE D[c])
                 /\ b # NIL => b \in E[b] /\ u.parent[b] = m
  <2> DEFINE c == t.child[m][e]
             b == u.child[m][e]
  <2>1. b = IF c = z THEN y ELSE c
    BY <1>3, <1>9
  <2>2. /\ c \in Nodes /\ c # y
        /\ c # NIL => c \in D[c] /\ t.parent[c] = m /\ c \in D[t.root]
    BY <1>8
  <2> HIDE DEF b, c
  <2>3. CASE c = z
    <3>1. b = y /\ E[b] = (D[c] \ {z}) \cup {y}
      BY <1>4, <2>1, <2>3
    <3>2. u.parent[y] = m
      BY <1>1, <1>3, <2>2, <2>3
    <3>3. QED
      BY <1>1, <1>2, <2>3, <3>1, <3>2 DEF b, c
  <2>4. CASE c # z
    <3>1. b = c /\ E[b] = IF z \in D[c] THEN (D[c] \ {z}) \cup {y} ELSE D[c]
      BY <1>4, <2>1, <2>2, <2>4
    <3>2. c # NIL => c \in E[c] /\ u.parent[c] = m
      BY <1>3, <1>9, <2>2, <2>4, <3>1
    <3>3. QED
      BY <2>2, <3>1, <3>2 DEF b, c
  <2>5. QED
    BY <2>3, <2>4
<1>10. ASSUME NEW m \in D[t.root] \ {z}, NEW e \in Sides PROVE Branch(u, E, m, e)
  <2> DEFINE c == t.child[m][e]
             f == t.child[m][Opposite(e)]
             b == u.child[m][e]
             g == u.child[m][Opposite(e)]
  <2>1. b \in Nodes /\ E[b] = (IF z \in D[c] THEN (D[c] \ {z}) \cup {y} ELSE D[c]) /\ (b # NIL => b \in E[b] /\ u.parent[b] = m)
    BY <1>9
  <2>2. E[g] = IF z \in D[f] THEN (D[f] \ {z}) \cup {y} ELSE D[f]
    BY <1>9, SideFacts
  <2>3. D[m] = {m} \cup D[c] \cup D[f] /\ m \notin D[c] /\ D[c] \cap D[f] = {}
    BY Children
  <2>4. E[m] = (IF z \in D[m] THEN (D[m] \ {z}) \cup {y} ELSE D[m]) /\ m # z /\ m # y
    BY <1>1, <1>4
  <2>5. y \notin D[c] /\ y \notin D[f]
    BY <1>8, SideFacts
  <2> HIDE DEF c, f, b, g
  <2>6. E[m] = {m} \cup E[b] \cup E[g] /\ m \notin E[b] /\ E[b] \cap E[g] = {}
    BY <2>1, <2>2, <2>3, <2>4, <2>5
  <2>7. QED
    BY <2>1, <2>6 DEF Branch, b, g
<1>11. ASSUME NEW e \in Sides
       PROVE  LET c == t.child[z][e]
              IN  /\ c \in Nodes /\ u.child[y][e] = c /\ E[c] = D[c] /\ y \notin D[c] /\ z \notin D[c]
                  /\ c # NIL => c \in D[c] /\ u.parent[c] = y
  <2> DEFINE c == t.child[z][e]
  <2>1. /\ c \in Nodes /\ c # y /\ y \notin D[c] /\ z \notin D[c]
        /\ c # NIL => c \in D[c] /\ t.parent[c] = z /\ c \in D[t.root]
    BY <1>8
  <2>2. u.child[y][e] = c
    BY <1>3
  <2> HIDE DEF c
  <2>3. E[c] = D[c]
    BY <1>4, <2>1
  <2>4. c # NIL => u.parent[c] = y
    BY <1>3, <2>1
  <2>5. QED
    BY <2>1, <2>2, <2>3, <2>4 DEF c
<1>12. ASSUME NEW e \in Sides PROVE Branch(u, E, y, e)
  <2> DEFINE c == t.child[z][e]
             f == t.child[z][Opposite(e)]
  <2>1. c \in Nodes /\ u.child[y][e] = c /\ E[c] = D[c] /\ y \notin D[c] /\ z \notin D[c] /\ (c # NIL => c \in D[c] /\ u.parent[c] = y)
    BY <1>11
  <2>2. u.child[y][Opposite(e)] = f /\ E[f] = D[f] /\ z \notin D[f]
    BY <1>11, SideFacts
  <2>3. D[z] = {z} \cup D[c] \cup D[f] /\ D[c] \cap D[f] = {}
    BY Children
  <2> HIDE DEF c, f
  <2>4. E[y] = {y} \cup D[c] \cup D[f]
    BY <1>4, <2>1, <2>2, <2>3
  <2>5. QED
    BY <2>1, <2>2, <2>3, <2>4 DEF Branch
<1>13. Shape(u, E)
  <2>1. \A m \in E[u.root] : \A e \in Sides : Branch(u, E, m, e)
    BY <1>6, <1>10, <1>12
  <2>2. QED
    BY <1>3, <1>4, <1>5, <1>7, <2>1 DEF Shape
<1>14. ASSUME InOrder(t, D), FitsAt(t, D, z, y), NEW m \in (D[t.root] \ {z}) \cup {y}, NEW e \in Sides, NEW k \in E[u.child[m][e]]
       PROVE  Beside(e, k, m)
  <2>1. CASE m = y
    BY <1>11, <1>14, <2>1 DEF FitsAt
  <2>2. CASE m \in D[t.root] \ {z}
    <3>1. E[u.child[m][e]] = IF z \in D[t.child[m][e]] THEN (D[t.child[m][e]] \ {z}) \cup {y} ELSE D[t.child[m][e]]
      BY <1>9, <2>2
    <3>2. k \in D[t.child[m][e]] \/ (k = y /\ z \in D[t.child[m][e]])
      BY <1>14, <3>1
    <3>3. QED
      BY <1>14, <2>2, <3>2 DEF FitsAt, InOrder
  <2>3. QED
    BY <2>1, <2>2
<1>15. InOrder(t, D) /\ FitsAt(t, D, z, y) => InOrder(u, E)
  BY <1>6, <1>14 DEF InOrder
<1>16. QED
  BY <1>6, <1>13, <1>15

(***************************************************************************)
(* With the color and the count of z, y makes no difference.               *)
(***************************************************************************)
LEMMA RenameColors ==
    ASSUME NEW t, NEW D, NEW h, Shape(t, D), NEW z \in D[t.root], NEW y \in Processes, y \notin D[t.root], NEW x, x # z,
           NEW u, Renamed(t, D, z, y, x, u), NEW E, E = Swapped(D, z, y), NEW k, k = Takes(h, z, y)
    PROVE  /\ Sentinel(t) => Sentinel(u)
           /\ Balanced(t, D, h) => Balanced(u, E, k)
           /\ Deleting(t, D, h, x) => Deleting(u, E, k, x)
<1> DEFINE R(m) == IF m = z THEN y ELSE m
<1>1. /\ z \in Nodes /\ z # NIL /\ NIL \in Nodes /\ NULL \notin Nodes /\ t.root \in Nodes
      /\ t.root \in D[t.root]
      /\ \A m \in D[t.root] : m \in Nodes /\ m # NIL /\ m # NULL /\ m # y
      /\ y \in Nodes /\ y # NIL /\ y # NULL /\ z # y
  BY Typed DEF Nodes
<1>2. /\ u.root = R(t.root)
      /\ \A m \in D[t.root] : \A e \in Sides : u.child[R(m)][e] = R(t.child[m][e])
      /\ \A e \in Sides : u.child[NIL][e] = t.child[NIL][e]
      /\ \A m \in D[t.root] \cup {x} : m # z => u.parent[m] = R(t.parent[m])
      /\ \A m \in D[t.root] \cup {NIL} : u.color[R(m)] = t.color[m]
  <2>1. u.root = R(t.root) /\ \A e \in Sides : u.child[NIL][e] = t.child[NIL][e]
    BY DEF Renamed
  <2>2. ASSUME NEW m \in D[t.root], NEW e \in Sides PROVE u.child[R(m)][e] = R(t.child[m][e])
    <3>1. CASE m = z
      <4>1. t.child[z][e] # z
        <5>1. z \notin D[t.child[z][e]] /\ z \in D[z]
          BY Children, BelowRoot
        <5>2. QED
          BY <5>1
      <4>2. QED
        BY <3>1, <4>1 DEF Renamed
    <3>2. CASE m # z
      BY <3>2 DEF Renamed
    <3>3. QED
      BY <3>1, <3>2
  <2>3. \A m \in D[t.root] \cup {x} : m # z => u.parent[m] = R(t.parent[m])
    BY DEF Renamed
  <2>4. \A m \in D[t.root] \cup {NIL} : u.color[R(m)] = t.color[m]
    BY DEF Renamed
  <2>5. QED
    BY <2>1, <2>2, <2>3, <2>4
<1>3. E[u.root] = (D[t.root] \ {z}) \cup {y}
  BY RenameKeeps
<1>4. \A n \in E[u.root] : \E m \in D[t.root] : n = R(m)
  BY <1>3
<1>5. \A m \in D[t.root] : \A e \in Sides : t.child[m][e] \in D[t.root] \cup {NIL}
  BY BelowRoot
<1>6. Sentinel(t) => Sentinel(u)
  BY <1>1, <1>2 DEF Sentinel
<1>7. u.color[u.root] = t.color[t.root]
  BY <1>1, <1>2
<1> HIDE DEF R
<1>8. ASSUME NEW a, NEW b, Reds(t, D, a, b) PROVE Reds(u, E, R(a), R(b))
  <2>1. ASSUME NEW n \in E[u.root], NEW e \in Sides, u.color[n] = "RED", u.color[u.child[n][e]] = "RED"
        PROVE  n = R(a) \/ u.child[n][e] = R(b)
    <3>1. PICK m \in D[t.root] : n = R(m)
      BY <1>4
    <3>2. u.child[n][e] = R(t.child[m][e]) /\ t.color[m] = "RED"
      BY <1>2, <2>1, <3>1
    <3>3. t.color[t.child[m][e]] = "RED"
      BY <1>2, <1>5, <2>1, <3>2
    <3>4. m = a \/ t.child[m][e] = b
      BY <1>8, <3>2, <3>3 DEF Reds
    <3>5. QED
      BY <3>1, <3>2, <3>4
  <2>2. QED
    BY <2>1 DEF Reds
<1>9. ASSUME NEW q \in D[t.root] \cup {NULL}, NEW s, Heights(t, D, h, q, s) PROVE Heights(u, E, k, R(q), s)
  <2>1. h \in [Nodes -> Nat] /\ h[NIL] = 0
    BY <1>9 DEF Heights
  <2>2. k \in [Nodes -> Nat] /\ k[y] = h[z] /\ \A m \in Nodes : m # y => k[m] = h[m]
    BY <1>1, <2>1 DEF Takes
  <2>3. k[NIL] = 0
    BY <1>1, <2>1, <2>2
  <2>4. \A m \in D[t.root] \cup {NIL} : k[R(m)] = h[m]
    BY <1>1, <2>2 DEF R
  <2>5. \A m \in D[t.root] \cup {NIL} : Weight(u, k, R(m)) = Weight(t, h, m)
    BY <1>2, <2>4 DEF Weight
  <2>6. \A m \in D[t.root] : R(m) = R(q) <=> m = q
    BY <1>1, <1>9 DEF R
  <2>7. ASSUME NEW n \in E[u.root], NEW e \in Sides
        PROVE  k[n] = Weight(u, k, u.child[n][e]) + Extra(n, e, R(q), s)
    <3>1. PICK m \in D[t.root] : n = R(m)
      BY <1>4
    <3>2. u.child[n][e] = R(t.child[m][e]) /\ Weight(u, k, u.child[n][e]) = Weight(t, h, t.child[m][e])
      BY <1>2, <1>5, <2>5, <3>1
    <3>3. Extra(n, e, R(q), s) = Extra(m, e, q, s)
      BY <2>6, <3>1 DEF Extra
    <3>4. h[m] = Weight(t, h, t.child[m][e]) + Extra(m, e, q, s)
      BY <1>9 DEF Heights
    <3>5. QED
      BY <2>4, <3>1, <3>2, <3>3, <3>4
  <2>8. QED
    BY <2>2, <2>3, <2>7 DEF Heights
<1>10. R(NULL) = NULL /\ R(x) = x
  BY <1>1 DEF R
<1>11. Heights(t, D, h, NULL, "left") => Heights(u, E, k, NULL, "left")
  BY <1>9, <1>10
<1>12. Balanced(t, D, h) => Balanced(u, E, k)
  <2>1. Reds(t, D, NULL, NULL) => Reds(u, E, NULL, NULL)
    BY <1>8, <1>10
  <2>2. QED
    BY <1>7, <1>11, <2>1 DEF Balanced
<1>13. ASSUME Deleting(t, D, h, x) PROVE Deleting(u, E, k, x)
  <2>1. /\ x \in D[t.root] \cup {NIL} /\ (t.color[t.root] = "BLACK" \/ x = t.root) /\ Reds(t, D, x, x)
        /\ x = t.root => Heights(t, D, h, NULL, "left")
        /\ x # t.root => /\ t.parent[x] \in D[t.root]
                         /\ \E s \in Sides : t.child[t.parent[x]][s] = x /\ Heights(t, D, h, t.parent[x], s)
    BY <1>13 DEF Deleting
  <2>2. x \in E[u.root] \cup {NIL}
    BY <1>3, <2>1
  <2>3. x = u.root <=> x = t.root
    BY <1>1, <1>2, <2>1 DEF R
  <2>4. u.color[u.root] = "BLACK" \/ x = u.root
    BY <1>7, <2>1, <2>3
  <2>5. Reds(u, E, x, x)
    BY <1>8, <1>10, <2>1
  <2>6. x = u.root => Heights(u, E, k, NULL, "left")
    BY <1>11, <2>1, <2>3
  <2>7. ASSUME x # t.root
        PROVE  /\ u.parent[x] \in E[u.root]
               /\ \E s \in Sides : u.child[u.parent[x]][s] = x /\ Heights(u, E, k, u.parent[x], s)
    <3> DEFINE q == t.parent[x]
    <3>1. q \in D[t.root] /\ u.parent[x] = R(q)
      BY <1>2, <2>1, <2>7
    <3>2. R(q) \in E[u.root]
      BY <1>3, <3>1 DEF R
    <3>3. PICK s \in Sides : t.child[q][s] = x /\ Heights(t, D, h, q, s)
      BY <2>1, <2>7
    <3> HIDE DEF q
    <3>4. u.child[R(q)][s] = x
      BY <1>2, <1>10, <3>1, <3>3
    <3>5. Heights(u, E, k, R(q), s)
      BY <1>9, <3>1, <3>3
    <3>6. QED
      BY <3>1, <3>2, <3>4, <3>5
  <2>8. QED
    BY <2>2, <2>3, <2>4, <2>5, <2>6, <2>7 DEF Deleting
<1>14. QED
  BY <1>6, <1>12, <1>13

(***************************************************************************)
(* The same, for an operation in progress and for none.                    *)
(***************************************************************************)
LEMMA RenamedColors ==
    ASSUME NEW t, NEW D, NEW h, Shape(t, D), NEW z, z \in D[t.root], NEW y, y \in Processes, y \notin D[t.root],
           NEW x, x # z, NEW u, Renamed(t, D, z, y, x, u)
    PROVE  /\ Sentinel(t) => Sentinel(u)
           /\ Balanced(t, D, h) => Balanced(u, Swapped(D, z, y), Takes(h, z, y))
           /\ Deleting(t, D, h, x) => Deleting(u, Swapped(D, z, y), Takes(h, z, y), x)
<1> DEFINE E == Swapped(D, z, y)
           k == Takes(h, z, y)
<1>1. E = Swapped(D, z, y) /\ k = Takes(h, z, y)
  OBVIOUS
<1> HIDE DEF E, k
<1>2. Balanced(t, D, h) => Balanced(u, E, k)
  BY <1>1, RenameColors
<1>3. Deleting(t, D, h, x) => Deleting(u, E, k, x)
  BY <1>1, RenameColors
<1>4. Sentinel(t) => Sentinel(u)
  <2>1. NIL \in (D[t.root] \cup {NIL}) \ {z}
    BY Typed
  <2>2. QED
    BY <2>1 DEF Renamed, Sentinel
<1>5. QED
  BY <1>2, <1>3, <1>4 DEF E, k

(***************************************************************************)
(* A process is the child of one node only, on one side.                   *)
(***************************************************************************)
LEMMA ChildAt ==
    ASSUME NEW t, NEW D, Shape(t, D), NEW n \in D[t.root], NEW m \in D[t.root], NEW e \in Sides
    PROVE  t.child[m][e] = n <=> m = t.parent[n] /\ e = NodeSide(t, n)
<1> DEFINE p == t.parent[n]
           s == NodeSide(t, n)
<1>1. n # NIL /\ m # NULL
  BY Typed
<1>2. t.child[m][e] = n => p = m
  BY <1>1, Children
<1>3. /\ p = NULL <=> n = t.root
      /\ n # t.root => t.child[p][s] = n /\ t.child[p][Opposite(s)] # n
      /\ s \in Sides
  BY ParentIs
<1>4. e = s \/ e = Opposite(s)
  BY <1>3, SideFacts
<1> HIDE DEF p, s
<1>5. t.child[m][e] = n <=> m = p /\ e = s
  BY <1>1, <1>2, <1>3, <1>4
<1>6. QED
  BY <1>5 DEF p, s

(* The tree with y moved to the place of z, which still points into it.    *)
MovedFirst(t, z, r, y, x) ==
    IF t.parent[y] = z THEN SetParent(t, x, y)
    ELSE LET s == SetChild(rbTransplant(t, y, x), y, "right", r)
         IN  SetParent(s, s.child[y].right, y)

(* The tree with y below the parent of z, with its left child and color.   *)
MovedLast(t1, z, l, y) ==
    LET t2 == SetChild(rbTransplant(t1, z, y), y, "left", l)
    IN  SetColor(SetParent(t2, l, y), y, t2.color[z])

(* What the two halves store.                                              *)
FirstStores(t, z, r, y, x, t1) ==
    LET p == t.parent[y]
    IN  /\ t1 \in Trees /\ t1.color = t.color /\ t1.root = t.root
        /\ \A m \in Nodes : \A e \in Sides : t1.child[m][e] =
             IF p # z /\ m = y /\ e = "right" THEN r
             ELSE IF p # z /\ m = p /\ e = NodeSide(t, y) THEN x ELSE t.child[m][e]
        /\ \A m \in Nodes : t1.parent[m] =
             IF p # z /\ m = r THEN y ELSE IF m = x THEN (IF p = z THEN y ELSE p) ELSE t.parent[m]

(* What MovedLast stores.                                                  *)
LastStores(t, z, l, y, u) ==
    LET p == t.parent[z]
    IN  /\ u \in Trees
        /\ u.root = IF p = NULL THEN y ELSE t.root
        /\ \A m \in Nodes : \A e \in Sides : u.child[m][e] =
             IF m = y /\ e = "left" THEN l
             ELSE IF m = p /\ e = NodeSide(t, z) THEN y ELSE t.child[m][e]
        /\ \A m \in Nodes : u.parent[m] = IF m = l THEN y ELSE IF m = y THEN p ELSE t.parent[m]
        /\ \A m \in Nodes : u.color[m] = IF m = y THEN t.color[z] ELSE t.color[m]

(***************************************************************************)
(* The successor lets go of its right child.                               *)
(***************************************************************************)
LEMMA MovedFirstIs ==
    ASSUME NEW t \in Trees, NEW z \in Nodes, NEW r \in Nodes, NEW y \in Nodes, NEW x \in Nodes,
           t.parent[y] # NULL
    PROVE  FirstStores(t, z, r, y, x, MovedFirst(t, z, r, y, x))
<1> DEFINE p == t.parent[y]
           t1 == MovedFirst(t, z, r, y, x)
<1>1. x \in Pointers /\ y \in Pointers /\ r \in Pointers /\ "right" \in Sides
  BY SideFacts DEF Pointers
<1>2. CASE p = z
  <2>1. t1 = SetParent(t, x, y)
    BY <1>2 DEF MovedFirst
  <2>2. /\ SetParent(t, x, y) \in Trees /\ SetParent(t, x, y).child = t.child /\ SetParent(t, x, y).color = t.color
        /\ SetParent(t, x, y).root = t.root
        /\ \A m \in Nodes : SetParent(t, x, y).parent[m] = IF m = x THEN y ELSE t.parent[m]
    BY <1>1, SetParentIs
  <2>3. QED
    BY <1>2, <2>1, <2>2 DEF FirstStores
<1>3. CASE p # z
  <2> DEFINE s1 == rbTransplant(t, y, x)
             s == SetChild(s1, y, "right", r)
  <2>1. Transplants(t, y, x, s1)
    BY TransplantIs
  <2> HIDE DEF s1
  <2>2. s1 \in Trees
    BY <2>1 DEF Transplants
  <2>3. /\ s \in Trees /\ s.parent = s1.parent /\ s.color = s1.color /\ s.root = s1.root
    BY <1>1, <2>2, SetChildIs
  <2>4. \A m \in Nodes : \A e \in Sides : s.child[m][e] = IF m = y /\ e = "right" THEN r ELSE s1.child[m][e]
    BY <1>1, <2>2, SetChildIs
  <2> HIDE DEF s
  <2>5. s.child[y]["right"] = r
    BY <1>1, <2>4
  <2>6. t1 = SetParent(s, s.child[y]["right"], y)
    BY <1>3 DEF MovedFirst, s, s1
  <2>7. t1 = SetParent(s, r, y)
    BY <2>5, <2>6
  <2>8. /\ SetParent(s, r, y) \in Trees /\ SetParent(s, r, y).child = s.child /\ SetParent(s, r, y).color = s.color
        /\ SetParent(s, r, y).root = s.root
        /\ \A m \in Nodes : SetParent(s, r, y).parent[m] = IF m = r THEN y ELSE s.parent[m]
    <3>1. s \in Trees /\ y \in Pointers
      BY <1>1, <2>3
    <3>2. QED
      BY <3>1, SetParentIs
  <2> HIDE DEF t1
  <2>9. t1 \in Trees /\ t1.color = t.color /\ t1.root = t.root
    BY <2>1, <2>3, <2>7, <2>8 DEF Transplants
  <2>10. \A m \in Nodes : \A e \in Sides : t1.child[m][e] =
             IF m = y /\ e = "right" THEN r
             ELSE IF m = p /\ e = NodeSide(t, y) THEN x ELSE t.child[m][e]
    BY <2>1, <2>4, <2>7, <2>8 DEF Transplants
  <2>11. \A m \in Nodes : t1.parent[m] = IF m = r THEN y ELSE IF m = x THEN p ELSE t.parent[m]
    BY <2>1, <2>3, <2>7, <2>8 DEF Transplants
  <2> HIDE DEF p
  <2>12. QED
    BY <1>3, <2>9, <2>10, <2>11 DEF FirstStores, p, t1
<1>4. QED
  BY <1>2, <1>3

(***************************************************************************)
(* The successor takes the place of z and z's left child and color.        *)
(***************************************************************************)
LEMMA MovedLastIs ==
    ASSUME NEW t \in Trees, NEW z \in Nodes, NEW l \in Nodes, NEW y \in Nodes
    PROVE  LastStores(t, z, l, y, MovedLast(t, z, l, y))
<1> DEFINE s == rbTransplant(t, z, y)
           t2 == SetChild(s, y, "left", l)
           t3 == SetParent(t2, l, y)
           u == SetColor(t3, y, t2.color[z])
<1>1. l \in Pointers /\ y \in Pointers /\ "left" \in Sides
  BY SideFacts DEF Pointers
<1>2. Transplants(t, z, y, s)
  BY TransplantIs
<1> HIDE DEF s
<1>3. s \in Trees
  BY <1>2 DEF Transplants
<1>4. t2 \in Trees /\ t2.parent = s.parent /\ t2.color = s.color /\ t2.root = s.root
  BY <1>1, <1>3, SetChildIs
<1>5. \A m \in Nodes : \A e \in Sides : t2.child[m][e] = IF m = y /\ e = "left" THEN l ELSE s.child[m][e]
  BY <1>1, <1>3, SetChildIs
<1> HIDE DEF t2
<1>6. /\ t3 \in Trees /\ t3.child = t2.child /\ t3.color = t2.color /\ t3.root = t2.root
      /\ \A m \in Nodes : t3.parent[m] = IF m = l THEN y ELSE t2.parent[m]
  <2>1. t2 \in Trees /\ y \in Pointers
    BY <1>1, <1>4
  <2>2. QED
    BY <2>1, SetParentIs
<1> HIDE DEF t3
<1>7. t2.color[z] = t.color[z] /\ t2.color[z] \in {"RED", "BLACK"}
  BY <1>2, <1>4, Fields DEF Transplants
<1>8. /\ u \in Trees /\ u.child = t3.child /\ u.parent = t3.parent /\ u.root = t3.root
      /\ \A m \in Nodes : u.color[m] = IF m = y THEN t2.color[z] ELSE t3.color[m]
  BY <1>6, <1>7, Fields DEF SetColor, Trees
<1>9. u = MovedLast(t, z, l, y)
  BY DEF MovedLast, u, t3, t2, s
<1> HIDE DEF u
<1>10. \A m \in Nodes : \A e \in Sides : u.child[m][e] =
             IF m = y /\ e = "left" THEN l
             ELSE IF m = t.parent[z] /\ e = NodeSide(t, z) THEN y ELSE t.child[m][e]
  BY <1>2, <1>5, <1>6, <1>8 DEF Transplants
<1>11. \A m \in Nodes : u.parent[m] = IF m = l THEN y ELSE IF m = y THEN t.parent[z] ELSE t.parent[m]
  BY <1>2, <1>4, <1>6, <1>8 DEF Transplants
<1>12. \A m \in Nodes : u.color[m] = IF m = y THEN t.color[z] ELSE t.color[m]
  BY <1>2, <1>4, <1>6, <1>7, <1>8 DEF Transplants
<1>13. u \in Trees /\ u.root = IF t.parent[z] = NULL THEN y ELSE t.root
  BY <1>2, <1>4, <1>6, <1>8 DEF Transplants
<1>14. QED
  BY <1>9, <1>10, <1>11, <1>12, <1>13 DEF LastStores

(***************************************************************************)
(* The nodes of a deletion with two children: y is the leftmost below r,   *)
(* the right child of z, and x its right child.                            *)
(***************************************************************************)
LEMMA SuccessorNodes ==
    ASSUME NEW t, NEW D, Shape(t, D), NEW z \in D[t.root], NEW l, l = t.child[z]["left"], l # NIL,
           NEW r, r = t.child[z]["right"], r # NIL, NEW y \in D[r], NEW x, x = t.child[y]["right"]
    PROVE  /\ y \in D[t.root] /\ z \in Nodes /\ l \in Nodes /\ r \in Nodes /\ y \in Nodes /\ x \in Nodes
           /\ z # NIL /\ y # NIL /\ y # z /\ z # r /\ z # l /\ l # y /\ l # r /\ x # z /\ x # y /\ x # r /\ x # l
           /\ t.parent[l] = z /\ t.parent[r] = z /\ (x # NIL => t.parent[x] = y)
           /\ t.parent[y] \in D[z] /\ t.parent[y] # y /\ t.parent[y] # NULL /\ y # t.root
           /\ t.parent[z] \notin D[z] /\ y \in D[z] /\ z \in D[z]
           /\ t.parent[y] = z <=> y = r
           /\ \A m \in D[t.root] : t.parent[m] = z => m = l \/ m = r
<1>1. "left" \in Sides /\ "right" \in Sides /\ Opposite("left") = "right" /\ Opposite("right") = "left"
  BY SideFacts
<1>2. /\ l \in Nodes /\ l \in D[l] /\ t.parent[l] = z /\ z \notin D[l] /\ D[l] \cap D[r] = {}
      /\ D[z] = {z} \cup D[l] \cup D[r]
  BY <1>1, Children
<1>3. r \in Nodes /\ r \in D[r] /\ t.parent[r] = z /\ z \notin D[r]
  BY <1>1, Children
<1>4. z \in D[z] /\ D[z] \subseteq D[t.root] /\ z \in Nodes /\ z # NIL
  BY BelowRoot, Typed
<1>5. y \in D[t.root] /\ y \in Nodes /\ y # NIL /\ y \in D[z] /\ y # z
  <2>1. y \in D[z] /\ y # z
    BY <1>2, <1>3
  <2>2. QED
    BY <1>4, <2>1, Typed
<1>6. x \in Nodes /\ (x # NIL => t.parent[x] = y /\ x \in D[x]) /\ y \notin D[x] /\ y \in D[y]
  BY <1>1, <1>5, Children, BelowRoot
<1>7. t.parent[y] \in D[z]
  BY <1>5, Nested
<1>8. t.parent[y] \notin D[y] /\ y # t.root
  <2>1. t.parent[y] # NULL
    BY <1>4, <1>7, Typed
  <2>2. QED
    BY <1>5, <2>1, ParentIs
<1>9. t.parent[y] # y /\ t.parent[y] # NULL
  BY <1>4, <1>6, <1>7, <1>8, Typed
<1>10. t.parent[z] \notin D[z]
  <2>1. CASE z = t.root
    BY <1>4, <2>1, Typed
  <2>2. CASE z # t.root
    BY <2>2, ParentIs
  <2>3. QED
    BY <2>1, <2>2
<1>11. \A m \in D[t.root] : t.parent[m] = z => m = l \/ m = r
  <2>1. ASSUME NEW m \in D[t.root], t.parent[m] = z PROVE m = l \/ m = r
    <3>1. m # t.root
      BY <1>4, <2>1, Typed
    <3>2. NodeSide(t, m) \in Sides /\ t.child[z][NodeSide(t, m)] = m
      BY <2>1, <3>1, ParentIs
    <3>3. QED
      BY <3>2 DEF Sides
  <2>2. QED
    BY <2>1
<1>12. t.parent[y] = z <=> y = r
  <2>1. y # l
    BY <1>2
  <2>2. QED
    BY <1>3, <1>5, <1>11, <2>1
<1>13. x # z
  <2>1. CASE x = NIL
    BY <1>4, <2>1
  <2>2. CASE x # NIL
    BY <1>5, <1>6, <1>10, <2>2
  <2>3. QED
    BY <2>1, <2>2
<1>14. z # r /\ z # l /\ l # y /\ l # r /\ x # y /\ x # r /\ x # l
  BY <1>2, <1>3, <1>4, <1>5, <1>6
<1>15. QED
  BY <1>2, <1>3, <1>4, <1>5, <1>6, <1>7, <1>8, <1>9, <1>10, <1>11, <1>12, <1>13, <1>14

(***************************************************************************)
(* Deleting z with two children is taking out its successor y and putting  *)
(* it in the place of z.                                                   *)
(***************************************************************************)
LEMMA MovedIsRenamed ==
    ASSUME NEW t, NEW D, Shape(t, D), NEW z \in D[t.root], NEW l, l = t.child[z]["left"], l # NIL,
           NEW r, r = t.child[z]["right"], r # NIL, NEW y \in D[r], t.child[y]["left"] = NIL, NEW x, x = t.child[y]["right"],
           NEW v, Spliced(t, D, y, x, v), NEW t1, FirstStores(t, z, r, y, x, t1), NEW t3, LastStores(t1, z, l, y, t3),
           NEW u, u = Freed(t3, z), NEW C, C = Without(D, y)
    PROVE  Renamed(v, C, z, y, x, u)
<1> DEFINE p == t.parent[y]
           q == t.parent[z]
<1>1. /\ y \in D[t.root] /\ z \in Nodes /\ l \in Nodes /\ r \in Nodes /\ y \in Nodes /\ x \in Nodes
      /\ z # NIL /\ y # NIL /\ y # z /\ z # r /\ z # l /\ l # y /\ l # r /\ x # z /\ x # y /\ x # r /\ x # l
      /\ t.parent[l] = z /\ t.parent[r] = z /\ (x # NIL => t.parent[x] = y)
      /\ p \in D[z] /\ p # y /\ p # NULL /\ y # t.root /\ q \notin D[z] /\ y \in D[z] /\ z \in D[z]
      /\ p = z <=> y = r
      /\ \A m \in D[t.root] : t.parent[m] = z => m = l \/ m = r
  BY SuccessorNodes
<1>2. /\ NIL \in Nodes /\ NULL \notin Nodes /\ t.root \in Nodes /\ "left" \in Sides /\ "right" \in Sides
      /\ \A m \in D[t.root] : m \in Nodes /\ m # NIL
  BY Typed, SideFacts DEF Nodes
<1>3. D[z] \subseteq D[t.root] /\ p # NIL /\ q # p /\ q # y /\ q # z
  BY <1>1, <1>2, BelowRoot
<1>4. /\ q = NULL <=> z = t.root
      /\ q # NULL => q \in D[t.root]
  BY ParentIs
<1>5. C[v.root] = D[t.root] \ {y}
  BY <1>1, <1>2, SideFacts, SpliceKeeps
<1>6. /\ v.root = t.root
      /\ \A m \in D[t.root] \ {y} : \A e \in Sides :
           v.child[m][e] = IF t.child[m][e] = y THEN x ELSE t.child[m][e]
      /\ \A e \in Sides : v.child[NIL][e] = t.child[NIL][e]
      /\ \A m \in Nodes \ {y} : v.parent[m] = IF m = x THEN p ELSE t.parent[m]
      /\ \A m \in Nodes \ {y} : v.color[m] = t.color[m]
  BY <1>1 DEF Spliced
<1> HIDE DEF p, q
<1>7. /\ t1 \in Trees /\ t1.color = t.color /\ t1.root = t.root
      /\ \A m \in Nodes : \A e \in Sides : t1.child[m][e] =
           IF p # z /\ m = y /\ e = "right" THEN r
           ELSE IF p # z /\ m = p /\ e = NodeSide(t, y) THEN x ELSE t.child[m][e]
      /\ \A m \in Nodes : t1.parent[m] =
           IF p # z /\ m = r THEN y ELSE IF m = x THEN (IF p = z THEN y ELSE p) ELSE t.parent[m]
  BY DEF FirstStores, p
<1>8. t1.parent[z] = q
  BY <1>1, <1>7 DEF q
<1>9. q \in Nodes => NodeSide(t1, z) = NodeSide(t, z)
  <2>1. q \in Nodes => t1.child[q]["left"] = t.child[q]["left"]
    BY <1>2, <1>3, <1>7
  <2>2. NodeSide(t1, z) = IF z = t1.child[q]["left"] THEN "left" ELSE "right"
    BY <1>8 DEF NodeSide
  <2>3. NodeSide(t, z) = IF z = t.child[q]["left"] THEN "left" ELSE "right"
    BY DEF NodeSide, q
  <2>4. QED
    BY <2>1, <2>2, <2>3
<1>10. /\ t3 \in Trees /\ t3.root = IF q = NULL THEN y ELSE t.root
       /\ \A m \in Nodes : \A e \in Sides : t3.child[m][e] =
            IF m = y /\ e = "left" THEN l
            ELSE IF m = q /\ e = NodeSide(t, z) THEN y ELSE t1.child[m][e]
       /\ \A m \in Nodes : t3.parent[m] = IF m = l THEN y ELSE IF m = y THEN q ELSE t1.parent[m]
       /\ \A m \in Nodes : t3.color[m] = IF m = y THEN t.color[z] ELSE t.color[m]
  <2>1. t3 \in Trees /\ t3.root = IF q = NULL THEN y ELSE t.root
    BY <1>7, <1>8 DEF LastStores
  <2>2. \A m \in Nodes : \A e \in Sides : t3.child[m][e] =
            IF m = y /\ e = "left" THEN l
            ELSE IF m = q /\ e = NodeSide(t, z) THEN y ELSE t1.child[m][e]
    <3>1. \A m \in Nodes : \A e \in Sides : t3.child[m][e] =
            IF m = y /\ e = "left" THEN l
            ELSE IF m = q /\ e = NodeSide(t1, z) THEN y ELSE t1.child[m][e]
      BY <1>8 DEF LastStores
    <3>2. QED
      BY <1>9, <3>1
  <2>3. /\ \A m \in Nodes : t3.parent[m] = IF m = l THEN y ELSE IF m = y THEN q ELSE t1.parent[m]
        /\ \A m \in Nodes : t3.color[m] = IF m = y THEN t.color[z] ELSE t.color[m]
    BY <1>7, <1>8 DEF LastStores
  <2>4. QED
    BY <2>1, <2>2, <2>3
<1>11. /\ u \in Trees /\ u.root = t3.root
       /\ \A m \in Nodes \ {z} : u.child[m] = t3.child[m] /\ u.parent[m] = t3.parent[m] /\ u.color[m] = t3.color[m]
  <2>1. t3 \in Trees /\ z \in Nodes
    BY <1>1, <1>10
  <2>2. QED
    BY <2>1, FreedIs
<1>12. u.root = IF z = v.root THEN y ELSE v.root
  BY <1>4, <1>6, <1>10, <1>11
<1>13. ASSUME NEW m \in D[t.root] \ {y, z}, NEW e \in Sides
       PROVE  u.child[m][e] = IF v.child[m][e] = z THEN y ELSE v.child[m][e]
  <2>1. t.child[m][e] = z <=> m = q /\ e = NodeSide(t, z)
    BY ChildAt DEF q
  <2>2. t.child[m][e] = y <=> m = p /\ e = NodeSide(t, y)
    BY <1>1, ChildAt DEF p
  <2>3. u.child[m][e] = IF m = q /\ e = NodeSide(t, z) THEN y
                        ELSE IF p # z /\ m = p /\ e = NodeSide(t, y) THEN x ELSE t.child[m][e]
    BY <1>2, <1>7, <1>10, <1>11
  <2>4. v.child[m][e] = IF t.child[m][e] = y THEN x ELSE t.child[m][e]
    BY <1>6
  <2>5. QED
    BY <1>1, <2>1, <2>2, <2>3, <2>4
<1>14. ASSUME NEW e \in Sides PROVE u.child[y][e] = v.child[z][e]
  <2>1. v.child[z][e] = IF t.child[z][e] = y THEN x ELSE t.child[z][e]
    BY <1>1, <1>6
  <2>2. u.child[y][e] = IF e = "left" THEN l ELSE t1.child[y][e]
    BY <1>1, <1>3, <1>10, <1>11
  <2>3. t1.child[y]["right"] = IF p # z THEN r ELSE x
    BY <1>1, <1>2, <1>7
  <2>4. CASE e = "left"
    BY <1>1, <2>1, <2>2, <2>4
  <2>5. CASE e = "right"
    BY <1>1, <2>1, <2>2, <2>3, <2>5
  <2>6. QED
    BY <2>4, <2>5 DEF Sides
<1>15. \A e \in Sides : u.child[NIL][e] = v.child[NIL][e]
  <2>1. q # NIL
    BY <1>2, <1>4
  <2>2. QED
    BY <1>1, <1>2, <1>3, <1>6, <1>7, <1>10, <1>11, <2>1
<1>16. u.parent[y] = v.parent[z]
  BY <1>1, <1>6, <1>10, <1>11 DEF q
<1>17. ASSUME NEW m \in (D[t.root] \ {y}) \cup {x}, m # z
       PROVE  u.parent[m] = IF v.parent[m] = z THEN y ELSE v.parent[m]
  <2>1. m \in Nodes /\ m # y
    BY <1>1, <1>2, <1>17
  <2>2. u.parent[m] = IF m = l THEN y ELSE IF p # z /\ m = r THEN y ELSE IF m = x THEN (IF p = z THEN y ELSE p) ELSE t.parent[m]
    BY <1>7, <1>10, <1>11, <1>17, <2>1
  <2>3. v.parent[m] = IF m = x THEN p ELSE t.parent[m]
    BY <1>6, <2>1
  <2>4. CASE m = x
    BY <1>1, <2>2, <2>3, <2>4
  <2>5. CASE m # x
    BY <1>1, <1>17, <2>1, <2>2, <2>3, <2>5
  <2>6. QED
    BY <2>4, <2>5
<1>18. u.color[y] = v.color[z] /\ \A m \in ((D[t.root] \ {y}) \cup {NIL}) \ {z} : u.color[m] = v.color[m]
  BY <1>1, <1>2, <1>6, <1>10, <1>11
<1>19. QED
  BY <1>5, <1>11, <1>12, <1>13, <1>14, <1>15, <1>16, <1>17, <1>18 DEF Renamed

(* What the tree without z is, and what is left to rbDeleteFixup().        *)
Unlinks(u, E, k, x, color, T) ==
    /\ Shape(u, E) /\ InOrder(u, E) /\ Sentinel(u) /\ E[u.root] = T
    /\ color = "BLACK" => Deleting(u, E, k, x)
    /\ color # "BLACK" => Balanced(u, E, k)

(***************************************************************************)
(* A node with at most one child is deleted.                               *)
(***************************************************************************)
LEMMA UnlinkOne ==
    ASSUME NEW t, NEW D, NEW h, Shape(t, D), InOrder(t, D), Sentinel(t), Balanced(t, D, h), NEW z \in D[t.root],
           NEW a \in Sides, t.child[z][Opposite(a)] = NIL, NEW v, v = t.child[z][a]
    PROVE  Unlinks(Freed(rbTransplant(t, z, v), z), Without(D, z), h, v, t.color[z], D[t.root] \ {z})
<1> DEFINE u == Freed(rbTransplant(t, z, v), z)
           E == Without(D, z)
<1>1. v \in Nodes /\ v # z
  <2>1. v \in Nodes /\ z \notin D[v] /\ z \in D[z]
    BY Children, BelowRoot
  <2>2. QED
    BY <2>1
<1>2. Spliced(t, D, z, v, u)
  BY <1>1, SpliceIs
<1> HIDE DEF u
<1>3. Shape(u, E) /\ E[u.root] = D[t.root] \ {z} /\ InOrder(u, E)
  BY <1>2, SpliceKeeps
<1>4. Sentinel(u) /\ (t.color[z] = "BLACK" => Deleting(u, E, h, v)) /\ (t.color[z] # "BLACK" => Balanced(u, E, h))
  BY <1>2, SpliceColors
<1>5. QED
  BY <1>3, <1>4 DEF Unlinks, u

(* y is the successor of z, which has the children l and r.                *)
Follows(t, D, z, l, r, y, x) ==
    /\ Shape(t, D) /\ z \in D[t.root] /\ l = t.child[z]["left"] /\ l # NIL /\ r = t.child[z]["right"] /\ r # NIL
    /\ y \in D[r] /\ t.child[y]["left"] = NIL /\ x = t.child[y]["right"]

(***************************************************************************)
(* What rbDelete() stores is the tree without y, with y in the place of z. *)
(***************************************************************************)
LEMMA MovedRenames ==
    ASSUME NEW t, NEW D, NEW z, NEW l, NEW r, NEW y, NEW x, Follows(t, D, z, l, r, y, x),
           NEW v, Spliced(t, D, y, x, v), NEW t1, FirstStores(t, z, r, y, x, t1), NEW t3, LastStores(t1, z, l, y, t3)
    PROVE  Renamed(v, Without(D, y), z, y, x, Freed(t3, z))
<1> DEFINE u == Freed(t3, z)
           C == Without(D, y)
<1>1. u = Freed(t3, z) /\ C = Without(D, y)
  OBVIOUS
<1>2. /\ Shape(t, D) /\ z \in D[t.root] /\ l = t.child[z]["left"] /\ l # NIL /\ r = t.child[z]["right"] /\ r # NIL
      /\ y \in D[r] /\ t.child[y]["left"] = NIL /\ x = t.child[y]["right"]
  BY DEF Follows
<1> HIDE DEF u, C
<1>3. Renamed(v, C, z, y, x, u)
  BY <1>1, <1>2, MovedIsRenamed
<1>4. QED
  BY <1>3 DEF u, C

(* v is the ordered tree D without y.                                      *)
Leaves(t, D, y, v, C) ==
    /\ Shape(v, C) /\ C[v.root] = D[t.root] \ {y} /\ InOrder(v, C)
    /\ \A m \in D[t.root] \ {y} : \A e \in Sides : C[v.child[m][e]] = D[t.child[m][e]] \ {y}

(***************************************************************************)
(* The successor, which has no left child, is taken out.                   *)
(***************************************************************************)
LEMMA SpliceSuccessor ==
    ASSUME NEW t, NEW D, NEW z, NEW l, NEW r, NEW y, NEW x, Follows(t, D, z, l, r, y, x), InOrder(t, D),
           NEW v, Spliced(t, D, y, x, v)
    PROVE  Leaves(t, D, y, v, Without(D, y))
<1> DEFINE C == Without(D, y)
<1>1. C = Without(D, y)
  OBVIOUS
<1>2. Shape(t, D) /\ t.child[y]["left"] = NIL /\ x = t.child[y]["right"]
  BY DEF Follows
<1>3. y \in D[t.root]
  <2>1. /\ Shape(t, D) /\ z \in D[t.root] /\ l = t.child[z]["left"] /\ l # NIL /\ r = t.child[z]["right"] /\ r # NIL
        /\ y \in D[r] /\ x = t.child[y]["right"]
    BY DEF Follows
  <2>2. QED
    BY <2>1, SuccessorNodes
<1>4. "right" \in Sides /\ t.child[y][Opposite("right")] = NIL
  BY <1>2, SideFacts
<1> HIDE DEF C
<1>5. Shape(v, C) /\ C[v.root] = D[t.root] \ {y}
  BY <1>1, <1>2, <1>3, <1>4, SpliceKeeps
<1>6. InOrder(v, C)
  BY <1>1, <1>2, <1>3, <1>4, SpliceKeeps
<1>7. \A m \in D[t.root] \ {y} : \A e \in Sides : C[v.child[m][e]] = D[t.child[m][e]] \ {y}
  BY <1>1, <1>2, <1>3, <1>4, SpliceKeeps
<1>8. QED
  BY <1>5, <1>6, <1>7 DEF Leaves, C

(* The equations of a deletion with two children.                          *)
Moves(t, z, l, r, y, x, u) ==
    /\ l = t.child[z]["left"] /\ l # NIL /\ r = t.child[z]["right"] /\ r # NIL
    /\ y = treeMinimum(t, r) /\ x = t.child[y]["right"]
    /\ u = Freed(MovedLast(MovedFirst(t, z, r, y, x), z, l, y), z)

(***************************************************************************)
(* A node with two children is deleted.                                    *)
(***************************************************************************)
LEMMA UnlinkTwo ==
    ASSUME NEW t, NEW D, NEW h, Shape(t, D), InOrder(t, D), Sentinel(t), Balanced(t, D, h), NEW z \in D[t.root],
           NEW l, NEW r, NEW y, NEW x, NEW u, Moves(t, z, l, r, y, x, u)
    PROVE  \E E, k : Unlinks(u, E, k, x, t.color[y], D[t.root] \ {z})
<1>0. /\ l = t.child[z]["left"] /\ l # NIL /\ r = t.child[z]["right"] /\ r # NIL
      /\ y = treeMinimum(t, r) /\ x = t.child[y]["right"]
  BY DEF Moves
<1>1. r \in D[t.root] /\ "left" \in Sides /\ "right" \in Sides /\ Opposite("right") = "left" /\ Opposite("left") = "right"
  <2>1. "right" \in Sides
    BY SideFacts
  <2>2. QED
    BY <1>0, <2>1, BelowRoot, SideFacts
<1>2. y \in D[r] /\ t.child[y]["left"] = NIL /\ \A m \in D[r] : PidOf[y] <= PidOf[m]
  BY <1>0, <1>1, MinimumIs
<1>3. /\ y \in D[t.root] /\ z \in Nodes /\ l \in Nodes /\ r \in Nodes /\ y \in Nodes /\ x \in Nodes
      /\ y # z /\ x # y /\ x # z /\ t.parent[y] # NULL
  BY <1>0, <1>2, SuccessorNodes
<1>4. Follows(t, D, z, l, r, y, x)
  BY <1>0, <1>2 DEF Follows
<1> DEFINE v == Freed(rbTransplant(t, y, x), y)
           C == Without(D, y)
           t1 == MovedFirst(t, z, r, y, x)
           t3 == MovedLast(t1, z, l, y)
           E == Swapped(C, z, y)
           k == Takes(h, z, y)
<1>5. Spliced(t, D, y, x, v)
  BY <1>3, SpliceIs
<1>6. t \in Trees
  BY DEF Shape
<1>7. FirstStores(t, z, r, y, x, t1)
  BY <1>3, <1>6, MovedFirstIs
<1>8. u = Freed(t3, z) /\ C = Without(D, y) /\ E = Swapped(C, z, y) /\ k = Takes(h, z, y)
  BY DEF Moves
<1> HIDE DEF v, t1
<1>9. LastStores(t1, z, l, y, t3)
  <2>1. t1 \in Trees
    BY <1>7 DEF FirstStores
  <2>2. QED
    BY <1>3, <2>1, MovedLastIs
<1> HIDE DEF t3, C, E, k
<1>10. Renamed(v, C, z, y, x, u)
  <2>1. u = Freed(t3, z) /\ C = Without(D, y)
    BY <1>8
  <2>2. QED
    BY <1>4, <1>5, <1>7, <1>9, <2>1, MovedRenames
<1>11. /\ Shape(v, C) /\ C[v.root] = D[t.root] \ {y} /\ InOrder(v, C)
       /\ \A m \in D[t.root] \ {y} : \A e \in Sides : C[v.child[m][e]] = D[t.child[m][e]] \ {y}
  <2>1. Leaves(t, D, y, v, Without(D, y))
    BY <1>4, <1>5, SpliceSuccessor
  <2>2. C = Without(D, y)
    BY <1>8
  <2>3. QED
    BY <2>1, <2>2 DEF Leaves
<1>12. /\ Sentinel(v)
       /\ t.color[y] = "BLACK" => Deleting(v, C, h, x)
       /\ t.color[y] # "BLACK" => Balanced(v, C, h)
  <2>1. x = t.child[y]["right"] /\ t.child[y][Opposite("right")] = NIL
    BY <1>0, <1>1, <1>2
  <2>2. C = Without(D, y) /\ y \in D[t.root] /\ "right" \in Sides
    BY <1>1, <1>3, <1>8
  <2>3. QED
    BY <1>5, <2>1, <2>2, SpliceColors
<1>13. z \in C[v.root] /\ y \in Processes /\ y \notin C[v.root]
  BY <1>3, <1>11, Typed
<1>14. FitsAt(v, C, z, y)
  <2>1. \A m \in D[t.root] : \A e \in Sides : \A n \in D[t.child[m][e]] : Beside(e, n, m)
    BY DEF InOrder
  <2>2. ASSUME NEW m \in C[v.root], NEW e \in Sides, z \in C[v.child[m][e]] PROVE Beside(e, y, m)
    <3> DEFINE c == t.child[m][e]
    <3>1. m \in D[t.root] /\ z \in D[c]
      BY <1>11, <2>2
    <3>2. c # NIL /\ c \in D[t.root]
      BY <3>1, BelowRoot, Typed
    <3>3. D[z] \subseteq D[c]
      <4> HIDE DEF c
      <4>1. QED
        BY <3>1, <3>2, Nested
    <3>4. y \in D[z]
      BY <1>0, <1>2, SuccessorNodes
    <3>5. QED
      BY <2>1, <3>1, <3>3, <3>4
  <2>3. ASSUME NEW e \in Sides, NEW m \in C[v.child[z][e]] PROVE Beside(e, m, y)
    <3>1. m \in D[t.child[z][e]]
      BY <1>3, <1>11
    <3>2. CASE e = "right"
      BY <1>0, <1>2, <3>1, <3>2, SideFacts DEF Beside
    <3>3. CASE e = "left"
      <4>1. PidOf[m] <= PidOf[z]
        BY <2>1, <3>1, <3>3 DEF Beside
      <4>2. PidOf[z] <= PidOf[y]
        <5>1. Beside("right", y, z)
          BY <1>0, <1>1, <1>2, <2>1
        <5>2. "right" # "left"
          OBVIOUS
        <5>3. QED
          BY <5>1, <5>2 DEF Beside
      <4>3. m \in Processes /\ y \in Processes /\ z \in Processes
        <5>1. D[t.child[z][e]] \subseteq D[z] /\ D[z] \subseteq D[t.root]
          BY BelowRoot
        <5>2. QED
          BY <1>13, <3>1, <5>1, Typed
      <4>4. PidOf[m] \in Nat /\ PidOf[y] \in Nat /\ PidOf[z] \in Nat
        BY <4>3, PidsAssumption
      <4>5. PidOf[m] <= PidOf[y]
        BY <4>1, <4>2, <4>4
      <4>6. QED
        BY <3>3, <4>5 DEF Beside
    <3>4. QED
      BY <3>2, <3>3 DEF Sides
  <2>4. QED
    BY <2>2, <2>3 DEF FitsAt
<1>15. Shape(u, E) /\ E[u.root] = (C[v.root] \ {z}) \cup {y} /\ InOrder(u, E)
  <2>1. E = Swapped(C, z, y) /\ Shape(v, C) /\ InOrder(v, C)
    BY <1>8, <1>11
  <2>2. Shape(u, E) /\ E[u.root] = (C[v.root] \ {z}) \cup {y}
    BY <1>10, <1>13, <2>1, RenameKeeps
  <2>3. InOrder(u, E)
    BY <1>10, <1>13, <1>14, <2>1, RenameKeeps
  <2>4. QED
    BY <2>2, <2>3
<1>16. Sentinel(u) /\ (Balanced(v, C, h) => Balanced(u, E, k)) /\ (Deleting(v, C, h, x) => Deleting(u, E, k, x))
  <2>1. E = Swapped(C, z, y) /\ k = Takes(h, z, y) /\ x # z /\ Shape(v, C)
    BY <1>3, <1>8, <1>11
  <2>2. Balanced(v, C, h) => Balanced(u, E, k)
    BY <1>10, <1>13, <2>1, RenamedColors
  <2>3. Deleting(v, C, h, x) => Deleting(u, E, k, x)
    BY <1>10, <1>13, <2>1, RenamedColors
  <2>4. Sentinel(u)
    BY <1>10, <1>12, <1>13, <2>1, RenamedColors
  <2>5. QED
    BY <2>2, <2>3, <2>4
<1>17. E[u.root] = D[t.root] \ {z}
  BY <1>3, <1>11, <1>15
<1>18. Unlinks(u, E, k, x, t.color[y], D[t.root] \ {z})
  BY <1>12, <1>15, <1>16, <1>17 DEF Unlinks
<1>19. QED
  BY <1>18

(***************************************************************************)
(* rbDelete() takes a process with the pid out of the tree.                *)
(***************************************************************************)
LEMMA DeleteKeeps ==
    ASSUME NEW D, NEW h, Certified(tree, fix, D, h), NEW p \in Pids, rbDelete(p)
    PROVE  \E z \in D[tree.root] :
             /\ PidOf[z] = p
             /\ \E E, k : Certified(tree', fix', E, k) /\ E[tree'.root] = D[tree.root] \ {z}
<1> DEFINE t == tree
           u == tree'
           z == rbSearch(t, p)
           w == Unlinked(t, z)
<1>1. /\ fix.op = "none" /\ z # NIL /\ u = Freed(w.t, z)
      /\ fix' = IF w.color = "BLACK" THEN [op |-> "delete", node |-> w.x] ELSE NoFix
  BY DEF rbDelete
<1>2. Shape(t, D) /\ InOrder(t, D) /\ Sentinel(t) /\ Balanced(t, D, h) /\ t \in Trees
  BY <1>1 DEF Certified, Shape
<1>3. p \in Nat
  BY PidsAssumption DEF Pids
<1> HIDE DEF t, u
<1>4. z \in D[t.root] /\ PidOf[z] = p
  BY <1>1, <1>2, <1>3, SearchIs
<1> HIDE DEF z
<1> DEFINE l == t.child[z]["left"]
           r == t.child[z]["right"]
           y == treeMinimum(t, r)
           x == t.child[y]["right"]
<1>5. \E E, k : Unlinks(u, E, k, w.x, w.color, D[t.root] \ {z})
  <2>1. CASE l = NIL
    <3>1. w = [t |-> rbTransplant(t, z, r), x |-> r, color |-> t.color[z]]
      BY <2>1 DEF Unlinked
    <3>2. w.t = rbTransplant(t, z, r) /\ w.x = r /\ w.color = t.color[z]
      BY <3>1
    <3> HIDE DEF w
    <3>3. t.child[z][Opposite("right")] = NIL /\ "right" \in Sides
      BY <2>1, SideFacts
    <3>4. Unlinks(Freed(rbTransplant(t, z, r), z), Without(D, z), h, r, t.color[z], D[t.root] \ {z})
      BY <1>2, <1>4, <3>3, UnlinkOne
    <3>5. QED
      BY <1>1, <3>2, <3>4
  <2>2. CASE l # NIL /\ r = NIL
    <3>1. w = [t |-> rbTransplant(t, z, l), x |-> l, color |-> t.color[z]]
      BY <2>2 DEF Unlinked
    <3>2. w.t = rbTransplant(t, z, l) /\ w.x = l /\ w.color = t.color[z]
      BY <3>1
    <3> HIDE DEF w
    <3>3. t.child[z][Opposite("left")] = NIL /\ "left" \in Sides
      BY <2>2, SideFacts
    <3>4. Unlinks(Freed(rbTransplant(t, z, l), z), Without(D, z), h, l, t.color[z], D[t.root] \ {z})
      BY <1>2, <1>4, <3>3, UnlinkOne
    <3>5. QED
      BY <1>1, <3>2, <3>4
  <2>3. CASE l # NIL /\ r # NIL
    <3> DEFINE t3 == MovedLast(MovedFirst(t, z, r, y, x), z, l, y)
    <3>1. w = [t |-> t3, x |-> x, color |-> t.color[y]]
      BY <2>3 DEF Unlinked, MovedFirst, MovedLast
    <3>2. w.t = t3 /\ w.x = x /\ w.color = t.color[y]
      BY <3>1
    <3> HIDE DEF w
    <3>3. u = Freed(MovedLast(MovedFirst(t, z, r, y, x), z, l, y), z)
      BY <1>1, <3>2
    <3>4. Moves(t, z, l, r, y, x, u)
      BY <2>3, <3>3 DEF Moves
    <3> HIDE DEF l, r, y, x, t3
    <3>5. \E E, k : Unlinks(u, E, k, x, t.color[y], D[t.root] \ {z})
      BY <1>2, <1>4, <3>4, UnlinkTwo
    <3>6. QED
      BY <3>2, <3>5
  <2>4. QED
    BY <2>1, <2>2, <2>3
<1> HIDE DEF w
<1>6. PICK E, k : Unlinks(u, E, k, w.x, w.color, D[t.root] \ {z})
  BY <1>5
<1>7. Certified(u, fix', E, k) /\ E[u.root] = D[t.root] \ {z}
  <2>1. CASE w.color = "BLACK"
    <3>1. fix' = [op |-> "delete", node |-> w.x]
      BY <1>1, <2>1
    <3>2. QED
      BY <1>6, <2>1, <3>1 DEF Unlinks, Certified
  <2>2. CASE w.color # "BLACK"
    BY <1>1, <1>6, <2>2 DEF Unlinks, Certified
  <2>3. QED
    BY <2>1, <2>2
<1>8. QED
  BY <1>4, <1>7 DEF u, t

-----------------------------------------------------------------------------
(***************************************************************************)
(* The tree of nodePreparation() is certified.                             *)
(***************************************************************************)
LEMMA EmptyCertified == Init => TInv
<1>1. SUFFICES ASSUME Init PROVE TInv
  OBVIOUS
<1> DEFINE t == tree
           D == [n \in Nodes |-> {}]
           h == [n \in Nodes |-> 0]
<1>2. /\ t = [child  |-> [n \in Nodes |-> [d \in Sides |-> IF n = NIL THEN NIL ELSE NULL]],
              parent |-> [n \in Nodes |-> NULL],
              color  |-> [n \in Nodes |-> "BLACK"],
              root   |-> NIL]
      /\ fix = NoFix
  BY <1>1 DEF Init, nodePreparation
<1>3. NIL \in Nodes /\ NIL \in Pointers /\ NULL \in Pointers
  BY DEF Nodes, Pointers
<1>4. t \in Trees
  <2>1. [n \in Nodes |-> [d \in Sides |-> IF n = NIL THEN NIL ELSE NULL]] \in [Nodes -> [Sides -> Pointers]]
    BY <1>3
  <2>2. [n \in Nodes |-> NULL] \in [Nodes -> Pointers] /\ [n \in Nodes |-> "BLACK"] \in [Nodes -> {"RED", "BLACK"}]
    BY <1>3
  <2>3. QED
    BY <1>2, <1>3, <2>1, <2>2 DEF Trees
<1>5. t.root = NIL /\ t.color[NIL] = "BLACK" /\ \A d \in Sides : t.child[NIL][d] = NIL
  BY <1>2, <1>3
<1>6. D \in [Nodes -> SUBSET Processes] /\ D[NIL] = {} /\ h \in [Nodes -> Nat] /\ h[NIL] = 0
  BY <1>3
<1> HIDE DEF t, D, h
<1>7. Shape(t, D) /\ InOrder(t, D) /\ Sentinel(t)
  BY <1>4, <1>5, <1>6 DEF Shape, InOrder, Sentinel
<1>8. Balanced(t, D, h)
  BY <1>5, <1>6 DEF Balanced, Heights, Reds
<1>9. Certified(tree, fix, D, h)
  BY <1>2, <1>7, <1>8 DEF Certified, t
<1>10. QED
  BY <1>9 DEF TInv

(* What a step may do to the set of processes.                             *)
Changes(A, B) ==
    \/ B = A
    \/ \E n \in Processes : n \notin A /\ B = A \cup {n}
    \/ \E n \in Processes : n \in A /\ B = A \ {n}

(***************************************************************************)
(* Every step leads from a certified tree to one, with at most one process *)
(* more or less in it.                                                     *)
(***************************************************************************)
LEMMA StepCertified ==
    ASSUME NEW D, NEW h, Certified(tree, fix, D, h), [Next]_vars
    PROVE  \E E, k : Certified(tree', fix', E, k) /\ Changes(D[tree.root], E[tree'.root])
<1>1. CASE UNCHANGED vars
  <2>1. tree' = tree /\ fix' = fix
    BY <1>1 DEF vars
  <2>2. Certified(tree', fix', D, h) /\ D[tree'.root] = D[tree.root]
    BY <2>1
  <2>3. QED
    BY <2>2 DEF Changes
<1>2. CASE Fixup
  <2>1. \E E, k : Certified(tree', fix', E, k) /\ E[tree'.root] = D[tree.root]
    <3>1. CASE FixupInsertRecolor
      BY <3>1, InsertRecolorKeeps
    <3>2. CASE FixupInsertInner
      BY <3>2, InsertInnerKeeps
    <3>3. CASE FixupInsertOuter
      BY <3>3, InsertOuterKeeps
    <3>4. CASE FixupInsertEnds
      BY <3>4, InsertEndsKeeps
    <3>5. CASE DeleteFixupRedSibling
      BY <3>5, DeleteRedSiblingKeeps
    <3>6. CASE DeleteFixupMovesUp
      BY <3>6, DeleteMovesUpKeeps
    <3>7. CASE DeleteFixupInnerNephew
      BY <3>7, DeleteInnerNephewKeeps
    <3>8. CASE DeleteFixupOuterNephew
      BY <3>8, DeleteOuterNephewKeeps
    <3>9. CASE DeleteFixupEnds
      BY <3>9, DeleteEndsKeeps
    <3>10. QED
      BY <1>2, <3>1, <3>2, <3>3, <3>4, <3>5, <3>6, <3>7, <3>8, <3>9 DEF Fixup
  <2>2. QED
    BY <2>1 DEF Changes
<1>3. ASSUME NEW n \in Processes, rbInsert(n)
      PROVE  \E E, k : Certified(tree', fix', E, k) /\ Changes(D[tree.root], E[tree'.root])
  <2>1. n \notin D[tree.root] /\ \E E, k : Certified(tree', fix', E, k) /\ E[tree'.root] = D[tree.root] \cup {n}
    BY <1>3, InsertKeeps
  <2>2. QED
    BY <2>1 DEF Changes
<1>4. ASSUME NEW p \in Pids, rbDelete(p)
      PROVE  \E E, k : Certified(tree', fix', E, k) /\ Changes(D[tree.root], E[tree'.root])
  <2>1. PICK z \in D[tree.root] : \E E, k : Certified(tree', fix', E, k) /\ E[tree'.root] = D[tree.root] \ {z}
    BY <1>4, DeleteKeeps
  <2>2. z \in Processes
    <3>1. Shape(tree, D)
      BY DEF Certified
    <3>2. QED
      BY <3>1, Typed
  <2>3. QED
    BY <2>1, <2>2 DEF Changes
<1>5. QED
  BY <1>1, <1>2, <1>3, <1>4 DEF Next

(***************************************************************************)
(* The inductive invariant: at every step of insertion, deletion and fixup *)
(* there are subtrees and heights that certify the tree.                   *)
(***************************************************************************)
THEOREM TreeInv == Spec => []TInv
<1>1. Init => TInv
  BY EmptyCertified
<1>2. TInv /\ [Next]_vars => TInv'
  <2>1. SUFFICES ASSUME TInv, [Next]_vars PROVE TInv'
    OBVIOUS
  <2>2. PICK D, h : Certified(tree, fix, D, h)
    BY <2>1 DEF TInv
  <2>3. \E E, k : Certified(tree', fix', E, k)
    BY <2>1, <2>2, StepCertified
  <2>4. QED
    BY <2>3 DEF TInv
<1>3. QED
  BY <1>1, <1>2, PTL DEF Spec

(***************************************************************************)
(* The processes in a certified tree are those of D.                       *)
(***************************************************************************)
LEMMA InTreeIs ==
    ASSUME NEW D, Shape(tree, D)
    PROVE  /\ InTree = D[tree.root]
           /\ \A n \in InTree : \A d \in Sides : Subtree(tree, tree.child[n][d]) = D[tree.child[n][d]]
           /\ \A n \in InTree : Subtree(tree, n) = D[n]
<1>1. tree.root \in D[tree.root] \cup {NIL}
  BY Typed
<1>2. InTree = D[tree.root]
  BY <1>1, SubtreeIs DEF InTree
<1>3. ASSUME NEW n \in InTree, NEW d \in Sides PROVE Subtree(tree, tree.child[n][d]) = D[tree.child[n][d]]
  <2>1. tree.child[n][d] \in D[tree.root] \cup {NIL}
    BY <1>2, BelowRoot
  <2>2. QED
    BY <2>1, SubtreeIs
<1>4. \A n \in InTree : Subtree(tree, n) = D[n]
  BY <1>2, SubtreeIs
<1>5. QED
  BY <1>2, <1>3, <1>4

(***************************************************************************)
(* The links form a tree at every step.                                    *)
(***************************************************************************)
THEOREM LinksAlwaysAgree == Spec => []LinksAgree
<1>1. TInv => LinksAgree
  <2>1. SUFFICES ASSUME TInv PROVE LinksAgree
    OBVIOUS
  <2>2. PICK D, h : Certified(tree, fix, D, h)
    BY <2>1 DEF TInv
  <2>3. Shape(tree, D) /\ Sentinel(tree) /\ tree \in Trees
    BY <2>2 DEF Certified, Shape
  <2>4. fix \in [op : {"none", "insert", "delete"}, node : Nodes]
    <3>1. NIL \in Nodes /\ \A n \in D[tree.root] : n \in Nodes
      BY <2>3, Typed DEF Nodes
    <3>2. CASE fix = NoFix
      BY <3>1, <3>2 DEF NoFix
    <3>3. CASE fix = [op |-> "insert", node |-> fix.node] /\ Inserting(tree, D, h, fix.node)
      <4>1. fix.node \in Nodes
        BY <3>1, <3>3 DEF Inserting
      <4>2. QED
        BY <3>3, <4>1
    <3>4. CASE fix = [op |-> "delete", node |-> fix.node] /\ Deleting(tree, D, h, fix.node)
      <4>1. fix.node \in Nodes
        BY <3>1, <3>4 DEF Deleting
      <4>2. QED
        BY <3>4, <4>1
    <3>5. QED
      BY <2>2, <3>2, <3>3, <3>4 DEF Certified
  <2>5. TypeOK /\ NilIntact
    BY <2>3, <2>4 DEF TypeOK, Trees, NilIntact, Sentinel
  <2>6. tree.root # NIL => tree.parent[tree.root] = NULL
    BY <2>3, Typed
  <2>7. ASSUME NEW n \in InTree, NEW d \in Sides, tree.child[n][d] # NIL
        PROVE  /\ tree.child[n][d] \in Processes /\ tree.parent[tree.child[n][d]] = n
               /\ tree.child[n][d] # tree.child[n][Opposite(d)]
    <3> DEFINE c == tree.child[n][d]
    <3>1. n \in D[tree.root]
      BY <2>3, InTreeIs
    <3>2. /\ c \in Nodes /\ c \in D[c] /\ tree.parent[c] = n
          /\ D[c] \cap D[tree.child[n][Opposite(d)]] = {}
      BY <2>3, <2>7, <3>1, Children
    <3>3. QED
      BY <2>7, <3>2 DEF Nodes
  <2>8. QED
    BY <2>5, <2>6, <2>7 DEF LinksAgree
<1>2. QED
  BY <1>1, TreeInv, PTL

(***************************************************************************)
(* The tree is in search order at every step.                              *)
(***************************************************************************)
THEOREM AlwaysOrdered == Spec => []Ordered
<1>1. TInv => Ordered
  <2>1. SUFFICES ASSUME TInv, NEW n \in InTree
                 PROVE  /\ \A m \in Subtree(tree, tree.child[n]["left"]) : PidOf[m] <= PidOf[n]
                        /\ \A m \in Subtree(tree, tree.child[n]["right"]) : PidOf[m] >= PidOf[n]
    BY DEF Ordered
  <2>2. PICK D, h : Certified(tree, fix, D, h)
    BY <2>1 DEF TInv
  <2>3. Shape(tree, D) /\ \A i \in D[tree.root] : \A d \in Sides : \A m \in D[tree.child[i][d]] : Beside(d, m, i)
    BY <2>2 DEF Certified, InOrder
  <2>4. /\ n \in D[tree.root] /\ "left" \in Sides /\ "right" \in Sides
        /\ Subtree(tree, tree.child[n]["left"]) = D[tree.child[n]["left"]]
        /\ Subtree(tree, tree.child[n]["right"]) = D[tree.child[n]["right"]]
    BY <2>1, <2>3, InTreeIs, SideFacts
  <2>5. \A m \in D[tree.child[n]["left"]] : PidOf[m] <= PidOf[n]
    BY <2>3, <2>4 DEF Beside
  <2>6. ASSUME NEW m \in D[tree.child[n]["right"]] PROVE PidOf[m] >= PidOf[n]
    <3>1. Beside("right", m, n) /\ "right" # "left"
      BY <2>3, <2>4
    <3>2. PidOf[n] <= PidOf[m]
      BY <3>1 DEF Beside
    <3>3. m \in Processes /\ n \in Processes
      BY <2>3, <2>4, Typed, BelowRoot
    <3>4. PidOf[m] \in Nat /\ PidOf[n] \in Nat
      BY <3>3, PidsAssumption
    <3>5. QED
      BY <3>2, <3>4
  <2>7. QED
    BY <2>4, <2>5, <2>6
<1>2. QED
  BY <1>1, TreeInv, PTL

(***************************************************************************)
(* rbSearch() is right at every step.                                      *)
(***************************************************************************)
THEOREM SearchAlwaysCorrect == Spec => []SearchCorrect
<1>1. TInv => SearchCorrect
  <2>1. SUFFICES ASSUME TInv, NEW p \in Pids
                 PROVE  IF \E m \in InTree : PidOf[m] = p
                          THEN rbSearch(tree, p) \in InTree /\ PidOf[rbSearch(tree, p)] = p
                          ELSE rbSearch(tree, p) = NIL
    BY DEF SearchCorrect
  <2>2. PICK D, h : Certified(tree, fix, D, h)
    BY <2>1 DEF TInv
  <2>3. Shape(tree, D) /\ InOrder(tree, D)
    BY <2>2 DEF Certified
  <2>4. p \in Nat
    BY PidsAssumption DEF Pids
  <2>5. InTree = D[tree.root]
    BY <2>3, InTreeIs
  <2>6. QED
    BY <2>3, <2>4, <2>5, SearchIs
<1>2. QED
  BY <1>1, TreeInv, PTL

(***************************************************************************)
(* The tree implements the set of processes: a fixup step changes nothing, *)
(* rbInsert() adds and rbDelete() removes one process.                     *)
(***************************************************************************)
THEOREM TreeImplementsSet == Spec => ImplementsProcessSet
<1>1. Init => InTree = {}
  <2>1. SUFFICES ASSUME Init PROVE InTree = {}
    OBVIOUS
  <2>2. PICK D, h : Certified(tree, fix, D, h)
    BY <2>1, EmptyCertified DEF TInv
  <2>3. Shape(tree, D)
    BY <2>2 DEF Certified
  <2>4. tree.root = NIL
    BY <2>1 DEF Init, nodePreparation
  <2>5. QED
    BY <2>3, <2>4, InTreeIs, Typed
<1>2. TInv /\ [Next]_vars => [\E n \in Processes : Abstract!Add(n) \/ Abstract!Remove(n)]_InTree
  <2>1. SUFFICES ASSUME TInv, [Next]_vars
                 PROVE  [\E n \in Processes : Abstract!Add(n) \/ Abstract!Remove(n)]_InTree
    OBVIOUS
  <2>2. PICK D, h : Certified(tree, fix, D, h)
    BY <2>1 DEF TInv
  <2>3. PICK E, k : Certified(tree', fix', E, k) /\ Changes(D[tree.root], E[tree'.root])
    BY <2>1, <2>2, StepCertified
  <2>4. InTree = D[tree.root]
    BY <2>2, InTreeIs DEF Certified
  <2>5. InTree' = E[tree'.root]
    <3>1. Shape(tree', E)
      BY <2>3 DEF Certified
    <3>2. tree'.root \in E[tree'.root] \cup {NIL}
      BY <3>1, Typed
    <3>3. Subtree(tree', tree'.root) = E[tree'.root]
      BY <3>1, <3>2, SubtreeIs
    <3>4. QED
      BY <3>3 DEF InTree
  <2>6. Changes(InTree, InTree')
    BY <2>3, <2>4, <2>5
  <2> HIDE DEF InTree
  <2>7. QED
    BY <2>6 DEF Changes, Abstract!Add, Abstract!Remove
<1>3. QED
  BY <1>1, <1>2, TreeInv, PTL DEF Spec, ImplementsProcessSet, Abstract!ProcessSetSpec

(* The black nodes from the root down to n.                                *)
BlackAbove(t, D, n) == {m \in D[t.root] : t.color[m] = "BLACK" /\ n \in D[m]}

(***************************************************************************)
(* Below the root there is nothing above it but itself.                    *)
(***************************************************************************)
LEMMA AboveRoot ==
    ASSUME NEW t, NEW D, Shape(t, D), t.root # NIL
    PROVE  BlackAbove(t, D, t.root) = IF t.color[t.root] = "BLACK" THEN {t.root} ELSE {}
<1>1. t.root \in D[t.root] /\ t.parent[t.root] = NULL /\ NULL \notin Nodes
  BY Typed
<1>2. ASSUME NEW m \in D[t.root], t.root \in D[m] PROVE m = t.root
  <2>1. m # t.root => t.parent[t.root] \in D[m]
    BY <1>2, Nested
  <2>2. D[m] \subseteq Nodes
    BY BelowRoot, Typed DEF Nodes
  <2>3. QED
    BY <1>1, <2>1, <2>2
<1>3. QED
  BY <1>1, <1>2 DEF BlackAbove

(***************************************************************************)
(* Above a child there is what is above its parent, and itself.            *)
(***************************************************************************)
LEMMA AboveChild ==
    ASSUME NEW t, NEW D, Shape(t, D), NEW n \in D[t.root], NEW d \in Sides, NEW c, c = t.child[n][d], c # NIL
    PROVE  /\ c \in D[t.root] /\ c \notin BlackAbove(t, D, n)
           /\ t.color[c] = "BLACK" => BlackAbove(t, D, c) = BlackAbove(t, D, n) \cup {c}
           /\ t.color[c] # "BLACK" => BlackAbove(t, D, c) = BlackAbove(t, D, n)
<1>1. c \in D[t.root] /\ c \in D[c] /\ t.parent[c] = n /\ n \notin D[c] /\ c \in D[n]
  BY Children, BelowRoot
<1>2. ASSUME NEW m \in D[t.root] PROVE c \in D[m] <=> m = c \/ n \in D[m]
  <2>1. c \in D[m] /\ m # c => n \in D[m]
    BY <1>1, Nested
  <2>2. n \in D[m] => D[n] \subseteq D[m]
    BY Nested
  <2>3. QED
    BY <1>1, <2>1, <2>2
<1>3. QED
  BY <1>1, <1>2 DEF BlackAbove

(***************************************************************************)
(* From the root down to n and on from n there are as many black nodes for *)
(* every n.                                                                *)
(***************************************************************************)
LEMMA SameEverywhere ==
    ASSUME NEW t, NEW D, NEW h, Shape(t, D), Heights(t, D, h, NULL, "left"), NEW n \in D[t.root]
    PROVE  Cardinality(BlackAbove(t, D, n)) + h[n] = Weight(t, h, t.root)
<1> DEFINE T == D[t.root]
           B(m) == BlackAbove(t, D, m)
           S == {m \in T : Cardinality(B(m)) + h[m] = Weight(t, h, t.root)}
<1>1. /\ h \in [Nodes -> Nat]
      /\ \A m \in T : \A d \in Sides : h[m] = Weight(t, h, t.child[m][d]) + Extra(m, d, NULL, "left")
      /\ T \in SUBSET Processes /\ NULL \notin Nodes /\ \A m \in T : m \in Nodes
      /\ t.root \in Nodes
  BY Typed DEF Heights
<1>2. \A m \in T : IsFiniteSet(B(m)) /\ Cardinality(B(m)) \in Nat
  <2>1. \A m \in T : B(m) \in SUBSET Processes
    BY <1>1 DEF BlackAbove
  <2> HIDE DEF B
  <2>2. QED
    BY <2>1, Finite
<1>3. t.root \in T /\ t.root # NIL
  BY Typed
<1>4. t.root \in S
  <2>1. B(t.root) = IF t.color[t.root] = "BLACK" THEN {t.root} ELSE {}
    BY <1>3, AboveRoot
  <2> HIDE DEF B
  <2>2. Cardinality({t.root}) = 1 /\ Cardinality({}) = 0
    BY FS_Singleton, FS_EmptySet
  <2>3. Cardinality(B(t.root)) = IF t.color[t.root] = "BLACK" THEN 1 ELSE 0
    BY <2>1, <2>2
  <2>4. h[t.root] \in Nat
    BY <1>1
  <2>5. QED
    BY <1>3, <2>3, <2>4 DEF Weight
<1>5. ASSUME NEW m \in S, NEW d \in Sides, t.child[m][d] # NIL PROVE t.child[m][d] \in S
  <2> DEFINE c == t.child[m][d]
  <2>1. m \in T /\ Cardinality(B(m)) + h[m] = Weight(t, h, t.root)
    OBVIOUS
  <2>2. /\ c \in T /\ c \notin B(m)
        /\ B(c) = IF t.color[c] = "BLACK" THEN B(m) \cup {c} ELSE B(m)
    <3>1. c = t.child[m][d] /\ c # NIL /\ m \in D[t.root]
      BY <1>5, <2>1
    <3> HIDE DEF c, S
    <3>2. c \in T /\ c \notin B(m)
      BY <3>1, AboveChild
    <3>3. t.color[c] = "BLACK" => B(c) = B(m) \cup {c}
      BY <3>1, AboveChild
    <3>4. t.color[c] # "BLACK" => B(c) = B(m)
      BY <3>1, AboveChild
    <3>5. QED
      BY <3>2, <3>3, <3>4
  <2>3. h[m] = Weight(t, h, c)
    <3>1. h[m] = Weight(t, h, c) + Extra(m, d, NULL, "left")
      BY <1>1, <2>1
    <3>2. Extra(m, d, NULL, "left") = 0
      BY <1>1, <2>1 DEF Extra
    <3>3. Weight(t, h, c) \in Nat
      BY <1>1, <2>2 DEF Weight
    <3> HIDE DEF c
    <3>4. QED
      BY <3>1, <3>2, <3>3
  <2> HIDE DEF B, c
  <2>4. Cardinality(B(c)) = Cardinality(B(m)) + IF t.color[c] = "BLACK" THEN 1 ELSE 0
    <3>1. Cardinality(B(m) \cup {c}) = Cardinality(B(m)) + 1
      BY <1>2, <2>1, <2>2, FS_AddElement
    <3>2. Cardinality(B(m)) \in Nat
      BY <1>2, <2>1
    <3>3. QED
      BY <2>2, <3>1, <3>2
  <2>5. Cardinality(B(m)) \in Nat /\ h[c] \in Nat
    BY <1>1, <1>2, <2>1, <2>2
  <2>6. Cardinality(B(c)) + h[c] = Cardinality(B(m)) + h[m]
    BY <2>3, <2>4, <2>5 DEF Weight
  <2>7. c \in S
    BY <2>1, <2>2, <2>6
  <2>8. QED
    BY <2>7 DEF c
<1>6. T \subseteq S
  <2> HIDE DEF S
  <2>1. QED
    BY <1>3, <1>4, <1>5, Closed
<1>7. QED
  BY <1>6

(***************************************************************************)
(* Between operations the tree is red-black.                               *)
(***************************************************************************)
THEOREM AlwaysRedBlack == Spec => []RedBlack
<1>1. TInv => RedBlack
  <2>1. SUFFICES ASSUME TInv, fix.op = "none"
                 PROVE  /\ tree.color[tree.root] = "BLACK"
                        /\ \A n \in InTree : \A d \in Sides :
                             tree.color[n] = "RED" => tree.color[tree.child[n][d]] = "BLACK"
                        /\ Cardinality({BlackDepth(n) : n \in Ends}) <= 1
    BY DEF RedBlack
  <2> DEFINE t == tree
  <2>2. PICK D, h : Certified(tree, fix, D, h)
    BY <2>1 DEF TInv
  <2>3. Shape(t, D) /\ Sentinel(t) /\ Balanced(t, D, h) /\ t \in Trees
    BY <2>1, <2>2 DEF Certified, Shape
  <2>4. Heights(t, D, h, NULL, "left") /\ Reds(t, D, NULL, NULL) /\ t.color[t.root] = "BLACK"
    BY <2>3 DEF Balanced
  <2>5. InTree = D[t.root] /\ \A m \in InTree : Subtree(t, m) = D[m]
    BY <2>3, InTreeIs
  <2>6. ASSUME NEW n \in InTree, NEW d \in Sides, t.color[n] = "RED" PROVE t.color[t.child[n][d]] = "BLACK"
    <3>1. n \in D[t.root] /\ n # NULL /\ t.child[n][d] \in Nodes /\ NULL \notin Nodes
      BY <2>3, <2>5, Typed, Children
    <3>2. t.color[t.child[n][d]] # "RED"
      BY <2>4, <2>6, <3>1 DEF Reds
    <3>3. t.color[t.child[n][d]] \in {"RED", "BLACK"}
      BY <2>3, <3>1, Fields
    <3>4. QED
      BY <3>2, <3>3
  <2> DEFINE W == Weight(t, h, t.root) - 1
  <2>7. ASSUME NEW n \in Ends PROVE BlackDepth(n) = W
    <3>1. n \in D[t.root]
      BY <2>5 DEF Ends
    <3>2. PICK d \in Sides : t.child[n][d] = NIL
      BY DEF Ends
    <3>3. h[n] = 1
      <4>1. h[n] = Weight(t, h, t.child[n][d]) + Extra(n, d, NULL, "left")
        BY <2>4, <3>1 DEF Heights
      <4>2. n # NULL
        BY <2>3, <3>1, Typed
      <4>3. h[NIL] = 0 /\ t.color[NIL] = "BLACK"
        BY <2>3, <2>4 DEF Heights, Sentinel
      <4>4. Weight(t, h, NIL) = 1
        BY <4>3 DEF Weight
      <4>5. QED
        BY <3>2, <4>1, <4>2, <4>4 DEF Extra
    <3>4. BlackDepth(n) = Cardinality(BlackAbove(t, D, n))
      <4>1. {m \in InTree : t.color[m] = "BLACK" /\ n \in Subtree(t, m)} = BlackAbove(t, D, n)
        BY <2>5 DEF BlackAbove
      <4>2. QED
        BY <4>1 DEF BlackDepth
    <3>5. Cardinality(BlackAbove(t, D, n)) + h[n] = Weight(t, h, t.root)
      BY <2>3, <2>4, <3>1, SameEverywhere
    <3>6. Cardinality(BlackAbove(t, D, n)) \in Nat
      <4>1. BlackAbove(t, D, n) \in SUBSET Processes
        BY <2>3, Typed DEF BlackAbove
      <4>2. QED
        BY <4>1, Finite
    <3>7. QED
      BY <3>3, <3>4, <3>5, <3>6
  <2>8. Cardinality({BlackDepth(n) : n \in Ends}) <= 1
    <3> DEFINE X == {BlackDepth(n) : n \in Ends}
    <3>1. X \in SUBSET {W}
      BY <2>7
    <3> HIDE DEF X, W
    <3>2. IsFiniteSet({W}) /\ Cardinality({W}) = 1
      BY FS_Singleton
    <3>3. Cardinality(X) <= Cardinality({W})
      BY <3>1, <3>2, FS_Subset
    <3>4. Cardinality(X) <= 1
      BY <3>2, <3>3
    <3>5. QED
      BY <3>4 DEF X
  <2>9. QED
    BY <2>4, <2>6, <2>8
<1>2. QED
  BY <1>1, TreeInv, PTL
=============================================================================
