---------------------------- MODULE ProcessTree -----------------------------
(***************************************************************************)
(* The red-black tree of processes (sys/process.c), ordered by pid.  The   *)
(* nodes are the process structures themselves; NIL is the sentinel of     *)
(* nodePreparation() and NULL the parent of the root.  The descent, the    *)
(* linking and each iteration of a fixup loop are one step each: the       *)
(* caller holds rbTreeLock (rbDelete(), which nobody calls, does not).     *)
(* The two mirrored halves of each algorithm are one definition with a     *)
(* side as parameter.                                                      *)
(***************************************************************************)
EXTENDS Naturals, FiniteSets

CONSTANTS
    Processes,      \* process structures kmalloc() may hand out
    PidOf,          \* their pids; two may be equal (getProcessID() is not atomic)
    NIL,            \* the sentinel node
    NULL            \* the null pointer

Pids == {PidOf[n] : n \in Processes}

ASSUME PidsAssumption == IsFiniteSet(Processes) /\ PidOf \in [Processes -> Nat]
ASSUME PointersAssumption == NIL \notin Processes /\ NULL \notin Processes \cup {NIL}

Nodes == Processes \cup {NIL}
Pointers == Nodes \cup {NULL}

Sides == {"left", "right"}

Opposite(d) == IF d = "left" THEN "right" ELSE "left"

Size == Cardinality(Processes)

VARIABLES
    tree,       \* child, parent and color of every node, and root
    fix         \* the fixup loop in progress and the node it stands at

vars == <<tree, fix>>

NoFix == [op |-> "none", node |-> NIL]

(***************************************************************************)
(* nodePreparation().  A process not in the tree has been cleared by       *)
(* memset().                                                               *)
(***************************************************************************)
nodePreparation ==
    tree = [child  |-> [n \in Nodes |-> [d \in Sides |-> IF n = NIL THEN NIL ELSE NULL]],
            parent |-> [n \in Nodes |-> NULL],
            color  |-> [n \in Nodes |-> "BLACK"],
            root   |-> NIL]

Init == nodePreparation /\ fix = NoFix

(***************************************************************************)
(* Stores to the fields of a node.                                         *)
(***************************************************************************)
SetChild(t, n, d, m) == [t EXCEPT !.child[n][d] = m]

SetParent(t, n, p) == [t EXCEPT !.parent[n] = p]

SetColor(t, n, c) == [t EXCEPT !.color[n] = c]

(* v takes the place of u below u's parent, or as the root.                *)
ReplaceBelowParent(t, u, v) ==
    LET p == t.parent[u]
    IN  IF p = NULL THEN [t EXCEPT !.root = v]
        ELSE SetChild(t, p, IF u = t.child[p].left THEN "left" ELSE "right", v)

(* Seeded bug: the moved subtree keeps its old parent pointer.             *)
rotate_NoParent(t, x, d) ==
    LET y == t.child[x][Opposite(d)]
        z == t.child[y][d]
        p == t.parent[x]
        s == ReplaceBelowParent(t, x, y)
    IN  [s EXCEPT !.child[x][Opposite(d)] = z,
                  !.child[y][d] = x,
                  !.parent[y] = p,
                  !.parent[x] = y]

(* leftRotate(x) for d = "left", rightRotate(x) for d = "right": the child *)
(* y on the other side takes x's place and gives x its subtree z.          *)
rotate(t, x, d) ==
    LET y == t.child[x][Opposite(d)]
        z == t.child[y][d]
        p == t.parent[x]
        s == ReplaceBelowParent(t, x, y)
    IN  [s EXCEPT !.child[x][Opposite(d)] = z,
                  !.child[y][d] = x,
                  !.parent[z] = IF z = NIL THEN @ ELSE x,
                  !.parent[y] = p,
                  !.parent[x] = y]

(***************************************************************************)
(* Descents from the root: where the pointer is after k turns of the loop. *)
(***************************************************************************)
Turn(t, n, p) == t.child[n][IF p < PidOf[n] THEN "left" ELSE "right"]

(* rbSearch(): a node with pid p, or NIL.                                  *)
rbSearch(t, p) ==
    LET at[k \in 0 .. Size] ==
            IF k = 0 THEN t.root
            ELSE LET n == at[k - 1]
                 IN  IF n = NIL \/ PidOf[n] = p THEN n ELSE Turn(t, n, p)
    IN  at[Size]

(* The last node before NIL on the way down, NULL in an empty tree: y at   *)
(* the end of the loop of rbInsert().                                      *)
InsertionParent(t, p) ==
    LET at[k \in 0 .. Size] ==
            IF k = 0 THEN [y |-> NULL, x |-> t.root]
            ELSE LET s == at[k - 1]
                 IN  IF s.x = NIL THEN s ELSE [y |-> s.x, x |-> Turn(t, s.x, p)]
    IN  at[Size].y

treeMinimum(t, n) ==
    LET at[k \in 0 .. Size] ==
            IF k = 0 THEN n
            ELSE LET m == at[k - 1]
                 IN  IF t.child[m].left = NIL THEN m ELSE t.child[m].left
    IN  at[Size]

(* The nodes of the subtree at n.                                          *)
Subtree(t, n) ==
    LET upTo[k \in 0 .. Size] ==
            IF k = 0 THEN {n} \ {NIL}
            ELSE LET s == upTo[k - 1]
                 IN  s \cup ({t.child[m][d] : m \in s, d \in Sides} \ {NIL})
    IN  upTo[Size]

InTree == Subtree(tree, tree.root)

(***************************************************************************)
(* rbInsert()                                                              *)
(***************************************************************************)

(* Seeded bug: the comparison that links the node is the wrong way round.  *)
rbInsert_WrongSide(n) ==
    LET y == InsertionParent(tree, PidOf[n])
        t1 == SetParent(tree, n, y)
        t2 == IF y = NULL THEN [t1 EXCEPT !.root = n]
              ELSE SetChild(t1, y, IF PidOf[n] <= PidOf[y] THEN "right" ELSE "left", n)
        t3 == SetChild(SetChild(t2, n, "left", NIL), n, "right", NIL)
    IN  /\ fix.op = "none"
        /\ n \notin InTree
        /\ tree' = SetColor(t3, n, "RED")
        /\ fix' = [op |-> "insert", node |-> n]

rbInsert(n) ==
    LET y == InsertionParent(tree, PidOf[n])
        t1 == SetParent(tree, n, y)
        t2 == IF y = NULL THEN [t1 EXCEPT !.root = n]
              ELSE SetChild(t1, y, IF PidOf[n] < PidOf[y] THEN "left" ELSE "right", n)
        t3 == SetChild(SetChild(t2, n, "left", NIL), n, "right", NIL)
    IN  /\ fix.op = "none"
        /\ n \notin InTree
        /\ tree' = SetColor(t3, n, "RED")
        /\ fix' = [op |-> "insert", node |-> n]

(* fixupInsert(): the condition of its loop, with the break inside it.     *)
InsertLoops(t, x) ==
    /\ t.parent[x] # NULL
    /\ t.color[t.parent[x]] = "RED"
    /\ t.parent[t.parent[x]] # NULL

(* The side of the parent below the grandparent.                           *)
ParentSide(t, x) ==
    IF t.parent[x] = t.child[t.parent[t.parent[x]]].left THEN "left" ELSE "right"

Uncle(t, x) == t.child[t.parent[t.parent[x]]][Opposite(ParentSide(t, x))]

(* Only the left half tests for NIL.                                       *)
UncleIsRed(t, x) ==
    /\ ParentSide(t, x) = "left" => Uncle(t, x) # NIL
    /\ t.color[Uncle(t, x)] = "RED"

(* Case 1: parent and uncle turn black, the loop goes on at the            *)
(* grandparent.                                                            *)
FixupInsertRecolor ==
    LET x == fix.node
        p == tree.parent[x]
        g == tree.parent[p]
    IN  /\ fix.op = "insert"
        /\ InsertLoops(tree, x)
        /\ UncleIsRed(tree, x)
        /\ tree' = SetColor(SetColor(SetColor(tree, p, "BLACK"), Uncle(tree, x), "BLACK"),
                            g, "RED")
        /\ fix' = [fix EXCEPT !.node = g]

(* Case 2: an inner child and its parent change places.  The loop comes    *)
(* round again in case 3, which the code enters at once.                   *)
FixupInsertInner ==
    LET x == fix.node
        p == tree.parent[x]
        d == ParentSide(tree, x)
    IN  /\ fix.op = "insert"
        /\ InsertLoops(tree, x)
        /\ ~UncleIsRed(tree, x)
        /\ x = tree.child[p][Opposite(d)]
        /\ tree' = rotate(tree, p, d)
        /\ fix' = [fix EXCEPT !.node = p]

(* Case 3: the parent of an outer child is rotated above the grandparent.  *)
FixupInsertOuter ==
    LET x == fix.node
        p == tree.parent[x]
        g == tree.parent[p]
        d == ParentSide(tree, x)
    IN  /\ fix.op = "insert"
        /\ InsertLoops(tree, x)
        /\ ~UncleIsRed(tree, x)
        /\ x # tree.child[p][Opposite(d)]
        /\ tree' = rotate(SetColor(SetColor(tree, p, "BLACK"), g, "RED"), g, Opposite(d))
        /\ UNCHANGED fix

FixupInsertEnds ==
    /\ fix.op = "insert"
    /\ ~InsertLoops(tree, fix.node)
    /\ tree' = SetColor(tree, tree.root, "BLACK")
    /\ fix' = NoFix

(***************************************************************************)
(* rbDelete()                                                              *)
(***************************************************************************)
rbTransplant(t, u, v) == SetParent(ReplaceBelowParent(t, u, v), v, t.parent[u])

(* Seeded bug: the successor does not take over z's left subtree.          *)
Unlinked_LosesLeft(t, z) ==
    LET l == t.child[z].left
        r == t.child[z].right
        y == treeMinimum(t, r)
        x == t.child[y].right
        t1 == IF t.parent[y] = z THEN SetParent(t, x, y)
              ELSE LET s == SetChild(rbTransplant(t, y, x), y, "right", r)
                   IN  SetParent(s, s.child[y].right, y)
        t2 == rbTransplant(t1, z, y)
        t3 == SetColor(SetParent(t2, l, y), y, t2.color[z])
    IN  IF l = NIL THEN [t |-> rbTransplant(t, z, r), x |-> r, color |-> t.color[z]]
        ELSE IF r = NIL THEN [t |-> rbTransplant(t, z, l), x |-> l, color |-> t.color[z]]
        ELSE [t |-> t3, x |-> x, color |-> t.color[y]]

(* The tree with z unlinked, the child x that took the place of the node   *)
(* that was moved, and that node's color.                                  *)
Unlinked(t, z) ==
    LET l == t.child[z].left
        r == t.child[z].right
        y == treeMinimum(t, r)
        x == t.child[y].right
        t1 == IF t.parent[y] = z THEN SetParent(t, x, y)
              ELSE LET s == SetChild(rbTransplant(t, y, x), y, "right", r)
                   IN  SetParent(s, s.child[y].right, y)
        t2 == SetChild(rbTransplant(t1, z, y), y, "left", l)
        t3 == SetColor(SetParent(t2, l, y), y, t2.color[z])
    IN  IF l = NIL THEN [t |-> rbTransplant(t, z, r), x |-> r, color |-> t.color[z]]
        ELSE IF r = NIL THEN [t |-> rbTransplant(t, z, l), x |-> l, color |-> t.color[z]]
        ELSE [t |-> t3, x |-> x, color |-> t.color[y]]

(* kfree(): the next owner of the structure clears it.                     *)
Freed(t, z) ==
    [t EXCEPT !.child[z] = [d \in Sides |-> NULL],
              !.parent[z] = NULL, !.color[z] = "BLACK"]

(* The fixup never looks at z again, so that z is freed here.              *)
rbDelete(p) ==
    LET z == rbSearch(tree, p)
        u == Unlinked(tree, z)
    IN  /\ fix.op = "none"
        /\ z # NIL
        /\ tree' = Freed(u.t, z)
        /\ fix' = IF u.color = "BLACK" THEN [op |-> "delete", node |-> u.x] ELSE NoFix

(* rbDeleteFixup(): the condition of its loop.                             *)
DeleteLoops(t, x) == x # t.root /\ t.color[x] = "BLACK"

NodeSide(t, x) == IF x = t.child[t.parent[x]].left THEN "left" ELSE "right"

Sibling(t, x) == t.child[t.parent[x]][Opposite(NodeSide(t, x))]

(* The child of the sibling that is on the other side from x.              *)
OuterNephew(t, x) == t.child[Sibling(t, x)][Opposite(NodeSide(t, x))]

InnerNephew(t, x) == t.child[Sibling(t, x)][NodeSide(t, x)]

InDeleteLoop == fix.op = "delete" /\ DeleteLoops(tree, fix.node)

(* The cases of one iteration.  After cases 1 and 3 the code goes on with  *)
(* the case that coming round the loop again selects.                      *)

(* Case 1: a red sibling is rotated above x's parent.                      *)
DeleteFixupRedSibling ==
    LET x == fix.node
        p == tree.parent[x]
        w == Sibling(tree, x)
    IN  /\ InDeleteLoop
        /\ tree.color[w] = "RED"
        /\ tree' = rotate(SetColor(SetColor(tree, w, "BLACK"), p, "RED"), p,
                          NodeSide(tree, x))
        /\ UNCHANGED fix

(* Seeded bug: the sibling stays black.                                    *)
DeleteFixupMovesUp_NoRecolor ==
    LET x == fix.node
    IN  /\ InDeleteLoop
        /\ tree.color[Sibling(tree, x)] = "BLACK"
        /\ tree.color[InnerNephew(tree, x)] = "BLACK"
        /\ tree.color[OuterNephew(tree, x)] = "BLACK"
        /\ fix' = [fix EXCEPT !.node = tree.parent[x]]
        /\ UNCHANGED tree

(* Case 2: the sibling turns red and x moves up.                           *)
DeleteFixupMovesUp ==
    LET x == fix.node
    IN  /\ InDeleteLoop
        /\ tree.color[Sibling(tree, x)] = "BLACK"
        /\ tree.color[InnerNephew(tree, x)] = "BLACK"
        /\ tree.color[OuterNephew(tree, x)] = "BLACK"
        /\ tree' = SetColor(tree, Sibling(tree, x), "RED")
        /\ fix' = [fix EXCEPT !.node = tree.parent[x]]

(* Case 3: a red inner nephew is rotated above the sibling.                *)
DeleteFixupInnerNephew ==
    LET x == fix.node
        w == Sibling(tree, x)
        v == InnerNephew(tree, x)
    IN  /\ InDeleteLoop
        /\ tree.color[w] = "BLACK"
        /\ tree.color[v] = "RED"
        /\ tree.color[OuterNephew(tree, x)] = "BLACK"
        /\ tree' = rotate(SetColor(SetColor(tree, v, "BLACK"), w, "RED"), w,
                          Opposite(NodeSide(tree, x)))
        /\ UNCHANGED fix

(* Seeded bug: x = root is forgotten.                                      *)
DeleteFixupOuterNephew_GoesOn ==
    LET x == fix.node
        p == tree.parent[x]
        w == Sibling(tree, x)
        t == SetColor(SetColor(SetColor(tree, w, tree.color[p]), p, "BLACK"),
                      OuterNephew(tree, x), "BLACK")
    IN  /\ InDeleteLoop
        /\ tree.color[w] = "BLACK"
        /\ tree.color[OuterNephew(tree, x)] = "RED"
        /\ tree' = rotate(t, p, NodeSide(tree, x))
        /\ UNCHANGED fix

(* Case 4: the sibling is rotated above the parent, and x = root.          *)
DeleteFixupOuterNephew ==
    LET x == fix.node
        p == tree.parent[x]
        w == Sibling(tree, x)
        t == SetColor(SetColor(SetColor(tree, w, tree.color[p]), p, "BLACK"),
                      OuterNephew(tree, x), "BLACK")
    IN  /\ InDeleteLoop
        /\ tree.color[w] = "BLACK"
        /\ tree.color[OuterNephew(tree, x)] = "RED"
        /\ tree' = rotate(t, p, NodeSide(tree, x))
        /\ fix' = [fix EXCEPT !.node = tree'.root]

DeleteFixupEnds ==
    /\ fix.op = "delete"
    /\ ~DeleteLoops(tree, fix.node)
    /\ tree' = SetColor(tree, fix.node, "BLACK")
    /\ fix' = NoFix

Fixup ==
    \/ FixupInsertRecolor
    \/ FixupInsertInner
    \/ FixupInsertOuter
    \/ FixupInsertEnds
    \/ DeleteFixupRedSibling
    \/ DeleteFixupMovesUp
    \/ DeleteFixupInnerNephew
    \/ DeleteFixupOuterNephew
    \/ DeleteFixupEnds

Next ==
    \/ \E n \in Processes : rbInsert(n)
    \/ \E p \in Pids : rbDelete(p)
    \/ Fixup

(* The CPU that runs a fixup loop goes on running it.                      *)
Spec == Init /\ [][Next]_vars /\ WF_vars(Fixup)

-----------------------------------------------------------------------------
TypeOK ==
    /\ tree \in [child : [Nodes -> [Sides -> Pointers]],
                 parent : [Nodes -> Pointers],
                 color : [Nodes -> {"RED", "BLACK"}],
                 root : Nodes]
    /\ fix \in [op : {"none", "insert", "delete"}, node : Nodes]

(* The sentinel is as nodePreparation() made it, except for its parent,    *)
(* which rbTransplant() uses.                                              *)
NilIntact ==
    /\ tree.color[NIL] = "BLACK"
    /\ \A d \in Sides : tree.child[NIL][d] = NIL

(***************************************************************************)
(* The links form a tree at every step of insertion, deletion and fixup:   *)
(* child and parent pointers agree, the root has no parent, no node is the *)
(* child of two, and no rotation or recoloring writes the color ("NIL has  *)
(* to be black") or the children of the sentinel that every leaf shares.   *)
(***************************************************************************)
LinksAgree ==
    /\ TypeOK
    /\ NilIntact
    /\ tree.root # NIL => tree.parent[tree.root] = NULL
    /\ \A n \in InTree : \A d \in Sides :
        LET m == tree.child[n][d]
        IN  m # NIL => /\ m \in Processes
                       /\ tree.parent[m] = n
                       /\ m # tree.child[n][Opposite(d)]

(***************************************************************************)
(* Search order, equal pids included: no pid to the left of a node is      *)
(* larger, none to its right is smaller, through every rotation.           *)
(***************************************************************************)
Ordered ==
    \A n \in InTree :
        /\ \A m \in Subtree(tree, tree.child[n].left) : PidOf[m] <= PidOf[n]
        /\ \A m \in Subtree(tree, tree.child[n].right) : PidOf[m] >= PidOf[n]

(* How many black nodes there are from the root down to n.                 *)
BlackDepth(n) ==
    Cardinality({m \in InTree : tree.color[m] = "BLACK" /\ n \in Subtree(tree, m)})

Ends == {n \in InTree : \E d \in Sides : tree.child[n][d] = NIL}

(***************************************************************************)
(* Between operations the tree is red-black: the root is black, no red     *)
(* node has a red child, and every path down has as many black nodes as    *)
(* every other.  This is what the fixup loops are for.                     *)
(***************************************************************************)
RedBlack ==
    fix.op = "none" =>
        /\ tree.color[tree.root] = "BLACK"
        /\ \A n \in InTree : \A d \in Sides :
            tree.color[n] = "RED" => tree.color[tree.child[n][d]] = "BLACK"
        /\ Cardinality({BlackDepth(n) : n \in Ends}) <= 1

(***************************************************************************)
(* rbSearch() finds a process with the pid exactly when there is one, also *)
(* after rotations have moved equal pids to both sides of each other.      *)
(***************************************************************************)
SearchCorrect ==
    \A p \in Pids :
        LET n == rbSearch(tree, p)
        IN  IF \E m \in InTree : PidOf[m] = p
              THEN n \in InTree /\ PidOf[n] = p
              ELSE n = NIL

(***************************************************************************)
(* Every fixup loop ends.                                                  *)
(***************************************************************************)
FixupEnds == fix.op # "none" ~> fix.op = "none"

(***************************************************************************)
(* The tree implements the set of processes: a fixup neither loses nor     *)
(* doubles a process, and a deletion removes one.                          *)
(***************************************************************************)
Abstract == INSTANCE ProcessSet WITH procs <- InTree

ImplementsProcessSet == Abstract!ProcessSetSpec
=============================================================================
