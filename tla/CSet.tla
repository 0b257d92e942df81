-------------------------------- MODULE CSet --------------------------------
(***************************************************************************)
(* lib/cset.c: an ordered set as an AVL tree.  A node keeps its height and *)
(* how many nodes are on its left and on its right; the code brings these  *)
(* up to date in assign_child, whenever a child is linked, and nowhere     *)
(* else.  A tree is a node with its subtrees in it; what the code does on  *)
(* the way through a tree, in a loop or by recursion, is a function on     *)
(* trees.                                                                  *)
(***************************************************************************)
EXTENDS Integers, Sequences, FiniteSets

CONSTANTS
  Data,          \* the elements
  KeyOf,         \* what the comparison function looks at: an integer
  MaxHeight      \* bound: how many nodes are on a way from the root to a leaf

ASSUME SetAssumption == KeyOf \in [Data -> Int] /\ MaxHeight \in Nat

VARIABLES
  root,
  state,         \* "ready" or "disposed"
  cleaned        \* the elements that the last call cleaned up, in their order

vars == <<root, state, cleaned>>

NULL == [height |-> -1]
CSET_ERROR == -1

\* The trees of at most h levels, whatever their nodes keep.
TreesUpTo[h \in 0 .. MaxHeight] ==
  IF h = 0 THEN {NULL}
  ELSE {NULL} \cup
       [data : Data, left : TreesUpTo[h - 1], right : TreesUpTo[h - 1],
        height : Nat, nleft : Nat, nright : Nat]

Trees == TreesUpTo[MaxHeight]

NewNode(d) ==
  [data |-> d, left |-> NULL, right |-> NULL, height |-> 0, nleft |-> 0, nright |-> 0]

Opposite(dir) == IF dir = "left" THEN "right" ELSE "left"

\* get_direction of the comparison of node's element with d
Direction(node, d) == IF KeyOf[node.data] > KeyOf[d] THEN "left" ELSE "right"
Matches(node, d)   == KeyOf[node.data] = KeyOf[d]

GetSize(node) == IF node = NULL THEN 0 ELSE 1 + node.nleft + node.nright

Larger(m, n) == IF m > n THEN m ELSE n
UpdateHeight(node) ==
  [node EXCEPT !.height = 1 + Larger(node.left.height, node.right.height)]

\* A mistake: the nodes below are not counted again.
AssignChildUncounted(node, newChild, dir) ==
  UpdateHeight([node EXCEPT ![dir] = newChild])

AssignChild(node, newChild, dir) ==
  UpdateHeight(
    [node EXCEPT ![dir] = newChild,
                 ![IF dir = "left" THEN "nleft" ELSE "nright"] = GetSize(newChild)])

GetBalance(node) == node.left.height - node.right.height

Rotate(top, dir) ==
  LET newRoot    == top[Opposite(dir)]
      transplant == newRoot[dir]
  IN
  IF newRoot = NULL THEN top
  ELSE AssignChild(newRoot, AssignChild(top, transplant, Opposite(dir)), dir)

\* One round of the loop of balance: the heavier child is turned first where it
\* leans the other way.
Settle(node) ==
  LET dir      == IF GetBalance(node) > 1 THEN "left" ELSE "right"
      sub      == GetBalance(node[dir])
      leans    == IF dir = "left" THEN sub <= -1 ELSE sub >= 1
      straight == IF leans THEN [node EXCEPT ![dir] = Rotate(@, dir)] ELSE node
  IN
  IF GetBalance(node) \in -1 .. 1 THEN node ELSE Rotate(straight, Opposite(dir))

\* The loop: two rounds of it, after which there is nothing left to do for a third
\* (BalanceEnds in CSetProofs).
Balance(node) == Settle(Settle(node))
-----------------------------------------------------------------------------
\* Without memory for the new node NULL goes up to the root, and the tree is lost.
InsertAt(top, d, memory) ==
  LET at[node \in Trees] ==
        LET dir      == Direction(node, d)
            newChild == at[node[dir]]
        IN
        IF node = NULL THEN IF memory THEN NewNode(d) ELSE NULL
        ELSE IF Matches(node, d) THEN node
        ELSE IF newChild = NULL THEN NULL
        ELSE Balance(AssignChild(node, newChild, dir))
  IN at[top]

\* extrema to the right: the last node of a tree.
Last(top) ==
  LET of[node \in Trees] ==
        IF node = NULL \/ node.right = NULL THEN node ELSE of[node.right]
  IN of[top]

\* A tree without the node that was removed from it, and that node.
Without(tree, removed) == [tree |-> tree, removed |-> removed]

\* A mistake: what is left of the left subtree is not linked again.
RemoveNodeForgets(node, fromLeft) ==
  IF node.left = NULL THEN node.right
  ELSE IF node.right = NULL THEN node.left
  ELSE Balance(AssignChild(Last(node.left), node.right, "right"))

\* The last node of the left subtree takes the place of the node; fromLeft is
\* what remove_at does to the left subtree for each element.
RemoveNode(node, fromLeft) ==
  LET rest == fromLeft[Last(node.left).data] IN
  IF node.left = NULL THEN node.right
  ELSE IF node.right = NULL THEN node.left
  ELSE Balance(AssignChild(AssignChild(rest.removed, node.right, "right"),
                           rest.tree, "left"))

\* A mistake: the way back to the root is not balanced.
RemoveAtLoose(top, dat) ==
  LET at[node \in Trees] ==
        [d \in Data |->
          LET dir  == Direction(node, d)
              rest == at[node[dir]][d]
          IN
          IF node = NULL THEN Without(NULL, NULL)
          ELSE IF Matches(node, d) THEN Without(RemoveNode(node, at[node.left]), node)
          ELSE Without(AssignChild(node, rest.tree, dir), rest.removed)]
  IN at[top][dat]

RemoveAt(top, dat) ==
  LET at[node \in Trees] ==
        [d \in Data |->
          LET dir  == Direction(node, d)
              rest == at[node[dir]][d]
          IN
          IF node = NULL THEN Without(NULL, NULL)
          ELSE IF Matches(node, d) THEN Without(RemoveNode(node, at[node.left]), node)
          ELSE Without(Balance(AssignChild(node, rest.tree, dir)), rest.removed)]
  IN at[top][dat]

\* dispose_node, recursive: the elements in the order of their cleanup.
DisposeNode(top) ==
  LET of[node \in Trees] ==
        IF node = NULL THEN <<>> ELSE of[node.left] \o of[node.right] \o <<node.data>>
  IN of[top]
-----------------------------------------------------------------------------
Lookup(d) ==
  LET from[node \in Trees] ==
        IF node = NULL \/ Matches(node, d) THEN node ELSE from[node[Direction(node, d)]]
  IN from[root]

Rank(d) ==
  LET from[node \in Trees] ==
        [rank \in Nat |->
          IF node = NULL THEN CSET_ERROR
          ELSE IF Matches(node, d) THEN rank + node.nleft
          ELSE IF Direction(node, d) = "right" THEN from[node.right][rank + 1 + node.nleft]
          ELSE from[node.left][rank]]
  IN from[root][0]

Size == GetSize(root)

Init == root = NULL /\ state = "ready" /\ cleaned = <<>>

Insert(d) ==
  /\ state = "ready"
  /\ root.height + 1 < MaxHeight
  /\ \E memory \in BOOLEAN : root' = InsertAt(root, d, memory)
  /\ cleaned' = <<>>
  /\ UNCHANGED state

Remove(d) ==
  LET rest == RemoveAt(root, d) IN
  /\ state = "ready"
  /\ root' = rest.tree
  /\ cleaned' = IF rest.removed = NULL THEN <<>> ELSE <<rest.removed.data>>
  /\ UNCHANGED state

\* set_clear, and set_dispose, which goes on to free the set.
Clear(next) ==
  /\ state = "ready"
  /\ cleaned' = DisposeNode(root)
  /\ root' = NULL
  /\ state' = next

Next ==
  \/ \E d \in Data : Insert(d) \/ Remove(d)
  \/ Clear("ready") \/ Clear("disposed")

Spec == Init /\ [][Next]_vars
-----------------------------------------------------------------------------
(***************************************************************************)
(* Properties.                                                             *)
(***************************************************************************)
Nodes(top) ==
  LET in[node \in Trees] ==
        IF node = NULL THEN {} ELSE {node} \cup in[node.left] \cup in[node.right]
  IN in[top]

Deep(top) ==
  LET at[node \in Trees] ==
        IF node = NULL THEN -1 ELSE 1 + Larger(at[node.left], at[node.right])
  IN at[top]

Elements(node) == {n.data : n \in Nodes(node)}
Members == Elements(root)

\* At every node the subtrees are of about the same height, whatever was
\* inserted and removed ("O(log n) time operations", cset.h): the rotations, which
\* go by the heights kept in the nodes, restore it on the way back to the root.
Balanced == \A node \in Nodes(root) : Deep(node.left) - Deep(node.right) \in -1 .. 1

\* Lookup, rank and size, which go by the order of the tree and by the counts
\* kept in the nodes, answer what the members say.
AnswersRight ==
  /\ Size = Cardinality(Members)
  /\ \A d \in Data :
       LET same == {m \in Members : KeyOf[m] = KeyOf[d]}
           less == {m \in Members : KeyOf[m] < KeyOf[d]}
       IN IF same = {} THEN Lookup(d) = NULL /\ Rank(d) = CSET_ERROR
          ELSE Lookup(d).data \in same /\ Rank(d) = Cardinality(less)

Ordered == INSTANCE OrderedSet WITH members <- Members

\* The tree is a set of elements: an insertion adds one and keeps an
\* equivalent one that is there, a removal takes out that one alone, and each
\* element that goes is cleaned up once.  Where there is no memory for a new
\* element all elements are lost, and the set can still be used.
ImplementsSet == Ordered!Spec
=============================================================================
