------------------------------- MODULE RbTree -------------------------------
(***************************************************************************)
(* The red-black tree of base/rb_tree.c with its parent pointers, its      *)
(* shared sentinel and the fields a deletion leaves in the deleted node.   *)
(*                                                                         *)
(* A tree is a record: its root, and for every node and the sentinel the   *)
(* rbtree_node_t.  The code writes out each case and its mirror image;     *)
(* here a case is written once, for a side and the other one.  A loop of   *)
(* the code is a step taken as long as its condition holds, at most Bound  *)
(* times: a loop that needed more would leave a tree that is not balanced. *)
(* rbtree_fix_after_delete is a copy of the end of rbtree_delete that      *)
(* nothing calls.                                                          *)
(***************************************************************************)
EXTENDS Naturals, Sequences, FiniteSets

CONSTANTS Nodes,    \* the rbtree_node_t objects, one in each event_t
          Keys,     \* the values of rbtree_key_t that occur
          KeyOf,    \* bound: the key each node is inserted with
          Sentinel, \* &event_timer_sentinel
          Null      \* NULL

ASSUME NodesAssumption == IsFiniteSet(Nodes) /\ Null \notin Nodes \cup {Sentinel}
ASSUME SentinelAssumption == Sentinel \notin Nodes
ASSUME KeysAssumption == Keys \subseteq Nat /\ 0 \in Keys /\ KeyOf \in [Nodes -> Keys]

VARIABLES tree, \* event_timer_rbtree and all nodes
          held  \* the nodes that were inserted and not deleted since

vars == <<tree, held>>

Refs == Nodes \cup {Sentinel}
Bound == Cardinality(Nodes) + 1

Other(s) == IF s = "left" THEN "right" ELSE "left"

(* event_timer_sentinel and rbtree_init; a node is zero before its use.    *)
Init ==
  /\ tree = [root |-> Sentinel,
             nd |-> [x \in Refs |->
               IF x = Sentinel
               THEN [key |-> 0, parent |-> Sentinel, left |-> Sentinel,
                     right |-> Sentinel, red |-> FALSE]
               ELSE [key |-> 0, parent |-> Null, left |-> Null, right |-> Null,
                     red |-> FALSE]]]
  /\ held = {}

Black(t, x) == [t EXCEPT !.nd[x].red = FALSE]
Red(t, x) == [t EXCEPT !.nd[x].red = TRUE]
Parent(t, x) == t.nd[x].parent
SideOf(t, x) == IF x = t.nd[Parent(t, x)].left THEN "left" ELSE "right"

(* As long as Cond holds, Step.                                            *)
While(Cond(_), Step(_), start) ==
  LET turn[k \in 0 .. Bound] ==
        IF k = 0 THEN start
        ELSE LET s == turn[k - 1] IN IF Cond(s) THEN Step(s) ELSE s
  IN  turn[Bound]

(* rbtree_left_rotate (s = "left") and rbtree_right_rotate at x.           *)
Rotate(t, s, x) ==
  LET o == Other(s)
      y == t.nd[x][o]
      b == t.nd[y][s]
      p == Parent(t, x)
      across == [t EXCEPT !.nd[x][o] = b]
      moved == [IF b # Sentinel THEN [across EXCEPT !.nd[b].parent = x]
                ELSE across EXCEPT !.nd[y].parent = p]
      up == IF x = t.root THEN [moved EXCEPT !.root = y]
            ELSE IF x = t.nd[p][s] THEN [moved EXCEPT !.nd[p][s] = y]
            ELSE [moved EXCEPT !.nd[p][o] = y]
  IN  [up EXCEPT !.nd[y][s] = x, !.nd[x].parent = y]

(* rbtree_min below x.                                                     *)
RbtreeMin(t, x) == While(LAMBDA y : t.nd[y].left # Sentinel,
                         LAMBDA y : t.nd[y].left, x)

-----------------------------------------------------------------------------
(* Mutant: a node of equal key goes to the left.                           *)
InsertTimerValue_TiesLeft(t, n) ==
  LET side(x) == IF t.nd[n].key <= t.nd[x].key THEN "left" ELSE "right"
      leaf == While(LAMBDA x : t.nd[x][side(x)] # Sentinel,
                    LAMBDA x : t.nd[x][side(x)], t.root)
  IN  [t EXCEPT !.nd[leaf][side(leaf)] = n,
                !.nd[n].parent = leaf, !.nd[n].left = Sentinel,
                !.nd[n].right = Sentinel, !.nd[n].red = TRUE]

(* rbtree_insert_timer_value: n becomes a red leaf.                        *)
InsertTimerValue(t, n) ==
  LET side(x) == IF t.nd[n].key < t.nd[x].key THEN "left" ELSE "right"
      leaf == While(LAMBDA x : t.nd[x][side(x)] # Sentinel,
                    LAMBDA x : t.nd[x][side(x)], t.root)
  IN  [t EXCEPT !.nd[leaf][side(leaf)] = n,
                !.nd[n].parent = leaf, !.nd[n].left = Sentinel,
                !.nd[n].right = Sentinel, !.nd[n].red = TRUE]

(* The loop of rbtree_insert at node f.x: a red uncle moves the problem up *)
(* two levels, a black one is solved by one or two rotations.              *)
InsertFix(f) ==
  LET p == Parent(f.t, f.x)
      g == Parent(f.t, p)
      s == SideOf(f.t, p)
      o == Other(s)
      uncle == f.t.nd[g][o]
  IN  IF f.t.nd[uncle].red
      THEN [t |-> Red(Black(Black(f.t, p), uncle), g), x |-> g]
      ELSE LET inner == f.x = f.t.nd[p][o]
               x == IF inner THEN p ELSE f.x
               t == IF inner THEN Rotate(f.t, s, p) ELSE f.t
               q == Parent(t, x)
           IN  [t |-> Rotate(Red(Black(t, q), Parent(t, q)), o, Parent(t, q)),
                x |-> x]

(* rbtree_insert of node n, whose key has been set.                        *)
RbtreeInsert(t, n) ==
  IF t.root = Sentinel
  THEN [t EXCEPT !.root = n, !.nd[n].parent = Null, !.nd[n].left = Sentinel,
                 !.nd[n].right = Sentinel, !.nd[n].red = FALSE]
  ELSE LET f == While(LAMBDA g : g.x # g.t.root /\ g.t.nd[Parent(g.t, g.x)].red,
                      InsertFix, [t |-> InsertTimerValue(t, n), x |-> n])
       IN  Black(f.t, f.t.root)

-----------------------------------------------------------------------------
(* Mutant: the case of a near red nephew is forgotten.                     *)
DeleteFix_NoCaseC(f) ==
  LET s == SideOf(f.t, f.x)
      o == Other(s)
      p == Parent(f.t, f.x)
      w == f.t.nd[p][o]
      ta == IF f.t.nd[w].red THEN Rotate(Red(Black(f.t, w), p), s, p) ELSE f.t
      wa == ta.nd[p][o]
      tc == [ta EXCEPT !.nd[wa].red = ta.nd[p].red]
      td == Rotate(Black(Black(tc, p), tc.nd[wa][o]), s, p)
  IN  IF ~ta.nd[ta.nd[wa].left].red /\ ~ta.nd[ta.nd[wa].right].red
      THEN [t |-> Red(ta, wa), x |-> p]
      ELSE [t |-> td, x |-> td.root]

(* The loop at the end of rbtree_delete at node f.x, which lacks one       *)
(* black: cases A (red sibling), B (two black nephews), C and D.           *)
DeleteFix(f) ==
  LET s == SideOf(f.t, f.x)
      o == Other(s)
      p == Parent(f.t, f.x)
      w == f.t.nd[p][o]
      ta == IF f.t.nd[w].red THEN Rotate(Red(Black(f.t, w), p), s, p) ELSE f.t
      wa == ta.nd[p][o]
      near == ta.nd[wa][s]
      tc == IF ~ta.nd[ta.nd[wa][o]].red
            THEN Rotate(Red(Black(ta, near), wa), o, wa) ELSE ta
      wc == tc.nd[p][o]
      td == Black(Black([tc EXCEPT !.nd[wc].red = tc.nd[p].red], p), tc.nd[wc][o])
      te == Rotate(td, s, p)
  IN  IF ~ta.nd[ta.nd[wa].left].red /\ ~ta.nd[ta.nd[wa].right].red
      THEN [t |-> Red(ta, wa), x |-> Parent(ta, f.x)]
      ELSE [t |-> te, x |-> te.root]

(* Mutant: the deleted node keeps its links.                               *)
Detach_KeepsLinks(t, n) == [t EXCEPT !.nd[n].key = 0]

(* The end of a deletion: "DEBUG stuff", on which a second deletion of the *)
(* same node depends.                                                      *)
Detach(t, n) ==
  [t EXCEPT !.nd[n].left = Sentinel, !.nd[n].right = Sentinel,
            !.nd[n].parent = Sentinel, !.nd[n].key = 0]

(* subst takes the place, the links and the colour of n.                   *)
Substitute(t, n, subst) ==
  LET copied == [t EXCEPT !.nd[subst].left = t.nd[n].left,
                          !.nd[subst].right = t.nd[n].right,
                          !.nd[subst].parent = t.nd[n].parent,
                          !.nd[subst].red = t.nd[n].red]
      p == Parent(t, n)
      placed == IF n = t.root THEN [copied EXCEPT !.root = subst]
                ELSE [copied EXCEPT !.nd[p][SideOf(t, n)] = subst]
      kids == {placed.nd[subst].left, placed.nd[subst].right} \ {Sentinel}
  IN  [placed EXCEPT !.nd = [x \in Refs |->
         IF x \in kids THEN [placed.nd[x] EXCEPT !.parent = subst]
         ELSE placed.nd[x]]]

(* The deleted node was the root: temp, which may be the sentinel, takes   *)
(* its place and keeps its stale parent.                                   *)
NewRoot(t, temp) == Black([t EXCEPT !.root = temp], temp)

(* rbtree_delete of node n.                                                *)
RbtreeDelete(t, n) ==
  LET two == t.nd[n].left # Sentinel /\ t.nd[n].right # Sentinel
      subst == IF two THEN RbtreeMin(t, t.nd[n].right) ELSE n
      temp == IF t.nd[subst].left # Sentinel THEN t.nd[subst].left
              ELSE t.nd[subst].right
      p == Parent(t, subst)
      cut == [t EXCEPT !.nd[p][SideOf(t, subst)] = temp]
      linked == [cut EXCEPT !.nd[temp].parent = IF p = n THEN subst ELSE p]
      out == Detach(IF two THEN Substitute(linked, n, subst) ELSE linked, n)
      f == While(LAMBDA g : g.x # g.t.root /\ ~g.t.nd[g.x].red,
                 DeleteFix, [t |-> out, x |-> temp])
  IN  IF subst = t.root THEN Detach(NewRoot(t, temp), n)
      ELSE IF t.nd[subst].red THEN out
      ELSE Black(f.t, f.x)

-----------------------------------------------------------------------------
(* event_add_timer sets the key and inserts a node that is not in the tree *)
Insert == \E n \in Nodes \ held :
            /\ tree' = RbtreeInsert([tree EXCEPT !.nd[n].key = KeyOf[n]], n)
            /\ held' = held \cup {n}

Delete == \E n \in held : /\ tree' = RbtreeDelete(tree, n)
                          /\ held' = held \ {n}

(* event_del_timer for an event whose node an expiry has removed: its      *)
(* timer_set is still on (timer_event.c:136).                              *)
DeleteAgain == \E n \in Nodes \ held :
                 /\ tree.nd[n].parent # Null
                 /\ tree' = RbtreeDelete(tree, n)
                 /\ UNCHANGED held

Next == Insert \/ Delete \/ DeleteAgain

Spec == Init /\ [][Next]_vars

-----------------------------------------------------------------------------
(* The nodes of the tree in order.                                         *)
InOrder ==
  LET walk[y \in Refs, k \in 0 .. Bound] ==
        IF y = Sentinel \/ k = 0 THEN <<>>
        ELSE walk[tree.nd[y].left, k - 1] \o <<y>> \o walk[tree.nd[y].right, k - 1]
  IN  walk[tree.root, Bound]

(* Types of the tree; a tree is never without a root or the sentinel in    *)
(* its place, which is how event_expire_timers knows that it is empty.     *)
TypeOK ==
  /\ tree.root \in Refs
  /\ tree.nd \in [Refs -> [key : Keys, parent : Refs \cup {Null},
                           left : Refs \cup {Null}, right : Refs \cup {Null},
                           red : BOOLEAN]]
  /\ held \subseteq Nodes

(* How many black nodes the ways down to the sentinel pass.                *)
Heights(t) ==
  LET h[y \in Refs, k \in 0 .. Bound] ==
        IF y = Sentinel \/ k = 0 THEN {0}
        ELSE {b + (IF t.nd[y].red THEN 0 ELSE 1) :
                b \in h[t.nd[y].left, k - 1] \cup h[t.nd[y].right, k - 1]}
  IN  h[t.root, Bound]

(* The five rules of a red-black tree after every insertion and deletion:  *)
(* root and leaves are black, no red node has a red child, and every way   *)
(* down passes the same number of black nodes (rbtree_insert,              *)
(* rbtree_delete).                                                         *)
RedBlack ==
  /\ ~tree.nd[tree.root].red /\ ~tree.nd[Sentinel].red
  /\ \A x \in held : tree.nd[x].red =>
       ~tree.nd[tree.nd[x].left].red /\ ~tree.nd[tree.nd[x].right].red
  /\ Cardinality(Heights(tree)) = 1

(* Links lead to nodes or the sentinel and every child points back at its  *)
(* parent; a deleted node has key 0 and only the sentinel in its links,    *)
(* and the sentinel is its own child.                                      *)
(* event_del_timer deletes a node that an expiry has removed already, and  *)
(* it is these links that make the second deletion harmless.               *)
Linked ==
  /\ TypeOK
  /\ LET w == InOrder IN {w[j] : j \in DOMAIN w} = held
  /\ \A x \in held : \A s \in {"left", "right"} :
       tree.nd[x][s] # Sentinel => tree.nd[tree.nd[x][s]].parent = x
  /\ \A x \in Nodes \ held :
       LET d == tree.nd[x] IN d.parent # Null =>
         d.key = 0 /\ {d.left, d.right, d.parent} = {Sentinel}
  /\ tree.nd[Sentinel].left = Sentinel /\ tree.nd[Sentinel].right = Sentinel

(* The refinement mapping: the nodes in order, with their keys.            *)
Entries ==
  LET w == InOrder
  IN  [j \in DOMAIN w |-> [node |-> w[j], key |-> tree.nd[w[j]].key]]
Order == INSTANCE OrderedNodes WITH queue <- Entries

(* The tree implements OrderedNodes: an insertion puts the node behind     *)
(* those with its key and smaller ones, a deletion takes out that node and *)
(* no other, and a second deletion changes nothing (rbtree_insert,         *)
(* rbtree_delete, rbtree_min).                                             *)
ImplementsOrder == Order!OrderSpec
=============================================================================
