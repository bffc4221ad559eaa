---------------------------- MODULE OrderedNodes ----------------------------
(***************************************************************************)
(* What a red-black tree promises to its users: nodes in the order of      *)
(* their keys, a new node after those of the same key.  The tree of        *)
(* base/rb_tree.c implements it (RbTree), and the timers rely on it        *)
(* (TimerQueue).                                                           *)
(***************************************************************************)
EXTENDS Naturals, Sequences, FiniteSets

CONSTANTS Nodes, \* the rbtree_node_t objects, one in each event_t
          Keys   \* rbtree_key_t

VARIABLE queue \* the nodes in the tree with their keys, smallest first

Members(q) == {q[j].node : j \in DOMAIN q}

(* rbtree_insert: the new node goes behind every key that is not larger.   *)
Inserted(q, n, k) ==
  LET before == Cardinality({j \in DOMAIN q : q[j].key <= k})
  IN  SubSeq(q, 1, before) \o <<[node |-> n, key |-> k]>>
        \o SubSeq(q, before + 1, Len(q))

(* rbtree_delete: a node that is not in the tree makes no difference.      *)
Removed(q, n) ==
  IF n \notin Members(q) THEN q
  ELSE LET at == CHOOSE j \in DOMAIN q : q[j].node = n
       IN  SubSeq(q, 1, at - 1) \o SubSeq(q, at + 1, Len(q))

OrderInit == queue = <<>>

Successors(q) ==
  {Removed(q, n) : n \in Members(q)}
    \cup {Inserted(q, n, k) : n \in Nodes \ Members(q), k \in Keys}

OrderNext == queue' \in Successors(queue)

OrderSpec == OrderInit /\ [][OrderNext]_queue
=============================================================================
