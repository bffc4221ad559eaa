\* Six nodes, three pairs of equal keys; nodes are deleted twice.
CONSTANTS Nodes <- SixNodes
          Keys = {0, 1, 2, 3}
          KeyOf <- TiedKeys
          Sentinel = Sentinel
          Null = Null
SPECIFICATION Spec
INVARIANTS RedBlack Linked
PROPERTY ImplementsOrder
