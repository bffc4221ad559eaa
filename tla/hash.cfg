\* A pool of twenty units with up to two other blocks.
CONSTANTS MEMSIZE = 20
          Null = Null
          Names <- AllNames
          Tables <- AllTables
          max_size = 4
          bucket_size = 48
          Bytes = {1, 40, 100}
          MaxBlocks = 2
SPECIFICATION Spec
INVARIANTS FindExact TableSound
PROPERTIES ImplementsArena CallsReturn
