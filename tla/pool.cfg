\* Chunks of one slot, up to six of them: a vector of five chunks has room
\* for a sixth.
CONSTANTS UnitNum = 1
          MaxConnections = 6
SPECIFICATION Spec
INVARIANTS IInv 
PROPERTY AllocatorSpec
