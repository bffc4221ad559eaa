\* Three servers, down after one failure; two requests.
CONSTANTS nelts = 3
          Weight <- Weights3
          max_fails = 1
          Point <- Points3
          Codes = {0, 2, 3, 6}
          Requests = {r1, r2}
          None = None
SPECIFICATION Spec
SYMMETRY Symmetry
INVARIANTS RingSound SearchFinds RingMissing LeftArmed
PROPERTY OnlyAffectedMove
