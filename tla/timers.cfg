\* Two timers, a clock of sixteen units, a short and a long timeout.
CONSTANTS Nodes = {e1, e2}
          M = 16
          Keys <- AllKeys
          TIMER_LAZY_DELAY = 2
          Timeouts = {3, 6}
          Steps = {1, 3}
          None = None
SPECIFICATION Spec
INVARIANTS SetMeansPending AskedIsArmed OverdueIsHidden
PROPERTIES NeverEarly Drained
