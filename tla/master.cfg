\* Two workers, three crashes; signals interrupt the master anywhere.  The
\* first delay, 50 in the code, is 500, which shortens its doubling.
\* A lost signal leaves the master asleep for good: a legal deadlock.
CONSTANTS Workers = 2
          MaxCrashes = 3
          Requests = {"SIGINT", "SIGQUIT"}
          FirstDelay = 500
          ForkMayFail = TRUE
SPECIFICATION Spec
INVARIANTS MasterLast WorkersTrue
PROPERTIES TerminateEnds QuitEnds DeadReplaced
CHECK_DEADLOCK FALSE
