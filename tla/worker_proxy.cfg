\* One client at a time and its backend; the third object makes reuse visible.
\* The worker may be told to quit or to terminate.
CONSTANTS Conns = {c1, c2, c3}
          Null = Null
          Servers = 2
          Routes = {"upstream"}
          MaxClients = 1
          Signals = {"SIGQUIT", "SIGINT"}
SYMMETRY Symmetric
SPECIFICATION Spec
INVARIANTS NoCrash LinksSound EventsTrue NobodyWaits ForwardArmed
