\* SIGQUIT while a request is being received.
CONSTANTS Conns = {c1, c2}
          Null = Null
          Servers = 2
          Routes = {"file"}
          MaxClients = 1
          Signals = {"SIGQUIT"}
SYMMETRY Symmetric
SPECIFICATION Spec
CHECK_DEADLOCK FALSE
INVARIANT QuitNoCrash
