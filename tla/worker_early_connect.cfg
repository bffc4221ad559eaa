\* The backend is connected before the headers are complete.
CONSTANTS Conns = {c1, c2}
          Null = Null
          Servers = 2
          Routes = {"upstream"}
          MaxClients = 1
          Signals = {}
SYMMETRY Symmetric
SPECIFICATION Spec
CHECK_DEADLOCK FALSE
INVARIANT RequestBytesKept
