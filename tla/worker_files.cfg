\* Two clients that ask for static files, found or not.
CONSTANTS Conns = {c1, c2}
          Null = Null
          Servers = 2
          Routes = {"file", "missing"}
          MaxClients = 2
          Signals = {}
SYMMETRY Symmetric
SPECIFICATION Spec
INVARIANTS NoCrash NobodyWaits PageEndsConnection
