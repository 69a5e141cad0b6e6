SPECIFICATION FairSpec
CONSTANTS Clients = {c1, c2}
          Owner = owner
          Sinks = {s1, s2}
          Picky = {s2}
          MaxItems = 2
          MaxCalls = 2
          MaxFaults = 2
INVARIANTS PolicyKept FlushedOnJoin
PROPERTIES ImplementsMessageLog EverythingJoins
