SPECIFICATION FairSpec
CONSTANTS MaxBuffers = 3
          MaxChunks = 2
INVARIANTS QueueSafe GateOpensOnce LeaksOnlyTheLast
PROPERTIES ImplementsChannels AllSettled
\* The encoder stops and the bounded sources run dry.
CHECK_DEADLOCK FALSE
