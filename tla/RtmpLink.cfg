SPECIFICATION FairSpec
CONSTANT MaxFaults = 3
INVARIANTS LinkExclusive ObjectOutlivesUse SleeperWokenOrForgotten
PROPERTIES ConfigBeforeMedia PushEnds ImplementsExclusiveLink
\* A crash, or a thread asleep on a re-initialised mutex, stops the process.
CHECK_DEADLOCK FALSE
