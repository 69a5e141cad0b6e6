SPECIFICATION FlowSpec
CONSTANT MaxFaults = 1
PROPERTY LinkRecovers
\* A crash, or a thread asleep on a re-initialised mutex, stops the process.
CHECK_DEADLOCK FALSE
