SPECIFICATION Spec
CONSTANTS Kinds = {"rotating", "daily", "step"}
          MaxSize = 3
          MaxFiles = 2
          HeaderSize = 1
          StepSeconds = 2
          Day = 3
          RotationHour = 1
          Jump = 0
          JumpAt = 5
          MaxTime = 4
          MaxMsgs = 5
          MaxFaults = 2
INVARIANTS RotatingKeepsTheLatest OneDayPerFile StepFilesComplete
PROPERTY FilesKeep
\* Messages and time are bounded.
CHECK_DEADLOCK FALSE
