SPECIFICATION SoundSpec
CONSTANTS PcmType = "pulse"
          pac_length = 4
          CACHE_LENGTH = 8
          MaxFragment = 4
          MaxHeard = 16
INVARIANTS ThreadsFindWhatTheyUse RunningIsWhole KeepsUp StreamIntact
PROPERTIES StartUpEnds
\* The program may end.
CHECK_DEADLOCK FALSE
