SPECIFICATION MCSpec
CONSTANTS Types = {5, 6, 7, 8}
          Zeros = {2, 3}
          Bodies <- MCBodies
          Beyonds <- MCBeyonds
          Capacity = 4
          MaxUnits = 3
          Bits = 12
          MAX_PACKED_ARGS = 2
          Characters = {"%", "^", "$", "l", "v", "+", "q"}
          Calendar <- MCCalendar
          Words = {"logger", "info", "tid", "a", "b"}
          Messages <- MCMessages
          Tried <- MCTried
          CaptureTimes <- MCCaptureTimes
          Symbols <- MCSymbols
          Buffers <- MCBuffers
          Ints <- MCInts
          Doubles <- MCDoubles
          IntSpecs <- MCIntSpecs
          DoubleSpecs <- MCDoubleSpecs
          MaxPattern = 4
          MaxRaw = 5
          MaxPieces = 3
          MaxTimes = 4
          UIntRange = 65536
INVARIANTS FindsUnits PatternIsRead ColoursWrapTheMarked
           LineDatesTheMessage VideoTimesFollowCapture NumberIsWhole
           FieldsFindTheirArguments SpecifierIsObeyed DirectivePrints
\* The parser returns and inputs are bounded.
CHECK_DEADLOCK FALSE
