SPECIFICATION FairSpec
CONSTANTS MAX_ENCODER_FRAMES = 2
          OutputBuffers = 3
          CaptureBuffers = 2
          Fds = {3, 4, 5}
          MaxFrames = 4
INVARIANTS BuffersSafe
PROPERTIES ImplementsFrameFlow AllEncoded BothEnd
\* The stream ends.
CHECK_DEADLOCK FALSE
