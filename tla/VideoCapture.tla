---------------------------- MODULE VideoCapture ----------------------------
(***************************************************************************)
(* From camera to encoded video: ConsumerThread, with the encoder it feeds *)
(* and the encoder's dequeue thread (src/src/ConsumerThreadTool.cpp).      *)
(*                                                                         *)
(*   camera -> consumer --output plane--> encoder --capture plane--> dq    *)
(*                                                                         *)
(* The consumer puts each frame's dmabuf, known by its fd, in a buffer of  *)
(* the encoder's output plane, and destroys it when the encoder gives the  *)
(* buffer back.  The dequeue thread copies the encoded data out of the     *)
(* capture plane's buffers.  Frames are numbered; 0 is the end of stream.  *)
(***************************************************************************)
EXTENDS Integers, Sequences, FiniteSets

CONSTANTS
    MAX_ENCODER_FRAMES, \* buffers of the output plane that are used
    OutputBuffers,      \* buffers of the output plane
    CaptureBuffers,     \* buffers of the capture plane
    Fds,                \* numbers the kernel has for dmabufs
    MaxFrames           \* bound: frames the camera gives

ASSUME SizesAssumption == /\ MAX_ENCODER_FRAMES \in Nat \ {0}
                          /\ OutputBuffers \in Nat
                          /\ MAX_ENCODER_FRAMES <= OutputBuffers
                          /\ CaptureBuffers \in Nat \ {0}
                          /\ MaxFrames \in Nat
                          /\ Fds \subseteq Nat
                          /\ Cardinality(Fds) >= MAX_ENCODER_FRAMES

VARIABLES
    pc,         \* where ConsumerThread is
    dq,         \* where the dequeue thread is
    given,      \* capture buffers enqueued by threadInitialize
    bufferIndex,\* buffers of the output plane taken into use
    index,      \* v4l2_buf.index
    fd,         \* fd, NoFd for -1
    owner,      \* who has each output buffer: "user", "driver" or "done"
    fdIn,       \* the fd in each output buffer
    live,       \* dmabufs that exist
    acquired,   \* frames acquired from the camera
    input,      \* output buffers the encoder has not encoded, oldest first
    empties,    \* capture buffers the encoder can fill
    encoded,    \* what is in the filled capture buffers, oldest first
    held,       \* what is in the callback's buffer
    out,        \* what the callback has pushed to video_buf_queue
    working,    \* FALSE once the encoder has failed or been aborted
    m_gotError

consumerVars == <<given, bufferIndex, index, fd, live, acquired>>
planeVars == <<owner, fdIn, input, empties, encoded>>
dqVars == <<dq, held, out>>
vars == <<pc, consumerVars, planeVars, dqVars, working, m_gotError>>

NoFd == -1
EOS == 0
Indices == 0..(OutputBuffers - 1)

TypeOK == /\ pc \in {"create", "give", "pick", "dequeue", "acquire", "queue",
                     "eos", "drain", "done", "failed", "dead"}
          /\ dq \in {"none", "wait", "push", "requeue", "stopped", "dead"}
          /\ given \in 0..CaptureBuffers
          /\ bufferIndex \in 0..MAX_ENCODER_FRAMES
          /\ index \in Indices
          /\ fd \in Fds \cup {NoFd}
          /\ owner \in [Indices -> {"user", "driver", "done"}]
          /\ fdIn \in [Indices -> Fds \cup {NoFd}]
          /\ live \subseteq Fds
          /\ acquired \in 0..MaxFrames
          /\ input \in Seq([index : Indices, frame : 0..MaxFrames])
          /\ empties \in 0..CaptureBuffers
          /\ encoded \in Seq(0..MaxFrames)
          /\ held \in 0..MaxFrames
          /\ out \in Seq(0..MaxFrames)
          /\ working \in BOOLEAN /\ m_gotError \in BOOLEAN

Init == /\ pc = "create" /\ dq = "none" /\ given = 0 /\ bufferIndex = 0
        /\ index = 0 /\ fd = NoFd
        /\ owner = [i \in Indices |-> "user"]
        /\ fdIn = [i \in Indices |-> NoFd]
        /\ live = {} /\ acquired = 0 /\ input = <<>> /\ empties = 0
        /\ encoded = <<>> /\ held = EOS /\ out = <<>>
        /\ working = FALSE /\ m_gotError = FALSE

Goto(from, to) == pc = from /\ pc' = to

\* (Mutant: abort() sets the flag and leaves the encoder alone.)
AbortQuietly == m_gotError' = TRUE /\ UNCHANGED working

\* abort(): every call on the encoder that waits, or comes later, fails.
Abort == working' = FALSE /\ m_gotError' = TRUE

Crash == /\ pc' = "dead" /\ dq' = "dead" /\ working' = FALSE
         /\ UNCHANGED <<consumerVars, planeVars, held, out, m_gotError>>

-----------------------------------------------------------------------------
(* threadInitialize.                                                        *)

\* A failure to set the encoder up is logged and ignored; if there is no
\* encoder at all its first use is a NULL dereference.
Create == \/ /\ Goto("create", "give")
             /\ dq' = "wait"
             /\ working' \in BOOLEAN
             /\ UNCHANGED <<consumerVars, planeVars, held, out, m_gotError>>
          \/ pc = "create" /\ Crash

\* The capture plane's empty buffers are enqueued one by one; the dequeue
\* thread is already running.
Give == \/ /\ Goto("give", IF given + 1 = CaptureBuffers THEN "pick"
                                                         ELSE "give")
           /\ given' = given + 1
           /\ empties' = empties + 1
           /\ UNCHANGED <<bufferIndex, index, fd, live, acquired, owner, fdIn,
                          input, encoded, dqVars, working, m_gotError>>
        \/ /\ Goto("give", "failed")
           /\ Abort
           /\ UNCHANGED <<consumerVars, planeVars, dqVars>>

-----------------------------------------------------------------------------
(* threadExecute's loop.                                                    *)
Queued == {i \in Indices : owner[i] # "user"}

\* Take a buffer of the output plane into use if few are, or wait for one.
Pick == LET fresh == /\ bufferIndex < MAX_ENCODER_FRAMES
                     /\ Cardinality(Queued) < OutputBuffers
        IN  \/ /\ ~m_gotError /\ fresh
               /\ Goto("pick", "acquire")
               /\ index' = bufferIndex
               /\ bufferIndex' = bufferIndex + 1
               /\ fd' = NoFd
               /\ UNCHANGED <<given, live, acquired, planeVars, dqVars,
                              working, m_gotError>>
            \/ /\ Goto("pick", IF m_gotError THEN "drain" ELSE "dequeue")
               /\ m_gotError \/ ~fresh
               /\ fd' = NoFd
               /\ UNCHANGED <<given, bufferIndex, index, live, acquired,
                              planeVars, dqVars, working, m_gotError>>

\* (Mutant: any queued buffer is taken back.)
DequeueEarly == /\ Goto("dequeue", "acquire")
                /\ \E i \in Queued :
                      /\ owner' = [owner EXCEPT ![i] = "user"]
                      /\ index' = i
                      /\ fd' = fdIn[i]
                      /\ live' = live \ {fdIn[i]}
                /\ UNCHANGED <<given, bufferIndex, acquired, fdIn, input,
                               empties, encoded, dqVars, working, m_gotError>>

\* dqBuffer and NvBufferDestroy: the frame that was in the buffer is released.
Dequeue ==
    \/ /\ Goto("dequeue", "acquire")
       /\ \E i \in Indices :
             /\ owner[i] = "done"
             /\ owner' = [owner EXCEPT ![i] = "user"]
             /\ index' = i
             /\ fd' = fdIn[i]
             /\ live' = live \ {fdIn[i]}
       /\ UNCHANGED <<given, bufferIndex, acquired, fdIn, input, empties,
                      encoded, dqVars, working, m_gotError>>
    \/ /\ ~working
       /\ Goto("dequeue", "failed")
       /\ Abort
       /\ UNCHANGED <<consumerVars, planeVars, dqVars>>

\* The frame's dmabuf is created, or is not and fd stays -1 unnoticed.  A frame
\* without the native interface is dereferenced all the same.
Acquire ==
    \/ /\ acquired < MaxFrames
       /\ Goto("acquire", "queue")
       /\ acquired' = acquired + 1
       /\ \/ \E f \in Fds \ live : fd' = f /\ live' = live \cup {f}
          \/ fd' = NoFd /\ UNCHANGED live
       /\ UNCHANGED <<given, bufferIndex, index, planeVars, dqVars, working,
                      m_gotError>>
    \/ /\ pc = "acquire" /\ acquired < MaxFrames
       /\ Crash
    \/ /\ Goto("acquire", "eos")       \* the producer is gone
       /\ UNCHANGED <<consumerVars, planeVars, dqVars, working, m_gotError>>

\* qBuffer of the buffer in hand.  The driver refuses a bad fd; every qBuffer
\* may fail.
GiveToEncoder(frame) ==
    /\ owner' = [owner EXCEPT ![index] = "driver"]
    /\ fdIn' = [fdIn EXCEPT ![index] = fd]
    /\ input' = Append(input, [index |-> index, frame |-> frame])
    /\ UNCHANGED <<consumerVars, empties, encoded, dqVars, working, m_gotError>>

Queue == \/ /\ fd # NoFd
            /\ Goto("queue", "pick")
            /\ GiveToEncoder(acquired)
         \/ /\ Goto("queue", "failed")
            /\ Abort
            /\ UNCHANGED <<consumerVars, planeVars, dqVars>>

\* (Mutant: the loop goes on after the end of the stream.)
QueueEosGoesOn == Goto("eos", "pick") /\ GiveToEncoder(EOS)

\* The buffer that ends the stream carries a destroyed fd or -1, which the
\* driver may accept, for there is no data to read, or refuse.
QueueEos == \/ Goto("eos", "drain") /\ GiveToEncoder(EOS)
            \/ /\ Goto("eos", "failed")
               /\ Abort
               /\ UNCHANGED <<consumerVars, planeVars, dqVars>>

\* waitForDQThread ends when the thread has, or when two seconds have passed.
Drain == /\ Goto("drain", "done")
         /\ UNCHANGED <<consumerVars, planeVars, dqVars, working, m_gotError>>

-----------------------------------------------------------------------------
(* The encoder.                                                             *)
Encode == /\ working
          /\ input # <<>> /\ empties > 0
          /\ input' = Tail(input)
          /\ owner' = [owner EXCEPT ![Head(input).index] = "done"]
          /\ encoded' = Append(encoded, Head(input).frame)
          /\ empties' = empties - 1
          /\ UNCHANGED <<pc, consumerVars, fdIn, dqVars, working, m_gotError>>

EncoderFails == /\ working
                /\ working' = FALSE
                /\ UNCHANGED <<pc, consumerVars, planeVars, dqVars, m_gotError>>

-----------------------------------------------------------------------------
(* The dequeue thread and encoderCapturePlaneDqCallback.                    *)

\* A filled buffer is dequeued; if that fails the callback gets none.
Dequeued == \/ /\ dq = "wait" /\ encoded # <<>>
               /\ dq' = "push"
               /\ held' = Head(encoded)
               /\ encoded' = Tail(encoded)
               /\ UNCHANGED <<pc, consumerVars, owner, fdIn, input, empties,
                              out, working, m_gotError>>
            \/ /\ dq = "wait" /\ ~working
               /\ dq' = "stopped"
               /\ Abort
               /\ UNCHANGED <<pc, consumerVars, planeVars, held, out>>

PushOut == /\ dq = "push"
           /\ dq' = "requeue"
           /\ out' = Append(out, held)
           /\ UNCHANGED <<pc, consumerVars, planeVars, held, working,
                          m_gotError>>

\* (Mutant: the buffer is not given back.)
RequeueNot == /\ dq = "requeue"
              /\ dq' = IF held = EOS THEN "stopped" ELSE "wait"
              /\ UNCHANGED <<pc, consumerVars, planeVars, held, out, working,
                             m_gotError>>

\* The buffer is given back to the encoder; an empty one ends the thread.
Requeue == \/ /\ dq = "requeue"
              /\ dq' = IF held = EOS THEN "stopped" ELSE "wait"
              /\ empties' = empties + 1
              /\ UNCHANGED <<pc, consumerVars, owner, fdIn, input, encoded,
                             held, out, working, m_gotError>>
           \/ /\ dq = "requeue"
              /\ dq' = "stopped"
              /\ Abort
              /\ UNCHANGED <<pc, consumerVars, planeVars, held, out>>

-----------------------------------------------------------------------------
Consumer == \/ Create \/ Give \/ Pick \/ Dequeue \/ Acquire \/ Queue
            \/ QueueEos \/ Drain
DqThread == Dequeued \/ PushOut \/ Requeue

Next == Consumer \/ DqThread \/ Encode \/ EncoderFails

Spec == Init /\ [][Next]_vars

\* The threads run, a working encoder encodes, and acquireFrame returns: the
\* camera goes on or the stream ends.
Fairness == WF_vars(Consumer) /\ WF_vars(DqThread) /\ WF_vars(Encode)
FairSpec == Spec /\ Fairness

-----------------------------------------------------------------------------
(* The encoder reads no dmabuf that has been destroyed, and none that is in *)
(* two buffers, although the kernel gives a destroyed one's number again.   *)
WithEncoder == {input[k].index : k \in {k \in 1..Len(input) :
                                           input[k].frame # EOS}}
FdDiscipline ==
    /\ \A i \in WithEncoder : fdIn[i] \in live
    /\ \A i, j \in WithEncoder : i # j => fdIn[i] # fdIn[j]

(* A buffer that is about to be queued is not with the encoder already.     *)
BufferOwned == pc \in {"acquire", "queue", "eos"} => owner[index] = "user"

(* The frames that are kept are at most MAX_ENCODER_FRAMES.                 *)
FramesBounded == Cardinality(live) <= MAX_ENCODER_FRAMES

(* The output plane's buffers: the encoder reads live frames, one to a      *)
(* buffer, the one to be queued next is free, and no frame is kept that the *)
(* encoder gave back.  (ConsumerThread::threadExecute)                      *)
BuffersSafe == FdDiscipline /\ BufferOwned /\ FramesBounded

(* The frames come out in the order they were acquired, and the empty buffer*)
(* that ends the stream comes last, after all of them.                      *)
OutInOrder == \A k \in 1..Len(out) :
                 \/ out[k] = k
                 \/ out[k] = EOS /\ k = Len(out) /\ k = acquired + 1

(* What the encoder has had of the input, and what of that were frames: the *)
(* end of the stream is behind them all.                                    *)
Handled == Len(out) + (IF dq = "push" THEN 1 ELSE 0) + Len(encoded)
Unread == IF input # <<>> /\ input[Len(input)].frame = EOS THEN Len(input) - 1
          ELSE Len(input)
FramesRead == CASE pc = "dead" -> Len(out)
                [] pc # "dead" /\ Handled > acquired -> acquired
                [] OTHER -> Handled
Phase == CASE pc = "dead" -> "gone"
           [] pc \in {"eos", "drain", "done", "failed"} -> "ending"
           [] OTHER -> "open"
Waiting == [k \in 1..Unread |-> fdIn[input[k].index]]
Flow == INSTANCE FrameFlow WITH Dmabufs <- Fds, captured <- acquired,
                                waiting <- Waiting, read <- FramesRead,
                                phase <- Phase

(* Every frame is read while its dmabuf exists and belongs to it alone, and *)
(* comes out once and in its turn, the end of the stream last: in each step *)
(* of camera, consumer, encoder and dequeue thread.  (ConsumerThread)       *)
ImplementsFrameFlow == Flow!Spec

(* Every frame acquired is encoded and pushed, unless the encoder fails.    *)
AllEncoded == \A n \in 1..MaxFrames :
                 (acquired = n) ~> (Len(out) >= n \/ ~working)

(* An error noticed by either thread ends the consumer, even one that is    *)
(* waiting for the encoder.                                                 *)
ErrorStops == m_gotError ~> (pc \in {"done", "failed", "dead"})

(* When the consumer ends, the dequeue thread ends too.                     *)
ThreadsEnd == (pc \in {"drain", "done", "failed"})
                 ~> (dq \in {"stopped", "dead"})

(* However the stream ends, by its own end or by an error of either thread, *)
(* both threads end.  (threadExecute, encoderCapturePlaneDqCallback)        *)
BothEnd == ErrorStops /\ ThreadsEnd
=============================================================================
