------------------------ MODULE VideoCapture_proofs ------------------------
(***************************************************************************)
(* Safety of VideoCapture for any numbers of buffers, dmabufs and frames.  *)
(* The invariant has four parts: Types; Planes (where the buffers of the   *)
(* capture plane are); Buffers (which dmabuf is in which buffer of the     *)
(* output plane, and who has it); and Order (the frames between camera and *)
(* queue are numbered through).                                            *)
(***************************************************************************)
EXTENDS VideoCapture, FiniteSetTheorems, TLAPS

Entry == [index : Indices, frame : 0..MaxFrames]
PcLabels == {"create", "give", "pick", "dequeue", "acquire", "queue", "eos",
             "drain", "done", "failed", "dead"}
DqLabels == {"none", "wait", "push", "requeue", "stopped", "dead"}

Types == /\ pc \in PcLabels /\ dq \in DqLabels
         /\ given \in Nat /\ empties \in Nat
         /\ bufferIndex \in 0..MAX_ENCODER_FRAMES
         /\ index \in Indices
         /\ fd \in Fds \cup {NoFd}
         /\ owner \in [Indices -> {"user", "driver", "done"}]
         /\ fdIn \in [Indices -> Fds \cup {NoFd}]
         /\ live \subseteq Fds
         /\ acquired \in 0..MaxFrames
         /\ input \in Seq(Entry)
         /\ encoded \in Seq(0..MaxFrames)
         /\ held \in 0..MaxFrames
         /\ out \in Seq(0..MaxFrames)
         /\ working \in BOOLEAN /\ m_gotError \in BOOLEAN

\* Every buffer of the capture plane that was given is with the encoder, is
\* filled, is with the callback or is lost to an error.
WithCallback == IF dq \in {"push", "requeue"} THEN 1 ELSE 0
Planes == /\ pc = "create" => given = 0
          /\ pc = "give" => given < CaptureBuffers
          /\ given <= CaptureBuffers
          /\ (empties + Len(encoded)) + WithCallback <= given

\* Once the stream has ended the consumer leaves the buffers alone.
Ended == pc \in {"drain", "done"}

\* The encoder has the entries of input, each in a buffer of its own.
EntriesOwned ==
    /\ \A k \in 1..Len(input) : owner[input[k].index] = "driver"
    /\ \A k, l \in 1..Len(input) : k # l => input[k].index # input[l].index
    /\ ~Ended => \A k \in 1..Len(input) : input[k].frame # EOS

\* Buffers in use are below bufferIndex; the one in hand is free.
InUse == /\ \A i \in Indices : owner[i] # "user" => i < bufferIndex
         /\ pc \in {"acquire", "queue", "eos"}
               => owner[index] = "user" /\ index < bufferIndex

\* Buffers that are not the user's hold live dmabufs, each its own, and so
\* does the consumer before it queues a frame.
Holding ==
    /\ ~Ended => \A i \in Indices : owner[i] # "user" => fdIn[i] \in live
    /\ ~Ended => \A i, j \in Indices :
                    owner[i] # "user" /\ owner[j] # "user" /\ i # j
                       => fdIn[i] # fdIn[j]
    /\ pc = "queue" /\ fd # NoFd
          => /\ fd \in live
             /\ \A i \in Indices : owner[i] # "user" => fdIn[i] # fd

\* The dmabufs of what the encoder has yet to read.
Reads ==
    /\ \A k \in 1..Len(input) :
          input[k].frame # EOS => fdIn[input[k].index] \in live
    /\ \A k, l \in 1..Len(input) :
          input[k].frame # EOS /\ input[l].frame # EOS /\ k # l
             => fdIn[input[k].index] # fdIn[input[l].index]

\* Every live dmabuf is in a buffer that is not the user's, but for one in
\* the consumer's hand.
Placed(f) == \E i \in Indices : owner[i] # "user" /\ fdIn[i] = f
Kept == /\ pc \notin {"queue", "failed"} => \A f \in live : Placed(f)
        /\ \/ \A f \in live : Placed(f)
           \/ /\ owner[index] = "user" /\ index < bufferIndex
              /\ \A f \in live \ {fd} : Placed(f)

Buffers == EntriesOwned /\ InUse /\ Holding /\ Reads /\ Kept

\* Frame p of the stream is p, or the end of the stream, after all of them.
Frame(x, p) == x = p \/ (x = EOS /\ Ended /\ p = acquired + 1)

\* The frames, numbered through: those pushed, the one with the callback,
\* those it has yet to get, and those to be encoded.
Sent == Len(out) + (IF dq = "push" THEN 1 ELSE 0)
Total == (Sent + Len(encoded)) + Len(input)
Order ==
    /\ \A k \in 1..Len(out) : Frame(out[k], k)
    /\ Len(out) <= acquired + (IF Ended THEN 1 ELSE 0)
    /\ pc = "queue" => acquired # EOS
    /\ pc = "dead" <=> dq = "dead"
    /\ pc = "create" => dq = "none"
    /\ pc # "dead" =>
          /\ dq = "push" => Frame(held, Len(out) + 1)
          /\ \A k \in 1..Len(encoded) : Frame(encoded[k], Sent + k)
          /\ \A k \in 1..Len(input) :
                Frame(input[k].frame, (Sent + Len(encoded)) + k)
          /\ pc \in {"create", "give", "pick", "dequeue", "acquire", "eos"}
                => Total = acquired
          /\ pc = "queue" => Total + 1 = acquired
          /\ Total <= acquired + (IF Ended THEN 1 ELSE 0)

-----------------------------------------------------------------------------
(* What the steps below need to know of the constants.                       *)
LEMMA Constants ==
    /\ MAX_ENCODER_FRAMES \in Nat /\ MAX_ENCODER_FRAMES >= 1
    /\ OutputBuffers \in Nat /\ MAX_ENCODER_FRAMES <= OutputBuffers
    /\ CaptureBuffers \in Nat /\ CaptureBuffers >= 1 /\ MaxFrames \in Nat
    /\ NoFd \notin Fds /\ Indices \subseteq Nat
    /\ \A i \in Nat : i < MAX_ENCODER_FRAMES => i \in Indices
    /\ EOS \in 0..MaxFrames /\ 0 \in Indices
BY SizesAssumption DEF NoFd, Indices, EOS

LEMMA Entries ==
    /\ \A i \in Indices, n \in 0..MaxFrames :
          /\ [index |-> i, frame |-> n] \in Entry
          /\ [index |-> i, frame |-> n].index = i
          /\ [index |-> i, frame |-> n].frame = n
    /\ \A e \in Entry : e.index \in Indices /\ e.frame \in 0..MaxFrames
BY DEF Entry

(* What an Append and a Tail do to a sequence.                               *)
LEMMA AtEnd ==
    ASSUME NEW S, NEW s \in Seq(S), NEW u \in S
    PROVE  /\ Append(s, u) \in Seq(S)
           /\ Len(s) \in Nat /\ Len(Append(s, u)) = Len(s) + 1
           /\ \A i \in 1..Len(s) : Append(s, u)[i] = s[i]
           /\ Append(s, u)[Len(s) + 1] = u
  OBVIOUS

LEMMA AtFront ==
    ASSUME NEW S, NEW s \in Seq(S), s # <<>>
    PROVE  /\ Tail(s) \in Seq(S) /\ Head(s) \in S
           /\ Len(s) \in Nat /\ Len(s) >= 1 /\ Len(Tail(s)) = Len(s) - 1
           /\ Head(s) = s[1]
           /\ \A i \in 1..(Len(s) - 1) : Tail(s)[i] = s[i + 1]
  OBVIOUS

LEMMA Elements ==
    ASSUME NEW S, NEW s \in Seq(S)
    PROVE  Len(s) \in Nat /\ \A i \in 1..Len(s) : s[i] \in S
  OBVIOUS

(* Every step keeps the types.                                               *)
LEMMA TypesStep == Types /\ [Next]_vars => Types'
  <1> SUFFICES ASSUME Types, [Next]_vars PROVE Types'
    OBVIOUS
  <1> USE DEF Types, PcLabels, DqLabels, Goto, Abort, Crash,
        consumerVars, planeVars, dqVars
  <1>1. CASE Create
    BY <1>1 DEF Create
  <1>2. CASE Give
    <2>1. given + 1 \in Nat /\ empties + 1 \in Nat
      OBVIOUS
    <2>2. pc' \in PcLabels
      BY <1>2 DEF Give
    <2>3. given' \in Nat /\ empties' \in Nat
      BY <1>2, <2>1 DEF Give
    <2>4. /\ UNCHANGED <<bufferIndex, index, fd, live, acquired, owner, fdIn,
                        input, encoded, dqVars>>
          /\ working' \in BOOLEAN /\ m_gotError' \in BOOLEAN
      BY <1>2 DEF Give
    <2> QED
      BY <2>2, <2>3, <2>4
  <1>3. CASE Pick
    <2>1. /\ pc' \in PcLabels /\ fd' = NoFd
          /\ UNCHANGED <<given, live, acquired, planeVars, dqVars, working,
                        m_gotError>>
      BY <1>3 DEF Pick
    <2>2. \/ UNCHANGED <<bufferIndex, index>>
          \/ /\ bufferIndex < MAX_ENCODER_FRAMES
             /\ index' = bufferIndex /\ bufferIndex' = bufferIndex + 1
      BY <1>3 DEF Pick
    <2>3. bufferIndex' \in 0..MAX_ENCODER_FRAMES /\ index' \in Indices
      BY <2>2, Constants
    <2> QED
      BY <2>1, <2>3
  <1>4. CASE Dequeue
    BY <1>4 DEF Dequeue
  <1>5. CASE Acquire
    <2>1. pc' \in PcLabels /\ dq' \in DqLabels /\ working' \in BOOLEAN
      BY <1>5 DEF Acquire
    <2>2. acquired' \in 0..MaxFrames
      BY <1>5, Constants DEF Acquire
    <2>3. fd' \in Fds \cup {NoFd} /\ live' \subseteq Fds
      BY <1>5 DEF Acquire
    <2>4. UNCHANGED <<given, bufferIndex, index, planeVars, held, out,
                      m_gotError>>
      BY <1>5 DEF Acquire
    <2> QED
      BY <2>1, <2>2, <2>3, <2>4
  <1>6. ASSUME NEW n \in 0..MaxFrames, GiveToEncoder(n), pc' \in PcLabels
        PROVE  Types'
    <2>1. Append(input, [index |-> index, frame |-> n]) \in Seq(Entry)
      BY Entries, AtEnd
    <2> QED
      BY <1>6, <2>1 DEF GiveToEncoder
  <1>7. CASE Queue
    BY <1>6, <1>7 DEF Queue
  <1>8. CASE QueueEos
    BY <1>6, <1>8, Constants DEF QueueEos
  <1>9. CASE Drain
    BY <1>9 DEF Drain
  <1>10. CASE Encode
    <2>1. /\ Tail(input) \in Seq(Entry)
          /\ Head(input).index \in Indices /\ Head(input).frame \in 0..MaxFrames
      BY <1>10, Entries, AtFront DEF Encode
    <2>2. Append(encoded, Head(input).frame) \in Seq(0..MaxFrames)
      BY <2>1, AtEnd
    <2> QED
      BY <1>10, <2>1, <2>2 DEF Encode
  <1>11. CASE EncoderFails
    BY <1>11 DEF EncoderFails
  <1>12. CASE Dequeued
    <2>1. CASE encoded # <<>>
      <3>1. Tail(encoded) \in Seq(0..MaxFrames) /\ Head(encoded) \in 0..MaxFrames
        BY <2>1, AtFront
      <3> QED
        BY <1>12, <3>1 DEF Dequeued
    <2>2. CASE encoded = <<>>
      BY <1>12, <2>2 DEF Dequeued
    <2> QED
      BY <2>1, <2>2
  <1>13. CASE PushOut
    <2>1. Append(out, held) \in Seq(0..MaxFrames)
      BY AtEnd
    <2> QED
      BY <1>13, <2>1 DEF PushOut
  <1>14. CASE Requeue
    <2>1. empties + 1 \in Nat
      OBVIOUS
    <2>2. /\ dq' \in DqLabels /\ empties' \in {empties, empties + 1}
          /\ working' \in BOOLEAN /\ m_gotError' \in BOOLEAN
          /\ UNCHANGED <<pc, consumerVars, owner, fdIn, input, encoded, held,
                        out>>
      BY <1>14 DEF Requeue
    <2> QED
      BY <2>1, <2>2
  <1>15. CASE UNCHANGED vars
    BY <1>15 DEF vars
  <1> QED
    BY <1>1, <1>2, <1>3, <1>4, <1>5, <1>7, <1>8, <1>9, <1>10, <1>11, <1>12,
       <1>13, <1>14, <1>15 DEF Next, Consumer, DqThread

(* The buffers of the capture plane stay within their number.                *)
LEMMA PlanesStep == Types /\ Types' /\ Planes /\ [Next]_vars => Planes'
  <1> SUFFICES ASSUME Types, Types', Planes, [Next]_vars PROVE Planes'
    OBVIOUS
  <1> USE Constants DEF Planes, WithCallback, Goto, Abort, Crash,
        consumerVars, planeVars, dqVars
  <1>a. /\ given \in Nat /\ empties \in Nat /\ Len(encoded) \in Nat
        /\ encoded \in Seq(0..MaxFrames)
    BY Elements DEF Types
  <1>b. ASSUME UNCHANGED <<given, empties, encoded>>,
               dq' \in {dq, "wait", "stopped", "dead"},
               pc' \in {"create", "give"} => pc' = pc
        PROVE  Planes'
    BY <1>a, <1>b
  <1>1. CASE Create
    BY <1>1, <1>a DEF Create
  <1>2. CASE Give
    BY <1>2, <1>a DEF Give
  <1>3. CASE Pick
    BY <1>3, <1>b DEF Pick
  <1>4. CASE Dequeue
    BY <1>4, <1>b DEF Dequeue
  <1>5. CASE Acquire
    BY <1>5, <1>b DEF Acquire
  <1>7. CASE Queue
    BY <1>7, <1>b DEF Queue, GiveToEncoder
  <1>8. CASE QueueEos
    BY <1>8, <1>b DEF QueueEos, GiveToEncoder
  <1>9. CASE Drain
    BY <1>9, <1>b DEF Drain
  <1>10. CASE Encode
    <2>1. Head(input).frame \in 0..MaxFrames
      BY <1>10, Entries, AtFront DEF Encode, Types
    <2>2. Len(Append(encoded, Head(input).frame)) = Len(encoded) + 1
      BY <1>a, <2>1, AtEnd
    <2> QED
      BY <1>10, <1>a, <2>2 DEF Encode
  <1>11. CASE EncoderFails
    BY <1>11, <1>b DEF EncoderFails
  <1>12. CASE Dequeued
    <2>1. CASE dq = "wait" /\ encoded # <<>> /\ encoded' = Tail(encoded)
      <3>1. Len(encoded') = Len(encoded) - 1
        BY <2>1, <1>a, AtFront
      <3>2. /\ dq' = "push" \/ dq' = "stopped"
            /\ UNCHANGED <<pc, given, empties>>
        BY <1>12, <2>1 DEF Dequeued
      <3>3. WithCallback = 0 /\ WithCallback' \in 0..1
        BY <2>1
      <3>4. (empties + Len(encoded')) + WithCallback' <= given
        BY <1>a, <3>1, <3>3
      <3> QED
        BY <3>2, <3>4
    <2>2. CASE dq' = "stopped" /\ UNCHANGED planeVars
      BY <1>12, <1>b, <2>2 DEF Dequeued
    <2> QED
      BY <1>12, <2>1, <2>2 DEF Dequeued
  <1>13. CASE PushOut
    BY <1>13, <1>a DEF PushOut
  <1>14. CASE Requeue
    BY <1>14, <1>a DEF Requeue
  <1>15. CASE UNCHANGED vars
    BY <1>15, <1>b DEF vars
  <1> QED
    BY <1>1, <1>2, <1>3, <1>4, <1>5, <1>7, <1>8, <1>9, <1>10, <1>11, <1>12,
       <1>13, <1>14, <1>15 DEF Next, Consumer, DqThread

(* A step that moves no frame, except that it may end the stream.            *)
NoFrame == /\ UNCHANGED <<out, held, encoded, input, acquired>>
           /\ Ended => Ended'
           /\ dq = "push" <=> dq' = "push"
           /\ pc' \notin {"dead", "create"} /\ dq' # "dead" /\ dq # "dead"
           /\ pc' = "queue" => pc = "queue"
           /\ pc' \in {"create", "give", "pick", "dequeue", "acquire", "eos"}
                 => pc \in {"create", "give", "pick", "dequeue", "acquire", "eos"}

LEMMA Lengths ==
    ASSUME Types
    PROVE  /\ Len(out) \in Nat /\ Len(encoded) \in Nat /\ Len(input) \in Nat
           /\ acquired \in Nat /\ Sent \in Nat /\ Total \in Nat
  <1>1. Len(out) \in Nat /\ Len(encoded) \in Nat /\ Len(input) \in Nat
    BY Elements DEF Types
  <1> QED
    BY <1>1, Constants DEF Types, Sent, Total

LEMMA NoFrameOrder == Types /\ Order /\ NoFrame => Order'
  <1> SUFFICES ASSUME Types, Order, NoFrame PROVE Order'
    OBVIOUS
  <1>1. /\ Sent' = Sent /\ Total' = Total /\ pc # "dead"
        /\ \A x, p : Frame(x, p) => Frame(x, p)'
    BY DEF NoFrame, Sent, Total, Frame, Order
  <1>2. acquired \in Nat
    BY Constants DEF Types
  <1>3. Len(out) <= acquired + (IF Ended' THEN 1 ELSE 0)
    BY <1>2, Elements DEF Types, Order, NoFrame
  <1>4. Total <= acquired + (IF Ended' THEN 1 ELSE 0)
    BY <1>1, <1>2, Lengths DEF Order, NoFrame
  <1>5. /\ \A k \in 1..Len(out) : Frame(out[k], k)'
        /\ dq = "push" => Frame(held, Len(out) + 1)'
        /\ \A k \in 1..Len(encoded) : Frame(encoded[k], Sent + k)'
        /\ \A k \in 1..Len(input) :
              Frame(input[k].frame, (Sent + Len(encoded)) + k)'
    BY <1>1 DEF Order, NoFrame, Frame
  <1> QED
    BY <1>1, <1>3, <1>4, <1>5 DEF Order, NoFrame

LEMMA CrashOrder == Types /\ Order /\ pc \in {"create", "acquire"} /\ Crash
                       => Order'
  <1> SUFFICES ASSUME Types, Order, pc \in {"create", "acquire"}, Crash
               PROVE  Order'
    OBVIOUS
  <1>1. /\ pc' = "dead" /\ dq' = "dead" /\ ~Ended /\ ~Ended'
        /\ UNCHANGED <<out, acquired>>
    BY DEF Crash, consumerVars, Ended
  <1> QED
    BY <1>1 DEF Order, Frame

LEMMA AcquireOrder == Types /\ Order /\ Acquire => Order'
  <1> SUFFICES ASSUME Types, Order, Acquire PROVE Order'
    OBVIOUS
  <1>1. CASE NoFrame
    BY <1>1, NoFrameOrder
  <1>2. CASE Crash
    BY <1>2, CrashOrder DEF Acquire, Goto
  <1>3. CASE Goto("acquire", "queue") /\ ~Crash
    <2>1. /\ pc = "acquire" /\ pc' = "queue" /\ acquired' = acquired + 1
          /\ UNCHANGED <<out, held, encoded, input, dq>> /\ ~Ended /\ ~Ended'
      BY <1>3 DEF Acquire, Goto, planeVars, dqVars, Ended
    <2>2. Sent' = Sent /\ Total' = Total
      BY <2>1 DEF Sent, Total
    <2>3. \A x, p : Frame(x, p) => Frame(x, p)'
      BY <2>1 DEF Frame
    <2>4. acquired' # EOS
      BY <2>1, Lengths DEF EOS
    <2> QED
      BY <2>1, <2>2, <2>3, <2>4, Lengths DEF Order
  <1> QED
    BY <1>1, <1>2, <1>3 DEF Acquire, NoFrame, Goto, Ended, consumerVars,
       planeVars, dqVars, Order

LEMMA GivenOrder ==
    ASSUME Types, Order, NEW n \in 0..MaxFrames, GiveToEncoder(n),
           \/ Goto("queue", "pick") /\ n = acquired
           \/ Goto("eos", "drain") /\ n = EOS
    PROVE  Order'
  <1> DEFINE e == [index |-> index, frame |-> n]
  <1>1. /\ input' = Append(input, e)
        /\ UNCHANGED <<out, held, encoded, acquired, dq>>
    BY DEF GiveToEncoder, consumerVars, dqVars
  <1>2. e \in Entry /\ e.frame = n /\ input \in Seq(Entry)
    BY Entries DEF Types
  <1> HIDE DEF e
  <1>3. /\ Len(input') = Len(input) + 1
        /\ \A k \in 1..Len(input) : input'[k] = input[k]
        /\ input'[Len(input) + 1] = e
    BY <1>1, <1>2, AtEnd
  <1>4. /\ pc \in {"queue", "eos"} /\ pc' \in {"pick", "drain"} /\ ~Ended
        /\ pc' = "pick" => pc = "queue" /\ n = acquired
        /\ pc' = "drain" => pc = "eos" /\ n = EOS /\ Ended'
    BY DEF Goto, Ended
  <1>5. /\ Sent' = Sent /\ Total' = Total + 1
        /\ \A x, p : Frame(x, p) => Frame(x, p)'
    <2>1. Sent' = Sent /\ \A x, p : Frame(x, p) => Frame(x, p)'
      BY <1>1, <1>4 DEF Sent, Frame
    <2> QED
      BY <1>1, <1>3, <2>1, Lengths DEF Total
  <1>6. /\ pc # "dead" /\ dq # "dead"
        /\ pc = "queue" => Total + 1 = acquired
        /\ pc = "eos" => Total = acquired
        /\ Total <= acquired
    BY <1>4, Lengths DEF Order
  <1>8. ASSUME NEW k \in 1..Len(input')
        PROVE  Frame(input[k].frame, (Sent + Len(encoded)) + k)'
    <2>1. CASE k \in 1..Len(input)
      <3>1. Frame(input[k].frame, (Sent + Len(encoded)) + k)
        BY <1>6, <2>1, <1>4 DEF Order
      <3> QED
        BY <1>1, <1>3, <1>5, <2>1, <3>1 DEF Frame
    <2>2. CASE k = Len(input) + 1
      <3>1. (Sent + Len(encoded)) + k = Total + 1
        BY <2>2, Lengths DEF Total
      <3>2. input'[k].frame = n /\ (Sent' + Len(encoded')) + k = Total + 1
        BY <1>1, <1>2, <1>3, <1>5, <2>2, <3>1
      <3>3. n = Total + 1 \/ (n = EOS /\ Ended' /\ Total + 1 = acquired' + 1)
        BY <1>4, <1>6, <1>1, Lengths
      <3> QED
        BY <3>2, <3>3 DEF Frame
    <2> QED
      BY <1>3, <2>1, <2>2, Lengths
  <1>9. /\ pc' = "pick" => Total' = acquired' /\ Total' <= acquired'
        /\ pc' = "drain" => Total' <= acquired' + 1
    BY <1>1, <1>4, <1>5, <1>6, Lengths
  <1> QED
    BY <1>1, <1>4, <1>5, <1>6, <1>8, <1>9, Lengths DEF Order, Ended

LEMMA EncodeOrder == Types /\ Order /\ Encode => Order'
  <1> SUFFICES ASSUME Types, Order, Encode PROVE Order'
    OBVIOUS
  <1> DEFINE n == input[1].frame
  <1>1. /\ input # <<>> /\ input' = Tail(input)
        /\ encoded' = Append(encoded, Head(input).frame)
        /\ UNCHANGED <<pc, dq, out, held, acquired>>
    BY DEF Encode, consumerVars, dqVars
  <1>2. /\ Len(input) >= 1 /\ Head(input) = input[1] /\ n \in 0..MaxFrames
        /\ Len(input') = Len(input) - 1
        /\ \A k \in 1..Len(input') : input'[k] = input[k + 1]
    BY <1>1, AtFront, Entries, Elements DEF Types
  <1> HIDE DEF n
  <1>3. encoded' = Append(encoded, n) /\ encoded \in Seq(0..MaxFrames)
    BY <1>1, <1>2 DEF n, Types
  <1>4. /\ Len(encoded') = Len(encoded) + 1
        /\ \A k \in 1..Len(encoded) : encoded'[k] = encoded[k]
        /\ encoded'[Len(encoded) + 1] = n
    BY <1>2, <1>3, AtEnd
  <1>5. /\ Sent' = Sent /\ Total' = Total
        /\ Ended' = Ended /\ \A x, p : Frame(x, p) => Frame(x, p)'
    <2>1. Sent' = Sent /\ Ended' = Ended
      BY <1>1 DEF Sent, Ended
    <2> QED
      BY <1>1, <1>2, <1>4, <2>1, Lengths DEF Total, Frame
  <1>6. CASE pc = "dead"
    BY <1>1, <1>5, <1>6 DEF Order
  <1>7. CASE pc # "dead"
    <2>1. /\ Frame(n, (Sent + Len(encoded)) + 1)
          /\ \A k \in 1..Len(encoded) : Frame(encoded[k], Sent + k)
          /\ \A k \in 1..Len(input) :
                Frame(input[k].frame, (Sent + Len(encoded)) + k)
      BY <1>2, <1>7, Lengths DEF Order, n
    <2>2. ASSUME NEW k \in 1..Len(encoded')
          PROVE  Frame(encoded'[k], Sent + k)
      <3>1. CASE k \in 1..Len(encoded)
        BY <1>4, <2>1, <3>1
      <3>2. CASE k = Len(encoded) + 1
        <4>1. (Sent + Len(encoded)) + 1 = Sent + k
          BY <3>2, Lengths
        <4> QED
          BY <1>4, <2>1, <3>2, <4>1
      <3> QED
        BY <1>4, <3>1, <3>2, Lengths
    <2>3. ASSUME NEW k \in 1..Len(input')
          PROVE  Frame(input'[k].frame, (Sent + Len(encoded')) + k)
      <3>1. /\ k + 1 \in 1..Len(input) /\ input'[k] = input[k + 1]
            /\ (Sent + Len(encoded)) + (k + 1) = (Sent + Len(encoded')) + k
        <4>1. k + 1 \in 1..Len(input) /\ input'[k] = input[k + 1]
          BY <1>2
        <4>2. Len(encoded') = Len(encoded) + 1
          BY <1>4
        <4>3. k \in Nat
          OBVIOUS
        <4>4. Len(encoded) \in Nat /\ Sent \in Nat
          BY Lengths
        <4> QED
          BY <4>1, <4>2, <4>3, <4>4
      <3> QED
        BY <2>1, <3>1
    <2>4. /\ \A k \in 1..Len(encoded') : Frame(encoded[k], Sent + k)'
          /\ \A k \in 1..Len(input') :
                Frame(input[k].frame, (Sent + Len(encoded)) + k)'
      BY <1>1, <1>5, <2>2, <2>3 DEF Frame
    <2> QED
      BY <1>1, <1>5, <1>7, <2>4 DEF Order, Frame
  <1> QED
    BY <1>6, <1>7

LEMMA DequeuedOrder == Types /\ Order /\ Dequeued => Order'
  <1> SUFFICES ASSUME Types, Order, Dequeued PROVE Order'
    OBVIOUS
  <1>1. CASE NoFrame
    BY <1>1, NoFrameOrder
  <1>2. CASE ~NoFrame
    <2>1. /\ dq = "wait" /\ dq' = "push" /\ encoded # <<>>
          /\ held' = Head(encoded) /\ encoded' = Tail(encoded)
          /\ UNCHANGED <<pc, out, input, acquired>>
      BY <1>2 DEF Dequeued, NoFrame, Abort, Ended, consumerVars, planeVars,
         Order
    <2>2. /\ Len(encoded) >= 1 /\ Head(encoded) = encoded[1]
          /\ Len(encoded') = Len(encoded) - 1
          /\ \A k \in 1..Len(encoded') : encoded'[k] = encoded[k + 1]
      BY <2>1, AtFront DEF Types
    <2>3. /\ Sent = Len(out) /\ Sent' = Sent + 1 /\ Total' = Total
          /\ pc # "dead" /\ Sent' + Len(encoded') = Sent + Len(encoded)
      BY <2>1, <2>2, Lengths DEF Sent, Total, Order
    <2>4. \A x, p : Frame(x, p) => Frame(x, p)'
      BY <2>1 DEF Frame, Ended
    <2>5. /\ \A k \in 1..Len(encoded) : Frame(encoded[k], Sent + k)
          /\ \A k \in 1..Len(input) :
                Frame(input[k].frame, (Sent + Len(encoded)) + k)
      BY <2>3 DEF Order
    <2>6. Frame(held', Len(out) + 1)
      BY <2>1, <2>2, <2>3, <2>5, Lengths
    <2>7. ASSUME NEW k \in 1..Len(encoded')
          PROVE  Frame(encoded'[k], Sent' + k)
      <3>1. /\ k + 1 \in 1..Len(encoded) /\ encoded'[k] = encoded[k + 1]
            /\ Sent' + k = Sent + (k + 1)
        BY <2>2, <2>3, Lengths
      <3> QED
        BY <2>5, <3>1
    <2>8. /\ Frame(held, Len(out) + 1)'
          /\ \A k \in 1..Len(encoded') : Frame(encoded[k], Sent + k)'
          /\ \A k \in 1..Len(input') :
                Frame(input[k].frame, (Sent + Len(encoded)) + k)'
      BY <2>1, <2>3, <2>5, <2>6, <2>7 DEF Frame, Ended
    <2> QED
      BY <2>1, <2>3, <2>4, <2>8 DEF Order, Ended
  <1> QED
    BY <1>1, <1>2

LEMMA PushOutOrder == Types /\ Order /\ PushOut => Order'
  <1> SUFFICES ASSUME Types, Order, PushOut PROVE Order'
    OBVIOUS
  <1>1. /\ dq = "push" /\ dq' = "requeue" /\ out' = Append(out, held)
        /\ UNCHANGED <<pc, held, encoded, input, acquired>>
    BY DEF PushOut, consumerVars, planeVars
  <1>2. /\ Len(out') = Len(out) + 1
        /\ \A k \in 1..Len(out) : out'[k] = out[k]
        /\ out'[Len(out) + 1] = held
    BY <1>1, AtEnd DEF Types
  <1>3. /\ Sent = Len(out) + 1 /\ Sent' = Sent /\ pc # "dead"
    BY <1>1, <1>2, Lengths DEF Sent, Order
  <1>4. Total' = Total /\ \A x, p : Frame(x, p) => Frame(x, p)'
    BY <1>1, <1>3 DEF Total, Frame, Ended
  <1>5. \A k \in 1..Len(out') : Frame(out[k], k)'
    <2>1. ASSUME NEW k \in 1..Len(out') PROVE Frame(out'[k], k)
      <3>1. CASE k \in 1..Len(out)
        BY <1>2, <3>1 DEF Order
      <3>2. CASE k = Len(out) + 1
        BY <1>1, <1>2, <1>3, <3>2 DEF Order
      <3> QED
        BY <1>2, <3>1, <3>2, Lengths
    <2> QED
      BY <1>1, <2>1 DEF Frame, Ended
  <1>6. Len(out') <= acquired + (IF Ended THEN 1 ELSE 0)
    BY <1>2, <1>3, Lengths DEF Order, Total
  <1>7. /\ \A k \in 1..Len(encoded) : Frame(encoded[k], Sent + k)'
        /\ \A k \in 1..Len(input) :
              Frame(input[k].frame, (Sent + Len(encoded)) + k)'
    BY <1>1, <1>3, <1>4 DEF Order, Frame, Ended
  <1> QED
    BY <1>1, <1>3, <1>4, <1>5, <1>6, <1>7 DEF Order, Ended

(* Every step keeps the frames in order.                                     *)
LEMMA OrderStep == Types /\ Order /\ [Next]_vars => Order'
  <1> SUFFICES ASSUME Types, Order, [Next]_vars PROVE Order'
    OBVIOUS
  <1> USE DEF Goto, Abort, consumerVars, planeVars, dqVars
  <1>1. CASE Create
    <2>1. CASE Crash /\ pc = "create"
      BY <2>1, CrashOrder
    <2>2. CASE Goto("create", "give") /\ dq' = "wait"
      BY <1>1, <2>2, NoFrameOrder DEF NoFrame, Ended, Create, Order, Crash
    <2> QED
      BY <1>1, <2>1, <2>2 DEF Create
  <1>2. CASE Give
    BY <1>2, NoFrameOrder DEF Give, NoFrame, Ended, Order
  <1>3. CASE Pick
    BY <1>3, NoFrameOrder DEF Pick, NoFrame, Ended, Order
  <1>4. CASE Dequeue
    BY <1>4, NoFrameOrder DEF Dequeue, NoFrame, Ended, Order
  <1>5. CASE Acquire
    BY <1>5, AcquireOrder
  <1>6. CASE Queue
    <2>1. CASE NoFrame
      BY <2>1, NoFrameOrder
    <2>2. CASE Goto("queue", "pick") /\ GiveToEncoder(acquired)
      BY <2>2, GivenOrder DEF Types
    <2> QED
      BY <1>6, <2>1, <2>2 DEF Queue, NoFrame, Ended, Order
  <1>7. CASE QueueEos
    <2>1. CASE NoFrame
      BY <2>1, NoFrameOrder
    <2>2. CASE Goto("eos", "drain") /\ GiveToEncoder(EOS)
      BY <2>2, GivenOrder, Constants
    <2> QED
      BY <1>7, <2>1, <2>2 DEF QueueEos, NoFrame, Ended, Order
  <1>8. CASE Drain
    BY <1>8, NoFrameOrder DEF Drain, NoFrame, Ended, Order
  <1>9. CASE Encode
    BY <1>9, EncodeOrder
  <1>10. CASE UNCHANGED <<pc, dq, out, held, encoded, input, acquired>>
    BY <1>10 DEF Order, Frame, Ended, Sent, Total
  <1>11. CASE EncoderFails
    BY <1>11, <1>10 DEF EncoderFails
  <1>12. CASE Dequeued
    BY <1>12, DequeuedOrder
  <1>13. CASE PushOut
    BY <1>13, PushOutOrder
  <1>14. CASE Requeue
    BY <1>14, NoFrameOrder DEF Requeue, NoFrame, Ended, Order
  <1>15. CASE UNCHANGED vars
    BY <1>15, <1>10 DEF vars
  <1> QED
    BY <1>1, <1>2, <1>3, <1>4, <1>5, <1>6, <1>7, <1>8, <1>9, <1>11, <1>12,
       <1>13, <1>14, <1>15 DEF Next, Consumer, DqThread

(* A step that leaves the dmabufs and the output plane alone.                *)
Aside == /\ UNCHANGED <<input, owner, fdIn, live, fd, index, bufferIndex>>
         /\ Ended => Ended'
         /\ pc' \in {"acquire", "queue", "eos"}
               => pc' = pc \/ (pc = "acquire" /\ pc' = "eos")
         /\ pc' \notin {"queue", "failed"} => pc \notin {"queue", "failed"}

LEMMA AsideBuffers == Buffers /\ Aside => Buffers'
  BY DEF Buffers, Aside, EntriesOwned, InUse, Holding, Reads, Kept, Placed,
     Ended

(* Every step of the consumer keeps every dmabuf in its place.              *)
LEMMA PickBuffers == Types /\ Buffers /\ Pick => Buffers'
  <1> SUFFICES ASSUME Types, Buffers, Pick PROVE Buffers'
    OBVIOUS
  <1>a. /\ \A i \in Indices : i \in Nat
        /\ index \in Indices /\ bufferIndex \in Nat
    BY Constants DEF Types
  <1>1. /\ pc = "pick" /\ pc' \in {"acquire", "drain", "dequeue"}
        /\ UNCHANGED <<input, owner, fdIn, live>>
        /\ \/ pc' # "acquire" /\ UNCHANGED <<index, bufferIndex>>
           \/ /\ index' = bufferIndex /\ bufferIndex' = bufferIndex + 1
              /\ bufferIndex \in Indices
    BY Constants DEF Pick, Goto, planeVars, Types
  <1>2. EntriesOwned' /\ Holding' /\ Reads'
    BY <1>1 DEF Buffers, EntriesOwned, Holding, Reads, Ended
  <1>3. InUse'
    BY <1>1, <1>a DEF Buffers, InUse
  <1>4. Kept'
    BY <1>1 DEF Buffers, Kept, Placed
  <1> QED
    BY <1>2, <1>3, <1>4 DEF Buffers

LEMMA DequeueBuffers == Types /\ Buffers /\ Dequeue => Buffers'
  <1> SUFFICES ASSUME Types, Buffers, Dequeue PROVE Buffers'
    OBVIOUS
  <1>1. CASE Aside
    BY <1>1, AsideBuffers
  <1>2. CASE ~Aside
    <2>1. Goto("dequeue", "acquire")
      BY <1>2 DEF Dequeue, Aside, Goto, Abort, consumerVars, planeVars, Ended
    <2>2. PICK i \in Indices :
             /\ owner[i] = "done" /\ owner' = [owner EXCEPT ![i] = "user"]
             /\ index' = i /\ fd' = fdIn[i] /\ live' = live \ {fdIn[i]}
             /\ UNCHANGED <<bufferIndex, fdIn, input>>
      BY <2>1 DEF Dequeue, Goto
    <2>3. /\ pc = "dequeue" /\ pc' = "acquire"
          /\ owner'[i] = "user"
          /\ \A j \in Indices \ {i} : owner'[j] = owner[j]
      BY <2>1, <2>2 DEF Goto, Types
    <2>4. \A k \in 1..Len(input) : /\ input[k] \in Entry
                                   /\ input[k].index \in Indices \ {i}
      BY <2>2, Elements, Entries DEF Types, Buffers, EntriesOwned
    <2>5. \A j \in Indices \ {i} : owner[j] # "user" => fdIn[j] # fdIn[i]
      BY <2>2, <2>3 DEF Buffers, Holding, Ended
    <2>6. EntriesOwned'
      BY <2>2, <2>3, <2>4 DEF Buffers, EntriesOwned, Ended
    <2>7. InUse'
      BY <2>2, <2>3 DEF Buffers, InUse
    <2>8. Holding'
      BY <2>2, <2>3, <2>5 DEF Buffers, Holding, Ended
    <2>9. Reads'
      <3>1. \A k \in 1..Len(input) : owner[input[k].index] # "user"
        BY DEF Buffers, EntriesOwned
      <3>2. \A k \in 1..Len(input) : fdIn[input[k].index] # fdIn[i]
        BY <2>4, <2>5, <3>1
      <3> QED
        BY <2>2, <3>2 DEF Buffers, Reads
    <2>10. Kept'
      <3>1. \A f \in live : Placed(f)
        BY <2>3 DEF Buffers, Kept
      <3>2. ASSUME NEW f \in live' PROVE Placed(f)'
        <4>1. PICK j \in Indices : owner[j] # "user" /\ fdIn[j] = f
          BY <2>2, <3>1, <3>2 DEF Placed
        <4>2. j # i
          BY <2>2, <3>2, <4>1
        <4> QED
          BY <2>2, <2>3, <4>1, <4>2 DEF Placed
      <3> QED
        BY <2>3, <3>2 DEF Kept
    <2> QED
      BY <2>6, <2>7, <2>8, <2>9, <2>10 DEF Buffers
  <1> QED
    BY <1>1, <1>2

LEMMA AcquireBuffers == Types /\ Buffers /\ Acquire => Buffers'
  <1> SUFFICES ASSUME Types, Buffers, Acquire PROVE Buffers'
    OBVIOUS
  <1>1. CASE Aside
    BY <1>1, AsideBuffers
  <1>2. CASE ~Aside
    <2>1. Goto("acquire", "queue")
      BY <1>2 DEF Acquire, Aside, Goto, Crash, consumerVars, planeVars, Ended
    <2>2. /\ pc = "acquire" /\ pc' = "queue"
          /\ UNCHANGED <<input, owner, fdIn, index, bufferIndex>>
          /\ \/ /\ fd' \in Fds \ live /\ live' = live \cup {fd'}
             \/ /\ fd' = NoFd /\ live' = live
      BY <2>1 DEF Acquire, Goto, planeVars, Crash
    <2>3. /\ owner[index] = "user" /\ index < bufferIndex
          /\ \A f \in live : Placed(f)
      BY <2>2 DEF Buffers, InUse, Kept
    <2>4. EntriesOwned' /\ InUse' /\ Reads'
      BY <2>2 DEF Buffers, EntriesOwned, InUse, Reads, Ended
    <2>5. Holding'
      BY <2>2 DEF Buffers, Holding, Ended
    <2>6. Kept'
      BY <2>2, <2>3 DEF Kept, Placed
    <2> QED
      BY <2>4, <2>5, <2>6 DEF Buffers
  <1> QED
    BY <1>1, <1>2

(* A buffer given to the encoder; a frame's dmabuf is live, the end's is not.*)
LEMMA GivenBuffers ==
    ASSUME Types, Buffers, NEW n \in 0..MaxFrames, GiveToEncoder(n),
           \/ /\ Goto("queue", "pick") /\ n # EOS /\ fd # NoFd
           \/ /\ Goto("eos", "drain") /\ n = EOS
    PROVE  Buffers'
  <1> DEFINE e == [index |-> index, frame |-> n]
  <1>1. /\ owner' = [owner EXCEPT ![index] = "driver"]
        /\ fdIn' = [fdIn EXCEPT ![index] = fd]
        /\ input' = Append(input, e)
        /\ UNCHANGED <<fd, live, index, bufferIndex>>
    BY DEF GiveToEncoder, consumerVars
  <1>2. /\ index \in Indices /\ e \in Entry /\ e.index = index /\ e.frame = n
        /\ input \in Seq(Entry) /\ Len(input) \in Nat
        /\ \A k \in 1..Len(input) : input[k].index \in Indices
    BY Entries, Elements DEF Types
  <1>3. /\ Len(input') = Len(input) + 1
        /\ \A k \in 1..Len(input) : input'[k] = input[k]
        /\ input'[Len(input) + 1] = e
    BY <1>1, <1>2, AtEnd
  <1> HIDE DEF e
  <1>4. /\ owner'[index] = "driver" /\ fdIn'[index] = fd
        /\ \A i \in Indices \ {index} : owner'[i] = owner[i] /\ fdIn'[i] = fdIn[i]
    BY <1>1, <1>2 DEF Types
  <1>5. /\ pc \in {"queue", "eos"} /\ ~Ended
        /\ owner[index] = "user" /\ index < bufferIndex
        /\ pc' \in {"pick", "drain"}
        /\ pc' = "pick" => pc = "queue" /\ n # EOS /\ fd # NoFd
        /\ pc' = "drain" => pc = "eos" /\ n = EOS
    BY DEF Goto, Ended, Buffers, InUse
  <1>6. \A k \in 1..Len(input) : /\ input[k].index # index
                                 /\ owner[input[k].index] = "driver"
                                 /\ input[k].frame # EOS
    BY <1>5 DEF Buffers, EntriesOwned
  <1>7. \A k \in 1..Len(input') :
           \/ k \in 1..Len(input) /\ input'[k] = input[k]
           \/ k = Len(input) + 1 /\ input'[k] = e
    BY <1>2, <1>3
  <1>8. EntriesOwned'
    <2>1. \A k \in 1..Len(input') : owner'[input'[k].index] = "driver"
      BY <1>2, <1>4, <1>6, <1>7
    <2>2. ASSUME NEW k \in 1..Len(input'), NEW l \in 1..Len(input'), k # l
          PROVE  input'[k].index # input'[l].index
      <3>1. CASE k \in 1..Len(input) /\ l \in 1..Len(input)
        BY <1>3, <2>2, <3>1 DEF Buffers, EntriesOwned
      <3> QED
        BY <1>2, <1>6, <1>7, <2>2, <3>1
    <2>3. ~Ended' => \A k \in 1..Len(input') : input'[k].frame # EOS
      BY <1>2, <1>5, <1>6, <1>7 DEF Ended
    <2> QED
      BY <2>1, <2>2, <2>3 DEF EntriesOwned
  <1>9. InUse'
    BY <1>1, <1>4, <1>5 DEF Buffers, InUse
  <1>10. Holding'
    <2>1. CASE pc' = "drain"
      BY <2>1 DEF Holding, Ended
    <2>2. CASE pc' = "pick"
      <3>1. /\ fd \in live
            /\ \A i \in Indices : owner[i] # "user" => fdIn[i] # fd
            /\ \A i \in Indices : owner[i] # "user" => fdIn[i] \in live
            /\ \A i, j \in Indices : owner[i] # "user" /\ owner[j] # "user"
                                        /\ i # j => fdIn[i] # fdIn[j]
        BY <1>5, <2>2 DEF Buffers, Holding
      <3>2. \A i \in Indices : owner'[i] # "user" => fdIn'[i] \in live'
        BY <1>1, <1>4, <3>1
      <3>3. \A i, j \in Indices : owner'[i] # "user" /\ owner'[j] # "user"
                                     /\ i # j => fdIn'[i] # fdIn'[j]
        BY <1>4, <3>1
      <3> QED
        BY <2>2, <3>2, <3>3 DEF Holding
    <2> QED
      BY <1>5, <2>1, <2>2
  <1>11. Reads'
    <2>1. \A k \in 1..Len(input) : fdIn'[input[k].index] = fdIn[input[k].index]
      BY <1>2, <1>4, <1>6
    <2>2. CASE n = EOS
      <3>1. \A k \in 1..Len(input') :
               input'[k].frame # EOS
                  => k \in 1..Len(input) /\ input'[k] = input[k]
        BY <1>2, <1>7, <2>2
      <3> QED
        BY <1>1, <2>1, <3>1 DEF Buffers, Reads
    <2>3. CASE n # EOS
      <3>1. /\ fd \in live
            /\ \A i \in Indices : owner[i] # "user" => fdIn[i] # fd
        BY <1>5, <2>3 DEF Buffers, Holding
      <3>2. \A k \in 1..Len(input') : fdIn'[input'[k].index] \in live'
        BY <1>1, <1>2, <1>4, <1>6, <1>7, <2>1, <3>1 DEF Buffers, Reads
      <3>3. ASSUME NEW k \in 1..Len(input'), NEW l \in 1..Len(input'), k # l
            PROVE  fdIn'[input'[k].index] # fdIn'[input'[l].index]
        <4>1. CASE k \in 1..Len(input) /\ l \in 1..Len(input)
          <5>1. input'[k] = input[k] /\ input'[l] = input[l]
            BY <1>3, <4>1
          <5>2. fdIn[input[k].index] # fdIn[input[l].index]
            BY <1>6, <3>3, <4>1 DEF Buffers, Reads
          <5> QED
            BY <2>1, <4>1, <5>1, <5>2
        <4>2. \A m \in 1..Len(input) : fdIn'[input[m].index] # fd
          BY <1>2, <1>6, <2>1, <3>1
        <4> QED
          BY <1>2, <1>4, <1>7, <3>3, <4>1, <4>2
      <3> QED
        BY <3>2, <3>3 DEF Reads
    <2> QED
      BY <2>2, <2>3
  <1>12. Kept'
    <2>1. \A f \in live : f # fd => Placed(f)
      BY DEF Buffers, Kept
    <2>2. pc = "eos" => \A f \in live : Placed(f)
      BY DEF Buffers, Kept
    <2>3. ASSUME NEW f, Placed(f) PROVE Placed(f)'
      BY <1>4, <1>5, <2>3 DEF Placed
    <2>4. Placed(fd)'
      BY <1>2, <1>4, <1>1 DEF Placed
    <2>5. \A f \in live' : Placed(f)'
      BY <1>1, <2>1, <2>3, <2>4
    <2> QED
      BY <2>5 DEF Kept
  <1> QED
    BY <1>8, <1>9, <1>10, <1>11, <1>12 DEF Buffers

LEMMA EncodeBuffers == Types /\ Buffers /\ Encode => Buffers'
  <1> SUFFICES ASSUME Types, Buffers, Encode PROVE Buffers'
    OBVIOUS
  <1> DEFINE i == input[1].index
  <1>1. /\ input # <<>> /\ input' = Tail(input)
        /\ owner' = [owner EXCEPT ![Head(input).index] = "done"]
        /\ UNCHANGED <<pc, fd, live, index, bufferIndex, fdIn>>
    BY DEF Encode, consumerVars
  <1>2. /\ Len(input) \in Nat /\ Len(input) >= 1
        /\ Len(input') = Len(input) - 1 /\ Head(input) = input[1]
        /\ \A k \in 1..Len(input') : /\ input'[k] = input[k + 1]
                                     /\ k + 1 \in 1..Len(input)
    BY <1>1, AtFront DEF Types
  <1>3. /\ i \in Indices /\ owner[i] = "driver"
        /\ \A k \in 1..Len(input) : /\ input[k].index \in Indices
                                    /\ k # 1 => input[k].index # i
    BY <1>2, Elements, Entries DEF Types, Buffers, EntriesOwned
  <1>4. /\ owner'[i] = "done"
        /\ \A j \in Indices \ {i} : owner'[j] = owner[j]
        /\ \A j \in Indices : owner'[j] # "user" <=> owner[j] # "user"
    BY <1>1, <1>2, <1>3 DEF Types
  <1> HIDE DEF i
  <1>5. EntriesOwned'
    <2>1. ASSUME NEW k \in 1..Len(input') PROVE owner'[input'[k].index] = "driver"
      <3>1. k + 1 \in 1..Len(input) /\ k + 1 # 1 /\ input'[k] = input[k + 1]
        BY <1>2
      <3>2. input[k + 1].index \in Indices \ {i}
        BY <1>3, <3>1
      <3>3. owner[input[k + 1].index] = "driver"
        BY <3>1 DEF Buffers, EntriesOwned
      <3> QED
        BY <1>4, <3>1, <3>2, <3>3
    <2>2. \A k, l \in 1..Len(input') : k # l => input'[k].index # input'[l].index
      BY <1>2 DEF Buffers, EntriesOwned
    <2>3. ~Ended' => \A k \in 1..Len(input') : input'[k].frame # EOS
      BY <1>1, <1>2 DEF Buffers, EntriesOwned, Ended
    <2> QED
      BY <2>1, <2>2, <2>3 DEF EntriesOwned
  <1>6. InUse'
    <2>1. index \in Indices
      BY DEF Types
    <2> QED
      BY <1>1, <1>3, <1>4, <2>1 DEF Buffers, InUse
  <1>7. Holding'
    BY <1>1, <1>4 DEF Buffers, Holding, Ended
  <1>8. Reads'
    BY <1>1, <1>2 DEF Buffers, Reads
  <1>9. Kept'
    <2>1. \A f : Placed(f) => Placed(f)'
      BY <1>1, <1>4 DEF Placed
    <2>2. index \in Indices
      BY DEF Types
    <2> QED
      BY <1>1, <1>4, <2>1, <2>2 DEF Buffers, Kept
  <1> QED
    BY <1>5, <1>6, <1>7, <1>8, <1>9 DEF Buffers

LEMMA BuffersStep == Types /\ Order /\ Buffers /\ [Next]_vars => Buffers'
  <1> SUFFICES ASSUME Types, Order, Buffers, [Next]_vars PROVE Buffers'
    OBVIOUS
  <1> USE DEF Goto, Abort, Crash, consumerVars, planeVars, dqVars
  <1>1. CASE Create
    BY <1>1, AsideBuffers DEF Create, Aside, Ended
  <1>2. CASE Give
    BY <1>2, AsideBuffers DEF Give, Aside, Ended
  <1>3. CASE Pick
    BY <1>3, PickBuffers
  <1>4. CASE Dequeue
    BY <1>4, DequeueBuffers
  <1>5. CASE Acquire
    BY <1>5, AcquireBuffers
  <1>6. CASE Queue
    <2>1. CASE Aside
      BY <2>1, AsideBuffers
    <2>2. CASE /\ fd # NoFd /\ Goto("queue", "pick") /\ GiveToEncoder(acquired)
      <3>1. acquired # EOS /\ acquired \in 0..MaxFrames
        BY <2>2 DEF Order, Types
      <3> QED
        BY <2>2, <3>1, GivenBuffers
    <2> QED
      BY <1>6, <2>1, <2>2 DEF Queue, Aside, Ended
  <1>7. CASE QueueEos
    <2>1. CASE Aside
      BY <2>1, AsideBuffers
    <2>2. CASE Goto("eos", "drain") /\ GiveToEncoder(EOS)
      BY <2>2, GivenBuffers, Constants
    <2> QED
      BY <1>7, <2>1, <2>2 DEF QueueEos, Aside, Ended
  <1>8. CASE Drain
    BY <1>8, AsideBuffers DEF Drain, Aside, Ended
  <1>9. CASE Encode
    BY <1>9, EncodeBuffers
  <1>10. CASE EncoderFails
    BY <1>10, AsideBuffers DEF EncoderFails, Aside, Ended
  <1>11. CASE Dequeued
    BY <1>11, AsideBuffers DEF Dequeued, Aside, Ended
  <1>12. CASE PushOut
    BY <1>12, AsideBuffers DEF PushOut, Aside, Ended
  <1>13. CASE Requeue
    BY <1>13, AsideBuffers DEF Requeue, Aside, Ended
  <1>14. CASE UNCHANGED vars
    BY <1>14, AsideBuffers DEF vars, Aside, Ended
  <1> QED
    BY <1>1, <1>2, <1>3, <1>4, <1>5, <1>6, <1>7, <1>8, <1>9, <1>10, <1>11,
       <1>12, <1>13, <1>14 DEF Next, Consumer, DqThread

-----------------------------------------------------------------------------
IInv == Types /\ Planes /\ Order /\ Buffers

(* IInv holds of every reachable state.                                      *)
LEMMA InitInv == Init => IInv
  <1> SUFFICES ASSUME Init PROVE IInv
    OBVIOUS
  <1>1. /\ <<>> \in Seq(Entry) /\ <<>> \in Seq(0..MaxFrames)
        /\ Len(input) = 0 /\ Len(encoded) = 0 /\ Len(out) = 0
    BY DEF Init
  <1>2. Types
    BY <1>1, Constants DEF Init, Types, PcLabels, DqLabels
  <1>3. Planes /\ Order
    BY <1>1, Constants DEF Init, Planes, WithCallback, Order, Sent, Total, Ended
  <1>4. Buffers
    BY <1>1, Constants DEF Init, Buffers, EntriesOwned, InUse, Holding, Reads,
       Kept, Ended
  <1> QED
    BY <1>2, <1>3, <1>4 DEF IInv

LEMMA InvStep == IInv /\ [Next]_vars => IInv'
  BY TypesStep, PlanesStep, OrderStep, BuffersStep DEF IInv

LEMMA Invariant == Spec => []IInv
  BY InitInv, InvStep, PTL DEF Spec

(* The variables keep their types and the counters their bounds, those of    *)
(* the capture plane's buffers included.                                     *)
THEOREM TypeCorrect == Spec => []TypeOK
  <1>1. IInv => TypeOK
    <2> SUFFICES ASSUME IInv PROVE TypeOK
      OBVIOUS
    <2>1. Types /\ Planes
      BY DEF IInv
    <2>2. /\ given \in 0..CaptureBuffers /\ empties \in 0..CaptureBuffers
      BY <2>1, Constants, Lengths DEF Types, Planes, WithCallback
    <2> QED
      BY <2>1, <2>2 DEF TypeOK, Types, PcLabels, DqLabels, Entry
  <1> QED
    BY <1>1, Invariant, PTL

(* The dmabufs kept are in different buffers of those in use.                *)
LEMMA FewKept == ASSUME Types, Buffers
                 PROVE  Cardinality(live) <= MAX_ENCODER_FRAMES
  <1> DEFINE S == 0..(bufferIndex - 1)
             f == [i \in S |-> IF owner[i] = "user" THEN fd ELSE fdIn[i]]
             T == {f[i] : i \in S}
  <1>1. bufferIndex \in Nat /\ bufferIndex <= MAX_ENCODER_FRAMES
    BY Constants DEF Types
  <1>2. IsFiniteSet(S) /\ Cardinality(S) <= MAX_ENCODER_FRAMES
    <2>1. 0 \in Int /\ bufferIndex - 1 \in Int
      BY <1>1
    <2>2. /\ IsFiniteSet(S)
          /\ Cardinality(S) = IF 0 > bufferIndex - 1 THEN 0
                              ELSE bufferIndex - 1 - 0 + 1
      BY <2>1, FS_Interval
    <2> QED
      BY <1>1, <2>2, Constants
  <1>3. f \in Surjection(S, T)
    BY DEF Surjection
  <1>4. IsFiniteSet(T) /\ Cardinality(T) <= Cardinality(S)
    BY <1>2, <1>3, FS_Surjection
  <1>5. ASSUME NEW x \in live PROVE x \in T
    <2>1. CASE Placed(x)
      <3>1. PICK i \in Indices : owner[i] # "user" /\ fdIn[i] = x
        BY <2>1 DEF Placed
      <3>2. i \in S /\ f[i] = x
        BY <1>1, <3>1, Constants DEF Buffers, InUse
      <3> QED
        BY <3>2
    <2>2. CASE ~Placed(x)
      <3>1. owner[index] = "user" /\ index < bufferIndex /\ x = fd
        BY <1>5, <2>2 DEF Buffers, Kept
      <3>2. index \in S /\ f[index] = x
        BY <1>1, <3>1, Constants DEF Types
      <3> QED
        BY <3>2
    <2> QED
      BY <2>1, <2>2
  <1> HIDE DEF T, S
  <1>6. IsFiniteSet(live) /\ Cardinality(live) <= Cardinality(T)
    BY <1>4, <1>5, FS_Subset
  <1>7. /\ Cardinality(live) \in Nat /\ Cardinality(T) \in Nat
        /\ Cardinality(S) \in Nat
    BY <1>2, <1>4, <1>6, FS_CardinalityType
  <1> QED
    BY <1>2, <1>4, <1>6, <1>7, Constants

(* The encoder reads live frames, one to a buffer; the buffer to be queued   *)
(* next is free; and no more than MAX_ENCODER_FRAMES frames are kept.        *)
THEOREM BuffersKept == Spec => []BuffersSafe
  <1>1. IInv => BuffersSafe
    <2> SUFFICES ASSUME IInv PROVE BuffersSafe
      OBVIOUS
    <2>1. Types /\ Buffers
      BY DEF IInv
    <2>2. FdDiscipline
      BY <2>1 DEF FdDiscipline, WithEncoder, Buffers, Reads
    <2>3. BufferOwned
      BY <2>1 DEF BufferOwned, Buffers, InUse
    <2> QED
      BY <2>1, <2>2, <2>3, FewKept DEF BuffersSafe, FramesBounded
  <1> QED
    BY <1>1, Invariant, PTL

(* The frames come out in the order they were acquired, and the end of the   *)
(* stream after all of them.                                                 *)
THEOREM FramesInOrder == Spec => []OutInOrder
  <1>1. IInv => OutInOrder
    <2> SUFFICES ASSUME IInv, NEW k \in 1..Len(out)
                 PROVE  \/ out[k] = k
                        \/ out[k] = EOS /\ k = Len(out) /\ k = acquired + 1
      BY DEF OutInOrder
    <2>1. Frame(out[k], k) /\ Len(out) <= acquired + (IF Ended THEN 1 ELSE 0)
      BY DEF IInv, Order
    <2>2. Len(out) \in Nat /\ acquired \in Nat
      BY Lengths DEF IInv
    <2> QED
      BY <2>1, <2>2 DEF Frame
  <1> QED
    BY <1>1, Invariant, PTL

-----------------------------------------------------------------------------
(* The refinement.  What FrameFlow sees of a state: the frames read and the *)
(* dmabufs of those that wait; only the end of the stream is in neither.    *)
LEMMA Seen ==
    ASSUME IInv
    PROVE  /\ Handled \in Nat /\ Unread \in Nat /\ acquired \in Nat
           /\ Len(out) \in Nat /\ Len(input) \in Nat /\ Len(encoded) \in Nat
           /\ Unread <= Len(input)
           /\ Waiting \in Seq(Fds \cup {NoFd}) /\ Len(Waiting) = Unread
           /\ \A k \in 1..Unread : Waiting[k] = fdIn[input[k].index]
           /\ pc # "dead" =>
                 /\ \A k \in 1..Unread : input[k].frame # EOS
                 /\ ~Ended => Unread = Len(input) /\ Handled + Unread <= acquired
                 /\ Handled <= acquired + 1
                 /\ Handled <= acquired => FramesRead = Handled
                 /\ Handled > acquired => FramesRead = acquired
  <1>1. /\ Len(out) \in Nat /\ Len(encoded) \in Nat /\ Len(input) \in Nat
        /\ acquired \in Nat /\ Sent \in Nat
    BY Lengths DEF IInv
  <1>2. Handled \in Nat /\ Handled = Sent + Len(encoded) /\ Total = Handled + Len(input)
    BY <1>1 DEF Handled, Sent, Total
  <1>3. Unread \in Nat /\ Unread <= Len(input) /\ (input # <<>> => Len(input) >= 1)
    <2>1. input # <<>> => Len(input) >= 1
      BY AtFront DEF IInv, Types
    <2> QED
      BY <1>1, <2>1 DEF Unread
  <1>4. ASSUME NEW k \in 1..Unread
        PROVE  input[k].index \in Indices /\ fdIn[input[k].index] \in Fds \cup {NoFd}
    <2>1. k \in 1..Len(input)
      BY <1>1, <1>3
    <2>2. input[k] \in Entry
      BY <2>1, Elements DEF IInv, Types
    <2> QED
      BY <2>2, Entries DEF IInv, Types
  <1>5. /\ Waiting \in Seq(Fds \cup {NoFd}) /\ Len(Waiting) = Unread
        /\ \A k \in 1..Unread : Waiting[k] = fdIn[input[k].index]
    BY <1>3, <1>4 DEF Waiting
  <1>6. ASSUME pc # "dead"
        PROVE  /\ \A k \in 1..Unread : input[k].frame # EOS
               /\ ~Ended => Unread = Len(input) /\ Handled + Unread <= acquired
               /\ Handled <= acquired + 1
    <2>1. /\ \A k \in 1..Len(input) : Frame(input[k].frame, Handled + k)
          /\ Total <= acquired + (IF Ended THEN 1 ELSE 0)
      BY <1>2, <1>6 DEF IInv, Order
    <2>2. Handled <= acquired + 1
      BY <1>1, <1>2, <2>1
    <2>3. ~Ended => \A k \in 1..Len(input) : input[k].frame # EOS
      BY DEF IInv, Buffers, EntriesOwned
    <2>4. ~Ended => Unread = Len(input) /\ Handled + Unread <= acquired
      <3>1. ~Ended => Unread = Len(input)
        BY <1>1, <1>3, <2>3 DEF Unread
      <3> QED
        BY <1>1, <1>2, <2>1, <3>1
    <2>5. ASSUME NEW k \in 1..Unread, input[k].frame = EOS PROVE FALSE
      <3>1. k \in 1..Len(input) /\ Frame(EOS, Handled + k)
        BY <1>1, <1>3, <2>1, <2>5
      <3>2. Handled + k = acquired + 1
        BY <1>1, <1>2, <3>1 DEF Frame, EOS
      <3>3. k = Len(input)
        BY <1>1, <1>2, <2>1, <3>1, <3>2
      <3> QED
        BY <1>1, <1>3, <2>5, <3>3 DEF Unread
    <2> QED
      BY <2>2, <2>4, <2>5
  <1>7. pc # "dead" /\ Handled <= acquired => FramesRead = Handled
    BY <1>1, <1>2 DEF FramesRead
  <1>8. pc # "dead" /\ Handled > acquired => FramesRead = acquired
    BY <1>1, <1>2 DEF FramesRead
  <1> QED
    BY <1>1, <1>2, <1>3, <1>5, <1>6, <1>7, <1>8

\* A step that leaves the buffers' contents alone.
LEMMA SameFlow ==
    ASSUME UNCHANGED <<input, fdIn, out, acquired, encoded>>,
           dq = "push" <=> dq' = "push", pc # "dead", pc' # "dead"
    PROVE  UNCHANGED <<Waiting, FramesRead>>
  BY DEF Waiting, Unread, FramesRead, Handled

LEMMA FlowAtStart == Init => Flow!Init
  BY DEF Init, Flow!Init, Waiting, Unread, FramesRead, Handled, Phase

LEMMA CrashFlow ==
    ASSUME pc \in {"create", "acquire"}, Crash
    PROVE  Flow!Next
  <1>1. UNCHANGED <<input, fdIn, out, acquired, live>> /\ pc' = "dead"
    BY DEF Crash, consumerVars, planeVars
  <1>2. Waiting' = Waiting /\ FramesRead' = Len(out) /\ Phase = "open" /\ Phase' = "gone"
    BY <1>1 DEF Waiting, Unread, FramesRead, Phase
  <1> QED
    BY <1>1, <1>2 DEF Flow!Next, Flow!Die

\* A step that is none of the stream's, or only ends it.
LEMMA QuietFlow ==
    ASSUME UNCHANGED <<input, fdIn, out, acquired, encoded, live>>,
           dq = "push" <=> dq' = "push", pc # "dead", pc' # "dead",
           Phase' = Phase \/ (Phase = "open" /\ Phase' = "ending")
    PROVE  [Flow!Next]_(Flow!vars)
  <1>1. UNCHANGED <<Waiting, FramesRead>>
    BY SameFlow
  <1> QED
    BY <1>1 DEF Flow!Next, Flow!Finish, Flow!vars

LEMMA DequeueFlow == IInv /\ Dequeue => [Flow!Next]_(Flow!vars)
  <1> SUFFICES ASSUME IInv, Dequeue PROVE [Flow!Next]_(Flow!vars)
    OBVIOUS
  <1>1. CASE ~working /\ Goto("dequeue", "failed") /\ UNCHANGED <<consumerVars, planeVars, dqVars>>
    BY <1>1, QuietFlow DEF Goto, consumerVars, planeVars, dqVars, Phase
  <1>2. ASSUME Goto("dequeue", "acquire"), NEW i \in Indices, owner[i] = "done",
               live' = live \ {fdIn[i]}, UNCHANGED <<acquired, fdIn, input, encoded, dqVars>>
        PROVE  Flow!Release(fdIn[i]) /\ fdIn[i] \in Fds
    <2>1. ~Ended
      BY <1>2 DEF Ended, Goto
    <2>2. fdIn[i] \in live /\ fdIn[i] \in Fds
      BY <1>2, <2>1 DEF IInv, Buffers, Holding, Types
    <2>3. ASSUME NEW k \in 1..Unread PROVE Waiting[k] # fdIn[i]
      <3>1. k \in 1..Len(input) /\ Waiting[k] = fdIn[input[k].index]
        BY Seen
      <3>2. input[k].index \in Indices /\ owner[input[k].index] = "driver"
        BY <3>1, Elements, Entries DEF IInv, Types, Buffers, EntriesOwned
      <3> QED
        BY <1>2, <2>1, <3>1, <3>2 DEF IInv, Buffers, Holding
    <2>4. UNCHANGED <<Waiting, FramesRead>> /\ Phase = "open" /\ Phase' = "open"
      BY <1>2, SameFlow DEF Goto, dqVars, Phase
    <2>5. Len(Waiting) = Unread
      BY Seen
    <2> QED
      BY <1>2, <2>2, <2>3, <2>4, <2>5 DEF Flow!Release, Flow!Waits, dqVars
  <1> QED
    BY <1>1, <1>2 DEF Dequeue, Flow!Next

LEMMA AcquireFlow == IInv /\ Acquire => [Flow!Next]_(Flow!vars)
  <1> SUFFICES ASSUME IInv, Acquire PROVE [Flow!Next]_(Flow!vars)
    OBVIOUS
  <1>1. CASE pc = "acquire" /\ Crash
    BY <1>1, CrashFlow
  <1>2. CASE Goto("acquire", "eos") /\ UNCHANGED <<consumerVars, planeVars, dqVars>>
    BY <1>2, QuietFlow DEF Goto, consumerVars, planeVars, dqVars, Phase
  <1>3. ASSUME Goto("acquire", "queue"), acquired' = acquired + 1,
               UNCHANGED live \/ \E f \in Fds \ live : live' = live \cup {f},
               UNCHANGED <<fdIn, input, encoded, dqVars>>
        PROVE  Flow!Capture
    <2>1. Handled <= acquired /\ Handled \in Nat /\ acquired \in Nat
      BY <1>3, Seen DEF Goto, Ended
    <2>2. Handled' = Handled /\ Waiting' = Waiting
      BY <1>3 DEF Handled, Waiting, Unread, dqVars
    <2>3. FramesRead = Handled /\ FramesRead' = Handled
      BY <1>3, <2>1, <2>2 DEF FramesRead, Goto
    <2>4. Phase = "open" /\ Phase' = "open"
      BY <1>3 DEF Goto, Phase
    <2> QED
      BY <1>3, <2>2, <2>3, <2>4 DEF Flow!Capture, dqVars
  <1>4. CASE /\ acquired < MaxFrames /\ Goto("acquire", "queue") /\ acquired' = acquired + 1
             /\ \/ \E f \in Fds \ live : fd' = f /\ live' = live \cup {f}
                \/ fd' = NoFd /\ UNCHANGED live
             /\ UNCHANGED <<given, bufferIndex, index, planeVars, dqVars, working, m_gotError>>
    BY <1>3, <1>4 DEF planeVars, Flow!Next
  <1> QED
    BY <1>1, <1>2, <1>4 DEF Acquire

\* The buffer in hand is none of those with the encoder.
LEMMA InHand ==
    ASSUME IInv, pc \in {"queue", "eos"}, NEW k \in 1..Len(input)
    PROVE  input[k].index \in Indices /\ input[k].index # index
  <1>1. input[k].index \in Indices /\ owner[input[k].index] = "driver"
    BY Elements, Entries DEF IInv, Types, Buffers, EntriesOwned
  <1> QED
    BY <1>1 DEF IInv, Buffers, InUse

\* What the encoder is given waits behind the others; the end of the stream
\* does not wait.
LEMMA GivenFlow ==
    ASSUME IInv, pc \in {"queue", "eos"}, NEW n \in 0..MaxFrames, GiveToEncoder(n)
    PROVE  /\ n = EOS => Waiting' = Waiting
           /\ n # EOS => Waiting' = Append(Waiting, fd)
  <1>1. /\ ~Ended /\ pc # "dead" /\ Unread = Len(input) /\ Len(input) \in Nat
        /\ Waiting = [k \in 1..Len(input) |-> fdIn[input[k].index]]
        /\ Waiting \in Seq(Fds \cup {NoFd}) /\ Len(Waiting) = Len(input)
    BY Seen DEF Ended, Waiting
  <1> DEFINE e == [index |-> index, frame |-> n]
  <1>2. /\ input' = Append(input, e) /\ fdIn' = [fdIn EXCEPT ![index] = fd]
        /\ input \in Seq(Entry) /\ e \in Entry /\ e.index = index /\ e.frame = n
        /\ index \in Indices /\ fdIn \in [Indices -> Fds \cup {NoFd}] /\ fd \in Fds \cup {NoFd}
    BY Entries DEF GiveToEncoder, IInv, Types
  <1> HIDE DEF e
  <1>3. /\ Len(input') = Len(input) + 1 /\ input'[Len(input) + 1] = e
        /\ \A k \in 1..Len(input) : input'[k] = input[k]
    BY <1>2, AtEnd
  <1>4. fdIn'[index] = fd /\ \A k \in 1..Len(input) : fdIn'[input[k].index] = fdIn[input[k].index]
    BY <1>2, InHand
  <1>5. input' # <<>>
    BY <1>1, <1>3
  <1>6. CASE n = EOS
    <2>1. input'[Len(input')] = e /\ Len(input') - 1 = Len(input)
      BY <1>1, <1>3
    <2>2. Unread' = Len(input)
      BY <1>2, <1>5, <1>6, <2>1 DEF Unread
    <2>3. Waiting' = [k \in 1..Len(input) |-> fdIn'[input'[k].index]]
      BY <2>2 DEF Waiting
    <2>4. ASSUME NEW k \in 1..Len(input)
          PROVE  fdIn'[input'[k].index] = fdIn[input[k].index]
      BY <1>3, <1>4
    <2> QED
      BY <1>1, <1>6, <2>3, <2>4
  <1>7. CASE n # EOS
    <2>0. input'[Len(input')] = e
      BY <1>1, <1>3
    <2>1. Unread' = Len(input) + 1
      BY <1>2, <1>3, <1>5, <1>7, <2>0 DEF Unread
    <2>2. Waiting' = [k \in 1..(Len(input) + 1) |-> fdIn'[input'[k].index]]
      BY <2>1 DEF Waiting
    <2>3. /\ Append(Waiting, fd) = [k \in 1..(Len(input) + 1) |-> Append(Waiting, fd)[k]]
          /\ Append(Waiting, fd)[Len(input) + 1] = fd
          /\ \A k \in 1..Len(input) : Append(Waiting, fd)[k] = Waiting[k]
      BY <1>1, <1>2
    <2>4. ASSUME NEW k \in 1..(Len(input) + 1)
          PROVE  fdIn'[input'[k].index] = Append(Waiting, fd)[k]
      <3>1. CASE k = Len(input) + 1
        BY <1>2, <1>3, <1>4, <2>3, <3>1
      <3>2. CASE k \in 1..Len(input)
        BY <1>1, <1>3, <1>4, <2>3, <3>2
      <3> QED
        BY <1>1, <3>1, <3>2
    <2> QED
      BY <1>7, <2>2, <2>3, <2>4
  <1> QED
    BY <1>6, <1>7

LEMMA QueueFlow == IInv /\ Queue => [Flow!Next]_(Flow!vars)
  <1> SUFFICES ASSUME IInv, Queue PROVE [Flow!Next]_(Flow!vars)
    OBVIOUS
  <1>1. CASE Goto("queue", "failed") /\ UNCHANGED <<consumerVars, planeVars, dqVars>>
    BY <1>1, QuietFlow DEF Goto, consumerVars, planeVars, dqVars, Phase
  <1>2. CASE fd # NoFd /\ Goto("queue", "pick") /\ GiveToEncoder(acquired)
    <2>1. pc = "queue" /\ pc' = "pick" /\ Phase = "open" /\ Phase' = "open"
      BY <1>2 DEF Goto, Phase
    <2>2. acquired \in 0..MaxFrames /\ acquired # EOS
      BY <2>1 DEF IInv, Types, Order
    <2>3. Waiting' = Append(Waiting, fd)
      BY <1>2, <2>1, <2>2, GivenFlow
    <2>4. Handled' = Handled /\ UNCHANGED <<acquired, live, out>>
      BY <1>2 DEF GiveToEncoder, Handled, consumerVars, dqVars
    <2>5. /\ Handled + Len(Waiting) < acquired /\ Handled \in Nat /\ FramesRead = Handled
          /\ Len(Waiting) = Unread
      <3>1. Total + 1 = acquired /\ Total = Handled + Len(input)
        BY <2>1, Seen DEF IInv, Order, Total, Sent, Handled
      <3> QED
        BY <2>1, <3>1, Seen DEF Ended
    <2>6. FramesRead' = FramesRead
      BY <2>1, <2>4, <2>5 DEF FramesRead
    <2>7. fd \in live /\ fd \in Fds
      BY <1>2, <2>1 DEF IInv, Buffers, Holding, Types
    <2>8. ASSUME NEW k \in 1..Len(Waiting) PROVE Waiting[k] # fd
      <3>1. k \in 1..Len(input) /\ Waiting[k] = fdIn[input[k].index]
        BY Seen
      <3>2. input[k].index \in Indices /\ owner[input[k].index] = "driver"
        BY <3>1, Elements, Entries DEF IInv, Types, Buffers, EntriesOwned
      <3> QED
        BY <1>2, <2>1, <3>1, <3>2 DEF IInv, Buffers, Holding
    <2>9. Flow!HandOver(fd)
      BY <2>1, <2>3, <2>4, <2>5, <2>6, <2>7, <2>8 DEF Flow!HandOver, Flow!Waits
    <2> QED
      BY <2>7, <2>9 DEF Flow!Next
  <1> QED
    BY <1>1, <1>2 DEF Queue

LEMMA QueueEosFlow == IInv /\ QueueEos => [Flow!Next]_(Flow!vars)
  <1> SUFFICES ASSUME IInv, QueueEos PROVE [Flow!Next]_(Flow!vars)
    OBVIOUS
  <1>1. CASE Goto("eos", "failed") /\ UNCHANGED <<consumerVars, planeVars, dqVars>>
    BY <1>1, QuietFlow DEF Goto, consumerVars, planeVars, dqVars, Phase
  <1>2. CASE Goto("eos", "drain") /\ GiveToEncoder(EOS)
    <2>1. pc = "eos" /\ pc' = "drain" /\ Phase = "ending" /\ Phase' = "ending"
      BY <1>2 DEF Goto, Phase
    <2>2. Waiting' = Waiting
      BY <1>2, <2>1, GivenFlow, Constants
    <2>3. Handled' = Handled /\ UNCHANGED <<acquired, live, out>>
      BY <1>2 DEF GiveToEncoder, Handled, consumerVars, dqVars
    <2>4. FramesRead' = FramesRead
      BY <2>1, <2>3 DEF FramesRead
    <2> QED
      BY <2>1, <2>2, <2>3, <2>4 DEF Flow!vars
  <1> QED
    BY <1>1, <1>2 DEF QueueEos

LEMMA Emptiness == ASSUME NEW S, NEW s \in Seq(S) PROVE s # <<>> => Len(s) >= 1
  OBVIOUS

LEMMA TailIs ==
    ASSUME NEW S, NEW s \in Seq(S), s # <<>>
    PROVE  Tail(s) = [i \in 1..(Len(s) - 1) |-> s[i + 1]] /\ Head(s) = s[1]
  <1> DEFINE t == Tail(s)
  <1>1. t \in Seq(S) /\ Len(t) = Len(s) - 1 /\ \A i \in 1..Len(t) : t[i] = s[i + 1]
    BY AtFront
  <1> HIDE DEF t
  <1>2. t = [i \in 1..(Len(s) - 1) |-> s[i + 1]]
    BY <1>1
  <1> QED
    BY <1>2, AtFront DEF t

\* No frame is numbered beyond those acquired, and the encoder of a process
\* that is gone does nothing.
Bounded == /\ held <= acquired
           /\ \A k \in 1..Len(encoded) : encoded[k] <= acquired
           /\ \A k \in 1..Len(input) : input[k].frame <= acquired
Stopped == pc = "dead" => ~working
FlowInv == IInv /\ Bounded /\ Stopped

LEMMA StoppedStep == Stopped /\ [Next]_vars => Stopped'
  <1> SUFFICES ASSUME Stopped, [Next]_vars PROVE Stopped'
    OBVIOUS
  <1>1. CASE (pc' = "dead" => pc = "dead") /\ (working' => working)
    BY <1>1 DEF Stopped
  <1>2. CASE pc' # "dead"
    BY <1>2 DEF Stopped
  <1>3. CASE Crash
    BY <1>3 DEF Crash, Stopped
  <1>4. CASE DqThread \/ Encode \/ EncoderFails
    BY <1>1, <1>4 DEF DqThread, Dequeued, PushOut, Requeue, Encode, EncoderFails, Abort
  <1>5. CASE Consumer
    BY <1>2, <1>3, <1>5 DEF Consumer, Create, Give, Pick, Dequeue, Acquire,
       Queue, QueueEos, Drain, Goto
  <1>6. CASE UNCHANGED vars
    BY <1>1, <1>6 DEF vars
  <1> QED
    BY <1>4, <1>5, <1>6 DEF Next

LEMMA BoundedStep == Types /\ Bounded /\ [Next]_vars => Bounded'
  <1> SUFFICES ASSUME Types, Bounded, [Next]_vars PROVE Bounded'
    OBVIOUS
  <1>1. acquired \in Nat /\ Len(input) \in Nat /\ Len(encoded) \in Nat
    BY Lengths
  <1>2. CASE UNCHANGED <<held, encoded, input, acquired>>
    BY <1>2 DEF Bounded
  <1>3. CASE acquired' = acquired + 1 /\ UNCHANGED <<held, encoded, input>>
    <2>1. /\ held \in Nat /\ \A k \in 1..Len(encoded) : encoded[k] \in Nat
          /\ \A k \in 1..Len(input) : input[k].frame \in Nat
      <3>1. 0..MaxFrames \subseteq Nat
        BY Constants
      <3>2. held \in Nat /\ \A k \in 1..Len(encoded) : encoded[k] \in Nat
        BY <3>1, Elements DEF Types
      <3>3. \A k \in 1..Len(input) : input[k] \in Entry
        BY Elements DEF Types
      <3>4. \A k \in 1..Len(input) : input[k].frame \in Nat
        BY <3>1, <3>3, Entries
      <3> QED
        BY <3>2, <3>4
    <2> QED
      BY <1>1, <1>3, <2>1 DEF Bounded
  <1>4. ASSUME NEW n \in {EOS, acquired}, GiveToEncoder(n) PROVE Bounded'
    <2>1. /\ n <= acquired /\ n \in 0..MaxFrames
          /\ [index |-> index, frame |-> n] \in Entry
          /\ [index |-> index, frame |-> n].frame = n
      BY <1>1, Constants, Entries DEF Types, EOS
    <2>2. input' = Append(input, [index |-> index, frame |-> n])
      BY <1>4 DEF GiveToEncoder
    <2>3. /\ Len(input') = Len(input) + 1
          /\ \A k \in 1..Len(input) : input'[k] = input[k]
          /\ input'[Len(input) + 1].frame = n
      BY <2>1, <2>2, AtEnd DEF Types
    <2>4. UNCHANGED <<held, encoded, acquired>>
      BY <1>4 DEF GiveToEncoder, consumerVars, dqVars
    <2>5. ASSUME NEW k \in 1..Len(input') PROVE input'[k].frame <= acquired
      <3>1. CASE k \in 1..Len(input)
        BY <2>3, <3>1 DEF Bounded
      <3>2. CASE k = Len(input) + 1
        BY <2>1, <2>3, <3>2
      <3> QED
        BY <1>1, <2>3, <3>1, <3>2
    <2> QED
      BY <2>4, <2>5 DEF Bounded
  <1>5. CASE Encode
    <2>1. /\ Len(input) >= 1 /\ Head(input) = input[1] /\ Len(input') = Len(input) - 1
          /\ \A k \in 1..Len(input') : input'[k] = input[k + 1]
          /\ input[1].frame \in 0..MaxFrames
      BY <1>5, AtFront, Elements, Entries DEF Encode, Types
    <2> DEFINE n == input[1].frame
    <2>2. n <= acquired /\ encoded' = Append(encoded, n) /\ encoded \in Seq(0..MaxFrames)
      BY <1>1, <1>5, <2>1 DEF Encode, Bounded, Types
    <2>3. /\ Len(encoded') = Len(encoded) + 1 /\ encoded'[Len(encoded) + 1] = n
          /\ \A k \in 1..Len(encoded) : encoded'[k] = encoded[k]
      BY <2>1, <2>2, AtEnd
    <2> HIDE DEF n
    <2>4. UNCHANGED <<held, acquired>>
      BY <1>5 DEF Encode, consumerVars, dqVars
    <2>5. ASSUME NEW k \in 1..Len(encoded') PROVE encoded'[k] <= acquired
      <3>1. CASE k \in 1..Len(encoded)
        BY <2>3, <3>1 DEF Bounded
      <3>2. CASE k = Len(encoded) + 1
        BY <2>2, <2>3, <3>2
      <3> QED
        BY <1>1, <2>3, <3>1, <3>2
    <2>6. ASSUME NEW k \in 1..Len(input') PROVE input'[k].frame <= acquired
      <3>1. k + 1 \in 1..Len(input)
        BY <1>1, <2>1
      <3> QED
        BY <2>1, <3>1 DEF Bounded
    <2> QED
      BY <2>4, <2>5, <2>6 DEF Bounded
  <1>6. CASE held' = Head(encoded) /\ encoded' = Tail(encoded) /\ encoded # <<>>
             /\ UNCHANGED <<input, acquired>>
    <2>1. /\ Len(encoded) >= 1 /\ held' = encoded[1] /\ Len(encoded') = Len(encoded) - 1
          /\ \A k \in 1..Len(encoded') : encoded'[k] = encoded[k + 1]
      BY <1>6, AtFront DEF Types
    <2>2. held' <= acquired
      BY <2>1, <1>1 DEF Bounded
    <2>3. ASSUME NEW k \in 1..Len(encoded') PROVE encoded'[k] <= acquired
      <3>1. k + 1 \in 1..Len(encoded)
        BY <1>1, <2>1
      <3> QED
        BY <2>1, <3>1 DEF Bounded
    <2> QED
      BY <1>6, <2>2, <2>3 DEF Bounded
  <1>7. CASE Acquire
    BY <1>2, <1>3, <1>7 DEF Acquire, Crash, consumerVars, planeVars, dqVars
  <1>8. CASE Queue \/ QueueEos
    BY <1>2, <1>4, <1>8 DEF Queue, QueueEos, consumerVars, planeVars, dqVars
  <1>9. CASE Create \/ Give \/ Pick \/ Dequeue \/ Drain
    BY <1>2, <1>9 DEF Create, Give, Pick, Dequeue, Drain, Crash, consumerVars,
       planeVars, dqVars
  <1>10. CASE DqThread \/ EncoderFails
    BY <1>2, <1>6, <1>10 DEF DqThread, Dequeued, PushOut, Requeue, EncoderFails,
       consumerVars, planeVars, dqVars
  <1>11. CASE UNCHANGED vars
    BY <1>2, <1>11 DEF vars, consumerVars, planeVars, dqVars
  <1> QED
    BY <1>5, <1>7, <1>8, <1>9, <1>10, <1>11 DEF Next, Consumer

LEMMA FlowInvariant == Spec => []FlowInv
  <1>1. Init => Bounded /\ Stopped
    BY DEF Init, Bounded, Stopped, EOS
  <1>2. IInv => Types
    BY DEF IInv
  <1> QED
    BY <1>1, <1>2, BoundedStep, StoppedStep, Invariant, PTL DEF Spec, FlowInv

\* The encoder reads the frame that has waited longest, or the end of the stream.
LEMMA EncodeFlow == FlowInv /\ Encode => [Flow!Next]_(Flow!vars)
  <1> SUFFICES ASSUME FlowInv, Encode PROVE [Flow!Next]_(Flow!vars)
    OBVIOUS
  <1>0. IInv /\ Bounded /\ Stopped
    BY DEF FlowInv
  <1> DEFINE n == input[1].frame
  <1>1. /\ input # <<>> /\ input' = Tail(input)
        /\ encoded' = Append(encoded, Head(input).frame)
        /\ pc # "dead" /\ UNCHANGED <<pc, dq, out, acquired, fdIn, live>>
    BY <1>0 DEF Encode, consumerVars, dqVars, Stopped
  <1>2. /\ Len(input) \in Nat /\ Len(input) >= 1 /\ Head(input) = input[1] /\ n \in 0..MaxFrames
        /\ Len(input') = Len(input) - 1
        /\ \A k \in 1..Len(input') : input'[k] = input[k + 1]
    BY <1>0, <1>1, AtFront, Entries, Elements DEF IInv, Types
  <1>9. Len(input') >= 1 => input' # <<>>
    OBVIOUS
  <1>10. input' # <<>> => Len(input') >= 1
    BY <1>0, <1>1, AtFront, Emptiness DEF IInv, Types
  <1> HIDE DEF n
  <1>3. Len(encoded') = Len(encoded) + 1
    BY <1>0, <1>1, <1>2, AtEnd DEF n, IInv, Types
  <1>4. Handled' = Handled + 1 /\ Handled \in Nat /\ acquired \in Nat /\ Unread \in Nat
    <2>1. /\ Handled \in Nat /\ acquired \in Nat /\ Unread \in Nat
          /\ Len(out) \in Nat /\ Len(encoded) \in Nat
      BY <1>0, Seen
    <2> DEFINE w == IF dq = "push" THEN 1 ELSE 0
    <2>2. Handled = (Len(out) + w) + Len(encoded) /\ w \in Nat
      BY DEF Handled
    <2>3. Handled' = (Len(out) + w) + (Len(encoded) + 1)
      BY <1>1, <1>3 DEF Handled
    <2> HIDE DEF w
    <2> QED
      BY <2>1, <2>2, <2>3
  <1>5. Phase' = Phase /\ Phase # "gone"
    BY <1>1 DEF Phase
  <1>6. Frame(n, Handled + 1) /\ Handled + Len(input) <= acquired + 1
    <2>1. 1 \in 1..Len(input) /\ Handled = Sent + Len(encoded) /\ Total = Handled + Len(input)
      BY <1>2 DEF Handled, Sent, Total
    <2> QED
      BY <1>0, <1>1, <1>2, <1>4, <2>1 DEF n, IInv, Order
  <1>7. CASE Len(input) = 1 /\ n = EOS
    <2>1. Unread = 0 /\ Unread' = 0
      <3>1. input[Len(input)].frame = n /\ input' = <<>>
        BY <1>2, <1>7, <1>10 DEF n
      <3> QED
        BY <1>1, <1>2, <1>7, <3>1 DEF Unread
    <2>2. Waiting' = Waiting
      BY <2>1 DEF Waiting
    <2>3. Handled + 1 = acquired + 1
      BY <1>4, <1>6, <1>7 DEF Frame, EOS
    <2>4. FramesRead = acquired /\ FramesRead' = acquired
      BY <1>1, <1>4, <2>3 DEF FramesRead
    <2> QED
      BY <1>1, <1>5, <2>2, <2>4 DEF Flow!vars
  <1>8. CASE ~(Len(input) = 1 /\ n = EOS)
    <2>1. n # EOS
      <3>1. CASE n = EOS
        <4>1. Handled + 1 = acquired + 1
          BY <1>4, <1>6, <3>1 DEF Frame, EOS
        <4> QED
          BY <1>2, <1>4, <1>6, <1>8, <3>1, <4>1
      <3> QED
        BY <3>1
    <2>2. Unread' = Unread - 1 /\ Unread >= 1
      <3>1. CASE Len(input) = 1
        <4>1. Unread = 1 /\ Unread' = 0
          <5>1. input[Len(input)].frame = n /\ input' = <<>>
            BY <1>2, <1>10, <3>1 DEF n
          <5> QED
            BY <1>1, <1>2, <2>1, <3>1, <5>1 DEF Unread
        <4> QED
          BY <4>1
      <3>2. CASE Len(input) # 1
        <4>1. input' # <<>> /\ input'[Len(input')] = input[Len(input)]
          BY <1>2, <3>2
        <4> QED
          BY <1>1, <1>2, <3>2, <4>1 DEF Unread
      <3> QED
        BY <3>1, <3>2
    <2>3. /\ Waiting \in Seq(Fds \cup {NoFd}) /\ Len(Waiting) = Unread /\ Waiting # <<>>
          /\ \A k \in 1..Unread : Waiting[k] = fdIn[input[k].index]
      BY <1>0, <2>2, Seen
    <2>4. Waiting' = Tail(Waiting) /\ Head(Waiting) = Waiting[1]
      <3>1. Waiting' = [k \in 1..(Unread - 1) |-> fdIn'[input'[k].index]]
        BY <2>2 DEF Waiting
      <3>2. /\ Tail(Waiting) = [k \in 1..(Unread - 1) |-> Waiting[k + 1]]
            /\ Head(Waiting) = Waiting[1]
        <4> HIDE DEF Waiting
        <4> QED
          BY <2>3, TailIs
      <3>3. ASSUME NEW k \in 1..(Unread - 1)
            PROVE  fdIn'[input'[k].index] = Waiting[k + 1]
        <4>1. k \in 1..Len(input') /\ k + 1 \in 1..Unread
          BY <1>0, <1>2, <1>4, Seen
        <4> QED
          BY <1>1, <1>2, <2>3, <4>1
      <3> QED
        BY <3>1, <3>2, <3>3
    <2>5. Head(Waiting) \in live
      <3>1. 1 \in 1..Unread /\ 1 \in 1..Len(input)
        BY <1>2, <1>4, <2>2
      <3> QED
        BY <1>0, <2>1, <2>3, <2>4, <3>1 DEF n, IInv, Buffers, Reads
    <2>6. Handled + 1 <= acquired
      BY <1>0, <1>2, <1>4, <1>6, <2>1 DEF n, Frame, Bounded
    <2>7. FramesRead = Handled /\ FramesRead' = Handled + 1
      BY <1>1, <1>4, <2>6 DEF FramesRead
    <2> QED
      BY <1>1, <1>5, <2>3, <2>4, <2>5, <2>7 DEF Flow!Next, Flow!Read
  <1> QED
    BY <1>7, <1>8

LEMMA DequeuedFlow == IInv /\ Dequeued => [Flow!Next]_(Flow!vars)
  <1> SUFFICES ASSUME IInv, Dequeued PROVE [Flow!Next]_(Flow!vars)
    OBVIOUS
  <1>1. pc # "dead"
    BY DEF Dequeued, IInv, Order
  <1>2. CASE /\ dq = "wait" /\ encoded # <<>> /\ dq' = "push" /\ encoded' = Tail(encoded)
             /\ UNCHANGED <<pc, consumerVars, fdIn, input, out>>
    <2>1. Len(encoded') = Len(encoded) - 1
      BY <1>2, AtFront DEF IInv, Types
    <2>2. Handled' = Handled
      BY <1>2, <2>1, Seen DEF Handled
    <2>3. UNCHANGED <<Waiting, FramesRead, Phase>>
      BY <1>2, <2>2 DEF Waiting, Unread, FramesRead, Phase, consumerVars
    <2> QED
      BY <1>2, <2>3 DEF Flow!vars, consumerVars
  <1>3. CASE dq' = "stopped" /\ dq = "wait" /\ UNCHANGED <<pc, consumerVars, planeVars, out>>
    BY <1>1, <1>3, QuietFlow DEF consumerVars, planeVars, Phase
  <1> QED
    BY <1>2, <1>3 DEF Dequeued

LEMMA PushOutFlow == FlowInv /\ PushOut => [Flow!Next]_(Flow!vars)
  <1> SUFFICES ASSUME FlowInv, PushOut PROVE [Flow!Next]_(Flow!vars)
    OBVIOUS
  <1>0. IInv /\ Bounded /\ Stopped
    BY DEF FlowInv
  <1>1. /\ dq = "push" /\ dq' = "requeue" /\ out' = Append(out, held) /\ pc # "dead"
        /\ UNCHANGED <<pc, held, encoded, input, acquired, fdIn, live>>
    BY <1>0 DEF PushOut, consumerVars, planeVars, IInv, Order
  <1>2. Len(out') = Len(out) + 1 /\ Len(out) \in Nat /\ Len(encoded) \in Nat
    BY <1>0, <1>0, <1>1, AtEnd, Seen DEF IInv, Types
  <1>3. Handled' = Handled /\ Handled >= Len(out) + 1 /\ Handled \in Nat /\ acquired \in Nat
    BY <1>0, <1>1, <1>2, Seen DEF Handled
  <1>4. UNCHANGED <<Waiting, FramesRead, Phase>>
    BY <1>1, <1>3 DEF Waiting, Unread, FramesRead, Phase
  <1>5. Phase # "gone" /\ (Ended => Phase = "ending") /\ Frame(held, Len(out) + 1)
    BY <1>0, <1>1 DEF Phase, Ended, IInv, Order
  <1>6. CASE held = Len(out) + 1 /\ Len(out) + 1 <= acquired
    <2>1. Len(out) < FramesRead
      BY <1>1, <1>2, <1>3, <1>6 DEF FramesRead
    <2> QED
      BY <1>1, <1>4, <1>5, <1>6, <2>1 DEF Flow!Next, Flow!ComeOut
  <1>7. CASE ~(held = Len(out) + 1 /\ Len(out) + 1 <= acquired)
    <2>1. Handled <= acquired + 1
      BY <1>0, <1>1, Seen
    <2>2. held = EOS /\ Ended /\ Len(out) = acquired
      <3>1. held # Len(out) + 1
        BY <1>0, <1>2, <1>3, <1>7 DEF Bounded
      <3> QED
        BY <1>2, <1>3, <1>5, <3>1 DEF Frame
    <2>3. FramesRead = acquired
      BY <1>1, <1>2, <1>3, <2>2 DEF FramesRead
    <2> QED
      BY <1>1, <1>4, <1>5, <2>2, <2>3 DEF Flow!Next, Flow!ComeLast, EOS
  <1> QED
    BY <1>6, <1>7

LEMMA FlowStep == FlowInv /\ [Next]_vars => [Flow!Next]_(Flow!vars)
  <1> SUFFICES ASSUME FlowInv, [Next]_vars PROVE [Flow!Next]_(Flow!vars)
    OBVIOUS
  <1>0. IInv
    BY DEF FlowInv
  <1> USE DEF consumerVars, planeVars, dqVars, Phase
  <1>1. CASE Create
    <2>1. CASE pc = "create" /\ Crash
      BY <2>1, CrashFlow
    <2>2. CASE Goto("create", "give") /\ dq' = "wait" /\ UNCHANGED <<consumerVars, planeVars, out>>
      BY <1>0, <2>2, QuietFlow DEF Goto, IInv, Order
    <2> QED
      BY <1>1, <2>1, <2>2 DEF Create
  <1>2. CASE Give
    BY <1>2, QuietFlow DEF Give, Goto
  <1>3. CASE Pick
    BY <1>3, QuietFlow DEF Pick, Goto
  <1>4. CASE Drain
    BY <1>4, QuietFlow DEF Drain, Goto
  <1>5. CASE EncoderFails \/ Requeue
    <2>1. pc # "dead"
      BY <1>0, <1>5 DEF FlowInv, Stopped, EncoderFails, Requeue, IInv, Order
    <2>2. /\ UNCHANGED <<pc, input, fdIn, out, acquired, encoded, live>>
          /\ dq = "push" <=> dq' = "push"
      BY <1>5 DEF EncoderFails, Requeue
    <2> QED
      BY <2>1, <2>2, QuietFlow
  <1>6. CASE UNCHANGED vars
    BY <1>6 DEF vars, Flow!vars, Waiting, Unread, FramesRead, Handled
  <1> QED
    BY <1>0, <1>1, <1>2, <1>3, <1>4, <1>5, <1>6, DequeueFlow, AcquireFlow, QueueFlow,
       QueueEosFlow, EncodeFlow, DequeuedFlow, PushOutFlow
    DEF Next, Consumer, DqThread

(* Frames go from camera to queue as FrameFlow says, whatever the threads    *)
(* and the encoder do, for any numbers of buffers, dmabufs and frames.       *)
THEOREM FramesFlow == Spec => ImplementsFrameFlow
  BY FlowAtStart, FlowStep, FlowInvariant, PTL
  DEF Spec, ImplementsFrameFlow, Flow!Spec
=============================================================================
