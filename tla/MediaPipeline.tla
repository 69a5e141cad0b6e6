--------------------------- MODULE MediaPipeline ---------------------------
(***************************************************************************)
(* The three queues between capture and push, and the five threads on them:*)
(*                                                                         *)
(*   enc  --video-->  vid          encoder callback, video pushing thread  *)
(*   pa   --pcm-->  faac  --aac-->  aud      PulseAudio callback, AAC       *)
(*                                 encoding thread, audio pushing thread   *)
(*                                                                         *)
(* (src/src/ConsumerThreadTool.cpp, libpcm_aac.cpp, main.cpp and           *)
(* rtmp_push_librtmp.cpp).  A queue is a std::queue with a mutex, but a    *)
(* consumer tests its size without the mutex, so the test may meet a push  *)
(* in the middle and read any size.  Sending is one step here: the link is *)
(* RtmpLink's subject, which shows when a send returns.                    *)
(***************************************************************************)
EXTENDS Naturals, Sequences

CONSTANTS MaxBuffers,   \* bound: buffers the video encoder puts out
          MaxChunks     \* bound: chunks of PCM the microphone gives
ASSUME BoundsAssumption == MaxBuffers \in Nat /\ MaxChunks \in Nat

Queues == {"video", "pcm", "aac"}
Threads == {"enc", "pa", "faac", "vid", "aud"}
Producer == [video |-> "enc", pcm |-> "pa", aac |-> "faac"]
Consumer == [video |-> "vid", pcm |-> "faac", aac |-> "aud"]

VARIABLES
    pc,         \* [Threads -> Labels]
    unit,       \* the unit in each thread's hands
    queue,      \* the queues, pcm_cache_queue and the rest
    lock,       \* who holds each queue's mutex
    get_audio,  \* set once the microphone has given data
    made,       \* how many units each queue's producer has put together
    settled,    \* how many of them its consumer is done with
    out,        \* those it handed on: sent, or encoded for the pcm queue
    gated,      \* video units dropped because get_audio was not set
    leaked      \* video units whose memory is never freed

vars == <<pc, unit, queue, lock, get_audio, made, settled, out, gated,
          leaked>>

\* A buffer of the video encoder holds a slice, holds none, or is the empty
\* one that ends the stream.
Kinds == {"slice", "noslice", "empty"}
NoUnit == [id |-> 0, kind |-> "slice"]
\* (a frame of AAC needs a chunk of PCM)
Bound == [video |-> MaxBuffers, pcm |-> MaxChunks, aac |-> MaxChunks]
Units == [id : 0..(MaxBuffers + MaxChunks), kind : Kinds]
Labels == {"idle", "lock", "push", "wait", "pop", "work", "send", "stopped"}

TypeOK == /\ pc \in [Threads -> Labels]
          /\ unit \in [Threads -> Units]
          /\ queue \in [Queues -> Seq(Units)]
          /\ lock \in [Queues -> Threads \cup {"nobody"}]
          /\ get_audio \in BOOLEAN
          /\ made \in [Queues -> Nat] /\ settled \in [Queues -> Nat]
          /\ \A q \in Queues : settled[q] <= made[q] /\ made[q] <= Bound[q]
          /\ out \in [Queues -> Seq(Nat)]
          /\ gated \subseteq 1..MaxBuffers
          /\ leaked \subseteq 1..MaxBuffers

Init == /\ pc = [t \in Threads |-> "idle"]
        /\ unit = [t \in Threads |-> NoUnit]
        /\ queue = [q \in Queues |-> <<>>]
        /\ lock = [q \in Queues |-> "nobody"]
        /\ get_audio = FALSE
        /\ made = [q \in Queues |-> 0]
        /\ settled = [q \in Queues |-> 0]
        /\ out = [q \in Queues |-> <<>>]
        /\ gated = {}
        /\ leaked = {}

Goto(t, from, to) == pc[t] = from /\ pc' = [pc EXCEPT ![t] = to]

\* The producer of q has the next unit and heads for q's mutex.
Make(q, kind, from) ==
    /\ made' = [made EXCEPT ![q] = @ + 1]
    /\ unit' = [unit EXCEPT ![Producer[q]] = [id |-> made[q] + 1,
                                              kind |-> kind]]
    /\ Goto(Producer[q], from, "lock")

\* The consumer of q is done with its unit; handed says that it was passed on.
Settle(q, handed) ==
    /\ settled' = [settled EXCEPT ![q] = @ + 1]
    /\ out' = IF handed
              THEN [out EXCEPT ![q] = Append(@, unit[Consumer[q]].id)]
              ELSE out

-----------------------------------------------------------------------------
(* The producers' and the consumers' common part, on queue q.               *)

LockToPush(q) == /\ lock[q] = "nobody"
                 /\ lock' = [lock EXCEPT ![q] = Producer[q]]
                 /\ Goto(Producer[q], "lock", "push")
                 /\ UNCHANGED <<unit, queue, get_audio, made, settled, out,
                                gated, leaked>>

\* (Mutant: the callback returns without unlocking when the encoder stops.)
PushKeepsLock(q) ==
    /\ queue' = [queue EXCEPT ![q] = Append(@, unit[Producer[q]])]
    /\ \/ /\ Goto(Producer[q], "push", "idle")
          /\ lock' = [lock EXCEPT ![q] = "nobody"]
       \/ /\ q = "video"
          /\ Goto("enc", "push", "stopped")
          /\ UNCHANGED lock
    /\ unit' = [unit EXCEPT ![Producer[q]] = NoUnit]
    /\ UNCHANGED <<get_audio, made, settled, out, gated, leaked>>

\* (Mutant: the callback does not stop after the empty buffer.)
PushGoesOn(q) ==
    /\ queue' = [queue EXCEPT ![q] = Append(@, unit[Producer[q]])]
    /\ lock' = [lock EXCEPT ![q] = "nobody"]
    /\ unit' = [unit EXCEPT ![Producer[q]] = NoUnit]
    /\ Goto(Producer[q], "push", "idle")
    /\ UNCHANGED <<get_audio, made, settled, out, gated, leaked>>

\* The push is complete and the mutex is released.  The encoder's callback
\* stops its thread after the empty buffer, or if the buffer cannot be given
\* back to the encoder.
Push(q) ==
    /\ queue' = [queue EXCEPT ![q] = Append(@, unit[Producer[q]])]
    /\ lock' = [lock EXCEPT ![q] = "nobody"]
    /\ unit' = [unit EXCEPT ![Producer[q]] = NoUnit]
    /\ \/ /\ q = "video" => unit["enc"].kind # "empty"
          /\ Goto(Producer[q], "push", "idle")
       \/ /\ q = "video"
          /\ Goto("enc", "push", "stopped")
    /\ UNCHANGED <<get_audio, made, settled, out, gated, leaked>>

\* size() without the mutex: while a push is under way it may say anything.
Poll(q) == /\ queue[q] # <<>> \/ pc[Producer[q]] = "push"
           /\ Goto(Consumer[q], "idle", "wait")
           /\ UNCHANGED <<unit, queue, lock, get_audio, made, settled, out,
                          gated, leaked>>

\* (Mutant: the consumer does not wait for the mutex.)
LockToPopNot(q) == /\ Goto(Consumer[q], "wait", "pop")
                   /\ UNCHANGED <<unit, queue, lock, get_audio, made, settled,
                                  out, gated, leaked>>

LockToPop(q) == /\ lock[q] = "nobody"
                /\ lock' = [lock EXCEPT ![q] = Consumer[q]]
                /\ Goto(Consumer[q], "wait", "pop")
                /\ UNCHANGED <<unit, queue, get_audio, made, settled, out,
                               gated, leaked>>

\* (Mutant: front() without pop().)
PopNot(q) == /\ Goto(Consumer[q], "pop", "work")
             /\ unit' = [unit EXCEPT ![Consumer[q]] = Head(queue[q])]
             /\ lock' = [lock EXCEPT ![q] = "nobody"]
             /\ UNCHANGED <<queue, get_audio, made, settled, out, gated,
                            leaked>>

Pop(q) == /\ Goto(Consumer[q], "pop", "work")
          /\ unit' = [unit EXCEPT ![Consumer[q]] = Head(queue[q])]
          /\ queue' = [queue EXCEPT ![q] = Tail(@)]
          /\ lock' = [lock EXCEPT ![q] = "nobody"]
          /\ UNCHANGED <<get_audio, made, settled, out, gated, leaked>>

-----------------------------------------------------------------------------
(* The producers' own part.                                                 *)

\* The encoder's callback copies a buffer of encoded video.
Capture == /\ made["video"] < MaxBuffers
           /\ \E k \in Kinds : Make("video", k, "idle")
           /\ UNCHANGED <<queue, lock, get_audio, settled, out, gated, leaked>>

\* The callback is given no buffer: the encoder failed.
CaptureFails == /\ Goto("enc", "idle", "stopped")
                /\ UNCHANGED <<unit, queue, lock, get_audio, made, settled,
                               out, gated, leaked>>

\* The PulseAudio callback reads a fragment; it may complete a chunk.
Hear == /\ get_audio' = TRUE
        /\ \/ made["pcm"] < MaxChunks /\ Make("pcm", "slice", "idle")
           \/ pc["pa"] = "idle" /\ ~get_audio /\ UNCHANGED <<pc, unit, made>>
        /\ UNCHANGED <<queue, lock, settled, out, gated, leaked>>

-----------------------------------------------------------------------------
(* The consumers' own part.                                                 *)

\* faacEncEncode gives a frame, which the callback copies and pushes, or
\* gives none (its first chunks, or an error) and the chunk is dropped.
Encode == /\ \/ Make("aac", "slice", "work") /\ Settle("pcm", TRUE)
             \/ /\ Goto("faac", "work", "idle")
                /\ unit' = [unit EXCEPT !["faac"] = NoUnit]
                /\ Settle("pcm", FALSE)
                /\ UNCHANGED made
          /\ UNCHANGED <<queue, lock, get_audio, gated, leaked>>

\* (Mutant: the gate closes again.)
DiscardAny == /\ gated' = gated \cup {unit["vid"].id}
              /\ Goto("vid", "work", "idle")
              /\ unit' = [unit EXCEPT !["vid"] = NoUnit]
              /\ Settle("video", FALSE)
              /\ UNCHANGED <<queue, lock, get_audio, made, leaked>>

\* A video unit is freed unsent until the microphone has given data.
Discard == /\ Goto("vid", "work", "idle")
           /\ ~get_audio
           /\ gated' = gated \cup {unit["vid"].id}
           /\ unit' = [unit EXCEPT !["vid"] = NoUnit]
           /\ Settle("video", FALSE)
           /\ UNCHANGED <<queue, lock, get_audio, made, leaked>>

\* The parser refuses an empty buffer, which is then not even freed.
Parse == /\ get_audio
         /\ \/ /\ unit["vid"].kind = "empty"
               /\ Goto("vid", "work", "idle")
               /\ leaked' = leaked \cup {unit["vid"].id}
               /\ unit' = [unit EXCEPT !["vid"] = NoUnit]
               /\ Settle("video", FALSE)
            \/ /\ unit["vid"].kind # "empty"
               /\ Goto("vid", "work", "send")
               /\ UNCHANGED <<unit, settled, out, leaked>>
         /\ UNCHANGED <<queue, lock, get_audio, made, gated>>

\* A pushing thread waits for the other's flag and sends; the packet is
\* delivered or lost, and a unit without a slice is refused.
Send(t, q, from) ==
    /\ \E handed \in {FALSE, unit[t].kind = "slice"} : Settle(q, handed)
    /\ Goto(t, from, "idle")
    /\ unit' = [unit EXCEPT ![t] = NoUnit]
    /\ UNCHANGED <<queue, lock, get_audio, made, gated, leaked>>

SendVideo == Send("vid", "video", "send")
SendAudio == Send("aud", "aac", "work")

-----------------------------------------------------------------------------
Produce(q) == LockToPush(q) \/ Push(q)
Consume(q) == Poll(q) \/ LockToPop(q) \/ Pop(q)

Run(t) == \/ \E q \in Queues : \/ Producer[q] = t /\ Produce(q)
                               \/ Consumer[q] = t /\ Consume(q)
          \/ t = "faac" /\ Encode
          \/ t = "vid" /\ (Discard \/ Parse \/ SendVideo)
          \/ t = "aud" /\ SendAudio

Next == Capture \/ CaptureFails \/ Hear \/ \E t \in Threads : Run(t)

Spec == Init /\ [][Next]_vars

\* A thread takes its next step; whether data is captured is left open.
Fairness == \A t \in Threads : WF_vars(Run(t))
FairSpec == Spec /\ Fairness

-----------------------------------------------------------------------------
(* A consumer never takes front() of an empty queue, although it tested the *)
(* size without the mutex, possibly in the middle of a push.                *)
PopNonEmpty == \A q \in Queues : pc[Consumer[q]] = "pop" => queue[q] # <<>>

(* No queue is pushed to and popped from at the same time.                  *)
QueueRaceFree == \A q \in Queues :
                    ~(pc[Producer[q]] = "push" /\ pc[Consumer[q]] = "pop")

(* The size tests made without the mutex do no harm: a pop finds a unit, and*)
(* meets no push.  (LibRtmpPushVideoFun, LibRtmpPushAudioFun, the encoding  *)
(* thread)                                                                  *)
QueueSafe == PopNonEmpty /\ QueueRaceFree

(* The get_audio gate opens once: video dropped because the microphone was  *)
(* silent precedes all video sent, and nothing is sent before it spoke.     *)
GateOpensOnce ==
    /\ out["video"] # <<>> => get_audio
    /\ \A d \in gated, i \in DOMAIN out["video"] : d < out["video"][i]

(* The buffer the pushing thread forgets to free is the encoder's last: the *)
(* forgotten one is empty, and the encoder stops after an empty buffer.     *)
LeaksOnlyTheLast == leaked \subseteq {made["video"]}

(* Every queue is worked off: what a producer puts together is settled by   *)
(* the consumer in the end, the last before the encoder stops included.     *)
AllSettled == \A q \in Queues : (settled[q] # made[q]) ~> (settled[q] = made[q])

(* Each queue keeps its promise: units are settled in the order they were   *)
(* made, each exactly once.                                                 *)
Video == INSTANCE MediaChannel WITH captured <- made["video"],
            settled <- settled["video"], out <- out["video"]
Pcm == INSTANCE MediaChannel WITH captured <- made["pcm"],
            settled <- settled["pcm"], out <- out["pcm"]
Aac == INSTANCE MediaChannel WITH captured <- made["aac"],
            settled <- settled["aac"], out <- out["aac"]
ImplementsChannels == Video!Spec /\ Pcm!Spec /\ Aac!Spec
=============================================================================
