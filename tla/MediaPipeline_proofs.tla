----------------------- MODULE MediaPipeline_proofs -----------------------
(***************************************************************************)
(* Safety of MediaPipeline for any numbers of buffers and chunks.  The     *)
(* invariant has layers, proved one after the other: Types; Places (who    *)
(* can be where, and who has which mutex); Waits (what a consumer that     *)
(* passed its size test may rely on); Counts (the numbers of the units on  *)
(* their way through a queue); Gate; and Ends (the empty buffer is the     *)
(* encoder's last).                                                        *)
(***************************************************************************)
EXTENDS MediaPipeline, TLAPS

Types ==
    /\ pc \in [Threads -> Labels]
    /\ unit \in [Threads -> Units]
    /\ queue \in [Queues -> Seq(Units)]
    /\ lock \in [Queues -> Threads \cup {"nobody"}]
    /\ get_audio \in BOOLEAN
    /\ made \in [Queues -> Nat] /\ settled \in [Queues -> Nat]
    /\ out \in [Queues -> Seq(Nat)]
    /\ gated \subseteq Nat /\ leaked \subseteq Nat

\* Where each thread can be.
PcOf == [enc |-> {"idle", "lock", "push", "stopped"},
         pa |-> {"idle", "lock", "push"},
         faac |-> {"idle", "wait", "pop", "work", "lock", "push"},
         vid |-> {"idle", "wait", "pop", "work", "send"},
         aud |-> {"idle", "wait", "pop", "work"}]

Places ==
    /\ \A t \in Threads : pc[t] \in PcOf[t]
    /\ \A q \in Queues :
          /\ lock[q] \in {"nobody", Producer[q], Consumer[q]}
          /\ pc[Producer[q]] = "push" <=> lock[q] = Producer[q]
          /\ pc[Consumer[q]] = "pop" <=> lock[q] = Consumer[q]

\* Only its consumer takes units out of a queue: one that was found stays.
Waits ==
    \A q \in Queues :
       /\ pc[Consumer[q]] = "pop" => queue[q] # <<>>
       /\ pc[Consumer[q]] = "wait"
             => queue[q] # <<>> \/ pc[Producer[q]] = "push"

\* The units on their way through a queue, with m made and s settled: the one
\* with the consumer (h its number, 0 for none), those in the queue, the one
\* with the producer (p), numbered in that order.
One(n) == IF n = 0 THEN 0 ELSE 1
Chain(m, s, h, units, p) ==
    /\ m = (s + One(h)) + (Len(units) + One(p))
    /\ h \in {0, s + 1} /\ p \in {0, m}
    /\ \A i \in 1..Len(units) : units[i].id = (s + One(h)) + i

Holding(q) == pc[Consumer[q]] \in {"work", "send"}
Offering(q) == pc[Producer[q]] \in {"lock", "push"}
Held(q) == IF Holding(q) THEN unit[Consumer[q]].id ELSE 0
Offered(q) == IF Offering(q) THEN unit[Producer[q]].id ELSE 0

Count(q) ==
    /\ Chain(made[q], settled[q], Held(q), queue[q], Offered(q))
    /\ Holding(q) => Held(q) # 0
    /\ Offering(q) => Offered(q) # 0

Bounded == /\ made["video"] <= MaxBuffers /\ made["pcm"] <= MaxChunks
           /\ made["aac"] <= settled["pcm"]

Counts ==
    /\ \A q \in Queues : Count(q)
    /\ Bounded

Gate ==
    /\ out["video"] # <<>> \/ pc["vid"] = "send" => get_audio
    /\ gated \subseteq 1..settled["video"]
    /\ \A i \in DOMAIN out["video"] : out["video"][i] <= settled["video"]
    /\ GateOpensOnce

\* After an empty buffer the encoder has stopped and makes no other.
Last(u) == u.kind = "empty" => pc["enc"] = "stopped" /\ u.id = made["video"]

Ends ==
    /\ \A i \in 1..Len(queue["video"]) : Last(queue["video"][i])
    /\ pc["vid"] \in {"work", "send"} => Last(unit["vid"])
    /\ leaked # {} => pc["enc"] = "stopped" /\ made["video"] > 0
    /\ LeaksOnlyTheLast

IInv == Types /\ Places /\ Waits /\ Counts /\ Gate /\ Ends

-----------------------------------------------------------------------------
(* What the first layer needs to know of the names.                          *)
LEMMA Names ==
    /\ \A q \in Queues : Producer[q] \in Threads /\ Consumer[q] \in Threads
    /\ {"video", "pcm", "aac"} \subseteq Queues
    /\ {"enc", "pa", "faac", "vid", "aud"} \subseteq Threads
    /\ Producer["video"] = "enc" /\ Producer["pcm"] = "pa"
    /\ Producer["aac"] = "faac" /\ Consumer["video"] = "vid"
    /\ Consumer["pcm"] = "faac" /\ Consumer["aac"] = "aud"
BY DEF Queues, Threads, Producer, Consumer

LEMMA Unit ==
    /\ NoUnit \in Units
    /\ \A n \in 0..(MaxBuffers + MaxChunks), k \in Kinds :
          [id |-> n, kind |-> k] \in Units
    /\ \A u \in Units : u.id \in Nat /\ u.kind \in Kinds
    /\ "slice" \in Kinds
BY BoundsAssumption DEF NoUnit, Units, Kinds

(* Making and settling a unit keeps the types.                              *)
LEMMA MakeTypes ==
    ASSUME Types, NEW q \in Queues, NEW k \in Kinds, NEW from, Make(q, k, from),
           made[q] < MaxBuffers + MaxChunks
    PROVE  /\ made' \in [Queues -> Nat]
           /\ unit' \in [Threads -> Units]
           /\ pc' \in [Threads -> Labels]
  <1>1. made[q] + 1 \in 0..(MaxBuffers + MaxChunks)
    BY BoundsAssumption DEF Types
  <1>2. [id |-> made[q] + 1, kind |-> k] \in Units
    BY <1>1, Unit
  <1>3. made' \in [Queues -> Nat]
    BY DEF Types, Make
  <1>4. Producer[q] \in Threads
    BY Names
  <1>5. unit' \in [Threads -> Units]
    <2> DEFINE new == [id |-> made[q] + 1, kind |-> k]
    <2>1. unit' = [unit EXCEPT ![Producer[q]] = new] /\ new \in Units
      BY <1>2 DEF Make
    <2> HIDE DEF new
    <2> QED
      BY <1>4, <2>1 DEF Types
  <1>6. pc' \in [Threads -> Labels]
    BY <1>4 DEF Types, Make, Goto, Labels
  <1> QED
    BY <1>3, <1>5, <1>6

LEMMA SettleTypes ==
    ASSUME Types, NEW q \in Queues, NEW handed, Settle(q, handed)
    PROVE  settled' \in [Queues -> Nat] /\ out' \in [Queues -> Seq(Nat)]
  <1>1. unit[Consumer[q]].id \in Nat
    BY Names, Unit DEF Types
  <1>2. Append(out[q], unit[Consumer[q]].id) \in Seq(Nat)
    BY <1>1 DEF Types
  <1> QED
    BY <1>2 DEF Types, Settle

LEMMA DoneTypes ==
    ASSUME Types, NEW t \in Threads, NEW from, NEW to \in Labels,
           Goto(t, from, to), unit' = [unit EXCEPT ![t] = NoUnit]
    PROVE  pc' \in [Threads -> Labels] /\ unit' \in [Threads -> Units]
  BY Unit DEF Types, Goto

(* What a push and a pop do to a queue.                                      *)
LEMMA AtEnd ==
    ASSUME NEW s \in Seq(Units), NEW u \in Units
    PROVE  /\ Append(s, u) # <<>>
           /\ Len(s) \in Nat /\ Len(Append(s, u)) = Len(s) + 1
           /\ \A i \in 1..Len(s) : Append(s, u)[i] = s[i]
           /\ Append(s, u)[Len(s) + 1] = u
  OBVIOUS

LEMMA AtFront ==
    ASSUME NEW s \in Seq(Units), s # <<>>
    PROVE  /\ Len(s) \in Nat /\ Len(s) >= 1 /\ Len(Tail(s)) = Len(s) - 1
           /\ Head(s) = s[1]
           /\ \A i \in 1..(Len(s) - 1) : Tail(s)[i] = s[i + 1]
  OBVIOUS

-----------------------------------------------------------------------------
(* A unit's four moves on its way through a queue.                           *)
LEMMA ChainMade ==
    ASSUME NEW m \in Nat, NEW s \in Nat, NEW h \in Nat,
           NEW units \in Seq(Units), Chain(m, s, h, units, 0)
    PROVE  Chain(m + 1, s, h, units, m + 1)
  <1>1. Len(units) \in Nat /\ One(h) \in Nat /\ One(0) = 0 /\ One(m + 1) = 1
    BY DEF One
  <1>2. m + 1 = (s + One(h)) + (Len(units) + One(m + 1))
    BY <1>1 DEF Chain
  <1> QED
    BY <1>2 DEF Chain

LEMMA ChainPushed ==
    ASSUME NEW m \in Nat, NEW s \in Nat, NEW h \in Nat,
           NEW units \in Seq(Units), NEW u \in Units,
           u.id # 0, Chain(m, s, h, units, u.id)
    PROVE  Chain(m, s, h, Append(units, u), 0)
  <1> DEFINE t == Append(units, u)
  <1>1. /\ Len(units) \in Nat /\ Len(t) = Len(units) + 1
        /\ \A i \in 1..Len(units) : t[i] = units[i]
        /\ t[Len(units) + 1] = u
    BY AtEnd
  <1>2. u.id = m /\ m = (s + One(h)) + (Len(units) + 1) /\ One(h) \in Nat
    BY DEF Chain, One
  <1>3. ASSUME NEW i \in 1..Len(t) PROVE t[i].id = (s + One(h)) + i
    <2>1. CASE i \in 1..Len(units)
      BY <2>1, <1>1 DEF Chain
    <2>2. CASE i = Len(units) + 1
      BY <2>2, <1>1, <1>2
    <2> QED
      BY <2>1, <2>2, <1>1
  <1> HIDE DEF t
  <1>4. m = (s + One(h)) + (Len(t) + One(0)) /\ h \in {0, s + 1}
    BY <1>1, <1>2 DEF Chain, One
  <1> QED
    BY <1>3, <1>4 DEF Chain, t

LEMMA ChainPopped ==
    ASSUME NEW m \in Nat, NEW s \in Nat, NEW p \in Nat,
           NEW units \in Seq(Units), units # <<>>,
           Chain(m, s, 0, units, p)
    PROVE  Chain(m, s, Head(units).id, Tail(units), p) /\ Head(units).id # 0
  <1> DEFINE t == Tail(units)
  <1>1. /\ Len(units) \in Nat /\ Len(units) >= 1 /\ Len(t) = Len(units) - 1
        /\ Head(units) = units[1]
        /\ \A i \in 1..Len(t) : t[i] = units[i + 1]
    BY AtFront
  <1>2. Head(units).id = s + 1
    BY <1>1 DEF Chain, One
  <1>3. ASSUME NEW i \in 1..Len(t) PROVE t[i].id = (s + 1) + i
    <2>1. i + 1 \in 1..Len(units)
      BY <1>1
    <2> QED
      BY <2>1, <1>1 DEF Chain, One
  <1>4. One(s + 1) = 1 /\ One(p) \in Nat
    BY DEF One
  <1> HIDE DEF t
  <1>5. m = (s + 1) + (Len(t) + One(p)) /\ p \in {0, m}
    <2>1. m = (s + One(0)) + (Len(units) + One(p)) /\ p \in {0, m}
      BY DEF Chain
    <2>2. One(0) = 0
      BY DEF One
    <2> QED
      BY <1>1, <1>4, <2>1, <2>2
  <1>6. Chain(m, s, s + 1, t, p)
    BY <1>3, <1>4, <1>5 DEF Chain
  <1> QED
    BY <1>2, <1>6 DEF t

LEMMA ChainSettled ==
    ASSUME NEW m \in Nat, NEW s \in Nat, NEW h \in Nat, NEW p \in Nat,
           NEW units \in Seq(Units), h # 0, Chain(m, s, h, units, p)
    PROVE  Chain(m, s + 1, 0, units, p) /\ h = s + 1 /\ s + 1 <= m
  <1>1. /\ Len(units) \in Nat /\ One(p) \in Nat
        /\ One(0) = 0 /\ One(h) = 1
    BY DEF One
  <1>2. h = s + 1 /\ m = (s + 1) + (Len(units) + One(p))
    BY <1>1 DEF Chain
  <1>3. m = ((s + 1) + One(0)) + (Len(units) + One(p)) /\ s + 1 <= m
    BY <1>1, <1>2
  <1>4. \A i \in 1..Len(units) : units[i].id = ((s + 1) + One(0)) + i
    BY <1>1 DEF Chain
  <1> QED
    BY <1>2, <1>3, <1>4 DEF Chain

(* A step that moves no unit of q leaves its count.                          *)
Unmoved(q) ==
    /\ UNCHANGED <<made[q], settled[q], Held(q), queue[q], Offered(q),
                   out[q]>>
    /\ Holding(q)' => Holding(q)
    /\ Offering(q)' => Offering(q)

LEMMA UnmovedCount == ASSUME NEW q \in Queues, Count(q), Unmoved(q)
                      PROVE  Count(q)'
  BY DEF Count, Unmoved

LEMMA HandsTypes == ASSUME Types, NEW q \in Queues
                    PROVE  /\ made[q] \in Nat /\ settled[q] \in Nat
                           /\ queue[q] \in Seq(Units)
                           /\ unit[Producer[q]] \in Units
                           /\ Held(q) \in Nat /\ Offered(q) \in Nat
  <1>1. unit[Consumer[q]] \in Units /\ unit[Producer[q]] \in Units
    BY Names DEF Types
  <1> QED
    BY <1>1, Unit DEF Types, Held, Offered

(* A step that makes the next unit of q.                                     *)
Made(q) ==
    /\ made'[q] = made[q] + 1
    /\ UNCHANGED <<settled[q], Held(q), queue[q], out[q]>>
    /\ Offered(q) = 0 /\ Offered(q)' = made'[q]
    /\ Holding(q)' => Holding(q)

LEMMA MadeCount == ASSUME Types, NEW q \in Queues, Count(q), Made(q)
                   PROVE  Count(q)'
  <1>1. Chain(made[q] + 1, settled[q], Held(q), queue[q], made[q] + 1)
    BY ChainMade, HandsTypes DEF Count, Made
  <1> QED
    BY <1>1, HandsTypes DEF Count, Made

(* A step by which q's producer pushes its unit.                             *)
Pushed(q) ==
    /\ UNCHANGED <<made[q], settled[q], Held(q), out[q]>>
    /\ queue'[q] = Append(queue[q], unit[Producer[q]])
    /\ Offering(q) /\ Offered(q) = unit[Producer[q]].id
    /\ ~Offering(q)' /\ Offered(q)' = 0
    /\ Holding(q)' => Holding(q)

LEMMA PushedCount == ASSUME Types, NEW q \in Queues, Count(q), Pushed(q)
                     PROVE  Count(q)'
  <1>1. /\ unit[Producer[q]].id # 0
        /\ Chain(made[q], settled[q], Held(q), queue[q], unit[Producer[q]].id)
    BY DEF Count, Pushed
  <1>2. Chain(made[q], settled[q], Held(q),
              Append(queue[q], unit[Producer[q]]), 0)
    BY <1>1, ChainPushed, HandsTypes
  <1> QED
    BY <1>2 DEF Count, Pushed

(* A step by which q's consumer takes the next unit.                         *)
Popped(q) ==
    /\ UNCHANGED <<made[q], settled[q], Offered(q), out[q]>>
    /\ queue[q] # <<>> /\ queue'[q] = Tail(queue[q])
    /\ Held(q) = 0 /\ Held(q)' = Head(queue[q]).id
    /\ Offering(q)' => Offering(q)

LEMMA PoppedCount == ASSUME Types, NEW q \in Queues, Count(q), Popped(q)
                     PROVE  Count(q)'
  <1>1. Chain(made[q], settled[q], 0, queue[q], Offered(q))
    BY DEF Count, Popped
  <1>2. /\ Chain(made[q], settled[q], Head(queue[q]).id, Tail(queue[q]),
                 Offered(q))
        /\ Head(queue[q]).id # 0
    BY <1>1, ChainPopped, HandsTypes DEF Popped
  <1> QED
    BY <1>2 DEF Count, Popped

(* A step by which q's consumer is done with its unit.                       *)
Settled(q) ==
    /\ settled'[q] = settled[q] + 1
    /\ UNCHANGED <<made[q], queue[q], Offered(q)>>
    /\ out'[q] \in {out[q], Append(out[q], Held(q))}
    /\ Holding(q) /\ ~Holding(q)' /\ Held(q)' = 0
    /\ Offering(q)' => Offering(q)

LEMMA SettledCount ==
    ASSUME Types, NEW q \in Queues, Count(q), Settled(q)
    PROVE  Count(q)' /\ Held(q) = settled[q] + 1 /\ settled'[q] <= made[q]
  <1>1. /\ Held(q) # 0
        /\ Chain(made[q], settled[q], Held(q), queue[q], Offered(q))
    BY DEF Count, Settled
  <1>2. /\ Chain(made[q], settled[q] + 1, 0, queue[q], Offered(q))
        /\ Held(q) = settled[q] + 1 /\ settled[q] + 1 <= made[q]
    BY <1>1, ChainSettled, HandsTypes
  <1> QED
    BY <1>2 DEF Count, Settled

(* There is room for the frame that a chunk gives.                           *)
LEMMA Room == ASSUME Types, Counts, pc["faac"] = "work"
              PROVE  made["aac"] < MaxChunks
  <1>1. /\ made["pcm"] \in Nat /\ settled["pcm"] \in Nat /\ made["aac"] \in Nat
        /\ queue["pcm"] \in Seq(Units) /\ Held("pcm") \in Nat
        /\ Offered("pcm") \in Nat
    BY HandsTypes, Names DEF Types
  <1>2. Held("pcm") # 0
    BY Names DEF Counts, Count, Holding
  <1>3. settled["pcm"] + 1 <= made["pcm"]
    BY <1>1, <1>2, ChainSettled, Names DEF Counts, Count
  <1> QED
    BY <1>1, <1>3, BoundsAssumption DEF Counts, Bounded

(* Every step keeps the types; a pop needs Waits.                            *)
LEMMA TypesStep == Types /\ Waits /\ Counts /\ [Next]_vars => Types'
  <1> SUFFICES ASSUME Types, Waits, Counts, [Next]_vars PROVE Types'
    OBVIOUS
  <1> USE Names
  <1>1. ASSUME NEW q \in Queues, LockToPush(q) PROVE Types'
    BY <1>1 DEF Types, Labels, Goto, LockToPush
  <1>2. ASSUME NEW q \in Queues, Push(q) PROVE Types'
    <2>1. Append(queue[q], unit[Producer[q]]) \in Seq(Units)
      <3>1. queue[q] \in Seq(Units) /\ unit[Producer[q]] \in Units
        BY DEF Types
      <3> QED
        BY <3>1
    <2>2. pc' \in [Threads -> Labels]
      BY <1>2 DEF Push, Goto, Types, Labels
    <2> QED
      BY <1>2, <2>1, <2>2, Unit DEF Types, Push
  <1>3. ASSUME NEW q \in Queues, Poll(q) PROVE Types'
    BY <1>3 DEF Types, Labels, Goto, Poll
  <1>4. ASSUME NEW q \in Queues, LockToPop(q) PROVE Types'
    BY <1>4 DEF Types, Labels, Goto, LockToPop
  <1>5. ASSUME NEW q \in Queues, Pop(q) PROVE Types'
    <2>1. queue[q] \in Seq(Units) /\ queue[q] # <<>>
      BY <1>5 DEF Pop, Waits, Types, Goto
    <2>2. Head(queue[q]) \in Units /\ Tail(queue[q]) \in Seq(Units)
      BY <2>1
    <2> QED
      BY <1>5, <2>2 DEF Pop, Types, Labels, Goto
  <1>6. CASE Capture
    <2>1. made["video"] < MaxBuffers + MaxChunks
      BY <1>6, Names, BoundsAssumption DEF Capture, Types
    <2> QED
      BY <1>6, <2>1, MakeTypes DEF Capture, Types
  <1>7. CASE CaptureFails
    BY <1>7 DEF Types, Labels, Goto, CaptureFails
  <1>8. CASE Hear
    <2>1. CASE made["pcm"] < MaxChunks /\ Make("pcm", "slice", "idle")
      <3>1. made["pcm"] < MaxBuffers + MaxChunks
        BY <2>1, Names, BoundsAssumption DEF Types
      <3> QED
        BY <1>8, <2>1, <3>1, MakeTypes, Unit DEF Hear, Types
    <2>2. CASE UNCHANGED <<pc, unit, made>>
      BY <1>8, <2>2 DEF Hear, Types
    <2> QED
      BY <1>8, <2>1, <2>2 DEF Hear
  <1>9. CASE Encode
    <2>1. CASE Make("aac", "slice", "work") /\ Settle("pcm", TRUE)
      <3>1. pc["faac"] = "work"
        BY <2>1, Names DEF Make, Goto
      <3>2. made["aac"] < MaxChunks
        BY <3>1, Room
      <3>3. made["aac"] \in Nat
        BY Names DEF Types
      <3>4. made["aac"] < MaxBuffers + MaxChunks
        BY <3>2, <3>3, BoundsAssumption
      <3> QED
        BY <1>9, <2>1, <3>4, MakeTypes, SettleTypes, Unit DEF Encode, Types
    <2>2. CASE /\ Goto("faac", "work", "idle") /\ Settle("pcm", FALSE)
               /\ unit' = [unit EXCEPT !["faac"] = NoUnit] /\ UNCHANGED made
      BY <1>9, <2>2, DoneTypes, SettleTypes DEF Encode, Types, Labels
    <2> QED
      BY <1>9, <2>1, <2>2 DEF Encode
  <1>10. CASE Discard
    <2>1. unit["vid"].id \in Nat
      BY Unit DEF Types
    <2> QED
      BY <1>10, <2>1, DoneTypes, SettleTypes DEF Discard, Types, Labels
  <1>11. CASE Parse
    <2>1. unit["vid"].id \in Nat
      BY Unit DEF Types
    <2>2. CASE unit["vid"].kind = "empty"
      BY <1>11, <2>1, <2>2, DoneTypes, SettleTypes DEF Parse, Types, Labels
    <2>3. CASE unit["vid"].kind # "empty"
      BY <1>11, <2>3 DEF Parse, Types, Labels, Goto
    <2> QED
      BY <2>2, <2>3
  <1>12. CASE SendVideo
    BY <1>12, DoneTypes, SettleTypes DEF SendVideo, Send, Types, Labels
  <1>13. CASE SendAudio
    BY <1>13, DoneTypes, SettleTypes DEF SendAudio, Send, Types, Labels
  <1>14. CASE UNCHANGED vars
    BY <1>14 DEF vars, Types
  <1> QED
    BY <1>1, <1>2, <1>3, <1>4, <1>5, <1>6, <1>7, <1>8, <1>9, <1>10,
       <1>11, <1>12, <1>13, <1>14
       DEF Next, Run, Produce, Consume

-----------------------------------------------------------------------------
(* The later layers need the names themselves.                               *)
USE DEF Queues, Threads, Producer, Consumer

(* A thread's own part leaves queues and mutexes alone.                      *)
Own(t, from, to) ==
    /\ pc[t] = from /\ pc' = [pc EXCEPT ![t] = to]
    /\ UNCHANGED <<queue, lock>>
Common(q) == Produce(q) \/ Consume(q)

LEMMA Shapes ==
    ASSUME [Next]_vars
    PROVE  \/ UNCHANGED <<pc, queue, lock>>
           \/ \E q \in Queues : Common(q)
           \/ \E t \in Threads, from \in {"idle", "work", "send"} :
              \E to \in PcOf[t] \ {"push", "pop", "wait"} : Own(t, from, to)
  <1> DEFINE Goal == \E t \in Threads, from \in {"idle", "work", "send"} :
                    \E to \in PcOf[t] \ {"push", "pop", "wait"} : Own(t, from, to)
  <1>1. CASE Capture
    <2>1. Own("enc", "idle", "lock")
      BY <1>1 DEF Capture, Make, Goto, Own
    <2> QED
      BY <2>1 DEF PcOf
  <1>2. CASE CaptureFails
    <2>1. Own("enc", "idle", "stopped")
      BY <1>2 DEF CaptureFails, Goto, Own
    <2> QED
      BY <2>1 DEF PcOf
  <1>3. CASE Hear
    <2>1. UNCHANGED <<pc, queue, lock>> \/ Own("pa", "idle", "lock")
      BY <1>3 DEF Hear, Make, Goto, Own
    <2> QED
      BY <2>1 DEF PcOf
  <1>4. CASE Encode
    <2>1. Own("faac", "work", "lock") \/ Own("faac", "work", "idle")
      BY <1>4 DEF Encode, Make, Goto, Own
    <2> QED
      BY <2>1 DEF PcOf
  <1>5. CASE Discard \/ Parse
    <2>1. Own("vid", "work", "idle") \/ Own("vid", "work", "send")
      BY <1>5 DEF Discard, Parse, Goto, Own
    <2> QED
      BY <2>1 DEF PcOf
  <1>6. CASE SendVideo
    <2>1. Own("vid", "send", "idle")
      BY <1>6 DEF SendVideo, Send, Goto, Own
    <2> QED
      BY <2>1 DEF PcOf
  <1>7. CASE SendAudio
    <2>1. Own("aud", "work", "idle")
      BY <1>7 DEF SendAudio, Send, Goto, Own
    <2> QED
      BY <2>1 DEF PcOf
  <1>8. CASE UNCHANGED vars
    BY <1>8 DEF vars
  <1> HIDE DEF Goal
  <1>10. ASSUME NEW t \in Threads, Run(t)
         PROVE  \/ \E q \in Queues : Common(q)
                \/ Encode \/ Discard \/ Parse \/ SendVideo \/ SendAudio
    BY <1>10 DEF Run, Common
  <1> QED
    BY <1>1, <1>2, <1>3, <1>4, <1>5, <1>6, <1>7, <1>8, <1>10 DEF Next, Goal

(* Every step keeps labels and mutexes in agreement.                         *)
LEMMA PlacesStep == Types /\ Places /\ [Next]_vars => Places'
  <1> SUFFICES ASSUME Types, Places, [Next]_vars PROVE Places'
    OBVIOUS
  <1>0. pc \in [Threads -> Labels] /\ lock \in [Queues -> Threads \cup {"nobody"}]
    BY DEF Types
  <1>1. ASSUME NEW q \in Queues, Common(q) PROVE Places'
    <2>1. CASE LockToPush(q)
      <3>1. /\ pc[Producer[q]] = "lock" /\ pc' = [pc EXCEPT ![Producer[q]] = "push"]
            /\ lock[q] = "nobody" /\ lock' = [lock EXCEPT ![q] = Producer[q]]
        BY <2>1 DEF LockToPush, Goto
      <3> QED
        BY <1>0, <3>1 DEF Places, PcOf
    <2>2. CASE Push(q)
      <3>1. /\ pc[Producer[q]] = "push" /\ lock' = [lock EXCEPT ![q] = "nobody"]
            /\ \/ pc' = [pc EXCEPT ![Producer[q]] = "idle"]
               \/ q = "video" /\ pc' = [pc EXCEPT !["enc"] = "stopped"]
        BY <2>2 DEF Push, Goto
      <3>2. CASE pc' = [pc EXCEPT ![Producer[q]] = "idle"]
        BY <1>0, <3>1, <3>2 DEF Places, PcOf
      <3>3. CASE q = "video" /\ pc' = [pc EXCEPT !["enc"] = "stopped"]
        BY <1>0, <3>1, <3>3 DEF Places, PcOf
      <3> QED
        BY <3>1, <3>2, <3>3
    <2>3. CASE Poll(q)
      <3>1. /\ pc[Consumer[q]] = "idle" /\ pc' = [pc EXCEPT ![Consumer[q]] = "wait"]
            /\ lock' = lock
        BY <2>3 DEF Poll, Goto
      <3> QED
        BY <1>0, <3>1 DEF Places, PcOf
    <2>4. CASE LockToPop(q)
      <3>1. /\ pc[Consumer[q]] = "wait" /\ pc' = [pc EXCEPT ![Consumer[q]] = "pop"]
            /\ lock[q] = "nobody" /\ lock' = [lock EXCEPT ![q] = Consumer[q]]
        BY <2>4 DEF LockToPop, Goto
      <3> QED
        BY <1>0, <3>1 DEF Places, PcOf
    <2>5. CASE Pop(q)
      <3>1. /\ pc[Consumer[q]] = "pop" /\ pc' = [pc EXCEPT ![Consumer[q]] = "work"]
            /\ lock' = [lock EXCEPT ![q] = "nobody"]
        BY <2>5 DEF Pop, Goto
      <3> QED
        BY <1>0, <3>1 DEF Places, PcOf
    <2> QED
      BY <1>1, <2>1, <2>2, <2>3, <2>4, <2>5 DEF Common, Produce, Consume
  <1>2. ASSUME NEW t \in Threads, NEW from \in {"idle", "work", "send"},
               NEW to \in PcOf[t] \ {"push", "pop", "wait"}, Own(t, from, to)
        PROVE  Places'
    <2>1. /\ pc[t] = from /\ pc' = [pc EXCEPT ![t] = to] /\ lock' = lock
      BY <1>2 DEF Own
    <2>2. /\ pc'[t] = to /\ \A u \in Threads \ {t} : pc'[u] = pc[u]
          /\ pc[t] \notin {"push", "pop"} /\ to \notin {"push", "pop"}
      BY <1>0, <2>1
    <2>3. \A u \in Threads : pc'[u] \in PcOf[u]
      BY <2>2 DEF Places
    <2>4. \A u \in Threads : /\ pc'[u] = "push" <=> pc[u] = "push"
                            /\ pc'[u] = "pop" <=> pc[u] = "pop"
      BY <2>2
    <2> QED
      BY <2>1, <2>3, <2>4 DEF Places
  <1>3. CASE UNCHANGED <<pc, queue, lock>>
    BY <1>3 DEF Places
  <1> QED
    BY <1>1, <1>2, <1>3, Shapes

(* What a consumer found stays until it takes it.                            *)
LEMMA WaitsStep == Types /\ Places /\ Waits /\ [Next]_vars => Waits'
  <1> SUFFICES ASSUME Types, Places, Waits, [Next]_vars PROVE Waits'
    OBVIOUS
  <1>0. /\ pc \in [Threads -> Labels] /\ queue \in [Queues -> Seq(Units)]
        /\ unit \in [Threads -> Units]
        /\ \A t \in Threads : pc[t] \in PcOf[t]
    BY DEF Types, Places
  <1>1. ASSUME NEW q \in Queues, Common(q) PROVE Waits'
    <2>1. CASE LockToPush(q)
      <3>1. /\ pc[Producer[q]] = "lock" /\ pc' = [pc EXCEPT ![Producer[q]] = "push"]
            /\ queue' = queue
        BY <2>1 DEF LockToPush, Goto
      <3> QED
        BY <1>0, <3>1 DEF Waits, PcOf
    <2>2. CASE Push(q)
      <3>1. /\ queue' = [queue EXCEPT ![q] = Append(@, unit[Producer[q]])]
            /\ pc[Producer[q]] = "push"
            /\ \/ pc' = [pc EXCEPT ![Producer[q]] = "idle"]
               \/ q = "video" /\ pc' = [pc EXCEPT !["enc"] = "stopped"]
        BY <2>2 DEF Push, Goto
      <3>2. queue'[q] # <<>> /\ \A p \in Queues \ {q} : queue'[p] = queue[p]
        <4>1. queue[q] \in Seq(Units) /\ unit[Producer[q]] \in Units
          BY <1>0, Names
        <4>2. Append(queue[q], unit[Producer[q]]) # <<>>
          BY <4>1, AtEnd
        <4> QED
          BY <1>0, <3>1, <4>2
      <3>3. /\ \A p \in Queues \ {q} :
                  pc[Producer[p]] = "push" => pc'[Producer[p]] = "push"
            /\ \A p \in Queues : pc'[Consumer[p]] \in {"pop", "wait"}
                                  => pc'[Consumer[p]] = pc[Consumer[p]]
        <4>1. \E to \in {"idle", "stopped"} : pc' = [pc EXCEPT ![Producer[q]] = to]
          BY <3>1
        <4> QED
          BY <1>0, <4>1
      <3> QED
        BY <3>2, <3>3 DEF Waits
    <2>3. CASE Poll(q)
      <3>1. /\ queue[q] # <<>> \/ pc[Producer[q]] = "push"
            /\ pc[Consumer[q]] = "idle" /\ pc' = [pc EXCEPT ![Consumer[q]] = "wait"]
            /\ queue' = queue
        BY <2>3 DEF Poll, Goto
      <3> QED
        BY <1>0, <3>1 DEF Waits, PcOf
    <2>4. CASE LockToPop(q)
      <3>1. /\ lock[q] = "nobody" /\ queue' = queue
            /\ pc[Consumer[q]] = "wait" /\ pc' = [pc EXCEPT ![Consumer[q]] = "pop"]
        BY <2>4 DEF LockToPop, Goto
      <3>2. pc[Producer[q]] # "push"
        BY <3>1 DEF Places
      <3> QED
        BY <1>0, <3>1, <3>2 DEF Waits, PcOf
    <2>5. CASE Pop(q)
      <3>1. /\ queue' = [queue EXCEPT ![q] = Tail(@)]
            /\ pc[Consumer[q]] = "pop" /\ pc' = [pc EXCEPT ![Consumer[q]] = "work"]
        BY <2>5 DEF Pop, Goto
      <3>2. \A p \in Queues \ {q} : queue'[p] = queue[p]
        BY <1>0, <3>1
      <3>3. pc'[Consumer[q]] = "work"
            /\ \A p \in Queues \ {q} : /\ pc'[Consumer[p]] = pc[Consumer[p]]
                                       /\ pc[Producer[p]] = "push" => pc'[Producer[p]] = "push"
        BY <1>0, <3>1
      <3> QED
        BY <3>2, <3>3 DEF Waits
    <2> QED
      BY <1>1, <2>1, <2>2, <2>3, <2>4, <2>5 DEF Common, Produce, Consume
  <1>2. ASSUME NEW t \in Threads, NEW from \in {"idle", "work", "send"},
               NEW to \in PcOf[t] \ {"push", "pop", "wait"}, Own(t, from, to)
        PROVE  Waits'
    <2>1. /\ pc[t] = from /\ pc' = [pc EXCEPT ![t] = to] /\ queue' = queue
      BY <1>2 DEF Own
    <2>2. \A u \in Threads : /\ pc[u] = "push" => pc'[u] = "push"
                            /\ pc'[u] \in {"pop", "wait"} => pc'[u] = pc[u]
      BY <1>0, <2>1
    <2> QED
      BY <2>1, <2>2 DEF Waits
  <1>3. CASE UNCHANGED <<pc, queue, lock>>
    BY <1>3 DEF Waits
  <1> QED
    BY <1>1, <1>2, <1>3, Shapes

(* Every step moves at most one unit of each queue.                          *)
Move(q) == Unmoved(q) \/ Made(q) \/ Pushed(q) \/ Popped(q) \/ Settled(q)

LEMMA Moves ==
    Types /\ Types' /\ Places /\ Waits /\ [Next]_vars
        => \A q \in Queues : Move(q)
  <1> SUFFICES ASSUME Types, Types', Places, Waits, [Next]_vars
               PROVE  \A q \in Queues : Move(q)
    OBVIOUS
  <1> DEFINE Goal == \A q \in Queues : Move(q)
  <1>0. /\ pc \in [Threads -> Labels] /\ unit \in [Threads -> Units]
        /\ queue \in [Queues -> Seq(Units)] /\ made \in [Queues -> Nat]
        /\ settled \in [Queues -> Nat] /\ out \in [Queues -> Seq(Nat)]
    BY DEF Types
  <1> USE DEF Holding, Offering, Held, Offered, Places, PcOf, Goto
  <1>1. ASSUME NEW q \in Queues, LockToPush(q) PROVE Goal
    <2>1. \A p \in Queues : Unmoved(p)
      BY <1>1 DEF LockToPush, Types, Unmoved
    <2> QED
      BY <2>1 DEF Move
  <1>2. ASSUME NEW q \in Queues, Push(q) PROVE Goal
    <2>1. /\ pc[Producer[q]] = "push" /\ UNCHANGED <<made, settled, out>>
          /\ \E to \in {"idle", "stopped"} : pc' = [pc EXCEPT ![Producer[q]] = to]
          /\ unit' = [unit EXCEPT ![Producer[q]] = NoUnit]
      BY <1>2 DEF Push
    <2> DEFINE longer == Append(queue[q], unit[Producer[q]])
    <2>2. queue' = [queue EXCEPT ![q] = longer]
      BY <1>2 DEF Push
    <2> HIDE DEF longer
    <2>3. /\ pc'[Producer[q]] \in {"idle", "stopped"}
          /\ \A t \in Threads \ {Producer[q]} : pc'[t] = pc[t] /\ unit'[t] = unit[t]
      BY <1>0, <2>1
    <2>q. queue'[q] = longer /\ \A p \in Queues \ {q} : queue'[p] = queue[p]
      BY <1>0, <2>2
    <2>4. \A p \in Queues \ {q} : Unmoved(p)
      BY <2>1, <2>3, <2>q DEF Unmoved
    <2>5. Pushed(q)
      BY <2>1, <2>3, <2>q DEF Pushed, longer
    <2> QED
      BY <2>4, <2>5 DEF Move
  <1>3. ASSUME NEW q \in Queues, Poll(q) PROVE Goal
    <2>1. \A p \in Queues : Unmoved(p)
      BY <1>3 DEF Poll, Types, Unmoved
    <2> QED
      BY <2>1 DEF Move
  <1>4. ASSUME NEW q \in Queues, LockToPop(q) PROVE Goal
    <2>1. \A p \in Queues : Unmoved(p)
      BY <1>4 DEF LockToPop, Types, Unmoved
    <2> QED
      BY <2>1 DEF Move
  <1>5. ASSUME NEW q \in Queues, Pop(q) PROVE Goal
    <2>0. /\ pc[Consumer[q]] = "pop" /\ UNCHANGED <<made, settled, out>>
          /\ pc' = [pc EXCEPT ![Consumer[q]] = "work"]
          /\ unit' = [unit EXCEPT ![Consumer[q]] = Head(queue[q])]
          /\ queue' = [queue EXCEPT ![q] = Tail(@)]
      BY <1>5 DEF Pop
    <2>1. \A p \in Queues \ {q} : Unmoved(p)
      <3>1. /\ pc'[Consumer[q]] = "work"
            /\ \A p \in Queues \ {q} : queue'[p] = queue[p]
            /\ \A t \in Threads \ {Consumer[q]} : pc'[t] = pc[t] /\ unit'[t] = unit[t]
        BY <1>0, <2>0
      <3> QED
        BY <2>0, <3>1 DEF Unmoved
    <2>2. queue[q] # <<>>
      BY <1>5 DEF Pop, Waits
    <2>3. /\ queue'[q] = Tail(queue[q]) /\ Held(q) = 0
          /\ Held(q)' = Head(queue[q]).id
      BY <1>5 DEF Pop, Types
    <2>4. /\ UNCHANGED <<made[q], settled[q], Offered(q), out[q]>>
          /\ Offering(q)' => Offering(q)
      <3>1. Producer[q] \in Threads \ {Consumer[q]}
        BY DEF Producer, Consumer, Threads, Queues
      <3>2. pc'[Producer[q]] = pc[Producer[q]] /\ unit'[Producer[q]] = unit[Producer[q]]
        BY <1>0, <2>0, <3>1
      <3> QED
        BY <2>0, <3>2
    <2> QED
      BY <2>1, <2>2, <2>3, <2>4 DEF Move, Popped
  <1>6. CASE Capture
    <2>1. Made("video") /\ Unmoved("pcm") /\ Unmoved("aac")
      BY <1>6 DEF Capture, Make, Types, Made, Unmoved
    <2> QED
      BY <2>1 DEF Move
  <1>7. CASE CaptureFails
    <2>1. \A p \in Queues : Unmoved(p)
      BY <1>7 DEF CaptureFails, Types, Unmoved
    <2> QED
      BY <2>1 DEF Move
  <1>8. CASE Hear
    <2>1. CASE Make("pcm", "slice", "idle")
      <3>1. Made("pcm") /\ Unmoved("video") /\ Unmoved("aac")
        BY <1>8, <2>1 DEF Hear, Make, Types, Made, Unmoved
      <3> QED
        BY <3>1 DEF Move
    <2>2. CASE UNCHANGED <<pc, unit, made>>
      <3>1. \A p \in Queues : Unmoved(p)
        BY <1>8, <2>2 DEF Hear, Unmoved
      <3> QED
        BY <3>1 DEF Move
    <2> QED
      BY <1>8, <2>1, <2>2 DEF Hear
  <1>9. CASE Encode
    <2>1. CASE Make("aac", "slice", "work") /\ Settle("pcm", TRUE)
      <3>1. Made("aac") /\ Settled("pcm") /\ Unmoved("video")
        BY <1>9, <2>1 DEF Encode, Make, Settle, Types, Made, Settled, Unmoved
      <3> QED
        BY <3>1 DEF Move
    <2>2. CASE Goto("faac", "work", "idle") /\ Settle("pcm", FALSE)
               /\ unit' = [unit EXCEPT !["faac"] = NoUnit] /\ UNCHANGED made
      <3>1. Settled("pcm") /\ Unmoved("video") /\ Unmoved("aac")
        BY <1>9, <2>2 DEF Encode, Settle, Types, Settled, Unmoved
      <3> QED
        BY <3>1 DEF Move
    <2> QED
      BY <1>9, <2>1, <2>2 DEF Encode
  <1>10. CASE Discard
    <2>1. Settled("video") /\ Unmoved("pcm") /\ Unmoved("aac")
      BY <1>10 DEF Discard, Settle, Types, Settled, Unmoved
    <2> QED
      BY <2>1 DEF Move
  <1>11. CASE Parse
    <2>1. CASE unit["vid"].kind = "empty"
      <3>1. Settled("video") /\ Unmoved("pcm") /\ Unmoved("aac")
        <4>1. /\ pc["vid"] = "work" /\ pc' = [pc EXCEPT !["vid"] = "idle"]
              /\ unit' = [unit EXCEPT !["vid"] = NoUnit] /\ UNCHANGED <<made, queue, out>>
              /\ settled' = [settled EXCEPT !["video"] = @ + 1]
          BY <1>11, <2>1 DEF Parse, Settle
        <4>2. /\ pc'["vid"] = "idle" /\ settled'["video"] = settled["video"] + 1
              /\ \A p \in {"pcm", "aac"} : settled'[p] = settled[p]
              /\ \A t \in Threads \ {"vid"} : pc'[t] = pc[t] /\ unit'[t] = unit[t]
          BY <1>0, <4>1
        <4> QED
          BY <4>1, <4>2 DEF Settled, Unmoved
      <3> QED
        BY <3>1 DEF Move
    <2>2. CASE unit["vid"].kind # "empty"
      <3>1. Unmoved("video") /\ Unmoved("pcm") /\ Unmoved("aac")
        <4>1. /\ pc["vid"] = "work" /\ pc' = [pc EXCEPT !["vid"] = "send"]
              /\ UNCHANGED <<unit, made, queue, out, settled>>
          BY <1>11, <2>2 DEF Parse
        <4>2. pc'["vid"] = "send" /\ \A t \in Threads \ {"vid"} : pc'[t] = pc[t]
          BY <1>0, <4>1
        <4> QED
          BY <4>1, <4>2 DEF Unmoved
      <3> QED
        BY <3>1 DEF Move
    <2> QED
      BY <2>1, <2>2 DEF Move
  <1>12. CASE SendVideo
    <2>1. Settled("video") /\ Unmoved("pcm") /\ Unmoved("aac")
      BY <1>12 DEF SendVideo, Send, Settle, Types, Settled, Unmoved
    <2> QED
      BY <2>1 DEF Move
  <1>13. CASE SendAudio
    <2>1. Settled("aac") /\ Unmoved("pcm") /\ Unmoved("video")
      BY <1>13 DEF SendAudio, Send, Settle, Types, Settled, Unmoved
    <2> QED
      BY <2>1 DEF Move
  <1>14. CASE UNCHANGED vars
    <2>1. \A p \in Queues : Unmoved(p)
      BY <1>14 DEF vars, Unmoved
    <2> QED
      BY <2>1 DEF Move
  <1> QED
    BY <1>1, <1>2, <1>3, <1>4, <1>5, <1>6, <1>7, <1>8, <1>9, <1>10, <1>11,
       <1>12, <1>13, <1>14
       DEF Next, Run, Produce, Consume
(* The bounds hold of what is made.                                          *)
LEMMA BoundedStep == Types /\ Bounded /\ [Next]_vars => Bounded'
  <1> SUFFICES ASSUME Types, Bounded, [Next]_vars PROVE Bounded'
    OBVIOUS
  <1> USE BoundsAssumption DEF Bounded
  <1> made \in [Queues -> Nat] /\ settled \in [Queues -> Nat]
    BY DEF Types
  <1>1. ASSUME NEW q \in Queues, LockToPush(q) PROVE Bounded'
    BY <1>1 DEF LockToPush
  <1>2. ASSUME NEW q \in Queues, Push(q) PROVE Bounded'
    BY <1>2 DEF Push
  <1>3. ASSUME NEW q \in Queues, Poll(q) PROVE Bounded'
    BY <1>3 DEF Poll
  <1>4. ASSUME NEW q \in Queues, LockToPop(q) PROVE Bounded'
    BY <1>4 DEF LockToPop
  <1>5. ASSUME NEW q \in Queues, Pop(q) PROVE Bounded'
    BY <1>5 DEF Pop
  <1>6. CASE Capture
    BY <1>6 DEF Capture, Make
  <1>7. CASE CaptureFails
    BY <1>7 DEF CaptureFails
  <1>8. CASE Hear
    BY <1>8 DEF Hear, Make
  <1>9. CASE Encode
    BY <1>9 DEF Encode, Make, Settle
  <1>10. CASE Discard
    BY <1>10 DEF Discard, Settle
  <1>11. CASE Parse
    BY <1>11 DEF Parse, Settle
  <1>12. CASE SendVideo
    BY <1>12 DEF SendVideo, Send, Settle
  <1>13. CASE SendAudio
    BY <1>13 DEF SendAudio, Send, Settle
  <1>14. CASE UNCHANGED vars
    BY <1>14 DEF vars
  <1> QED
    BY <1>1, <1>2, <1>3, <1>4, <1>5, <1>6, <1>7, <1>8, <1>9, <1>10,
       <1>11, <1>12, <1>13, <1>14
       DEF Next, Run, Produce, Consume

(* Units keep their numbers on their way.                                    *)
LEMMA CountsStep ==
    Types /\ Types' /\ Places /\ Waits /\ Counts /\ [Next]_vars => Counts'
  <1> SUFFICES ASSUME Types, Types', Places, Waits, Counts, [Next]_vars
               PROVE  Counts'
    OBVIOUS
  <1>1. ASSUME NEW q \in Queues PROVE Count(q)'
    <2>1. Count(q) /\ Move(q)
      BY Moves DEF Counts
    <2> QED
      BY <2>1, UnmovedCount, MadeCount, PushedCount, PoppedCount, SettledCount
         DEF Move
  <1>2. Bounded'
    BY BoundedStep DEF Counts
  <1> QED
    BY <1>1, <1>2 DEF Counts

(* The number of the unit in hand.                                           *)
LEMMA InHand ==
    ASSUME Types, Counts
    PROVE  /\ pc["vid"] \in {"work", "send"}
                 => unit["vid"].id = settled["video"] + 1
           /\ pc["enc"] \in {"lock", "push"} => unit["enc"].id = made["video"]
           /\ settled["video"] <= made["video"]
           /\ pc["vid"] \in {"work", "send"}
                 => settled["video"] + 1 <= made["video"]
  <1>1. Count("video")
    BY DEF Counts
  <1>2. /\ made["video"] \in Nat /\ settled["video"] \in Nat
        /\ Len(queue["video"]) \in Nat
    BY DEF Types
  <1>3. /\ Holding("video") <=> pc["vid"] \in {"work", "send"}
        /\ Offering("video") <=> pc["enc"] \in {"lock", "push"}
        /\ Holding("video") => Held("video") = unit["vid"].id
        /\ Offering("video") => Offered("video") = unit["enc"].id
    BY DEF Holding, Offering, Held, Offered
  <1>4. /\ made["video"] = (settled["video"] + One(Held("video")))
                             + (Len(queue["video"]) + One(Offered("video")))
        /\ Held("video") \in {0, settled["video"] + 1}
        /\ Offered("video") \in {0, made["video"]}
        /\ Holding("video") => Held("video") # 0
        /\ Offering("video") => Offered("video") # 0
    BY <1>1 DEF Count, Chain
  <1>5. /\ One(Held("video")) \in Nat /\ One(Offered("video")) \in Nat
        /\ Holding("video") => One(Held("video")) = 1
    BY <1>4 DEF One
  <1>6. /\ settled["video"] <= made["video"]
        /\ Holding("video") => settled["video"] + 1 <= made["video"]
    BY <1>2, <1>4, <1>5
  <1> QED
    BY <1>3, <1>4, <1>6

(* What handing a number on does to the list of those handed on.             *)
LEMMA HandedOn ==
    ASSUME NEW s \in Seq(Nat), NEW n \in Nat
    PROVE  /\ Append(s, n) # <<>>
           /\ \A i \in DOMAIN Append(s, n) :
                 \/ Append(s, n)[i] = n
                 \/ i \in DOMAIN s /\ Append(s, n)[i] = s[i]
  OBVIOUS

(* The gate opens once, and everything handed on or dropped is settled.      *)
LEMMA GateStep ==
    Types /\ Places /\ Counts /\ Gate /\ [Next]_vars => Gate'
  <1> SUFFICES ASSUME Types, Places, Counts, Gate, [Next]_vars PROVE Gate'
    OBVIOUS
  <1> DEFINE n == settled["video"]
             s == out["video"]
  <1>a. /\ n \in Nat /\ s \in Seq(Nat) /\ gated \subseteq 1..n
        /\ \A i \in DOMAIN s : s[i] \in Nat /\ s[i] <= n
        /\ \A d \in gated, i \in DOMAIN s : d < s[i]
        /\ s # <<>> \/ pc["vid"] = "send" => get_audio
    <2>1. n \in Nat /\ s \in Seq(Nat)
      BY DEF Types
    <2>2. \A i \in DOMAIN s : s[i] \in Nat
      BY <2>1
    <2> QED
      BY <2>1, <2>2 DEF Gate, GateOpensOnce
  <1> DEFINE Same == /\ UNCHANGED <<out["video"], settled["video"], gated>>
                     /\ get_audio => get_audio'
                     /\ pc'["vid"] = "send" => pc["vid"] = "send"
  <1>b. ASSUME Same PROVE Gate'
    BY <1>b, <1>a DEF Gate, GateOpensOnce
  <1> HIDE DEF n, s
  <1>1. ASSUME NEW q \in Queues, LockToPush(q) PROVE Same
    BY <1>1 DEF LockToPush, Goto, Types
  <1>2. ASSUME NEW q \in Queues, Push(q) PROVE Same
    BY <1>2 DEF Push, Goto, Types
  <1>3. ASSUME NEW q \in Queues, Poll(q) PROVE Same
    BY <1>3 DEF Poll, Goto, Types
  <1>4. ASSUME NEW q \in Queues, LockToPop(q) PROVE Same
    BY <1>4 DEF LockToPop, Goto, Types
  <1>5. ASSUME NEW q \in Queues, Pop(q) PROVE Same
    BY <1>5 DEF Pop, Goto, Types
  <1>6. CASE Capture
    <2>1. Same
      BY <1>6 DEF Capture, Make, Goto, Types
    <2> QED
      BY <2>1, <1>b
  <1>7. CASE CaptureFails
    <2>1. Same
      BY <1>7 DEF CaptureFails, Goto, Types
    <2> QED
      BY <2>1, <1>b
  <1>8. CASE Hear
    <2>1. Same
      BY <1>8 DEF Hear, Make, Goto, Types
    <2> QED
      BY <2>1, <1>b
  <1>9. CASE Encode
    <2>1. Same
      BY <1>9 DEF Encode, Make, Settle, Goto, Types
    <2> QED
      BY <2>1, <1>b
  <1>10. CASE Discard
    <2>1. /\ settled'["video"] = n + 1 /\ out'["video"] = s
          /\ gated' = gated \cup {n + 1}
          /\ ~get_audio /\ UNCHANGED get_audio
          /\ pc'["vid"] = "idle"
      BY <1>10, InHand DEF Discard, Settle, Goto, Types, n, s
    <2>2. s = <<>> /\ DOMAIN s = {}
      BY <2>1, <1>a
    <2> QED
      BY <2>1, <2>2, <1>a DEF Gate, GateOpensOnce
  <1>11. CASE Parse
    <2>1. CASE unit["vid"].kind = "empty"
      <3>1. /\ settled'["video"] = n + 1 /\ out'["video"] = s
            /\ UNCHANGED <<gated, get_audio>> /\ pc'["vid"] = "idle"
        BY <1>11, <2>1 DEF Parse, Settle, Goto, Types, n, s
      <3> QED
        BY <3>1, <1>a DEF Gate, GateOpensOnce
    <2>2. CASE unit["vid"].kind # "empty"
      <3>1. /\ settled'["video"] = n /\ out'["video"] = s
            /\ UNCHANGED <<gated, get_audio>> /\ get_audio
        BY <1>11, <2>2 DEF Parse, n, s
      <3> QED
        BY <3>1, <1>a DEF Gate, GateOpensOnce
    <2> QED
      BY <2>1, <2>2
  <1>12. CASE SendVideo
    <2>1. /\ settled'["video"] = n + 1
          /\ out'["video"] \in {s, Append(s, n + 1)}
          /\ UNCHANGED <<gated, get_audio>> /\ get_audio
          /\ pc'["vid"] = "idle"
      <3>1. /\ pc["vid"] = "send" /\ pc' = [pc EXCEPT !["vid"] = "idle"]
            /\ UNCHANGED <<gated, get_audio>>
            /\ settled' = [settled EXCEPT !["video"] = n + 1]
            /\ \/ out' = [out EXCEPT !["video"] = Append(s, unit["vid"].id)]
               \/ out' = out
        BY <1>12 DEF SendVideo, Send, Settle, Goto, n, s
      <3>2. unit["vid"].id = n + 1
        BY <3>1, InHand DEF n
      <3>3. /\ pc \in [Threads -> Labels] /\ settled \in [Queues -> Nat]
            /\ out \in [Queues -> Seq(Nat)]
        BY DEF Types
      <3> DEFINE longer == Append(s, n + 1)
      <3>4. out' = [out EXCEPT !["video"] = longer] \/ out' = out
        BY <3>1, <3>2
      <3> HIDE DEF longer
      <3>5. out'["video"] \in {s, longer}
        BY <3>3, <3>4 DEF s
      <3> QED
        BY <1>a, <3>1, <3>3, <3>5 DEF longer
    <2>2. CASE out'["video"] = s
      BY <2>1, <2>2, <1>a DEF Gate, GateOpensOnce
    <2>3. CASE out'["video"] = Append(s, n + 1)
      <3>1. \A i \in DOMAIN Append(s, n + 1) :
               \/ Append(s, n + 1)[i] = n + 1
               \/ i \in DOMAIN s /\ Append(s, n + 1)[i] = s[i]
        BY <1>a, HandedOn
      <3>2. \A i \in DOMAIN Append(s, n + 1) : Append(s, n + 1)[i] <= n + 1
        BY <3>1, <1>a
      <3>3. \A d \in gated, i \in DOMAIN Append(s, n + 1) :
               d < Append(s, n + 1)[i]
        BY <3>1, <1>a
      <3> QED
        BY <2>1, <2>3, <3>2, <3>3, <1>a DEF Gate, GateOpensOnce
    <2> QED
      BY <2>1, <2>2, <2>3
  <1>13. CASE SendAudio
    <2>1. Same
      BY <1>13 DEF SendAudio, Send, Settle, Goto, Types
    <2> QED
      BY <2>1, <1>b
  <1>14. CASE UNCHANGED vars
    <2>1. Same
      BY <1>14 DEF vars
    <2> QED
      BY <2>1, <1>b
  <1> QED
    BY <1>1, <1>2, <1>3, <1>4, <1>5, <1>b, <1>6, <1>7, <1>8, <1>9, <1>10,
       <1>11, <1>12, <1>13, <1>14
       DEF Next, Run, Produce, Consume

(* The empty buffer is the encoder's last, wherever it is.                   *)
LEMMA EndsStep ==
    Types /\ Places /\ Waits /\ Counts /\ Ends /\ [Next]_vars => Ends'
  <1> SUFFICES ASSUME Types, Places, Waits, Counts, Ends, [Next]_vars
               PROVE  Ends'
    OBVIOUS
  <1>a. /\ queue["video"] \in Seq(Units) /\ made["video"] \in Nat
        /\ unit["enc"] \in Units /\ unit["vid"] \in Units
        /\ settled["video"] \in Nat
    BY DEF Types
  <1> DEFINE Same == /\ UNCHANGED <<queue["video"], made["video"], leaked>>
                     /\ pc["enc"] = "stopped" => pc'["enc"] = "stopped"
                     /\ pc'["vid"] \in {"work", "send"}
                           => /\ pc["vid"] \in {"work", "send"}
                              /\ UNCHANGED unit["vid"]
  <1>b. ASSUME Same PROVE Ends'
    BY <1>b DEF Ends, Last, LeaksOnlyTheLast
  <1>1. ASSUME NEW q \in Queues, LockToPush(q) PROVE Same
    BY <1>1 DEF LockToPush, Goto, Types
  <1>2. ASSUME NEW q \in Queues, Push(q) PROVE Ends'
    <2>1. CASE q # "video"
      <3>1. Same
        BY <1>2, <2>1 DEF Push, Goto, Types
      <3> QED
        BY <3>1, <1>b
    <2>2. CASE q = "video"
      <3> DEFINE u == unit["enc"]
                 s == queue["video"]
      <3>1. /\ pc["enc"] = "push"
            /\ queue'["video"] = Append(s, u)
            /\ pc'["enc"] = "stopped" \/ u.kind # "empty"
            /\ pc'["vid"] = pc["vid"]
            /\ UNCHANGED <<unit["vid"], made, leaked>>
        BY <1>2, <2>2 DEF Push, Goto, Types
      <3>2. u.id = made["video"]
        BY <3>1, InHand
      <3>3. /\ \A i \in 1..Len(s) : s[i].kind # "empty"
            /\ pc["vid"] \in {"work", "send"} => unit["vid"].kind # "empty"
            /\ leaked = {}
        BY <3>1 DEF Ends, Last
      <3>4. \A i \in 1..Len(Append(s, u)) :
               \/ Append(s, u)[i] = u
               \/ Append(s, u)[i].kind # "empty"
        BY <3>3, <1>a, AtEnd
      <3>5. leaked' = {}
        BY <3>1, <3>3
      <3>6. \A i \in 1..Len(queue'["video"]) : Last(queue["video"][i])'
        BY <3>1, <3>2, <3>4 DEF Last
      <3>7. pc'["vid"] \in {"work", "send"} => Last(unit["vid"])'
        BY <3>1, <3>3 DEF Last
      <3> QED
        BY <3>5, <3>6, <3>7 DEF Ends, LeaksOnlyTheLast
    <2> QED
      BY <2>1, <2>2
  <1>3. ASSUME NEW q \in Queues, Poll(q) PROVE Same
    BY <1>3 DEF Poll, Goto, Types
  <1>4. ASSUME NEW q \in Queues, LockToPop(q) PROVE Same
    BY <1>4 DEF LockToPop, Goto, Types
  <1>5. ASSUME NEW q \in Queues, Pop(q) PROVE Ends'
    <2>1. CASE q # "video"
      <3>1. Same
        BY <1>5, <2>1 DEF Pop, Goto, Types
      <3> QED
        BY <3>1, <1>b
    <2>2. CASE q = "video"
      <3> DEFINE s == queue["video"]
      <3>1. /\ s # <<>> /\ queue'["video"] = Tail(s)
            /\ unit'["vid"] = Head(s)
            /\ pc'["enc"] = pc["enc"] /\ UNCHANGED <<made, leaked>>
        BY <1>5, <2>2 DEF Pop, Goto, Types, Waits
      <3>2. /\ Len(s) \in Nat /\ Len(s) >= 1 /\ Len(Tail(s)) = Len(s) - 1
            /\ Head(s) = s[1]
            /\ \A i \in 1..(Len(s) - 1) : Tail(s)[i] = s[i + 1]
        BY <3>1, <1>a, AtFront
      <3>3. \A i \in 1..Len(s) : Last(s[i])
        BY DEF Ends
      <3>4. \A i \in 1..Len(Tail(s)) : Last(Tail(s)[i])
        BY <3>2, <3>3
      <3>5. Last(Head(s))
        BY <3>2, <3>3
      <3>6. \A i \in 1..Len(queue'["video"]) : Last(queue["video"][i])'
        BY <3>1, <3>4 DEF Last
      <3>7. Last(unit["vid"])'
        BY <3>1, <3>5 DEF Last
      <3> QED
        BY <3>1, <3>6, <3>7 DEF Ends, LeaksOnlyTheLast
    <2> QED
      BY <2>1, <2>2
  <1>6. CASE Capture
    <2>1. /\ pc["enc"] = "idle" /\ UNCHANGED <<queue, leaked>>
          /\ pc'["vid"] = pc["vid"] /\ unit'["vid"] = unit["vid"]
      BY <1>6 DEF Capture, Make, Goto, Types
    <2>2. /\ \A i \in 1..Len(queue["video"]) : queue["video"][i].kind # "empty"
          /\ pc["vid"] \in {"work", "send"} => unit["vid"].kind # "empty"
          /\ leaked = {}
      BY <2>1 DEF Ends, Last
    <2> QED
      BY <2>1, <2>2 DEF Ends, Last, LeaksOnlyTheLast
  <1>7. CASE CaptureFails
    <2>1. Same
      BY <1>7 DEF CaptureFails, Goto, Types
    <2> QED
      BY <2>1, <1>b
  <1>8. CASE Hear
    <2>1. Same
      BY <1>8 DEF Hear, Make, Goto, Types
    <2> QED
      BY <2>1, <1>b
  <1>9. CASE Encode
    <2>1. Same
      BY <1>9 DEF Encode, Make, Settle, Goto, Types
    <2> QED
      BY <2>1, <1>b
  <1>10. CASE Discard
    <2>1. Same
      BY <1>10 DEF Discard, Settle, Goto, Types
    <2> QED
      BY <2>1, <1>b
  <1>11. CASE Parse
    <2>1. CASE unit["vid"].kind = "empty"
      <3>1. /\ pc["vid"] = "work" /\ pc'["vid"] = "idle"
            /\ leaked' = leaked \cup {unit["vid"].id}
            /\ UNCHANGED <<queue, made>> /\ pc'["enc"] = pc["enc"]
        BY <1>11, <2>1 DEF Parse, Goto, Types
      <3>2. /\ pc["enc"] = "stopped" /\ unit["vid"].id = made["video"]
            /\ made["video"] > 0
        BY <3>1, <2>1, <1>a, InHand DEF Ends, Last
      <3> QED
        BY <3>1, <3>2 DEF Ends, Last, LeaksOnlyTheLast
    <2>2. CASE unit["vid"].kind # "empty"
      <3>1. Same
        BY <1>11, <2>2 DEF Parse, Goto, Types
      <3> QED
        BY <3>1, <1>b
    <2> QED
      BY <2>1, <2>2
  <1>12. CASE SendVideo
    <2>1. Same
      BY <1>12 DEF SendVideo, Send, Settle, Goto, Types
    <2> QED
      BY <2>1, <1>b
  <1>13. CASE SendAudio
    <2>1. Same
      BY <1>13 DEF SendAudio, Send, Settle, Goto, Types
    <2> QED
      BY <2>1, <1>b
  <1>14. CASE UNCHANGED vars
    <2>1. Same
      BY <1>14 DEF vars
    <2> QED
      BY <2>1, <1>b
  <1> QED
    BY <1>1, <1>2, <1>3, <1>4, <1>5, <1>b, <1>6, <1>7, <1>8, <1>9, <1>10,
       <1>11, <1>12, <1>13, <1>14
       DEF Next, Run, Produce, Consume

-----------------------------------------------------------------------------
(* IInv holds of every reachable state.                                      *)
LEMMA InitInv == Init => IInv
  <1> SUFFICES ASSUME Init PROVE IInv
    OBVIOUS
  <1>1. Types
    <2>1. <<>> \in Seq(Units) /\ <<>> \in Seq(Nat)
      OBVIOUS
    <2>2. /\ pc \in [Threads -> Labels]
          /\ lock \in [Queues -> Threads \cup {"nobody"}]
      BY DEF Init, Labels
    <2>3. unit \in [Threads -> Units]
      BY Unit DEF Init
    <2>4. queue \in [Queues -> Seq(Units)] /\ out \in [Queues -> Seq(Nat)]
      BY <2>1 DEF Init
    <2> QED
      BY <2>2, <2>3, <2>4 DEF Init, Types
  <1>2. Places /\ Waits
    BY DEF Init, Places, PcOf, Waits
  <1>3. Counts
    BY BoundsAssumption DEF Init, Counts, Count, Chain, One, Held, Offered,
       Holding, Offering, Bounded
  <1>4. Gate /\ Ends
    BY DEF Init, Gate, GateOpensOnce, Ends, LeaksOnlyTheLast
  <1> QED
    BY <1>1, <1>2, <1>3, <1>4 DEF IInv

LEMMA InvStep == IInv /\ [Next]_vars => IInv'
  BY TypesStep, PlacesStep, WaitsStep, CountsStep, GateStep, EndsStep DEF IInv

LEMMA Invariant == Spec => []IInv
  BY InitInv, InvStep, PTL DEF Spec

(* The variables keep their types, and no queue's consumer is done with more *)
(* than was made: settled <= made <= Bound for every queue.                  *)
THEOREM TypeCorrect == Spec => []TypeOK
  <1>1. IInv => TypeOK
    <2> SUFFICES ASSUME IInv PROVE TypeOK
      OBVIOUS
    <2>1. Types /\ Counts /\ Gate /\ Ends
      BY DEF IInv
    <2>2. \A q \in Queues : settled[q] <= made[q]
      <3> SUFFICES ASSUME NEW q \in Queues PROVE settled[q] <= made[q]
        OBVIOUS
      <3>1. /\ made[q] \in Nat /\ settled[q] \in Nat /\ Len(queue[q]) \in Nat
            /\ One(Held(q)) \in Nat /\ One(Offered(q)) \in Nat
        BY <2>1 DEF Types, One
      <3>2. made[q] = (settled[q] + One(Held(q)))
                        + (Len(queue[q]) + One(Offered(q)))
        BY <2>1 DEF Counts, Count, Chain
      <3> QED
        BY <3>1, <3>2
    <2>3. /\ \A q \in Queues : made[q] \in Nat /\ settled[q] \in Nat
          /\ Bounded
      BY <2>1 DEF Types, Counts
    <2>4. \A q \in Queues : made[q] <= Bound[q]
      BY <2>2, <2>3, BoundsAssumption DEF Bounded, Bound
    <2>5. gated \subseteq 1..MaxBuffers
      BY <2>1, <2>2, <2>3, BoundsAssumption DEF Gate, Bounded
    <2>6. leaked \subseteq 1..MaxBuffers
      BY <2>1, <2>3, BoundsAssumption DEF Ends, LeaksOnlyTheLast, Bounded
    <2> QED
      BY <2>1, <2>2, <2>4, <2>5, <2>6 DEF TypeOK, Types
  <1> QED
    BY <1>1, Invariant, PTL

(* A consumer's pop finds a unit and meets no push, whatever the size tests  *)
(* made without the mutex have said.                                         *)
THEOREM QueuesSafe == Spec => []QueueSafe
  <1>1. IInv => QueueSafe
    BY DEF IInv, Places, Waits, QueueSafe, PopNonEmpty, QueueRaceFree
  <1> QED
    BY <1>1, Invariant, PTL

(* The get_audio gate opens once and for good.                               *)
THEOREM GateOpens == Spec => []GateOpensOnce
  <1>1. IInv => GateOpensOnce
    BY DEF IInv, Gate
  <1> QED
    BY <1>1, Invariant, PTL

(* The pushing thread forgets to free at most one buffer, the encoder's last.*)
THEOREM OneLeak == Spec => []LeaksOnlyTheLast
  <1>1. IInv => LeaksOnlyTheLast
    BY DEF IInv, Ends
  <1> QED
    BY <1>1, Invariant, PTL

-----------------------------------------------------------------------------
(* Every step is a step of each queue's MediaChannel, or leaves it alone.    *)
ChannelStep(q) ==
    \/ UNCHANGED <<made[q], settled[q], out[q]>>
    \/ made'[q] = made[q] + 1 /\ UNCHANGED <<settled[q], out[q]>>
    \/ /\ settled[q] < made[q] /\ settled'[q] = settled[q] + 1
       /\ out'[q] \in {out[q], Append(out[q], settled[q] + 1)}
       /\ UNCHANGED made[q]

LEMMA ChannelSteps == IInv /\ IInv' /\ [Next]_vars
                        => \A q \in Queues : ChannelStep(q)
  <1> SUFFICES ASSUME IInv, IInv', [Next]_vars, NEW q \in Queues
               PROVE  ChannelStep(q)
    OBVIOUS
  <1>1. Types /\ Count(q) /\ Move(q)
    BY Moves DEF IInv, Counts
  <1>2. CASE Settled(q)
    <2>1. Held(q) = settled[q] + 1 /\ settled'[q] <= made[q]
      BY <1>1, <1>2, SettledCount
    <2>2. made[q] \in Nat /\ settled[q] \in Nat
      BY <1>1, HandsTypes
    <2> QED
      BY <1>2, <2>1, <2>2 DEF Settled, ChannelStep
  <1> QED
    BY <1>1, <1>2 DEF Move, Unmoved, Made, Pushed, Popped, ChannelStep

(* Each queue, seen with the threads at its two ends, implements the channel *)
(* that settles units in the order they were made, each exactly once.        *)
THEOREM ChannelsImplemented == Spec => ImplementsChannels
  <1>1. Init => Video!Init /\ Pcm!Init /\ Aac!Init
    BY DEF Init, Video!Init, Pcm!Init, Aac!Init
  <1>2. IInv /\ IInv' /\ [Next]_vars => /\ [Video!Next]_(Video!vars)
                                        /\ [Pcm!Next]_(Pcm!vars)
                                        /\ [Aac!Next]_(Aac!vars)
    <2> SUFFICES ASSUME \A q \in Queues : ChannelStep(q)
                 PROVE  /\ [Video!Next]_(Video!vars)
                        /\ [Pcm!Next]_(Pcm!vars)
                        /\ [Aac!Next]_(Aac!vars)
      BY ChannelSteps
    <2>1. [Video!Next]_(Video!vars)
      <3>1. ChannelStep("video")
        OBVIOUS
      <3> QED
        BY <3>1 DEF ChannelStep, Video!Next, Video!vars, Video!Capture,
           Video!Drop, Video!HandOn
    <2>2. [Pcm!Next]_(Pcm!vars)
      <3>1. ChannelStep("pcm")
        OBVIOUS
      <3> QED
        BY <3>1 DEF ChannelStep, Pcm!Next, Pcm!vars, Pcm!Capture, Pcm!Drop,
           Pcm!HandOn
    <2>3. [Aac!Next]_(Aac!vars)
      <3>1. ChannelStep("aac")
        OBVIOUS
      <3> QED
        BY <3>1 DEF ChannelStep, Aac!Next, Aac!vars, Aac!Capture, Aac!Drop,
           Aac!HandOn
    <2> QED
      BY <2>1, <2>2, <2>3
  <1> QED
    BY <1>1, <1>2, Invariant, PTL
       DEF Spec, ImplementsChannels, Video!Spec, Pcm!Spec, Aac!Spec
=============================================================================
