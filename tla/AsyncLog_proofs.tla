-------------------------- MODULE AsyncLog_proofs --------------------------
(***************************************************************************)
(* Safety of AsyncLog for any clients, sinks and capacity.  The invariant  *)
(* has three parts: Types; Places (who can be where, and that the request  *)
(* to terminate is the last item of all); and Flow (how the items of the   *)
(* queue and the worker's correspond to what was accepted, and that behind *)
(* every urgent message a flush is on its way).                            *)
(***************************************************************************)
EXTENDS AsyncLog, FiniteSetTheorems, SequenceTheorems, TLAPS

Working == wpc \in {"notify", "process"}

Types ==
    /\ policy \in {"block_retry", "discard_log_msg"}
    /\ pc \in [Threads -> Labels]
    /\ hand \in [Threads -> Items]
    /\ calls \in 0..MaxCalls
    /\ q \in Seq(Items) /\ Len(q) <= MaxItems
    /\ wpc \in {"wait", "asleep", "notify", "process", "stopped"}
    /\ cur \in Items
    /\ accepted \in Seq(Messages)
    /\ settled \in Nat
    /\ written \in [Sinks -> Seq(Messages)]
    /\ flushed \in [Sinks -> Nat] /\ \A s \in Sinks : flushed[s] <= settled
    /\ unflushed \subseteq Sinks
    /\ faults \in 0..MaxFaults

Places ==
    /\ \A c \in Clients : pc[c] # "join" /\ hand[c].type # "terminate"
    /\ pc[Owner] # "idle" => \A c \in Clients : pc[c] = "done"
    /\ pc[Owner] \in {"enqueue", "asleep", "notify"}
          => hand[Owner].type = "terminate"
    /\ \A i \in 1..Len(q) : q[i].type = "terminate"
          => i = Len(q) /\ pc[Owner] \in {"notify", "join"}
    /\ Working /\ cur.type = "terminate"
          => q = <<>> /\ pc[Owner] \in {"notify", "join"}
    /\ wpc = "stopped" => q = <<>> /\ pc[Owner] \in {"notify", "join", "done"}
    /\ pc[Owner] = "done" => wpc = "stopped"
    /\ policy = "discard_log_msg" => \A c \in Clients : pc[c] # "asleep"

\* The messages in a queue are the last of those accepted: up to its item i
\* there are c[i] of them, base before the first.
One(x) == IF x.type = "log" THEN 1 ELSE 0
Track(c, items, acc, base) ==
    /\ c \in [0..Len(items) -> 0..Len(acc)]
    /\ c[0] = base /\ c[Len(items)] = Len(acc)
    /\ \A i \in 1..Len(items) :
          /\ c[i] = c[i - 1] + One(items[i])
          /\ items[i].type = "log" => acc[c[i]] = items[i].msg

\* The messages settled and the one the worker has.
Taken == settled + (IF Working THEN One(cur) ELSE 0)

\* A flush that will come behind all that is accepted so far, or is behind
\* message k already.
FlushComing == \E t \in Clients :
                  \/ /\ pc[t] = "notify"
                     /\ hand[t].type = "log" /\ hand[t].msg.urgent
                  \/ pc[t] \in {"enqueue", "asleep"} /\ hand[t].type = "flush"
FlushBehind(c, k) == \/ FlushComing
                     \/ \E i \in 1..Len(q) : q[i].type # "log" /\ c[i] >= k
                     \/ Working /\ cur.type # "log" /\ settled >= k
Flushed(k) == settled >= k /\ \A s \in Sinks \ unflushed : flushed[s] >= k

Follows(c) ==
    policy = "block_retry" =>
        \A k \in 1..Len(accepted) :
            accepted[k].urgent => FlushBehind(c, k) \/ Flushed(k)

Flow ==
    /\ Working /\ cur.type = "log" => accepted[settled + 1] = cur.msg
    /\ \E c : Track(c, q, accepted, Taken) /\ Follows(c)

\* When the worker has stopped, everything is settled and flushed.
Stopped == wpc = "stopped" => /\ settled = Len(accepted)
                              /\ \A s \in Sinks \ unflushed : flushed[s] = settled

-----------------------------------------------------------------------------
LEMMA Kinds ==
    /\ FlushRequest \in Items /\ FlushRequest.type = "flush"
    /\ [type |-> "terminate"] \in Items
    /\ [type |-> "terminate"].type = "terminate"
    /\ \A m \in Messages : /\ [type |-> "log", msg |-> m] \in Items
                           /\ [type |-> "log", msg |-> m].type = "log"
                           /\ [type |-> "log", msg |-> m].msg = m
    /\ \A x \in Items : /\ x.type \in {"log", "flush", "terminate"}
                        /\ x.type = "log" => x.msg \in Messages
    /\ \A n \in 1..MaxCalls, u \in BOOLEAN :
          [n |-> n, urgent |-> u] \in Messages
BY DEF FlushRequest, Items, Requests, Messages

LEMMA Numbers ==
    /\ MaxItems \in Nat /\ MaxItems >= 1 /\ MaxCalls \in Nat /\ MaxFaults \in Nat
    /\ \A bad \in SUBSET Sinks : Cardinality(bad) \in Nat
    /\ Owner \in Threads /\ Clients \subseteq Threads /\ Owner \notin Clients
    /\ \A t \in Threads : t \in Clients \/ t = Owner
  <1>1. ASSUME NEW bad \in SUBSET Sinks PROVE Cardinality(bad) \in Nat
    <2>1. IsFiniteSet(bad)
      BY LogAssumption, FS_Subset
    <2> QED
      BY <2>1, FS_CardinalityType
  <1> QED
    BY <1>1, LogAssumption DEF Threads

(* What an Append and a Tail do to a sequence.                               *)
LEMMA AtEnd ==
    ASSUME NEW S, NEW s \in Seq(S), NEW u \in S
    PROVE  /\ Append(s, u) \in Seq(S) /\ Append(s, u) # <<>>
           /\ Len(s) \in Nat /\ Len(Append(s, u)) = Len(s) + 1
           /\ \A i \in 1..Len(s) : Append(s, u)[i] = s[i]
           /\ Append(s, u)[Len(s) + 1] = u
           /\ SubSeq(Append(s, u), 1, Len(s)) = s
  <1>1. /\ Append(s, u) \in Seq(S) /\ Append(s, u) # <<>>
        /\ Len(s) \in Nat /\ Len(Append(s, u)) = Len(s) + 1
        /\ \A i \in 1..Len(s) : Append(s, u)[i] = s[i]
        /\ Append(s, u)[Len(s) + 1] = u
    BY AppendProperties
  <1>2. SubSeq(Append(s, u), 1, Len(s)) = s
    <2> DEFINE t == Append(s, u)
               r == SubSeq(t, 1, Len(s))
    <2>1. CASE Len(s) = 0
      <3>1. s = <<>>
        BY <2>1
      <3> QED
        BY <3>1, <1>1, SubSeqEmpty
    <2>2. CASE Len(s) # 0
      <3>1. 1 \in 1..(Len(t) + 1) /\ Len(s) \in 0..Len(t)
        BY <1>1
      <3>2. /\ r \in Seq(S)
            /\ Len(r) = IF 1 <= Len(s) THEN Len(s) - 1 + 1 ELSE 0
            /\ \A i \in 1..(Len(s) - 1 + 1) : r[i] = t[1 + i - 1]
        BY <1>1, <3>1, SubSeqProperties
      <3>3. Len(r) = Len(s) /\ \A i \in 1..Len(r) : r[i] = s[i]
        BY <1>1, <2>2, <3>2
      <3> QED
        BY <3>2, <3>3, SeqEqual
    <2> QED
      BY <2>1, <2>2
  <1> QED
    BY <1>1, <1>2

LEMMA AtFront ==
    ASSUME NEW S, NEW s \in Seq(S), s # <<>>
    PROVE  /\ Tail(s) \in Seq(S) /\ Head(s) \in S
           /\ Len(s) \in Nat /\ Len(s) >= 1 /\ Len(Tail(s)) = Len(s) - 1
           /\ Head(s) = s[1]
           /\ \A i \in 1..(Len(s) - 1) : Tail(s)[i] = s[i + 1]
  OBVIOUS

LEMMA Elements ==
    ASSUME NEW S, NEW s \in Seq(S)
    PROVE  /\ Len(s) \in Nat /\ \A i \in 1..Len(s) : s[i] \in S
           /\ s = <<>> <=> Len(s) = 0
  OBVIOUS

(* What a put and a take do to Track.                                        *)
Longer(items, x) == Append(items, x)
Grown(acc, x) == IF x.type = "log" THEN Append(acc, x.msg) ELSE acc

LEMMA TrackPut ==
    ASSUME NEW items \in Seq(Items), NEW acc \in Seq(Messages), NEW base,
           NEW c, Track(c, items, acc, base), NEW x \in Items
    PROVE  \E d : /\ Track(d, Longer(items, x), Grown(acc, x), base)
                  /\ \A i \in 0..Len(items) : d[i] = c[i]
                  /\ d[Len(items) + 1] = Len(Grown(acc, x))
  <1> DEFINE n == Len(items)
             new == Longer(items, x)
             more == Grown(acc, x)
             d == [i \in 0..(n + 1) |-> IF i <= n THEN c[i] ELSE Len(more)]
  <1>1. /\ n \in Nat /\ Len(new) = n + 1 /\ new[n + 1] = x
        /\ \A i \in 1..n : new[i] = items[i]
    BY AtEnd DEF Longer
  <1>2. /\ Len(acc) \in Nat /\ Len(more) = Len(acc) + One(x)
        /\ \A i \in 1..Len(acc) : more[i] = acc[i]
        /\ x.type = "log" => more[Len(more)] = x.msg
        /\ One(x) \in 0..1
    <2>1. CASE x.type = "log"
      <3>1. x.msg \in Messages
        BY Kinds, <2>1
      <3> QED
        BY <2>1, <3>1, AtEnd DEF One, Grown
    <2>2. CASE x.type # "log"
      BY <2>2, Elements DEF One, Grown
    <2> QED
      BY <2>1, <2>2
  <1>3. /\ c \in [0..n -> 0..Len(acc)] /\ c[0] = base /\ c[n] = Len(acc)
        /\ \A i \in 1..n : /\ c[i] = c[i - 1] + One(items[i])
                           /\ items[i].type = "log" => acc[c[i]] = items[i].msg
    BY DEF Track
  <1> HIDE DEF n, new, more
  <1>4. /\ \A i \in 0..n : d[i] = c[i]
        /\ d[n + 1] = Len(more) /\ d[n] = Len(acc) /\ d[0] = base
    BY <1>1, <1>3
  <1>5. d \in [0..(n + 1) -> 0..Len(more)]
    BY <1>1, <1>2, <1>3
  <1> HIDE DEF d
  <1>6. ASSUME NEW i \in 1..(n + 1)
        PROVE  /\ d[i] = d[i - 1] + One(new[i])
               /\ new[i].type = "log" => more[d[i]] = new[i].msg
    <2>1. CASE i \in 1..n
      <3>1. i - 1 \in 0..n /\ i \in 0..n
        BY <1>1, <2>1
      <3>2. /\ d[i] = c[i] /\ d[i - 1] = c[i - 1] /\ new[i] = items[i]
            /\ One(items[i]) \in 0..1 /\ c[i] \in 0..Len(acc)
            /\ c[i - 1] \in 0..Len(acc)
        BY <1>1, <1>3, <1>4, <2>1, <3>1 DEF One
      <3>3. items[i].type = "log" => c[i] \in 1..Len(acc)
        BY <1>2, <1>3, <2>1, <3>2 DEF One
      <3> QED
        BY <1>2, <1>3, <2>1, <3>2, <3>3
    <2>2. CASE i = n + 1
      <3>1. i - 1 = n /\ Len(acc) \in Nat
        BY <1>1, <1>2, <2>2
      <3> QED
        BY <1>1, <1>2, <1>4, <2>2, <3>1
    <2>3. i \in 1..n \/ i = n + 1
      BY <1>1
    <2> QED
      BY <2>1, <2>2, <2>3
  <1>7. Track(d, new, more, base)
    BY <1>1, <1>4, <1>5, <1>6 DEF Track
  <1> QED
    BY <1>4, <1>7 DEF n, new, more

LEMMA TrackTake ==
    ASSUME NEW items \in Seq(Items), items # <<>>, NEW acc \in Seq(Messages),
           NEW base, NEW c, Track(c, items, acc, base)
    PROVE  /\ c[1] = base + One(Head(items)) /\ base \in Nat
           /\ Head(items).type = "log" => acc[c[1]] = Head(items).msg
           /\ \E d : /\ Track(d, Tail(items), acc, c[1])
                     /\ \A i \in 0..Len(Tail(items)) : d[i] = c[i + 1]
  <1> DEFINE n == Len(items)
             new == Tail(items)
             d == [i \in 0..(n - 1) |-> c[i + 1]]
  <1>1. /\ n \in Nat /\ n >= 1 /\ Len(new) = n - 1 /\ Head(items) = items[1]
        /\ \A i \in 1..(n - 1) : new[i] = items[i + 1]
    BY AtFront
  <1>2. /\ c \in [0..n -> 0..Len(acc)] /\ c[0] = base /\ c[n] = Len(acc)
        /\ \A i \in 1..n : /\ c[i] = c[i - 1] + One(items[i])
                           /\ items[i].type = "log" => acc[c[i]] = items[i].msg
    BY DEF Track
  <1> HIDE DEF n, new
  <1>3. 0 \in 0..n /\ 1 \in 1..n /\ Len(acc) \in Nat
    BY <1>1, Elements
  <1>4. /\ c[1] = base + One(Head(items)) /\ base \in Nat
        /\ Head(items).type = "log" => acc[c[1]] = Head(items).msg
    BY <1>1, <1>2, <1>3
  <1>5. d \in [0..(n - 1) -> 0..Len(acc)]
    BY <1>1, <1>2
  <1>6. /\ \A i \in 0..(n - 1) : d[i] = c[i + 1]
        /\ d[0] = c[1] /\ d[n - 1] = Len(acc)
    BY <1>1, <1>2
  <1> HIDE DEF d
  <1>7. ASSUME NEW i \in 1..(n - 1)
        PROVE  /\ d[i] = d[i - 1] + One(new[i])
               /\ new[i].type = "log" => acc[d[i]] = new[i].msg
    <2>1. i + 1 \in 1..n /\ i - 1 \in 0..(n - 1) /\ (i - 1) + 1 = (i + 1) - 1
          /\ i \in 0..(n - 1)
      BY <1>1
    <2>2. d[i] = c[i + 1] /\ d[i - 1] = c[(i + 1) - 1] /\ new[i] = items[i + 1]
      BY <1>1, <1>6, <2>1
    <2> QED
      BY <1>2, <2>1, <2>2
  <1>8. Track(d, new, acc, c[1])
    BY <1>1, <1>5, <1>6, <1>7 DEF Track
  <1> QED
    BY <1>1, <1>4, <1>6, <1>8 DEF new, n


-----------------------------------------------------------------------------
(* The helpers of the actions.                                              *)

LEMMA BringEffect ==
    ASSUME Types, NEW t \in Threads, NEW item \in Items, Bring(t, item)
    PROVE  /\ pc' \in [Threads -> Labels] /\ hand' \in [Threads -> Items]
           /\ pc'[t] = "enqueue" /\ hand'[t] = item
           /\ \A u \in Threads \ {t} : pc'[u] = pc[u] /\ hand'[u] = hand[u]
BY DEF Types, Bring, Labels

LEMMA AfterEffect ==
    ASSUME Types, NEW t \in Threads, After(t)
    PROVE  /\ pc' \in [Threads -> Labels] /\ hand' \in [Threads -> Items]
           /\ hand'[t] = FlushRequest
           /\ pc'[t] \in {"enqueue", "join", "idle"}
           /\ pc'[t] = "enqueue" <=> hand[t].type = "log" /\ hand[t].msg.urgent
           /\ pc'[t] = "join" <=> hand[t].type = "terminate"
           /\ \A u \in Threads \ {t} : pc'[u] = pc[u] /\ hand'[u] = hand[u]
  <1>1. CASE hand[t].type = "log" /\ hand[t].msg.urgent
    <2>1. Bring(t, FlushRequest)
      BY <1>1 DEF After
    <2> QED
      BY <1>1, <2>1, BringEffect, Kinds
  <1>2. CASE ~(hand[t].type = "log" /\ hand[t].msg.urgent)
    <2> DEFINE to == IF hand[t].type = "terminate" THEN "join" ELSE "idle"
    <2>1. pc' = [pc EXCEPT ![t] = to] /\ hand' = [hand EXCEPT ![t] = FlushRequest]
      BY <1>2 DEF After
    <2>2. to \in Labels
      BY DEF Labels
    <2> QED
      BY <1>2, <2>1, <2>2, Kinds DEF Types
  <1> QED
    BY <1>1, <1>2

(* A flush of the sinks, when done messages are settled.                     *)
LEMMA Flushing ==
    ASSUME Types, NEW done \in Nat, settled <= done, NEW spent \in Nat,
           FlushSinks(done, spent)
    PROVE  /\ flushed' \in [Sinks -> Nat] /\ \A s \in Sinks : flushed'[s] <= done
           /\ unflushed' \subseteq Sinks /\ faults' \in 0..MaxFaults
           /\ faults' >= spent
           /\ \A s \in Sinks \ unflushed' : flushed'[s] = done
  <1>1. PICK bad \in SUBSET Sinks :
           /\ faults' = spent + Cardinality(bad) /\ faults' <= MaxFaults
           /\ flushed' = [s \in Sinks |-> IF s \in bad THEN flushed[s] ELSE done]
           /\ unflushed' = bad
    BY DEF FlushSinks
  <1>2. faults' \in Nat /\ faults' >= spent
    BY <1>1, Numbers
  <1> QED
    BY <1>1, <1>2, Numbers DEF Types

LEMMA Interval ==
    ASSUME Types, NEW done \in Nat, settled <= done, NEW spent \in 0..MaxFaults,
           HandleFlushInterval(done, spent)
    PROVE  /\ flushed' \in [Sinks -> Nat] /\ \A s \in Sinks : flushed'[s] <= done
           /\ unflushed' \subseteq Sinks /\ faults' \in 0..MaxFaults
           /\ faults' >= spent
           /\ \/ \A s \in Sinks \ unflushed' : flushed'[s] = done
              \/ UNCHANGED <<flushed, unflushed>>
  <1>0. MaxFaults \in Nat /\ spent \in Nat
    BY Numbers
  <1>1. CASE FlushSinks(done, spent)
    BY <1>0, <1>1, Flushing
  <1>2. CASE faults' = spent /\ UNCHANGED <<flushed, unflushed>>
    BY <1>0, <1>2 DEF Types
  <1> QED
    BY <1>1, <1>2 DEF HandleFlushInterval

-----------------------------------------------------------------------------
(* Types.                                                                   *)

LEMMA TypesInit == Init => Types
BY Kinds, Numbers DEF Init, Types, Labels

LEMMA TypesCall ==
    ASSUME Types, NEW c \in Clients, Call(c)
    PROVE  Types'
  <1>0. c \in Threads
    BY Numbers
  <1>1. CASE Log(c)
    <2>1. calls' \in 1..MaxCalls
      BY <1>1, Numbers DEF Log, Types
    <2>2. PICK urgent \in BOOLEAN :
             Bring(c, [type |-> "log", msg |-> [n |-> calls', urgent |-> urgent]])
      BY <1>1 DEF Log
    <2> DEFINE item == [type |-> "log", msg |-> [n |-> calls', urgent |-> urgent]]
    <2>3. item \in Items
      BY <2>1, Kinds
    <2>4. pc' \in [Threads -> Labels] /\ hand' \in [Threads -> Items]
      <3> HIDE DEF item
      <3> QED
        BY <1>0, <2>2, <2>3, BringEffect DEF item
    <2> QED
      BY <1>1, <2>1, <2>4 DEF Log, Types, queueVars, workVars
  <1>2. CASE Flush(c)
    <2>1. pc' \in [Threads -> Labels] /\ hand' \in [Threads -> Items]
      BY <1>0, <1>2, BringEffect, Kinds DEF Flush
    <2>2. calls' \in 0..MaxCalls
      BY <1>2, Numbers DEF Flush, Types
    <2> QED
      BY <1>2, <2>1, <2>2 DEF Flush, Types, queueVars, workVars
  <1>3. CASE Leave(c)
    BY <1>3 DEF Leave, Types, Labels, queueVars, workVars
  <1> QED
    BY <1>1, <1>2, <1>3 DEF Call

LEMMA TypesPut ==
    ASSUME Types, NEW t \in Threads, Put(t) \/ SpuriousWakeUp(t)
    PROVE  Types'
  <1>1. CASE Enqueue(t)
    <2>1. hand[t] \in Items /\ (hand[t].type = "log" => hand[t].msg \in Messages)
      BY Kinds DEF Types
    <2>2. q' \in Seq(Items) /\ Len(q') <= MaxItems
      BY <1>1, <2>1, Numbers, AtEnd DEF Enqueue, Room, Types
    <2>3. accepted' \in Seq(Messages)
      BY <1>1, <2>1 DEF Enqueue, Types
    <2>4. pc' \in [Threads -> Labels]
      BY <1>1 DEF Enqueue, Types, Labels
    <2> QED
      BY <1>1, <2>2, <2>3, <2>4 DEF Enqueue, Types, workVars
  <1>2. CASE FallAsleep(t)
    BY <1>2 DEF FallAsleep, Types, Labels, queueVars, workVars
  <1>3. CASE Refuse(t)
    <2>1. pc' \in [Threads -> Labels] /\ hand' \in [Threads -> Items]
      BY <1>3, AfterEffect DEF Refuse
    <2> QED
      BY <1>3, <2>1 DEF Refuse, Types, queueVars, workVars
  <1>4. CASE NotifyWorker(t)
    <2>1. pc' \in [Threads -> Labels] /\ hand' \in [Threads -> Items]
      BY <1>4, AfterEffect DEF NotifyWorker
    <2> QED
      BY <1>4, <2>1 DEF NotifyWorker, Types, queueVars, workVars
  <1>5. CASE SpuriousWakeUp(t)
    BY <1>5 DEF SpuriousWakeUp, Types, Labels, queueVars, workVars
  <1> QED
    BY <1>1, <1>2, <1>3, <1>4, <1>5 DEF Put

LEMMA TypesOwner ==
    ASSUME Types, Destroy \/ Join
    PROVE  Types'
  <1>1. CASE Destroy
    <2>1. pc' \in [Threads -> Labels] /\ hand' \in [Threads -> Items]
      BY <1>1, BringEffect, Kinds, Numbers DEF Destroy
    <2> QED
      BY <1>1, <2>1 DEF Destroy, Types, queueVars, workVars
  <1>2. CASE Join
    BY <1>2 DEF Join, Types, Labels, queueVars, workVars
  <1> QED
    BY <1>1, <1>2

LEMMA TypesWorker ==
    ASSUME Types, Worker
    PROVE  Types'
  <1>1. CASE Dequeue
    <2>1. q # <<>> /\ q' = Tail(q) /\ cur' = Head(q)
      BY <1>1 DEF Dequeue
    <2>2. q' \in Seq(Items) /\ Len(q') <= MaxItems /\ cur' \in Items
      BY <2>1, AtFront, Numbers DEF Types
    <2> QED
      BY <1>1, <2>2 DEF Dequeue, Types, workVars
  <1>2. CASE WorkerSleeps
    BY <1>2 DEF WorkerSleeps, Types, queueVars, workVars
  <1>3. CASE NotifyClient
    <2>1. pc' \in [Threads -> Labels]
      BY <1>3 DEF NotifyClient, Types, Labels
    <2> QED
      BY <1>3, <2>1 DEF NotifyClient, Types, queueVars, workVars
  <1>4. CASE TimedOut
    <2>1. HandleFlushInterval(settled, faults) /\ settled \in Nat
          /\ faults \in 0..MaxFaults /\ settled <= settled
      BY <1>4 DEF TimedOut, Types
    <2>2. /\ flushed' \in [Sinks -> Nat] /\ \A s \in Sinks : flushed'[s] <= settled
          /\ unflushed' \subseteq Sinks /\ faults' \in 0..MaxFaults
      BY <2>1, Interval
    <2> QED
      BY <1>4, <2>2 DEF TimedOut, Types, queueVars
  <1>5. CASE WorkerWakesUp
    BY <1>5 DEF WorkerWakesUp, Types, queueVars, workVars
  <1>6. CASE ProcessLog
    <2>1. PICK bad \in SUBSET Sinks :
             /\ faults + Cardinality(bad) <= MaxFaults
             /\ SinksTake(cur.msg, bad)
             /\ HandleFlushInterval(settled', faults + Cardinality(bad))
      BY <1>6 DEF ProcessLog, Takers
    <2>2. settled' = settled + 1 /\ settled' \in Nat /\ settled <= settled'
      BY <1>6 DEF ProcessLog, Types
    <2>3. faults + Cardinality(bad) \in 0..MaxFaults
      <3>1. faults \in Nat /\ Cardinality(bad) \in Nat /\ MaxFaults \in Nat
        BY Numbers DEF Types
      <3> QED
        BY <2>1, <3>1
    <2> DEFINE done == settled'
               spent == faults + Cardinality(bad)
    <2>4. /\ flushed' \in [Sinks -> Nat] /\ \A s \in Sinks : flushed'[s] <= done
          /\ unflushed' \subseteq Sinks /\ faults' \in 0..MaxFaults
      <3> HIDE DEF done, spent
      <3> QED
        BY <2>1, <2>2, <2>3, Interval DEF done, spent
    <2>5. cur.msg \in Messages
      BY <1>6, Kinds DEF ProcessLog, Types
    <2>6. written' \in [Sinks -> Seq(Messages)]
      BY <2>1, <2>5 DEF SinksTake, Types
    <2> QED
      BY <1>6, <2>2, <2>4, <2>6, Kinds DEF ProcessLog, Types, queueVars
  <1>7. CASE ProcessRequest
    <2>1. FlushSinks(settled, faults) /\ settled \in Nat /\ faults \in Nat
          /\ settled <= settled
      BY <1>7 DEF ProcessRequest, Types
    <2>2. /\ flushed' \in [Sinks -> Nat] /\ \A s \in Sinks : flushed'[s] <= settled
          /\ unflushed' \subseteq Sinks /\ faults' \in 0..MaxFaults
      BY <2>1, Flushing
    <2> QED
      BY <1>7, <2>2, Kinds DEF ProcessRequest, Types, queueVars
  <1> QED
    BY <1>1, <1>2, <1>3, <1>4, <1>5, <1>6, <1>7 DEF Worker

LEMMA TypesStep ==
    ASSUME Types, [Next]_vars
    PROVE  Types'
  <1>1. CASE UNCHANGED vars
    BY <1>1 DEF vars, queueVars, workVars, Types
  <1>2. CASE Next
    BY <1>1, <1>2, TypesCall, TypesPut, TypesOwner, TypesWorker DEF Next, Gone
  <1> QED
    BY <1>1, <1>2

-----------------------------------------------------------------------------
(* Places.                                                                  *)

LEMMA PlacesInit == Init => Places
BY Kinds, Numbers DEF Init, Places, Working

LEMMA PlacesCall ==
    ASSUME Types, Places, NEW c \in Clients, Call(c)
    PROVE  Places'
  <1>0. c \in Threads /\ c # Owner /\ Owner \in Threads
    BY Numbers
  <1>1. \* A client that is idle finds the owner so too.
        pc[c] = "idle" /\ pc[Owner] = "idle"
    BY <1>0 DEF Call, Log, Flush, Leave, Places
  <1>2. UNCHANGED <<queueVars, wpc, cur>>
    BY DEF Call, Log, Flush, Leave
  <1>3. \A u \in Threads \ {c} : pc'[u] = pc[u] /\ hand'[u] = hand[u]
    BY <1>0 DEF Call, Log, Flush, Leave, Bring, Types
  <1>4. pc'[c] \in {"enqueue", "done"} /\ hand'[c].type # "terminate"
    <2>1. CASE Log(c)
      BY <1>0, <2>1 DEF Log, Bring, Types
    <2>2. CASE Flush(c)
      BY <1>0, <2>2, Kinds DEF Flush, Bring, Types
    <2>3. CASE Leave(c)
      BY <1>0, <2>3 DEF Leave, Types, Places
    <2> QED
      BY <2>1, <2>2, <2>3 DEF Call
  <1>5. \A d \in Clients : d \in Threads
    BY Numbers
  <1> QED
    BY <1>0, <1>1, <1>2, <1>3, <1>4, <1>5 DEF Places, queueVars, Working

LEMMA PlacesEnqueue ==
    ASSUME Types, Places, NEW t \in Threads, Enqueue(t)
    PROVE  Places'
  <1>0. /\ Owner \in Threads /\ Owner \notin Clients
        /\ \A d \in Clients : d \in Threads
        /\ t \in Clients \/ t = Owner
    BY Numbers
  <1>1. /\ pc[t] = "enqueue" /\ UNCHANGED <<policy, hand, wpc, cur>>
        /\ pc'[t] = "notify" /\ \A u \in Threads \ {t} : pc'[u] = pc[u]
        /\ q' = Append(q, hand[t]) /\ hand[t] \in Items
    BY DEF Enqueue, Types, workVars
  <1>2. /\ Len(q) \in Nat /\ Len(q') = Len(q) + 1 /\ q'[Len(q) + 1] = hand[t]
        /\ \A i \in 1..Len(q) : q'[i] = q[i]
    BY <1>1, AtEnd DEF Types
  <1>3. \* Nothing is behind a request to terminate.
        /\ \A i \in 1..Len(q) : q[i].type # "terminate"
        /\ ~(Working /\ cur.type = "terminate") /\ wpc # "stopped"
    <2>1. pc[Owner] \notin {"notify", "join", "done"}
      BY <1>0, <1>1 DEF Places
    <2> QED
      BY <2>1 DEF Places
  <1>4. hand[t].type = "terminate" => pc'[Owner] = "notify"
    BY <1>0, <1>1 DEF Places
  <1>5. \A i \in 1..Len(q') : q'[i].type = "terminate"
           => i = Len(q') /\ pc'[Owner] \in {"notify", "join"}
    <2> TAKE i \in 1..Len(q')
    <2>1. i \in 1..Len(q) \/ i = Len(q) + 1
      BY <1>2
    <2> QED
      BY <1>2, <1>3, <1>4, <2>1
  <1>6. /\ \A c \in Clients : pc'[c] # "join" /\ hand'[c].type # "terminate"
        /\ pc'[Owner] # "idle" => \A c \in Clients : pc'[c] = "done"
        /\ pc'[Owner] \in {"enqueue", "asleep", "notify"}
              => hand'[Owner].type = "terminate"
        /\ policy' = "discard_log_msg" => \A c \in Clients : pc'[c] # "asleep"
        /\ pc'[Owner] = "done" => wpc' = "stopped"
    BY <1>0, <1>1 DEF Places
  <1> QED
    BY <1>1, <1>3, <1>5, <1>6 DEF Places, Working

(* A step of one thread that leaves the queue and the worker alone.          *)
LEMMA PlacesMove ==
    ASSUME Types, Places, NEW t \in Threads, UNCHANGED <<policy, q, cur>>,
           Working' = Working, (wpc' = "stopped") = (wpc = "stopped"),
           \A u \in Threads \ {t} : pc'[u] = pc[u] /\ hand'[u] = hand[u],
           t \in Clients =>
              /\ pc[t] # "done" /\ pc'[t] # "join" /\ hand'[t].type # "terminate"
              /\ policy = "discard_log_msg" => pc'[t] # "asleep",
           t = Owner =>
              /\ pc'[t] # "idle" => \A c \in Clients : pc[c] = "done"
              /\ pc'[t] \in {"enqueue", "asleep", "notify"}
                    => hand'[t].type = "terminate"
              /\ pc[t] \in {"notify", "join"} /\ wpc # "stopped"
                    => pc'[t] \in {"notify", "join"}
              /\ wpc = "stopped" => pc'[t] \in {"notify", "join", "done"}
              /\ pc'[t] = "done" => wpc = "stopped"
    PROVE  Places'
  <1>0. /\ Owner \in Threads /\ Owner \notin Clients
        /\ \A d \in Clients : d \in Threads
        /\ t \in Clients \/ t = Owner
        /\ q = <<>> => \A i \in 1..Len(q) : FALSE
    BY Numbers
  <1>1. CASE t \in Clients
    BY <1>0, <1>1 DEF Places
  <1>2. CASE t = Owner
    BY <1>0, <1>2 DEF Places, Working
  <1> QED
    BY <1>0, <1>1, <1>2

LEMMA PlacesOthers ==
    ASSUME Types, Places, NEW t \in Threads,
           FallAsleep(t) \/ Refuse(t) \/ NotifyWorker(t) \/ SpuriousWakeUp(t)
    PROVE  Places'
  <1>0. /\ Owner \in Threads /\ Owner \notin Clients
        /\ t \in Clients \/ t = Owner
        /\ FlushRequest.type = "flush"
    BY Numbers, Kinds
  <1>1. CASE FallAsleep(t)
    <2>1. /\ pc[t] = "enqueue" /\ pc'[t] = "asleep" /\ Blocks(t)
          /\ UNCHANGED <<policy, q, cur, wpc, hand>>
          /\ \A u \in Threads \ {t} : pc'[u] = pc[u]
      BY <1>1 DEF FallAsleep, Types, queueVars
    <2>2. t \in Clients => policy # "discard_log_msg"
      BY <2>1 DEF Blocks, Places
    <2> QED
      BY <1>0, <2>1, <2>2, PlacesMove DEF Working, Places
  <1>2. CASE Refuse(t)
    <2>1. /\ pc[t] = "enqueue" /\ hand[t].type # "terminate" /\ After(t)
          /\ UNCHANGED <<policy, q, cur, wpc>>
      BY <1>2 DEF Refuse, Blocks, queueVars
    <2>2. t \in Clients
      BY <1>0, <2>1 DEF Places
    <2>3. /\ pc'[t] \in {"enqueue", "idle"} /\ hand'[t] = FlushRequest
          /\ \A u \in Threads \ {t} : pc'[u] = pc[u] /\ hand'[u] = hand[u]
      BY <2>1, AfterEffect
    <2> QED
      BY <1>0, <2>1, <2>2, <2>3, PlacesMove DEF Working
  <1>3. CASE NotifyWorker(t)
    <2>1. /\ pc[t] = "notify" /\ After(t) /\ UNCHANGED <<policy, q, cur>>
          /\ wpc' = IF wpc = "asleep" THEN "wait" ELSE wpc
      BY <1>3 DEF NotifyWorker, queueVars
    <2>2. /\ hand'[t] = FlushRequest
          /\ pc'[t] \in {"enqueue", "join", "idle"}
          /\ pc'[t] = "join" <=> hand[t].type = "terminate"
          /\ \A u \in Threads \ {t} : pc'[u] = pc[u] /\ hand'[u] = hand[u]
      BY <2>1, AfterEffect
    <2>3. Working' = Working /\ (wpc' = "stopped") = (wpc = "stopped")
      BY <2>1 DEF Working
    <2>4. CASE t \in Clients
      <3>1. hand[t].type # "terminate"
        BY <2>4 DEF Places
      <3> QED
        BY <1>0, <2>1, <2>2, <2>3, <2>4, <3>1, PlacesMove
    <2>5. CASE t = Owner
      <3>1. hand[t].type = "terminate" /\ \A c \in Clients : pc[c] = "done"
        BY <2>1, <2>5 DEF Places
      <3>2. pc'[t] = "join"
        BY <2>2, <3>1
      <3> QED
        BY <1>0, <2>1, <2>2, <2>3, <2>5, <3>1, <3>2, PlacesMove
    <2> QED
      BY <1>0, <2>4, <2>5
  <1>4. CASE SpuriousWakeUp(t)
    <2>1. /\ pc[t] = "asleep" /\ pc'[t] = "enqueue"
          /\ UNCHANGED <<policy, q, cur, wpc, hand>>
          /\ \A u \in Threads \ {t} : pc'[u] = pc[u]
      BY <1>4 DEF SpuriousWakeUp, Types, queueVars
    <2> QED
      BY <1>0, <2>1, PlacesMove DEF Working, Places
  <1> QED
    BY <1>1, <1>2, <1>3, <1>4

LEMMA PlacesOwner ==
    ASSUME Types, Places, Destroy \/ Join
    PROVE  Places'
  <1>0. Owner \in Threads /\ Owner \notin Clients
    BY Numbers
  <1>1. CASE Destroy
    <2>1. /\ pc[Owner] = "idle" /\ \A c \in Clients : pc[c] = "done"
          /\ Bring(Owner, [type |-> "terminate"])
          /\ UNCHANGED <<policy, q, cur, wpc>>
      BY <1>1 DEF Destroy, queueVars
    <2>2. /\ pc'[Owner] = "enqueue" /\ hand'[Owner].type = "terminate"
          /\ \A u \in Threads \ {Owner} : pc'[u] = pc[u] /\ hand'[u] = hand[u]
      BY <1>0, <2>1, BringEffect, Kinds
    <2>3. wpc # "stopped"
      BY <2>1 DEF Places
    <2> QED
      BY <1>0, <2>1, <2>2, <2>3, PlacesMove DEF Working
  <1>2. CASE Join
    <2>1. /\ pc[Owner] = "join" /\ wpc = "stopped" /\ pc'[Owner] = "done"
          /\ UNCHANGED <<policy, q, cur, wpc, hand>>
          /\ \A u \in Threads \ {Owner} : pc'[u] = pc[u]
      BY <1>0, <1>2 DEF Join, Types, queueVars
    <2> QED
      BY <1>0, <2>1, PlacesMove DEF Working, Places
  <1> QED
    BY <1>1, <1>2

LEMMA PlacesWorker ==
    ASSUME Types, Places, Worker
    PROVE  Places'
  <1>0. /\ Owner \in Threads /\ Owner \notin Clients
        /\ \A d \in Clients : d \in Threads
        /\ FlushRequest.type = "flush"
    BY Numbers, Kinds
  <1>1. CASE Dequeue
    <2>1. /\ wpc = "wait" /\ q # <<>> /\ cur' = Head(q) /\ q' = Tail(q)
          /\ wpc' = "notify" /\ UNCHANGED <<policy, pc, hand>>
      BY <1>1 DEF Dequeue
    <2>2. /\ Len(q) \in Nat /\ Len(q) >= 1 /\ Len(q') = Len(q) - 1
          /\ cur' = q[1] /\ \A i \in 1..(Len(q) - 1) : q'[i] = q[i + 1]
          /\ q' \in Seq(Items)
      BY <2>1, AtFront DEF Types
    <2>3. cur'.type = "terminate" => q' = <<>> /\ pc[Owner] \in {"notify", "join"}
      <3>1. cur'.type = "terminate" => Len(q) = 1 /\ pc[Owner] \in {"notify", "join"}
        BY <2>2 DEF Places
      <3>2. Len(q) = 1 => q' = <<>>
        BY <2>2, Elements
      <3> QED
        BY <3>1, <3>2
    <2>4. \A i \in 1..Len(q') : q'[i].type = "terminate"
             => i = Len(q') /\ pc[Owner] \in {"notify", "join"}
      <3> TAKE i \in 1..Len(q')
      <3>1. i + 1 \in 1..Len(q) /\ q'[i] = q[i + 1] /\ i \in 1..(Len(q) - 1)
        BY <2>2
      <3>2. q'[i].type = "terminate"
               => i + 1 = Len(q) /\ pc[Owner] \in {"notify", "join"}
        BY <3>1 DEF Places
      <3> QED
        BY <2>2, <3>1, <3>2
    <2>5. pc[Owner] # "done"
      BY <2>1 DEF Places
    <2> QED
      BY <2>1, <2>3, <2>4, <2>5 DEF Places
  <1>2. CASE NotifyClient
    <2>1. wpc = "notify" /\ wpc' = "process" /\ UNCHANGED <<hand, policy, q, cur>>
      BY <1>2 DEF NotifyClient, queueVars
    <2>2. CASE UNCHANGED pc
      BY <2>1, <2>2 DEF Places, Working
    <2>3. CASE \E t \in Threads : pc[t] = "asleep" /\ pc' = [pc EXCEPT ![t] = "enqueue"]
      <3>1. PICK t \in Threads : pc[t] = "asleep" /\ pc' = [pc EXCEPT ![t] = "enqueue"]
        BY <2>3
      <3>2. pc'[t] = "enqueue" /\ \A u \in Threads \ {t} : pc'[u] = pc[u]
        BY <3>1 DEF Types
      <3> QED
        BY <1>0, <2>1, <3>1, <3>2, PlacesMove DEF Working, Places
    <2> QED
      BY <1>2, <2>2, <2>3 DEF NotifyClient
  <1>3. CASE ProcessRequest
    <2>1. /\ wpc = "process" /\ cur.type # "log" /\ cur' = FlushRequest
          /\ wpc' = (IF cur.type = "terminate" THEN "stopped" ELSE "wait")
          /\ UNCHANGED <<policy, pc, hand, q>>
      BY <1>3 DEF ProcessRequest, queueVars
    <2> QED
      BY <2>1 DEF Places, Working
  <1>4. CASE WorkerSleeps \/ TimedOut \/ WorkerWakesUp
    <2>1. /\ wpc \in {"wait", "asleep"} /\ wpc' \in {"wait", "asleep"}
          /\ UNCHANGED <<policy, pc, hand, q, cur>>
      BY <1>4 DEF WorkerSleeps, TimedOut, WorkerWakesUp, queueVars
    <2> QED
      BY <2>1 DEF Places, Working
  <1>5. CASE ProcessLog
    <2>1. /\ wpc = "process" /\ cur' = FlushRequest /\ wpc' = "wait"
          /\ UNCHANGED <<policy, pc, hand, q>>
      BY <1>5 DEF ProcessLog, queueVars
    <2> QED
      BY <2>1 DEF Places, Working
  <1> QED
    BY <1>1, <1>2, <1>3, <1>4, <1>5 DEF Worker

LEMMA PlacesStep ==
    ASSUME Types, Places, [Next]_vars
    PROVE  Places'
  <1>1. CASE UNCHANGED vars
    BY <1>1 DEF vars, queueVars, Places, Working
  <1>2. CASE Next
    BY <1>1, <1>2, PlacesCall, PlacesEnqueue, PlacesOthers, PlacesOwner,
       PlacesWorker DEF Next, Put, Gone
  <1> QED
    BY <1>1, <1>2

-----------------------------------------------------------------------------
(* Flow.                                                                    *)

LEMMA FlowInit == Init => Flow
  <1> SUFFICES ASSUME Init PROVE Flow
    OBVIOUS
  <1> DEFINE c == [i \in 0..0 |-> 0]
  <1>1. /\ q = <<>> /\ accepted = <<>> /\ ~Working /\ Taken = 0
        /\ Len(q) = 0 /\ Len(accepted) = 0
    BY DEF Init, Working, Taken
  <1>2. c \in [0..0 -> 0..0] /\ c[0] = 0
    OBVIOUS
  <1> HIDE DEF c
  <1>3. Track(c, q, accepted, Taken) /\ Follows(c)
    BY <1>1, <1>2 DEF Track, Follows
  <1> QED
    BY <1>1, <1>3 DEF Flow

(* Steps that leave the queue and the worker's item alone.                   *)
LEMMA FlowFrame ==
    ASSUME Types, Flow, UNCHANGED <<queueVars, settled>>,
           Working' = Working, Working => cur' = cur,
           policy = "block_retry" /\ FlushComing => FlushComing',
           \A k \in Nat : Flushed(k) => Flushed(k)'
    PROVE  Flow'
  <1>1. UNCHANGED <<policy, q, accepted, settled>>
    BY DEF queueVars
  <1>2. Working' /\ cur'.type = "log" => accepted'[settled' + 1] = cur'.msg
    BY <1>1 DEF Flow
  <1>3. PICK c : Track(c, q, accepted, Taken) /\ Follows(c)
    BY DEF Flow
  <1>4. Taken' = Taken
    BY <1>1 DEF Taken
  <1>5. Track(c, q', accepted', Taken')
    BY <1>1, <1>3, <1>4
  <1>6. ASSUME NEW k \in 1..Len(accepted), policy = "block_retry",
               FlushBehind(c, k) \/ Flushed(k)
        PROVE  FlushBehind(c, k)' \/ Flushed(k)'
    BY <1>1, <1>6 DEF FlushBehind
  <1>7. Follows(c)'
    BY <1>1, <1>3, <1>6 DEF Follows
  <1> QED
    BY <1>2, <1>5, <1>7 DEF Flow

(* The sinks are flushed as they were, or since.                             *)
LEMMA FlushedKept ==
    ASSUME Types, UNCHANGED <<settled, flushed, unflushed>>, NEW k, Flushed(k)
    PROVE  Flushed(k)'
BY DEF Flushed

LEMMA ComingKept ==
    ASSUME NEW t \in Threads,
           \A u \in Threads \ {t} : pc'[u] = pc[u] /\ hand'[u] = hand[u],
           FlushComing,
           pc[t] = "notify" /\ hand[t].type = "log" /\ hand[t].msg.urgent
              => pc'[t] = "enqueue" /\ hand'[t].type = "flush",
           pc[t] \in {"enqueue", "asleep"} /\ hand[t].type = "flush"
              => pc'[t] \in {"enqueue", "asleep"} /\ hand'[t].type = "flush"
    PROVE  FlushComing'
  <1>1. PICK u \in Clients :
           \/ pc[u] = "notify" /\ hand[u].type = "log" /\ hand[u].msg.urgent
           \/ pc[u] \in {"enqueue", "asleep"} /\ hand[u].type = "flush"
    BY DEF FlushComing
  <1>2. u \in Threads
    BY Numbers
  <1>3. CASE u = t
    BY <1>1, <1>2, <1>3 DEF FlushComing
  <1>4. CASE u # t
    BY <1>1, <1>2, <1>4 DEF FlushComing
  <1> QED
    BY <1>3, <1>4

LEMMA FlowThreads ==
    ASSUME Types, Flow, Next, ~Worker, \A t \in Threads : ~Enqueue(t)
    PROVE  Flow'
  <1>0. FlushRequest.type = "flush" /\ \A d \in Clients : d \in Threads
    BY Kinds, Numbers
  <1>1. /\ UNCHANGED <<queueVars, settled, flushed, unflushed, cur>>
        /\ Working' = Working
    BY DEF Next, Call, Log, Flush, Leave, Put, FallAsleep, Refuse, NotifyWorker,
           SpuriousWakeUp, Destroy, Join, Gone, workVars, vars, Working
  <1>2. \A k \in Nat : Flushed(k) => Flushed(k)'
    BY <1>1, FlushedKept
  <1>3. ASSUME policy = "block_retry", FlushComing
        PROVE  FlushComing'
    <2>1. ASSUME NEW c \in Clients, Call(c)
          PROVE  FlushComing'
      <3>1. /\ pc[c] = "idle"
            /\ \A u \in Threads \ {c} : pc'[u] = pc[u] /\ hand'[u] = hand[u]
        BY <1>0, <2>1 DEF Call, Log, Flush, Leave, Bring, Types
      <3> QED
        BY <1>0, <1>3, <3>1, ComingKept
    <2>2. ASSUME NEW t \in Threads, FallAsleep(t) \/ SpuriousWakeUp(t)
          PROVE  FlushComing'
      <3>1. /\ pc[t] \in {"enqueue", "asleep"} /\ pc'[t] \in {"enqueue", "asleep"}
            /\ hand' = hand /\ \A u \in Threads \ {t} : pc'[u] = pc[u]
        BY <2>2 DEF FallAsleep, SpuriousWakeUp, Types
      <3> QED
        BY <1>3, <3>1, ComingKept
    <2>3. ASSUME NEW t \in Threads, Refuse(t)
          PROVE  FlushComing'
      BY <1>3, <2>3 DEF Refuse, Blocks
    <2>4. ASSUME NEW t \in Threads, NotifyWorker(t)
          PROVE  FlushComing'
      <3>1. pc[t] = "notify" /\ After(t)
        BY <2>4 DEF NotifyWorker
      <3>2. /\ pc'[t] = "enqueue" <=> hand[t].type = "log" /\ hand[t].msg.urgent
            /\ hand'[t] = FlushRequest
            /\ \A u \in Threads \ {t} : pc'[u] = pc[u] /\ hand'[u] = hand[u]
        BY <3>1, AfterEffect
      <3> QED
        BY <1>0, <1>3, <3>1, <3>2, ComingKept
    <2>5. ASSUME Destroy \/ Join
          PROVE  FlushComing'
      <3>1. \A u \in Threads \ {Owner} : pc'[u] = pc[u] /\ hand'[u] = hand[u]
        BY <2>5, Numbers DEF Destroy, Join, Bring, Types
      <3>2. pc[Owner] \in {"idle", "join"} /\ Owner \in Threads
        BY <2>5, Numbers DEF Destroy, Join
      <3> QED
        BY <1>3, <3>1, <3>2, ComingKept
    <2>6. ASSUME Gone
          PROVE  FlushComing'
      BY <1>3, <2>6 DEF Gone, vars, FlushComing
    <2> QED
      BY <2>1, <2>2, <2>3, <2>4, <2>5, <2>6 DEF Next, Put
  <1> QED
    BY <1>1, <1>2, <1>3, FlowFrame

LEMMA FlowEnqueue ==
    ASSUME Types, Places, Flow, NEW t \in Threads, Enqueue(t)
    PROVE  Flow'
  <1>0. (t \in Clients \/ t = Owner) /\ \A d \in Clients : d \in Threads
    BY Numbers
  <1>1. /\ pc[t] = "enqueue" /\ q' = Append(q, hand[t])
        /\ accepted' = IF hand[t].type = "log" THEN Append(accepted, hand[t].msg)
                       ELSE accepted
        /\ UNCHANGED <<policy, hand, wpc, cur, settled, flushed, unflushed>>
        /\ pc'[t] = "notify" /\ \A u \in Threads \ {t} : pc'[u] = pc[u]
    BY DEF Enqueue, Types, workVars
  <1>2. /\ hand[t] \in Items /\ q \in Seq(Items) /\ accepted \in Seq(Messages)
        /\ accepted' \in Seq(Messages)
        /\ hand[t].type \in {"log", "flush", "terminate"}
        /\ settled \in Nat
    BY <1>1, Kinds DEF Types
  <1>3. PICK c : Track(c, q, accepted, Taken) /\ Follows(c)
    BY DEF Flow
  <1>4. Taken' = Taken /\ Working' = Working
    BY <1>1 DEF Taken, Working
  <1>5. \E d : /\ Track(d, Longer(q, hand[t]), Grown(accepted, hand[t]), Taken)
               /\ \A i \in 0..Len(q) : d[i] = c[i]
               /\ d[Len(q) + 1] = Len(Grown(accepted, hand[t]))
    <2>1. /\ q \in Seq(Items) /\ accepted \in Seq(Messages) /\ hand[t] \in Items
          /\ Track(c, q, accepted, Taken)
      BY <1>2, <1>3
    <2> QED
      BY <2>1, TrackPut
  <1>6. PICK d : /\ Track(d, q', accepted', Taken')
                 /\ \A i \in 0..Len(q) : d[i] = c[i]
                 /\ d[Len(q) + 1] = Len(accepted')
    BY <1>1, <1>4, <1>5 DEF Longer, Grown
  <1>7. /\ Len(q) \in Nat /\ Len(q') = Len(q) + 1 /\ q'[Len(q) + 1] = hand[t]
        /\ \A i \in 1..Len(q) : q'[i] = q[i]
    BY <1>1, <1>2, AtEnd
  <1>8. /\ Len(accepted) \in Nat
        /\ \A k \in 1..Len(accepted) : accepted'[k] = accepted[k]
        /\ \/ hand[t].type # "log" /\ Len(accepted') = Len(accepted)
           \/ /\ hand[t].type = "log" /\ Len(accepted') = Len(accepted) + 1
              /\ accepted'[Len(accepted) + 1] = hand[t].msg
    <2>1. CASE hand[t].type = "log"
      <3>1. hand[t].msg \in Messages
        BY <1>2, <2>1, Kinds
      <3> QED
        BY <1>1, <1>2, <2>1, <3>1, AtEnd
    <2>2. CASE hand[t].type # "log"
      BY <1>1, <1>2, <2>2, Elements
    <2> QED
      BY <2>1, <2>2
  <1>9. \* The worker's message.
        Working' /\ cur'.type = "log" => accepted'[settled' + 1] = cur'.msg
    <2> SUFFICES ASSUME Working, cur.type = "log"
                 PROVE  accepted'[settled + 1] = cur.msg
      BY <1>1, <1>4
    <2>1. Taken = settled + 1
      BY DEF Taken, One
    <2>2. Taken \in 0..Len(accepted)
      <3>1. c[0] = Taken /\ c \in [0..Len(q) -> 0..Len(accepted)]
        BY <1>3 DEF Track
      <3> QED
        BY <1>7, <3>1
    <2>3. settled + 1 \in 1..Len(accepted)
      BY <1>2, <1>8, <2>1, <2>2
    <2> QED
      BY <1>8, <2>3 DEF Flow
  <1>10. \* A flush coming is in the queue now, or is still coming.
         ASSUME policy = "block_retry", FlushComing, NEW k \in 1..Len(accepted')
         PROVE  FlushBehind(d, k)'
    <2>1. CASE hand[t].type = "flush"
      <3>1. Len(q') \in 1..Len(q') /\ q'[Len(q')].type # "log" /\ d[Len(q')] >= k
        BY <1>6, <1>7, <1>8, <2>1
      <3> QED
        BY <3>1 DEF FlushBehind
    <2>2. CASE hand[t].type # "flush"
      <3>1. FlushComing'
        BY <1>1, <1>10, <2>2, ComingKept
      <3> QED
        BY <3>1 DEF FlushBehind
    <2> QED
      BY <2>1, <2>2
  <1>11. ASSUME policy = "block_retry", NEW k \in 1..Len(accepted),
                accepted[k].urgent
         PROVE  FlushBehind(d, k)' \/ Flushed(k)'
    <2>1. FlushBehind(c, k) \/ Flushed(k)
      BY <1>3, <1>11 DEF Follows
    <2>2. CASE FlushComing
      BY <1>8, <1>10, <1>11, <2>2
    <2>3. CASE \E i \in 1..Len(q) : q[i].type # "log" /\ c[i] >= k
      <3>1. PICK i \in 1..Len(q) : q[i].type # "log" /\ c[i] >= k
        BY <2>3
      <3>2. i \in 1..Len(q') /\ q'[i] = q[i] /\ d[i] = c[i]
        BY <1>6, <1>7
      <3> QED
        BY <3>1, <3>2 DEF FlushBehind
    <2>4. CASE Working /\ cur.type # "log" /\ settled >= k
      BY <1>1, <1>4, <2>4 DEF FlushBehind
    <2>5. CASE Flushed(k)
      BY <1>1, <2>5, FlushedKept
    <2> QED
      BY <2>1, <2>2, <2>3, <2>4, <2>5 DEF FlushBehind
  <1>12. \* The message itself.
         ASSUME policy = "block_retry", hand[t].type = "log", hand[t].msg.urgent
         PROVE  FlushComing'
    <2>1. t \in Clients
      BY <1>0, <1>1, <1>12 DEF Places
    <2> QED
      BY <1>1, <1>12, <2>1 DEF FlushComing
  <1>13. Follows(d)'
    <2> SUFFICES ASSUME policy = "block_retry", NEW k \in 1..Len(accepted'),
                        accepted'[k].urgent
                 PROVE  FlushBehind(d, k)' \/ Flushed(k)'
      BY <1>1 DEF Follows
    <2>1. CASE k \in 1..Len(accepted)
      BY <1>8, <1>11, <2>1
    <2>2. CASE k \notin 1..Len(accepted)
      <3>1. hand[t].type = "log" /\ hand[t].msg.urgent
        BY <1>8, <2>2
      <3> QED
        BY <1>12, <3>1 DEF FlushBehind
    <2> QED
      BY <2>1, <2>2
  <1> QED
    BY <1>6, <1>9, <1>13 DEF Flow

LEMMA FlowDequeue ==
    ASSUME Types, Flow, Dequeue
    PROVE  Flow'
  <1>1. /\ wpc = "wait" /\ q # <<>> /\ cur' = Head(q) /\ q' = Tail(q)
        /\ wpc' = "notify"
        /\ UNCHANGED <<policy, pc, hand, accepted, settled, flushed, unflushed>>
    BY DEF Dequeue, workVars
  <1>2. q \in Seq(Items) /\ accepted \in Seq(Messages) /\ settled \in Nat
    BY DEF Types
  <1>3. PICK c : Track(c, q, accepted, Taken) /\ Follows(c)
    BY DEF Flow
  <1>4. Taken = settled /\ Working'
    BY <1>1, <1>2 DEF Taken, Working
  <1>5. /\ c[1] = settled + One(Head(q))
        /\ Head(q).type = "log" => accepted[c[1]] = Head(q).msg
        /\ \E d : /\ Track(d, Tail(q), accepted, c[1])
                  /\ \A i \in 0..Len(Tail(q)) : d[i] = c[i + 1]
    BY <1>1, <1>2, <1>3, <1>4, TrackTake
  <1>6. Taken' = c[1]
    BY <1>1, <1>4, <1>5 DEF Taken
  <1>7. PICK d : /\ Track(d, q', accepted', Taken')
                 /\ \A i \in 0..Len(q') : d[i] = c[i + 1]
    BY <1>1, <1>5, <1>6
  <1>8. cur'.type = "log" => accepted'[settled' + 1] = cur'.msg
    BY <1>1, <1>2, <1>5 DEF One
  <1>9. /\ Len(q) \in Nat /\ Len(q) >= 1 /\ Len(q') = Len(q) - 1
        /\ cur' = q[1] /\ \A i \in 1..(Len(q) - 1) : q'[i] = q[i + 1]
    BY <1>1, <1>2, AtFront
  <1>10. ASSUME policy = "block_retry", NEW k \in 1..Len(accepted),
                accepted[k].urgent
         PROVE  FlushBehind(d, k)' \/ Flushed(k)'
    <2>1. FlushBehind(c, k) \/ Flushed(k)
      BY <1>3, <1>10 DEF Follows
    <2>2. CASE FlushComing
      BY <1>1, <2>2 DEF FlushBehind, FlushComing
    <2>3. CASE \E i \in 1..Len(q) : q[i].type # "log" /\ c[i] >= k
      <3>1. PICK i \in 1..Len(q) : q[i].type # "log" /\ c[i] >= k
        BY <2>3
      <3>2. CASE i = 1
        <4>1. cur'.type # "log" /\ settled' >= k
          BY <1>1, <1>2, <1>5, <1>9, <3>1, <3>2 DEF One
        <4> QED
          BY <1>4, <4>1 DEF FlushBehind
      <3>3. CASE i # 1
        <4>1. i - 1 \in 1..Len(q') /\ i - 1 \in 1..(Len(q) - 1)
              /\ i - 1 \in 0..Len(q') /\ (i - 1) + 1 = i
          BY <1>9, <3>3
        <4>2. q'[i - 1] = q[i] /\ d[i - 1] = c[i]
          BY <1>7, <1>9, <4>1
        <4> QED
          BY <3>1, <4>1, <4>2 DEF FlushBehind
      <3> QED
        BY <3>2, <3>3
    <2>4. CASE Flushed(k)
      BY <1>1, <2>4, FlushedKept
    <2>5. ~Working
      BY <1>1 DEF Working
    <2> QED
      BY <2>1, <2>2, <2>3, <2>4, <2>5 DEF FlushBehind
  <1>11. Follows(d)'
    BY <1>1, <1>10 DEF Follows
  <1> QED
    BY <1>7, <1>8, <1>11 DEF Flow

(* What a flush does for the messages.                                       *)
LEMMA FlushedAgain ==
    ASSUME Types, NEW done \in Nat, settled <= done, settled' = done,
           \/ \A s \in Sinks \ unflushed' : flushed'[s] = done
           \/ UNCHANGED <<flushed, unflushed>>,
           NEW k \in Nat, Flushed(k)
    PROVE  Flushed(k)'
BY DEF Flushed, Types

LEMMA FlowProcessLog ==
    ASSUME Types, Flow, ProcessLog
    PROVE  Flow'
  <1>1. /\ wpc = "process" /\ cur.type = "log" /\ wpc' = "wait"
        /\ settled' = settled + 1
        /\ UNCHANGED <<policy, pc, hand, q, accepted>>
    BY DEF ProcessLog, queueVars
  <1>2. Working /\ ~Working' /\ settled \in Nat /\ settled' \in Nat
        /\ settled <= settled'
    BY <1>1 DEF Working, Types
  <1>3. PICK c : Track(c, q, accepted, Taken) /\ Follows(c)
    BY DEF Flow
  <1>4. Taken' = Taken
    BY <1>1, <1>2 DEF Taken, One
  <1>5. PICK bad \in SUBSET Sinks :
           /\ faults + Cardinality(bad) <= MaxFaults
           /\ HandleFlushInterval(settled', faults + Cardinality(bad))
    BY DEF ProcessLog, Takers
  <1> DEFINE done == settled'
             spent == faults + Cardinality(bad)
  <1>6. spent \in 0..MaxFaults
    <2>1. faults \in Nat /\ Cardinality(bad) \in Nat /\ MaxFaults \in Nat
      BY Numbers DEF Types
    <2> QED
      BY <1>5, <2>1
  <1>7. \/ \A s \in Sinks \ unflushed' : flushed'[s] = done
        \/ UNCHANGED <<flushed, unflushed>>
    <2> HIDE DEF done, spent
    <2> QED
      BY <1>2, <1>5, <1>6, Interval DEF done, spent
  <1>8. ASSUME NEW k \in Nat, Flushed(k)
        PROVE  Flushed(k)'
    BY <1>2, <1>7, <1>8, FlushedAgain
  <1>9. ASSUME NEW k \in 1..Len(accepted), FlushBehind(c, k) \/ Flushed(k)
        PROVE  FlushBehind(c, k)' \/ Flushed(k)'
    <2>1. k \in Nat
      OBVIOUS
    <2>2. CASE FlushComing
      BY <1>1, <2>2 DEF FlushBehind, FlushComing
    <2> QED
      BY <1>1, <1>8, <1>9, <2>1, <2>2 DEF FlushBehind
  <1>10. Follows(c)'
    BY <1>1, <1>3, <1>9 DEF Follows
  <1> QED
    BY <1>1, <1>2, <1>3, <1>4, <1>10 DEF Flow

LEMMA FlowProcessRequest ==
    ASSUME Types, Flow, ProcessRequest
    PROVE  /\ Flow' /\ \A s \in Sinks \ unflushed' : flushed'[s] = settled'
           /\ faults' >= faults
  <1>1. /\ wpc = "process" /\ cur.type # "log" /\ wpc' \in {"wait", "stopped"}
        /\ FlushSinks(settled, faults)
        /\ UNCHANGED <<policy, pc, hand, q, accepted, settled>>
    BY DEF ProcessRequest, queueVars
  <1>2. /\ Working /\ ~Working' /\ settled \in Nat /\ faults \in Nat
        /\ settled <= settled
    BY <1>1 DEF Working, Types
  <1>3. PICK c : Track(c, q, accepted, Taken) /\ Follows(c)
    BY DEF Flow
  <1>4. Taken' = Taken
    BY <1>1, <1>2 DEF Taken, One
  <1>5. (\A s \in Sinks \ unflushed' : flushed'[s] = settled) /\ faults' >= faults
    BY <1>1, <1>2, Flushing
  <1>6. ASSUME NEW k \in Nat, settled >= k
        PROVE  Flushed(k)'
    BY <1>1, <1>2, <1>5, <1>6 DEF Flushed
  <1>7. ASSUME NEW k \in 1..Len(accepted), FlushBehind(c, k) \/ Flushed(k)
        PROVE  FlushBehind(c, k)' \/ Flushed(k)'
    <2>1. k \in Nat
      OBVIOUS
    <2>2. CASE FlushComing
      BY <1>1, <2>2 DEF FlushBehind, FlushComing
    <2>3. CASE settled >= k
      BY <1>6, <2>1, <2>3
    <2> QED
      BY <1>1, <1>7, <2>2, <2>3 DEF FlushBehind, Flushed
  <1>8. Follows(c)'
    BY <1>1, <1>3, <1>7 DEF Follows
  <1> QED
    BY <1>1, <1>2, <1>3, <1>4, <1>5, <1>8 DEF Flow

LEMMA FlowWorker ==
    ASSUME Types, Flow, Worker
    PROVE  Flow'
  <1>1. CASE WorkerSleeps \/ WorkerWakesUp
    <2>1. /\ UNCHANGED <<queueVars, settled, cur, flushed, unflushed, pc, hand>>
          /\ Working' = Working
      BY <1>1 DEF WorkerSleeps, WorkerWakesUp, workVars, Working
    <2>2. FlushComing => FlushComing'
      BY <2>1 DEF FlushComing
    <2> QED
      BY <2>1, <2>2, FlowFrame, FlushedKept
  <1>2. CASE TimedOut
    <2>1. /\ UNCHANGED <<queueVars, settled, cur, pc, hand>>
          /\ Working' = Working
          /\ HandleFlushInterval(settled, faults)
          /\ settled \in Nat /\ faults \in 0..MaxFaults /\ settled <= settled
      BY <1>2 DEF TimedOut, Working, Types
    <2>2. \/ \A s \in Sinks \ unflushed' : flushed'[s] = settled
          \/ UNCHANGED <<flushed, unflushed>>
      BY <2>1, Interval
    <2>3. \A k \in Nat : Flushed(k) => Flushed(k)'
      BY <2>1, <2>2, FlushedAgain
    <2>4. FlushComing => FlushComing'
      BY <2>1 DEF FlushComing
    <2> QED
      BY <2>1, <2>3, <2>4, FlowFrame
  <1>3. CASE NotifyClient
    <2>1. /\ UNCHANGED <<queueVars, settled, cur, flushed, unflushed, hand>>
          /\ Working' = Working
          /\ \/ UNCHANGED pc
             \/ \E t \in Threads : /\ pc[t] = "asleep"
                                   /\ pc' = [pc EXCEPT ![t] = "enqueue"]
      BY <1>3 DEF NotifyClient, workVars, Working
    <2>2. FlushComing => FlushComing'
      <3>1. CASE UNCHANGED pc
        BY <2>1, <3>1 DEF FlushComing
      <3>2. ASSUME NEW t \in Threads, pc[t] = "asleep",
                   pc' = [pc EXCEPT ![t] = "enqueue"], FlushComing
            PROVE  FlushComing'
        <4>1. pc'[t] = "enqueue" /\ \A u \in Threads \ {t} : pc'[u] = pc[u]
          BY <3>2 DEF Types
        <4> QED
          BY <2>1, <3>2, <4>1, ComingKept
      <3> QED
        BY <2>1, <3>1, <3>2
    <2> QED
      BY <2>1, <2>2, FlowFrame, FlushedKept
  <1> QED
    BY <1>1, <1>2, <1>3, FlowDequeue, FlowProcessLog, FlowProcessRequest DEF Worker

LEMMA FlowStep ==
    ASSUME Types, Places, Flow, [Next]_vars
    PROVE  Flow'
  <1>1. CASE UNCHANGED vars
    <2>1. /\ UNCHANGED <<queueVars, settled, cur, flushed, unflushed>>
          /\ Working' = Working /\ FlushComing' = FlushComing
      BY <1>1 DEF vars, workVars, Working, FlushComing
    <2> QED
      BY <2>1, FlowFrame, FlushedKept
  <1>2. CASE Next
    <2>1. CASE Worker
      BY <2>1, FlowWorker
    <2>2. CASE \E t \in Threads : Enqueue(t)
      BY <2>2, FlowEnqueue
    <2>3. CASE ~Worker /\ \A t \in Threads : ~Enqueue(t)
      BY <1>2, <2>3, FlowThreads
    <2> QED
      BY <2>1, <2>2, <2>3
  <1> QED
    BY <1>1, <1>2

-----------------------------------------------------------------------------
(* When the worker stops.                                                   *)

(* With the queue empty and nothing in the worker's hands all is settled.    *)
LEMMA AllSettled ==
    ASSUME Types, Flow, q = <<>>
    PROVE  Taken = Len(accepted)
  <1>1. PICK c : Track(c, q, accepted, Taken)
    BY DEF Flow
  <1>2. Len(q) = 0
    OBVIOUS
  <1> QED
    BY <1>1, <1>2 DEF Track

LEMMA StoppedStep ==
    ASSUME Types, Places, Flow, Stopped, [Next]_vars
    PROVE  Stopped'
  <1>1. SUFFICES ASSUME wpc' = "stopped"
        PROVE  /\ settled' = Len(accepted')
               /\ \A s \in Sinks \ unflushed' : flushed'[s] = settled'
    BY DEF Stopped
  <1>2. CASE wpc = "stopped"
    <2>1. \A t \in Threads : Enqueue(t) => accepted' = accepted
      <3>1. pc[Owner] \in {"notify", "join", "done"}
            /\ \A c \in Clients : pc[c] = "done"
        BY <1>2 DEF Places
      <3> QED
        BY <3>1, Numbers DEF Enqueue
    <2>2. UNCHANGED <<accepted, settled, flushed, unflushed>>
      BY <1>2, <2>1 DEF Next, Call, Log, Flush, Leave, Put, Enqueue, FallAsleep,
         Refuse, NotifyWorker, SpuriousWakeUp, Destroy, Join, Gone, Worker, Dequeue,
         WorkerSleeps, NotifyClient, TimedOut, WorkerWakesUp, ProcessLog,
         ProcessRequest, queueVars, workVars, vars
    <2> QED
      BY <1>2, <2>2 DEF Stopped
  <1>3. CASE wpc # "stopped"
    <2>1. ProcessRequest /\ cur.type = "terminate"
      BY <1>1, <1>3 DEF Next, Call, Log, Flush, Leave, Put, Enqueue, FallAsleep,
         Refuse, NotifyWorker, SpuriousWakeUp, Destroy, Join, Gone, Worker, Dequeue,
         WorkerSleeps, NotifyClient, TimedOut, WorkerWakesUp, ProcessLog,
         ProcessRequest, queueVars, workVars, vars
    <2>2. wpc = "process" /\ UNCHANGED <<accepted, settled>> /\ settled \in Nat
      BY <2>1 DEF ProcessRequest, queueVars, Types
    <2>3. q = <<>> /\ Taken = settled
      BY <2>1, <2>2 DEF Places, Working, Taken, One
    <2> QED
      BY <2>1, <2>2, <2>3, AllSettled, FlowProcessRequest
  <1> QED
    BY <1>2, <1>3

Inv == Types /\ Places /\ Flow /\ Stopped

LEMMA Invariant == Spec => []Inv
  <1>1. Init => Inv
    <2>1. Init => Stopped
      BY DEF Init, Stopped
    <2> QED
      BY <2>1, TypesInit, PlacesInit, FlowInit DEF Inv
  <1>2. Inv /\ [Next]_vars => Inv'
    BY TypesStep, PlacesStep, FlowStep, StoppedStep DEF Inv
  <1> QED
    BY <1>1, <1>2, PTL DEF Spec

-----------------------------------------------------------------------------
(* The theorems.                                                            *)

(* The variables keep their types for any clients, sinks and bounds: what   *)
(* is settled was accepted, and the queue keeps within its capacity.        *)
THEOREM TypeCorrect == Spec => []TypeOK
  <1>1. ASSUME Inv PROVE TypeOK
    <2>1. /\ accepted \in Seq(Messages) /\ settled \in Nat /\ q \in Seq(Items)
          /\ flushed \in [Sinks -> Nat] /\ \A s \in Sinks : flushed[s] <= settled
          /\ Types /\ Len(q) \in Nat /\ Len(accepted) \in Nat
      BY <1>1, Elements DEF Inv, Types
    <2>2. PICK c : Track(c, q, accepted, Taken)
      BY <1>1 DEF Inv, Flow
    <2>3. Taken \in 0..Len(accepted)
      <3>1. c[0] = Taken /\ c \in [0..Len(q) -> 0..Len(accepted)]
        BY <2>2 DEF Track
      <3> QED
        BY <2>1, <3>1
    <2>4. settled \in 0..Len(accepted)
      BY <2>1, <2>3 DEF Taken, One
    <2>5. flushed \in [Sinks -> 0..settled]
      BY <2>1
    <2> QED
      BY <2>1, <2>4, <2>5 DEF Types, TypeOK
  <1> QED
    BY <1>1, Invariant, PTL

(* Under block_retry (async_log_helper.h) no urgent message is left without *)
(* the flush it asked for; under discard_log_msg no caller ever waits.      *)
THEOREM PoliciesKept == Spec => []PolicyKept
  <1>1. ASSUME Inv PROVE PolicyKept
    <2>1. CASE policy = "block_retry"
      <3>1. PICK c : Follows(c)
        BY <1>1 DEF Inv, Flow
      <3>2. ASSUME Quiet, NEW s \in Sinks \ unflushed, NEW k \in DOMAIN accepted,
                   accepted[k].urgent
            PROVE  flushed[s] >= k
        <4>1. k \in 1..Len(accepted)
          BY <1>1, <3>2 DEF Inv, Types
        <4>2. ~FlushBehind(c, k)
          BY <3>2 DEF Quiet, FlushBehind, FlushComing, Working
        <4> QED
          BY <2>1, <3>1, <3>2, <4>1, <4>2 DEF Follows, Flushed
      <3> QED
        BY <2>1, <3>2 DEF PolicyKept, FlushFollowsUrgent
    <2>2. CASE policy # "block_retry"
      BY <1>1, <2>2 DEF Inv, Types, Places, PolicyKept
    <2> QED
      BY <2>1, <2>2
  <1> QED
    BY <1>1, Invariant, PTL

(* When ~async_log_helper returns, every message accepted has been through  *)
(* the sinks and every sink is flushed after the last, unless it threw.     *)
THEOREM FlushedAtJoin == Spec => []FlushedOnJoin
  <1>1. ASSUME Inv PROVE FlushedOnJoin
    BY <1>1 DEF Inv, Places, Stopped, FlushedOnJoin
  <1> QED
    BY <1>1, Invariant, PTL

(* The logger with its queue, its worker and its callers does what          *)
(* MessageLog asks of it: each message settled once and in its turn, at     *)
(* each sink whose level it reaches and that does not throw, and all of      *)
(* them before it closes.                                                    *)
THEOREM LogImplemented == Spec => ImplementsMessageLog
  <1>1. Init => Promise!Init
    BY DEF Init, Promise!Init
  <1>2. ASSUME Inv, [Next]_vars
        PROVE  [Promise!Next]_Promise!vars
    <2>0. /\ Types /\ Places /\ Flow /\ Stopped
          /\ \A bad \in SUBSET Sinks : Cardinality(bad) \in Nat
          /\ faults \in Nat /\ settled \in Nat /\ accepted \in Seq(Messages)
          /\ MaxFaults \in Nat
      BY <1>2, Numbers DEF Inv, Types
    <2>1. ASSUME UNCHANGED <<accepted, settled, written, faults, wpc>>
          PROVE  UNCHANGED Promise!vars
      BY <2>1 DEF Promise!vars
    <2>2. CASE \E t \in Threads : Enqueue(t)
      <3>1. PICK t \in Threads : Enqueue(t)
        BY <2>2
      <3>2. /\ UNCHANGED <<wpc, settled, written, faults>> /\ pc[t] = "enqueue"
            /\ hand[t] \in Items
            /\ accepted' = IF hand[t].type = "log" THEN Append(accepted, hand[t].msg)
                           ELSE accepted
        BY <2>0, <3>1 DEF Enqueue, workVars, Types
      <3>3. CASE hand[t].type = "log"
        <4>1. wpc # "stopped"
          BY <2>0, <3>2, <3>3, Numbers DEF Places
        <4>2. hand[t].msg \in Messages
          BY <3>2, <3>3, Kinds
        <4>3. /\ Len(accepted') = Len(accepted) + 1
              /\ SubSeq(accepted', 1, Len(accepted)) = accepted
          BY <2>0, <3>2, <3>3, <4>2, AtEnd
        <4>4. Promise!Accept
          BY <3>2, <4>1, <4>3 DEF Promise!Accept
        <4> QED
          BY <4>4 DEF Promise!Next
      <3>4. CASE hand[t].type # "log"
        BY <2>1, <3>2, <3>4
      <3> QED
        BY <3>3, <3>4
    <2>3. CASE ProcessLog
      <3>1. /\ wpc = "process" /\ cur.type = "log" /\ wpc' = "wait"
            /\ settled' = settled + 1 /\ UNCHANGED accepted
        BY <2>3 DEF ProcessLog, queueVars
      <3>2. PICK bad \in SUBSET Sinks :
               /\ faults + Cardinality(bad) <= MaxFaults
               /\ SinksTake(cur.msg, bad)
               /\ HandleFlushInterval(settled', faults + Cardinality(bad))
        BY <2>3 DEF ProcessLog, Takers
      <3>3. accepted[settled'] = cur.msg
        BY <2>0, <3>1 DEF Flow, Working
      <3>4. settled < Len(accepted)
        <4>1. Taken = settled + 1
          BY <3>1 DEF Taken, Working, One
        <4>2. PICK c : Track(c, q, accepted, Taken)
          BY <2>0 DEF Flow
        <4>3. 0 \in 0..Len(q) /\ Len(accepted) \in Nat
          BY <2>0, Elements DEF Types
        <4>4. Taken \in 0..Len(accepted)
          BY <4>2, <4>3 DEF Track
        <4> QED
          BY <2>0, <4>1, <4>3, <4>4
      <3>5. faults' >= faults + Cardinality(bad)
        <4> DEFINE done == settled'
                   spent == faults + Cardinality(bad)
        <4>1. /\ done \in Nat /\ settled <= done
              /\ HandleFlushInterval(done, spent)
          BY <2>0, <3>1, <3>2
        <4>2. spent \in 0..MaxFaults
          BY <2>0, <3>2
        <4> HIDE DEF done, spent
        <4>3. faults' >= spent
          BY <2>0, <4>1, <4>2, Interval
        <4> QED
          BY <4>3 DEF spent
      <3>6. written' = [s \in Sinks |->
                           IF s \in bad \/ (s \in Picky /\ ~accepted[settled'].urgent)
                           THEN written[s]
                           ELSE Append(written[s], accepted[settled'])]
        BY <3>2, <3>3 DEF SinksTake, Takers
      <3>7. Promise!Settle
        <4>1. (wpc' = "stopped") = (wpc = "stopped")
          BY <3>1
        <4>2. Cardinality(bad) = Promise!Cardinality(bad)
          BY DEF Cardinality, Promise!Cardinality, IsFiniteSet, Promise!IsFiniteSet
        <4> QED
          BY <3>1, <3>4, <3>5, <3>6, <4>1, <4>2, Zenon DEF Promise!Settle
      <3> QED
        BY <3>7 DEF Promise!Next
    <2>4. CASE ProcessRequest
      <3>1. /\ wpc = "process" /\ cur.type # "log" /\ faults' >= faults
            /\ wpc' = (IF cur.type = "terminate" THEN "stopped" ELSE "wait")
            /\ UNCHANGED <<accepted, settled, written>>
        BY <2>0, <2>4, FlowProcessRequest DEF ProcessRequest, queueVars
      <3>2. faults' \in Nat
        <4>1. Types'
          BY <1>2, <2>0, TypesStep
        <4> QED
          BY <4>1, <2>0 DEF Types
      <3>3. CASE cur.type = "terminate"
        <4>1. q = <<>> /\ Taken = settled
          BY <2>0, <3>1, <3>3 DEF Places, Working, Taken, One
        <4>2. settled = Len(accepted)
          BY <2>0, <4>1, AllSettled
        <4>3. Promise!Close
          BY <3>1, <3>3, <4>2 DEF Promise!Close
        <4> QED
          BY <4>3 DEF Promise!Next
      <3>4. CASE cur.type # "terminate"
        <4>1. wpc # "stopped" /\ wpc' # "stopped"
          BY <3>1, <3>4
        <4>2. CASE faults' = faults
          BY <3>1, <4>1, <4>2 DEF Promise!vars
        <4>3. CASE faults' # faults
          <5>1. Promise!FlushFails
            BY <2>0, <3>1, <3>2, <4>1, <4>3 DEF Promise!FlushFails
          <5> QED
            BY <5>1 DEF Promise!Next
        <4> QED
          BY <4>2, <4>3
      <3> QED
        BY <3>3, <3>4
    <2>5. CASE TimedOut
      <3>1. /\ wpc = "asleep" /\ wpc' = "wait" /\ UNCHANGED <<accepted, settled, written>>
            /\ HandleFlushInterval(settled, faults)
        BY <2>5 DEF TimedOut, queueVars
      <3>2. faults \in 0..MaxFaults /\ settled <= settled
        BY <2>0 DEF Types
      <3>3. faults' \in 0..MaxFaults /\ faults' >= faults
        BY <2>0, <3>1, <3>2, Interval
      <3>4. CASE faults' = faults
        BY <3>1, <3>4 DEF Promise!vars
      <3>5. CASE faults' # faults
        <4>1. Promise!FlushFails
          BY <2>0, <3>1, <3>3, <3>5 DEF Promise!FlushFails
        <4> QED
          BY <4>1 DEF Promise!Next
      <3> QED
        BY <3>4, <3>5
    <2>6. CASE Next /\ ~(\E t \in Threads : Enqueue(t)) /\ ~ProcessLog
                    /\ ~ProcessRequest /\ ~TimedOut
      <3>1. UNCHANGED <<accepted, settled, written, faults>>
            /\ (wpc' = "stopped") = (wpc = "stopped")
        BY <2>6 DEF Next, Call, Log, Flush, Leave, Put, FallAsleep, Refuse,
           NotifyWorker, SpuriousWakeUp, Destroy, Join, Gone, Worker, Dequeue,
           WorkerSleeps, NotifyClient, WorkerWakesUp, queueVars, workVars, vars
      <3> QED
        BY <3>1 DEF Promise!vars
    <2>7. CASE UNCHANGED vars
      BY <2>1, <2>7 DEF vars, queueVars, workVars
    <2> QED
      BY <1>2, <2>2, <2>3, <2>4, <2>5, <2>6, <2>7
  <1> QED
    BY <1>1, <1>2, Invariant, PTL DEF Spec, ImplementsMessageLog, Promise!Spec
=============================================================================
