------------------------------ MODULE AsyncLog ------------------------------
(***************************************************************************)
(* spdlog's asynchronous logger: threads that log, a bounded queue and one *)
(* worker thread that hands the messages to the sinks                      *)
(* (src/include/spdlog/async_logger.h, details/async_logger_impl.h,        *)
(* details/async_log_helper.h, details/mpmc_blocking_q.h).  What runs with *)
(* the queue's mutex held is one step; a condition is notified after the   *)
(* mutex is released, in a step of its own, and may wake its waiter        *)
(* spuriously.  The owner destroys the logger when the others are done.    *)
(***************************************************************************)
EXTENDS Naturals, Sequences, FiniteSets

CONSTANTS Clients,      \* the threads that log
          Owner,        \* the thread that destroys the logger
          Sinks,
          Picky,        \* the sinks whose level only urgent messages reach
          MaxItems,     \* the queue's capacity, max_items_
          MaxCalls,     \* bound: calls of the clients
          MaxFaults     \* bound: exceptions from the sinks
ASSUME LogAssumption ==
    /\ Owner \notin Clients /\ IsFiniteSet(Sinks) /\ Picky \subseteq Sinks
    /\ MaxItems \in Nat \ {0} /\ MaxCalls \in Nat /\ MaxFaults \in Nat

Threads == Clients \cup {Owner}

VARIABLES
    policy,     \* the overflow policy, fixed when the logger is made
    pc,         \* [Threads -> Labels]
    hand,       \* the item each thread is putting into the queue
    calls,      \* how many calls have been made
    q,          \* mpmc_bounded_queue::q_
    wpc,        \* the worker's place
    cur,        \* the item it has popped
    accepted,   \* the log messages that got into the queue, in order
    settled,    \* how many of them the worker is done with
    written,    \* [Sinks -> the messages each has taken]
    flushed,    \* [Sinks -> settled, when it was last flushed]
    unflushed,  \* the sinks whose last flush threw
    faults

queueVars == <<policy, q, accepted>>
workVars == <<settled, written, flushed, unflushed, faults>>
vars == <<pc, hand, calls, queueVars, wpc, cur, workVars>>

\* A message is named by the number of the call; one at or above the flush
\* level is urgent.
Messages == [n : 1..MaxCalls, urgent : BOOLEAN]
Requests == {[type |-> "flush"], [type |-> "terminate"]}
Items == [type : {"log"}, msg : Messages] \cup Requests
FlushRequest == [type |-> "flush"]
Labels == {"idle", "enqueue", "asleep", "notify", "join", "done"}

TypeOK ==
    /\ policy \in {"block_retry", "discard_log_msg"}
    /\ pc \in [Threads -> Labels]
    /\ hand \in [Threads -> Items]
    /\ calls \in 0..MaxCalls
    /\ q \in Seq(Items) /\ Len(q) <= MaxItems
    /\ wpc \in {"wait", "asleep", "notify", "process", "stopped"}
    /\ cur \in Items
    /\ accepted \in Seq(Messages)
    /\ settled \in 0..Len(accepted)
    /\ written \in [Sinks -> Seq(Messages)]
    /\ flushed \in [Sinks -> 0..settled]
    /\ unflushed \subseteq Sinks
    /\ faults \in 0..MaxFaults

Init == /\ policy \in {"block_retry", "discard_log_msg"}
        /\ pc = [t \in Threads |-> "idle"]
        /\ hand = [t \in Threads |-> FlushRequest]
        /\ calls = 0
        /\ q = <<>> /\ accepted = <<>>
        /\ wpc = "wait" /\ cur = FlushRequest
        /\ settled = 0 /\ faults = 0 /\ unflushed = {}
        /\ written = [s \in Sinks |-> <<>>]
        /\ flushed = [s \in Sinks |-> 0]

-----------------------------------------------------------------------------
(* The threads that log, and the owner.                                     *)

\* Heads for the queue with an item.
Bring(t, item) == /\ pc' = [pc EXCEPT ![t] = "enqueue"]
                  /\ hand' = [hand EXCEPT ![t] = item]

Log(c) == /\ pc[c] = "idle" /\ calls < MaxCalls
          /\ calls' = calls + 1
          /\ \E urgent \in BOOLEAN :
                Bring(c, [type |-> "log", msg |-> [n |-> calls', urgent |-> urgent]])
          /\ UNCHANGED <<queueVars, wpc, cur, workVars>>

Flush(c) == /\ pc[c] = "idle" /\ calls < MaxCalls
            /\ calls' = calls + 1
            /\ Bring(c, FlushRequest)
            /\ UNCHANGED <<queueVars, wpc, cur, workVars>>

Leave(c) == /\ pc[c] = "idle"
            /\ pc' = [pc EXCEPT ![c] = "done"]
            /\ UNCHANGED <<hand, calls, queueVars, wpc, cur, workVars>>

\* The destructor; nobody else uses the logger any more.
Destroy == /\ pc[Owner] = "idle" /\ \A c \in Clients : pc[c] = "done"
           /\ Bring(Owner, [type |-> "terminate"])
           /\ UNCHANGED <<calls, queueVars, wpc, cur, workVars>>

\* A request to terminate waits for room whatever the policy.
Blocks(t) == policy = "block_retry" \/ hand[t].type = "terminate"

\* (Mutant: no flush behind an urgent message.)
AfterNever(t) == /\ pc' = [pc EXCEPT ![t] = IF hand[t].type = "terminate"
                                            THEN "join" ELSE "idle"]
                 /\ hand' = [hand EXCEPT ![t] = FlushRequest]

\* The item is in the queue, or refused: an urgent message is followed by a
\* flush, a request to terminate by join().
After(t) ==
    IF hand[t].type = "log" /\ hand[t].msg.urgent
    THEN Bring(t, FlushRequest)
    ELSE /\ pc' = [pc EXCEPT ![t] = IF hand[t].type = "terminate"
                                    THEN "join" ELSE "idle"]
         /\ hand' = [hand EXCEPT ![t] = FlushRequest]

Room == Len(q) < MaxItems

Enqueue(t) ==
    /\ pc[t] = "enqueue" /\ Room
    /\ q' = Append(q, hand[t])
    /\ accepted' = IF hand[t].type = "log" THEN Append(accepted, hand[t].msg)
                   ELSE accepted
    /\ pc' = [pc EXCEPT ![t] = "notify"]
    /\ UNCHANGED <<policy, hand, calls, wpc, cur, workVars>>

FallAsleep(t) == /\ pc[t] = "enqueue" /\ ~Room /\ Blocks(t)
                 /\ pc' = [pc EXCEPT ![t] = "asleep"]
                 /\ UNCHANGED <<hand, calls, queueVars, wpc, cur, workVars>>

\* enqueue_nowait gives up.
Refuse(t) == /\ pc[t] = "enqueue" /\ ~Room /\ ~Blocks(t)
             /\ After(t)
             /\ UNCHANGED <<calls, queueVars, wpc, cur, workVars>>

\* pop_cv_ wakes t for no reason.
SpuriousWakeUp(t) == /\ pc[t] = "asleep"
                     /\ pc' = [pc EXCEPT ![t] = "enqueue"]
                     /\ UNCHANGED <<hand, calls, queueVars, wpc, cur, workVars>>

\* push_cv_.notify_one()
NotifyWorker(t) == /\ pc[t] = "notify"
                   /\ wpc' = IF wpc = "asleep" THEN "wait" ELSE wpc
                   /\ After(t)
                   /\ UNCHANGED <<calls, queueVars, cur, workVars>>

Join == /\ pc[Owner] = "join" /\ wpc = "stopped"
        /\ pc' = [pc EXCEPT ![Owner] = "done"]
        /\ UNCHANGED <<hand, calls, queueVars, wpc, cur, workVars>>

-----------------------------------------------------------------------------
(* The worker.                                                              *)

Dequeue == /\ wpc = "wait" /\ q # <<>>
           /\ cur' = Head(q)
           /\ q' = Tail(q)
           /\ wpc' = "notify"
           /\ UNCHANGED <<policy, pc, hand, calls, accepted, workVars>>

WorkerSleeps == /\ wpc = "wait" /\ q = <<>>
                /\ wpc' = "asleep"
                /\ UNCHANGED <<pc, hand, calls, queueVars, cur, workVars>>

\* (Mutant: pop_cv_ is not notified.)
NotifyNobody == /\ wpc = "notify" /\ wpc' = "process"
                /\ UNCHANGED <<pc, hand, calls, queueVars, cur, workVars>>

\* pop_cv_.notify_one() wakes one of those who wait for room.
NotifyClient ==
    LET sleepers == {t \in Threads : pc[t] = "asleep"}
    IN  /\ wpc = "notify" /\ wpc' = "process"
        /\ IF sleepers = {} THEN UNCHANGED pc
           ELSE \E t \in sleepers : pc' = [pc EXCEPT ![t] = "enqueue"]
        /\ UNCHANGED <<hand, calls, queueVars, cur, workVars>>

\* flush_sinks(), with done messages settled: a sink that throws does not
\* keep the others from being flushed.
FlushSinks(done, spent) ==
    \E bad \in SUBSET Sinks :
        /\ faults' = spent + Cardinality(bad)
        /\ faults' <= MaxFaults
        /\ flushed' = [s \in Sinks |-> IF s \in bad THEN flushed[s] ELSE done]
        /\ unflushed' = bad

\* The flush interval may have passed; it never has if none is set.
HandleFlushInterval(done, spent) ==
    \/ FlushSinks(done, spent)
    \/ faults' = spent /\ UNCHANGED <<flushed, unflushed>>

\* dequeue_for gives up after two seconds with the queue empty.
TimedOut == /\ wpc = "asleep" /\ q = <<>>
            /\ wpc' = "wait"
            /\ HandleFlushInterval(settled, faults)
            /\ UNCHANGED <<pc, hand, calls, queueVars, cur, settled, written>>

\* It wakes up before that to a queue that is no longer empty.
WorkerWakesUp == /\ wpc = "asleep" /\ q # <<>>
                 /\ wpc' = "wait"
                 /\ UNCHANGED <<pc, hand, calls, queueVars, cur, workVars>>

\* The sinks whose should_log() lets m through.
Takers(m) == {s \in Sinks : s \in Picky => m.urgent}

\* (Mutant: the sinks after one that throws do not get the message.)
SinksTakeUntil(m, bad) ==
    written' = [s \in Sinks |-> IF s \in Takers(m) /\ bad = {}
                                THEN Append(written[s], m) ELSE written[s]]

\* Each of them takes the message or throws.
SinksTake(m, bad) ==
    written' = [s \in Sinks |-> IF s \in Takers(m) \ bad
                                THEN Append(written[s], m) ELSE written[s]]

\* A message that cannot be formatted gets to no sink.
ProcessLog == /\ wpc = "process" /\ cur.type = "log"
              /\ wpc' = "wait"
              /\ settled' = settled + 1
              /\ \E bad \in SUBSET Takers(cur.msg) :
                    /\ faults + Cardinality(bad) <= MaxFaults
                    /\ SinksTake(cur.msg, bad)
                    /\ HandleFlushInterval(settled', faults + Cardinality(bad))
              /\ cur' = FlushRequest
              /\ UNCHANGED <<pc, hand, calls, queueVars>>

\* (Mutant: the worker terminates without a last flush.)
ProcessRequestBare ==
    /\ wpc = "process" /\ cur.type # "log"
    /\ wpc' = IF cur.type = "terminate" THEN "stopped" ELSE "wait"
    /\ IF cur.type = "flush" THEN FlushSinks(settled, faults)
       ELSE UNCHANGED <<faults, flushed, unflushed>>
    /\ cur' = FlushRequest
    /\ UNCHANGED <<pc, hand, calls, queueVars, settled, written>>

ProcessRequest ==
    /\ wpc = "process" /\ cur.type # "log"
    /\ wpc' = IF cur.type = "terminate" THEN "stopped" ELSE "wait"
    /\ FlushSinks(settled, faults)
    /\ cur' = FlushRequest
    /\ UNCHANGED <<pc, hand, calls, queueVars, settled, written>>

-----------------------------------------------------------------------------
Call(c) == Log(c) \/ Flush(c) \/ Leave(c)
Put(t) == Enqueue(t) \/ FallAsleep(t) \/ Refuse(t) \/ NotifyWorker(t)
Worker == \/ Dequeue \/ WorkerSleeps \/ NotifyClient
          \/ TimedOut \/ WorkerWakesUp \/ ProcessLog \/ ProcessRequest

\* The logger is gone.
Gone == pc[Owner] = "done" /\ UNCHANGED vars

Next == \/ \E c \in Clients : Call(c)
        \/ \E t \in Threads : Put(t) \/ SpuriousWakeUp(t)
        \/ Destroy \/ Join \/ Worker \/ Gone

Spec == Init /\ [][Next]_vars

\* Every thread that can go on does; nobody is woken spuriously for certain.
Fairness == /\ \A c \in Clients : WF_vars(Call(c))
            /\ \A t \in Threads : WF_vars(Put(t))
            /\ WF_vars(Destroy) /\ WF_vars(Join) /\ WF_vars(Worker)
FairSpec == Spec /\ Fairness

-----------------------------------------------------------------------------
(* Each policy is kept.  Under block_retry the flush that an urgent message *)
(* asks for is never lost: when the threads are out of the logger and the   *)
(* worker has nothing left, every urgent message has been flushed, but by a *)
(* sink that threw.  "Never block and discard any new messages when queue   *)
(* overflows" (spdlog.h:56): under discard_log_msg nobody who logs waits    *)
(* for room, not even for the flush behind an urgent message.               *)
Quiet == /\ q = <<>> /\ wpc \in {"wait", "asleep", "stopped"}
         /\ \A c \in Clients : pc[c] \in {"idle", "done"}
FlushFollowsUrgent ==
    Quiet => \A s \in Sinks \ unflushed, k \in DOMAIN accepted :
                accepted[k].urgent => flushed[s] >= k
PolicyKept == IF policy = "block_retry" THEN FlushFollowsUrgent
              ELSE \A c \in Clients : pc[c] # "asleep"

(* When the destructor returns every message accepted has been through the  *)
(* sinks and every sink has been flushed after the last, unless it threw.   *)
FlushedOnJoin ==
    pc[Owner] = "done" => /\ settled = Len(accepted)
                          /\ \A s \in Sinks \ unflushed : flushed[s] = settled

(* Every call of the logger returns and the destructor ends: nobody sleeps  *)
(* for ever on a full queue, and the worker never misses the termination.   *)
EverythingJoins == <>(pc[Owner] = "done")

(* The logger keeps what it promises of its messages: in order, each once,  *)
(* to each sink whose level it reaches and that does not throw (a sink that *)
(* throws keeps the message from no other), all of them before it closes.   *)
Promise == INSTANCE MessageLog WITH closed <- wpc = "stopped"
ImplementsMessageLog == Promise!Spec
=============================================================================
