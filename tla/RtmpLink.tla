------------------------------ MODULE RtmpLink ------------------------------
(***************************************************************************)
(* The shared RTMP connection of the program: LibRtmpClass                 *)
(* (src/src/LibRtmpTool.cpp), main's connect loop and AAC header           *)
(* (src/src/main.cpp), and the two pushing threads' use of it              *)
(* (src/src/rtmp_push_librtmp.cpp).                                        *)
(*                                                                         *)
(* Three threads share one RTMP object through the pointer rtmp.  They are *)
(* kept apart by two mechanisms, neither of which suffices alone: the      *)
(* flags pushing_vid and pushing_aud, which are tested and then set in two *)
(* steps, and a mutex, which LibRTMP_Connect initialises again while the   *)
(* reconnecting thread holds it.  rtmp is also read outside the mutex.     *)
(*                                                                         *)
(* A thread's position is a label: the name of the step it takes next.     *)
(***************************************************************************)
EXTENDS Naturals

CONSTANT MaxFaults      \* bound: how many times the network loses the link
ASSUME MaxFaultsAssumption == MaxFaults \in Nat

Pushers == {"video", "audio"}
Threads == Pushers \cup {"main"}
Other(t) == IF t = "video" THEN "audio" ELSE "video"

VARIABLES
    pc,         \* [Threads -> Labels]
    msg,        \* what each thread is sending
    pushing,    \* pushing_vid and pushing_aud
    word,       \* the mutex's futex word: 0 free, 1 held, 2 held and awaited
    rtmp,       \* what the pointer rtmp points to, and that object's state
    sent,       \* decoder configurations sent on the current session
    faults      \* how often the network has lost the link

vars == <<pc, msg, pushing, word, rtmp, sent, faults>>

(***************************************************************************)
(* A video buffer holding an IDR slice is sent as the packet "sps" (SPS    *)
(* and PPS) followed by the packet "keyframe"; "bad" is a unit the sender  *)
(* refuses (a video buffer without a slice, an AAC frame with no payload). *)
(* Contents, sizes and timestamps are left out.                            *)
(***************************************************************************)
Inputs == [video |-> {"sps", "frame", "bad"}, audio |-> {"aac", "bad"}]
Config == {"header", "sps"}
Messages == Config \cup {"none", "keyframe", "frame", "aac", "bad"}

Reconnecting == {"close", "alloc", "dial"}
Using == {"send"} \cup Reconnecting
Raised == Using \cup {"prepare", "streamid", "isconn", "lock", "sleep",
                      "relock", "unlock", "lower"}
Labels == Raised \cup {"idle", "spin", "raise", "done", "dead"}

Objects == {"null", "freed", "fresh", "up", "closed"}

TypeOK == /\ pc \in [Threads -> Labels]
          /\ msg \in [Threads -> Messages]
          /\ pushing \in [Pushers -> BOOLEAN]
          /\ word \in 0..2
          /\ rtmp \in Objects
          /\ sent \subseteq Config
          /\ faults \in 0..MaxFaults

-----------------------------------------------------------------------------
(* main starts in its connect loop; it creates the pushing threads later.  *)
(* "new LibRtmpClass()" zeroes the object: rtmp is NULL, the mutex free.   *)
Init == /\ pc = [t \in Threads |-> IF t = "main" THEN "alloc" ELSE "idle"]
        /\ msg = [t \in Threads |-> "none"]
        /\ pushing = [t \in Pushers |-> FALSE]
        /\ word = 0
        /\ rtmp = "null"
        /\ sent = {}
        /\ faults = 0

Goto(t, from, to) == pc[t] = from /\ pc' = [pc EXCEPT ![t] = to]

\* A bad dereference ends the process, whatever the other threads were doing.
Crash == /\ pc' = [t \in Threads |-> "dead"]
         /\ UNCHANGED <<msg, pushing, word, rtmp, sent, faults>>

\* Where a thread goes once the class is done with its last packet.
Finish(t) == IF t = "main" THEN "done" ELSE "lower"

-----------------------------------------------------------------------------
(* LibRTMP_Connect, called in a retry loop by main and by the three        *)
(* senders that reconnect.  A failed attempt frees the object and leaves   *)
(* rtmp pointing at it.  A successful one initialises the mutex.           *)

Alloc(t) == /\ Goto(t, "alloc", "dial")
            /\ rtmp' = "fresh"
            /\ UNCHANGED <<msg, pushing, word, sent, faults>>

\* (Mutant: the sender's loop gives up after one attempt.)
ConnectGivesUp(t) ==
    /\ Goto(t, "dial", IF t = "main" THEN "alloc" ELSE "unlock")
    /\ rtmp' = "freed"
    /\ UNCHANGED <<msg, pushing, word, sent, faults>>

ConnectFails(t) == /\ Goto(t, "dial", "alloc")
                   /\ rtmp' = "freed"
                   /\ UNCHANGED <<msg, pushing, word, sent, faults>>

\* The return from main's own loop leads to SendAACHeader; the return from a
\* sender's loop leads to its pthread_mutex_unlock.
ConnectSucceeds(t) ==
    /\ rtmp' = "up"
    /\ sent' = {}
    /\ word' = 0
    /\ \/ /\ msg[t] = "none"
          /\ Goto(t, "dial", "streamid")
          /\ msg' = [msg EXCEPT ![t] = "header"]
       \/ /\ msg[t] # "none"
          /\ Goto(t, "dial", "unlock")
          /\ UNCHANGED msg
    /\ UNCHANGED <<pushing, faults>>

-----------------------------------------------------------------------------
(* The pushing threads: wait for the other's flag, raise one's own, call   *)
(* the sender, lower the flag.                                             *)

\* (Mutant: main creates the threads before it has sent the header.)
BeginEarly(t, m) == /\ Goto(t, "idle", "spin")
                    /\ msg' = [msg EXCEPT ![t] = m]
                    /\ UNCHANGED <<pushing, word, rtmp, sent, faults>>

\* A unit has been popped.  main creates the threads after the AAC header.
BeginPush(t, m) == /\ pc["main"] = "done"
                   /\ Goto(t, "idle", "spin")
                   /\ msg' = [msg EXCEPT ![t] = m]
                   /\ UNCHANGED <<pushing, word, rtmp, sent, faults>>

\* (Mutant: the flags are not waited for.)
SpinNot(t) == /\ Goto(t, "spin", "raise")
              /\ UNCHANGED <<msg, pushing, word, rtmp, sent, faults>>

\* The loop on the other thread's flag ends; the flag is tested here and
\* one's own is raised in the next step.
Spin(t) == /\ ~pushing[Other(t)]
           /\ Goto(t, "spin", "raise")
           /\ UNCHANGED <<msg, pushing, word, rtmp, sent, faults>>

Raise(t) == /\ Goto(t, "raise", "prepare")
            /\ pushing' = [pushing EXCEPT ![t] = TRUE]
            /\ UNCHANGED <<msg, word, rtmp, sent, faults>>

\* (Mutant: a refused unit takes the early way out of the loop body.)
PrepareLeaves(t) == /\ Goto(t, "prepare", IF msg[t] = "bad" THEN "idle"
                                                          ELSE "streamid")
                    /\ UNCHANGED <<msg, pushing, word, rtmp, sent, faults>>

\* SendAACData and SendH264Packet check their input and build the packet.
Prepare(t) == /\ Goto(t, "prepare", IF msg[t] = "bad" THEN "lower"
                                                      ELSE "streamid")
              /\ UNCHANGED <<msg, pushing, word, rtmp, sent, faults>>

Lower(t) == /\ Goto(t, "lower", "idle")
            /\ pushing' = [pushing EXCEPT ![t] = FALSE]
            /\ msg' = [msg EXCEPT ![t] = "none"]
            /\ UNCHANGED <<word, rtmp, sent, faults>>

-----------------------------------------------------------------------------
(* The senders' common path.  SendVideoSpsPps does not ask IsConnected.    *)

\* Reads rtmp->m_stream_id, outside the mutex.
ReadStreamId(t) ==
    \/ /\ rtmp # "null"
       /\ Goto(t, "streamid", IF msg[t] = "sps" THEN "lock" ELSE "isconn")
       /\ UNCHANGED <<msg, pushing, word, rtmp, sent, faults>>
    \/ /\ pc[t] = "streamid"
       /\ rtmp \in {"null", "freed"}
       /\ Crash

\* RTMP_IsConnected(rtmp), outside the mutex: an object being connected, or
\* already freed, answers either way.
IsConnected(t) ==
    \/ /\ rtmp \in {"up", "fresh", "freed"}
       /\ Goto(t, "isconn", "lock")
       /\ UNCHANGED <<msg, pushing, word, rtmp, sent, faults>>
    \/ /\ rtmp \in {"closed", "fresh", "freed"}
       /\ Goto(t, "isconn", Finish(t))
       /\ UNCHANGED <<msg, pushing, word, rtmp, sent, faults>>
    \/ /\ pc[t] = "isconn"
       /\ rtmp \in {"null", "freed"}
       /\ Crash

\* (Mutant: the mutex is not waited for.)
LockNot(t) == /\ Goto(t, "lock", "send")
              /\ word' = 1
              /\ UNCHANGED <<msg, pushing, rtmp, sent, faults>>

\* pthread_mutex_lock: take a free mutex, or mark it awaited and sleep.
Lock(t) == /\ \/ word = 0 /\ word' = 1 /\ Goto(t, "lock", "send")
              \/ word # 0 /\ word' = 2 /\ Goto(t, "lock", "sleep")
           /\ UNCHANGED <<msg, pushing, rtmp, sent, faults>>

\* A woken sleeper tries again, and keeps the mutex marked as awaited.
Relock(t) == /\ word' = 2
             /\ Goto(t, "relock", IF word = 0 THEN "send" ELSE "sleep")
             /\ UNCHANGED <<msg, pushing, rtmp, sent, faults>>

Delivered(t) == /\ rtmp = "up"
                /\ Goto(t, "send", "unlock")
                /\ sent' = sent \cup ({msg[t]} \cap Config)
                /\ UNCHANGED <<msg, pushing, word, rtmp, faults>>

\* RTMP_SendPacket fails on a lost link, and closes its socket.  Only
\* SendVideoSpsPps leaves it at that; the others go on to reconnect.
Failed(t) == /\ \/ rtmp = "closed" /\ UNCHANGED <<rtmp, faults>>
                \/ /\ rtmp = "up" /\ faults < MaxFaults
                   /\ rtmp' = "closed" /\ faults' = faults + 1
             /\ Goto(t, "send", IF msg[t] = "sps" THEN "unlock" ELSE "close")
             /\ UNCHANGED <<msg, pushing, word, sent>>

\* LibRTMP_Close closes and frees the object and clears rtmp.
Close(t) == /\ Goto(t, "close", "alloc")
            /\ rtmp' = "null"
            /\ UNCHANGED <<msg, pushing, word, sent, faults>>

\* pthread_mutex_unlock: free the mutex and, if it is marked as awaited, wake
\* one sleeper.  A keyframe's SPS and PPS are followed by the keyframe.
Sleepers == {s \in Threads : pc[s] = "sleep"}

Unlock(t) ==
    /\ pc[t] = "unlock"
    /\ word' = 0
    /\ LET next == IF msg[t] = "sps" THEN "streamid" ELSE Finish(t)
       IN  IF word = 2 /\ Sleepers # {}
           THEN \E s \in Sleepers :
                   pc' = [pc EXCEPT ![t] = next, ![s] = "relock"]
           ELSE pc' = [pc EXCEPT ![t] = next]
    /\ msg' = IF msg[t] = "sps" THEN [msg EXCEPT ![t] = "keyframe"] ELSE msg
    /\ UNCHANGED <<pushing, rtmp, sent, faults>>

-----------------------------------------------------------------------------
Connecting(t) == Alloc(t) \/ ConnectFails(t) \/ ConnectSucceeds(t)
Flagging(t) == Spin(t) \/ Raise(t) \/ Prepare(t) \/ Lower(t)
Sending(t) == \/ ReadStreamId(t) \/ IsConnected(t) \/ Lock(t) \/ Relock(t)
              \/ Delivered(t) \/ Failed(t) \/ Close(t) \/ Unlock(t)

Run(t) == Connecting(t) \/ Flagging(t) \/ Sending(t)
Begin(t) == \E m \in Inputs[t] : BeginPush(t, m)

Next == (\E t \in Threads : Run(t)) \/ (\E t \in Pushers : Begin(t))

Spec == Init /\ [][Next]_vars

(***************************************************************************)
(* Fairness.  A thread that can take a step takes one: the threads are     *)
(* never suspended and every sleep in their loops is timed.  The senders   *)
(* retry for ever, so a server that can be reached again and again is      *)
(* assumed to be reached.  MediaFlows, which only the search for a         *)
(* permanently lost link uses, is the most favourable surroundings: units  *)
(* keep coming and neither flag starves the other thread for ever.         *)
(***************************************************************************)
Fairness == \A t \in Threads : WF_vars(Run(t)) /\ SF_vars(ConnectSucceeds(t))
MediaFlows == \A t \in Pushers : WF_vars(Begin(t)) /\ SF_vars(Spin(t))

FairSpec == Spec /\ Fairness
FlowSpec == FairSpec /\ MediaFlows

-----------------------------------------------------------------------------
Dead == pc["main"] = "dead"
Stranded(t) == pc[t] = "sleep" /\ word # 2

(* At most one thread is inside RTMP_SendPacket or a reconnect.  The mutex  *)
(* alone does not give this, since a reconnect re-initialises it while it is*)
(* held; nor do the flags, which both threads can raise together.           *)
LinkExclusive ==
    \A s, t \in Threads : pc[s] \in Using /\ pc[t] \in Using => s = t

(* A packet is never sent through a NULL, freed or half-built object, though*)
(* senders look at rtmp long before they hold the mutex.                    *)
SendOnLiveObject ==
    \A t \in Threads : pc[t] = "send" => rtmp \in {"up", "closed"}

(* The process dies in a sender only if both threads got past each other's  *)
(* flag at once.                                                            *)
CrashNeedsRace == Dead => pushing["video"] /\ pushing["audio"]

(* rtmp outlives its uses: a packet goes to a whole object, and the looks   *)
(* that senders take at rtmp without the mutex only go wrong after both     *)
(* passed the other's flag.  (SendH264Packet, SendAACData)                  *)
ObjectOutlivesUse == SendOnLiveObject /\ CrashNeedsRace

(* A thread asleep on the mutex is woken or forgotten, and it is forgotten  *)
(* in one way only: the other thread, which held the mutex, has reconnected *)
(* and initialised it (LibRtmpTool.cpp:43).  The thread then sleeps for good*)
(* with its flag up, so the link the other has just brought up carries      *)
(* nothing: the other cannot get past the flag to send on it.               *)
WakerInside(t) == word = 2 /\ pc[Other(t)] \in Using \cup {"unlock"}
Forgotten(t) ==
    /\ word = 0 /\ faults > 0
    /\ pc[Other(t)] \in {"unlock", "lower", "idle", "spin"}
    /\ rtmp = "up" /\ sent = {}
SleeperWokenOrForgotten ==
    \A t \in Pushers : pc[t] = "sleep" => WakerInside(t) \/ Forgotten(t)

Puts(t, m) == /\ pc[t] = "send" /\ msg[t] = m
              /\ pc'[t] = "unlock" /\ rtmp' = "up"

(* Until the link is first lost, no AAC frame precedes the AAC header and no*)
(* keyframe its SPS and PPS (main creates the threads after the header).    *)
ConfigBeforeMedia ==
    [][\A t \in Threads : faults = 0 =>
          /\ Puts(t, "aac") => "header" \in sent
          /\ Puts(t, "keyframe") => "sps" \in sent]_vars

(* A flag that is up comes down again, so that the other thread can push,   *)
(* unless its thread is asleep on a mutex initialised under it.             *)
PushEnds == \A t \in Pushers :
               pushing[t] ~> (~pushing[t] \/ Dead \/ Stranded(t))

(* The senders implement exclusive use of the link.                         *)
User == IF \E t \in Threads : pc[t] \in Using
        THEN CHOOSE t \in Threads : pc[t] \in Using
        ELSE "nobody"
Link == CASE rtmp = "up" -> "up"
          [] rtmp = "closed" -> "down"
          [] OTHER -> "absent"
Exclusive == INSTANCE ExclusiveLink
                WITH Nobody <- "nobody", Connector <- "main",
                     user <- User, link <- Link, running <- ~Dead
ImplementsExclusiveLink == Exclusive!Spec

-----------------------------------------------------------------------------
(* What the code's comments promise and the code does not do.               *)

(* "try to reconnect": a lost link comes back while units keep coming.      *)
LinkRecovers == (rtmp = "closed") ~> (rtmp = "up" \/ Dead)

(* "reconnect to rtmp success": after which pushing goes on.                *)
PushReturns == \A t \in Pushers : pushing[t] ~> (~pushing[t] \/ Dead)

(* "send aac header": a session's AAC frames follow its AAC header.         *)
AacAfterHeader == [][Puts("audio", "aac") => "header" \in sent]_vars
=============================================================================
