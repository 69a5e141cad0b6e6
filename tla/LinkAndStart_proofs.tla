------------------------- MODULE LinkAndStart_proofs -------------------------
(***************************************************************************)
(* Three small components.  RtmpLink is safe for every MaxFaults: the      *)
(* invariant IInv has layers, proved one after the other, Control (labels, *)
(* flags and messages), Exclusion (why mutex and flags together keep the   *)
(* link exclusive although the mutex is re-initialised while held),        *)
(* ObjectInv (what rtmp points to at each label), then the race behind a   *)
(* crash, what becomes of a sleeper, and what holds until the link is      *)
(* first lost (Undisturbed, Configured).  PcmCapture: the stream reaches   *)
(* the encoder intact whatever the sizes of chunk, buffer and fragment, as *)
(* long as SizeAssumption holds.  StartUp: main is a table of 27 steps,    *)
(* and what has failed behind it can be done without by all that it has    *)
(* started.  SoundStart, which is both, implements both.                   *)
(***************************************************************************)
EXTENDS RtmpLink, SoundStart, TLAPS

Away == {"idle", "spin", "lower"}
MainLabels == {"alloc", "dial", "streamid", "isconn", "lock", "send", "close",
               "unlock", "done", "dead"}
PusherLabels == Labels \ {"done"}
VideoMessages == {"none", "sps", "keyframe", "frame", "bad"}
AudioMessages == {"none", "aac", "bad"}

Booting == pc["main"] \notin {"done", "dead"}

Control ==
    /\ TypeOK
    /\ pc["main"] \in MainLabels
    /\ pc["video"] \in PusherLabels /\ pc["audio"] \in PusherLabels
    /\ pc["video"] = "dead" <=> Dead
    /\ pc["audio"] = "dead" <=> Dead
    /\ Booting => pc["video"] = "idle" /\ pc["audio"] = "idle"
    /\ pc["main"] \in {"streamid", "isconn", "lock"} => word = 0
    /\ msg["main"] \in {"none", "header"}
    /\ Booting /\ pc["main"] \notin {"alloc", "dial"} => msg["main"] = "header"
    /\ msg["video"] \in VideoMessages
    /\ msg["audio"] \in AudioMessages
    /\ \A t \in Pushers :
          /\ ~Dead => (pushing[t] <=> pc[t] \in Raised)
          /\ pc[t] \notin {"idle", "dead"} => msg[t] # "none"
          /\ pc[t] \in Raised \ {"prepare", "lower"} => msg[t] # "bad"
          /\ pc[t] \in Reconnecting => msg[t] # "sps"

\* While p uses the link, or is between the SPS and PPS and the keyframe and
\* about to free the mutex, the other pusher o does not use the link; and if
\* the mutex has been initialised under p, o is away from the sender.
Excludes(p, o) ==
    (pc[p] \in Using \/ (pc[p] = "unlock" /\ msg[p] = "sps"))
      => pc[o] \notin Using /\ (word = 0 => pc[o] \in Away)

Exclusion == Excludes("video", "audio") /\ Excludes("audio", "video")

ObjectInv ==
    /\ Booting /\ pc["main"] \in {"streamid", "isconn", "lock"} => rtmp = "up"
    /\ \A t \in Threads :
          /\ pc[t] = "send" => rtmp \in {"up", "closed"}
          /\ pc[t] = "close" => rtmp = "closed"
          /\ pc[t] = "alloc" => rtmp \in {"null", "freed"}
          /\ pc[t] = "dial" => rtmp = "fresh"
    /\ ~Dead /\ rtmp \in {"null", "freed"} => \E t \in Threads : pc[t] = "alloc"
    /\ ~Dead /\ rtmp = "fresh" => \E t \in Threads : pc[t] = "dial"

\* As long as the link has never been lost no thread reconnects.
Undisturbed ==
    faults = 0 => /\ rtmp # "closed"
                  /\ pc["main"] # "close"
                  /\ pc["main"] \in Reconnecting => msg["main"] = "none"
                  /\ \A t \in Pushers : pc[t] \notin Reconnecting

\* A mutex that is not free has a holder, so who goes to sleep has a waker.
SleepersKnown ==
    /\ ~Dead /\ word # 0 => \E t \in Threads : pc[t] \in Using \cup {"unlock"}
    /\ SleeperWokenOrForgotten

\* As long as the link has never been lost, the session has what has been
\* sent on it: the header once main is done, SPS and PPS before a keyframe.
Configured ==
    faults = 0 => /\ pc["main"] \in {"unlock", "done"} => "header" \in sent
                  /\ pc["video"] = "unlock" /\ msg["video"] = "sps"
                        => "sps" \in sent
                  /\ pc["video"] \notin {"idle", "dead"}
                     /\ msg["video"] = "keyframe" => "sps" \in sent

IInv == Control /\ Exclusion /\ ObjectInv /\ CrashNeedsRace /\ Undisturbed
        /\ SleepersKnown /\ Configured

-----------------------------------------------------------------------------
(* The names every step below needs.                                        *)
USE DEF Threads, Pushers, Other, Dead

(* Init establishes the first layer: labels, flags and messages agree.      *)
LEMMA ControlInit == Init => Control
  BY MaxFaultsAssumption DEF Init, Control, TypeOK, Booting, Labels, Raised,
     Using, Reconnecting, Messages, Config, Objects, MainLabels, PusherLabels,
     VideoMessages, AudioMessages

(* Every step keeps labels, flags and messages in agreement.                *)
LEMMA ControlStep == Control /\ [Next]_vars => Control'
  <1> SUFFICES ASSUME Control, [Next]_vars PROVE Control'
    OBVIOUS
  <1> USE MaxFaultsAssumption DEF Control, TypeOK, Booting, Labels, Raised,
        Using, Reconnecting, Messages, Config, Objects, MainLabels,
        PusherLabels, VideoMessages, AudioMessages, Goto, Finish, Crash
  <1> DEFINE Still == UNCHANGED <<msg, pushing, word, rtmp, sent, faults>>
  <1>0. ASSUME Crash PROVE Control'
    BY <1>0
  <1>1. ASSUME NEW t \in Threads, Alloc(t) PROVE Control'
    BY <1>1 DEF Alloc
  <1>2. ASSUME NEW t \in Threads, ConnectFails(t) PROVE Control'
    BY <1>2 DEF ConnectFails
  <1>3. ASSUME NEW t \in Threads, ConnectSucceeds(t) PROVE Control'
    BY <1>3 DEF ConnectSucceeds
  <1>4. ASSUME NEW t \in Threads, Spin(t) PROVE Control'
    BY <1>4 DEF Spin
  <1>5. ASSUME NEW t \in Threads, Raise(t) PROVE Control'
    BY <1>5 DEF Raise
  <1>6. ASSUME NEW t \in Threads, Prepare(t) PROVE Control'
    <2>1. CASE Goto(t, "prepare", "lower") /\ msg[t] = "bad" /\ Still
      BY <2>1
    <2>2. CASE Goto(t, "prepare", "streamid") /\ msg[t] # "bad" /\ Still
      BY <2>2
    <2> QED
      BY <1>6, <2>1, <2>2 DEF Prepare
  <1>7. ASSUME NEW t \in Threads, Lower(t) PROVE Control'
    BY <1>7 DEF Lower
  <1>8. ASSUME NEW t \in Threads, ReadStreamId(t) PROVE Control'
    <2>1. CASE Crash
      BY <1>0, <2>1
    <2>2. CASE Goto(t, "streamid", "lock") /\ msg[t] = "sps" /\ Still
      BY <2>2
    <2>3. CASE Goto(t, "streamid", "isconn") /\ msg[t] # "sps" /\ Still
      BY <2>3
    <2> QED
      BY <1>8, <2>1, <2>2, <2>3 DEF ReadStreamId
  <1>9. ASSUME NEW t \in Threads, IsConnected(t) PROVE Control'
    <2>1. CASE Crash
      BY <1>0, <2>1
    <2>2. CASE Goto(t, "isconn", "lock") /\ Still
      BY <2>2
    <2>3. CASE Goto(t, "isconn", Finish(t)) /\ Still
      BY <2>3
    <2> QED
      BY <1>9, <2>1, <2>2, <2>3 DEF IsConnected
  <1>10. ASSUME NEW t \in Threads, Lock(t) PROVE Control'
    BY <1>10 DEF Lock
  <1>11. ASSUME NEW t \in Threads, Relock(t) PROVE Control'
    BY <1>11 DEF Relock
  <1>12. ASSUME NEW t \in Threads, Delivered(t) PROVE Control'
    BY <1>12 DEF Delivered
  <1>13. ASSUME NEW t \in Threads, Failed(t) PROVE Control'
    BY <1>13 DEF Failed
  <1>14. ASSUME NEW t \in Threads, Close(t) PROVE Control'
    BY <1>14 DEF Close
  <1>15. ASSUME NEW t \in Threads, Unlock(t) PROVE Control'
    BY <1>15 DEF Unlock, Sleepers
  <1>16. ASSUME NEW t \in Pushers, NEW m \in Inputs[t], BeginPush(t, m)
         PROVE Control'
    BY <1>16 DEF BeginPush, Inputs
  <1>17. CASE UNCHANGED vars
    BY <1>17 DEF vars
  <1> QED
    BY <1>1, <1>2, <1>3, <1>4, <1>5, <1>6, <1>7, <1>8, <1>9,
       <1>10, <1>11, <1>12, <1>13, <1>14, <1>15, <1>16, <1>17
       DEF Next, Run, Connecting, Flagging, Sending, Begin

(* Every step keeps the link exclusive.   *)
LEMMA ExclusionStep == Control /\ Exclusion /\ [Next]_vars => Exclusion'
  <1> SUFFICES ASSUME Control, Exclusion, [Next]_vars PROVE Exclusion'
    OBVIOUS
  <1> USE DEF Control, TypeOK, Booting, Labels, Raised, Using, Reconnecting,
        MainLabels, PusherLabels,
        VideoMessages, AudioMessages, Goto, Finish, Exclusion, Excludes, Away
  <1> DEFINE Still == UNCHANGED <<msg, pushing, word, rtmp, sent, faults>>
  <1>0. ASSUME Crash PROVE Exclusion'
    BY <1>0 DEF Crash
  <1>1. ASSUME NEW t \in Threads, Alloc(t) PROVE Exclusion'
    BY <1>1 DEF Alloc
  <1>2. ASSUME NEW t \in Threads, ConnectFails(t) PROVE Exclusion'
    BY <1>2 DEF ConnectFails
  <1>3. ASSUME NEW t \in Threads, ConnectSucceeds(t) PROVE Exclusion'
    BY <1>3 DEF ConnectSucceeds
  <1>4. ASSUME NEW t \in Threads, Spin(t) PROVE Exclusion'
    BY <1>4 DEF Spin
  <1>5. ASSUME NEW t \in Threads, Raise(t) PROVE Exclusion'
    BY <1>5 DEF Raise
  <1>6. ASSUME NEW t \in Threads, Prepare(t) PROVE Exclusion'
    <2>1. CASE Goto(t, "prepare", "lower") /\ msg[t] = "bad" /\ Still
      BY <2>1
    <2>2. CASE Goto(t, "prepare", "streamid") /\ msg[t] # "bad" /\ Still
      BY <2>2
    <2> QED
      BY <1>6, <2>1, <2>2 DEF Prepare
  <1>7. ASSUME NEW t \in Threads, Lower(t) PROVE Exclusion'
    BY <1>7 DEF Lower
  <1>8. ASSUME NEW t \in Threads, ReadStreamId(t) PROVE Exclusion'
    <2>1. CASE Crash
      BY <1>0, <2>1
    <2>2. CASE Goto(t, "streamid", "lock") /\ msg[t] = "sps" /\ Still
      BY <2>2
    <2>3. CASE Goto(t, "streamid", "isconn") /\ msg[t] # "sps" /\ Still
      BY <2>3
    <2> QED
      BY <1>8, <2>1, <2>2, <2>3 DEF ReadStreamId
  <1>9. ASSUME NEW t \in Threads, IsConnected(t) PROVE Exclusion'
    <2>1. CASE Crash
      BY <1>0, <2>1
    <2>2. CASE Goto(t, "isconn", "lock") /\ Still
      BY <2>2
    <2>3. CASE rtmp # "up" /\ Goto(t, "isconn", Finish(t)) /\ Still
      BY <2>3
    <2> QED
      BY <1>9, <2>1, <2>2, <2>3 DEF IsConnected
  <1>10. ASSUME NEW t \in Threads, Lock(t) PROVE Exclusion'
    BY <1>10 DEF Lock
  <1>11. ASSUME NEW t \in Threads, Relock(t) PROVE Exclusion'
    BY <1>11 DEF Relock
  <1>12. ASSUME NEW t \in Threads, Delivered(t) PROVE Exclusion'
    BY <1>12 DEF Delivered
  <1>13. ASSUME NEW t \in Threads, Failed(t) PROVE Exclusion'
    BY <1>13 DEF Failed
  <1>14. ASSUME NEW t \in Threads, Close(t) PROVE Exclusion'
    BY <1>14 DEF Close
  <1>15. ASSUME NEW t \in Threads, Unlock(t) PROVE Exclusion'
    BY <1>15 DEF Unlock, Sleepers
  <1>16. ASSUME NEW t \in Pushers, NEW m \in Inputs[t], BeginPush(t, m)
         PROVE Exclusion'
    BY <1>16 DEF BeginPush, Inputs
  <1>17. CASE UNCHANGED vars
    BY <1>17 DEF vars
  <1> QED
    BY <1>1, <1>2, <1>3, <1>4, <1>5, <1>6, <1>7, <1>8, <1>9,
       <1>10, <1>11, <1>12, <1>13, <1>14, <1>15, <1>16, <1>17
       DEF Next, Run, Connecting, Flagging, Sending, Begin

(* Every step keeps rtmp what the labels say. *)
LEMMA ObjectStep ==
    Control /\ Exclusion /\ ObjectInv /\ [Next]_vars => ObjectInv'
  <1> SUFFICES ASSUME Control, Exclusion, ObjectInv, [Next]_vars
               PROVE  ObjectInv'
    OBVIOUS
  <1> USE DEF Control, TypeOK, Booting, Labels, Raised, Using, Reconnecting,
        Messages, Config, Objects, MainLabels, PusherLabels,
        VideoMessages, AudioMessages, Goto, Finish,
        Exclusion, Excludes, Away, ObjectInv
  <1> DEFINE Still == UNCHANGED <<msg, pushing, word, rtmp, sent, faults>>
  <1>0. ASSUME Crash PROVE ObjectInv'
    BY <1>0 DEF Crash
  <1>1. ASSUME NEW t \in Threads, Alloc(t) PROVE ObjectInv'
    BY <1>1 DEF Alloc
  <1>2. ASSUME NEW t \in Threads, ConnectFails(t) PROVE ObjectInv'
    BY <1>2 DEF ConnectFails
  <1>3. ASSUME NEW t \in Threads, ConnectSucceeds(t) PROVE ObjectInv'
    BY <1>3 DEF ConnectSucceeds
  <1>4. ASSUME NEW t \in Threads, Spin(t) PROVE ObjectInv'
    BY <1>4 DEF Spin
  <1>5. ASSUME NEW t \in Threads, Raise(t) PROVE ObjectInv'
    BY <1>5 DEF Raise
  <1>6. ASSUME NEW t \in Threads, Prepare(t) PROVE ObjectInv'
    <2>1. CASE Goto(t, "prepare", "lower") /\ msg[t] = "bad" /\ Still
      BY <2>1
    <2>2. CASE Goto(t, "prepare", "streamid") /\ msg[t] # "bad" /\ Still
      BY <2>2
    <2> QED
      BY <1>6, <2>1, <2>2 DEF Prepare
  <1>7. ASSUME NEW t \in Threads, Lower(t) PROVE ObjectInv'
    BY <1>7 DEF Lower
  <1>8. ASSUME NEW t \in Threads, ReadStreamId(t) PROVE ObjectInv'
    <2>1. CASE Crash
      BY <1>0, <2>1
    <2>2. CASE Goto(t, "streamid", "lock") /\ msg[t] = "sps" /\ Still
      BY <2>2
    <2>3. CASE Goto(t, "streamid", "isconn") /\ msg[t] # "sps" /\ Still
      BY <2>3
    <2> QED
      BY <1>8, <2>1, <2>2, <2>3 DEF ReadStreamId
  <1>9. ASSUME NEW t \in Threads, IsConnected(t) PROVE ObjectInv'
    <2>1. CASE Crash
      BY <1>0, <2>1
    <2>2. CASE Goto(t, "isconn", "lock") /\ Still
      BY <2>2
    <2>3. CASE rtmp # "up" /\ Goto(t, "isconn", Finish(t)) /\ Still
      BY <2>3
    <2> QED
      BY <1>9, <2>1, <2>2, <2>3 DEF IsConnected
  <1>10. ASSUME NEW t \in Threads, Lock(t) PROVE ObjectInv'
    BY <1>10 DEF Lock
  <1>11. ASSUME NEW t \in Threads, Relock(t) PROVE ObjectInv'
    BY <1>11 DEF Relock
  <1>12. ASSUME NEW t \in Threads, Delivered(t) PROVE ObjectInv'
    BY <1>12 DEF Delivered
  <1>13. ASSUME NEW t \in Threads, Failed(t) PROVE ObjectInv'
    BY <1>13 DEF Failed
  <1>14. ASSUME NEW t \in Threads, Close(t) PROVE ObjectInv'
    BY <1>14 DEF Close
  <1>15. ASSUME NEW t \in Threads, Unlock(t) PROVE ObjectInv'
    BY <1>15 DEF Unlock, Sleepers
  <1>16. ASSUME NEW t \in Pushers, NEW m \in Inputs[t], BeginPush(t, m)
         PROVE ObjectInv'
    BY <1>16 DEF BeginPush, Inputs
  <1>17. CASE UNCHANGED vars
    BY <1>17 DEF vars
  <1> QED
    BY <1>1, <1>2, <1>3, <1>4, <1>5, <1>6, <1>7, <1>8, <1>9,
       <1>10, <1>11, <1>12, <1>13, <1>14, <1>15, <1>16, <1>17
       DEF Next, Run, Connecting, Flagging, Sending, Begin

(* Without a lost link nothing reconnects. *)
LEMMA UndisturbedStep ==
    Control /\ ObjectInv /\ Undisturbed /\ [Next]_vars => Undisturbed'
  <1> SUFFICES ASSUME Control, ObjectInv, Undisturbed, [Next]_vars
               PROVE  Undisturbed'
    OBVIOUS
  <1> USE DEF Control, TypeOK, Booting, Labels, Raised, Using, Reconnecting,
        Messages, Config, Objects, MainLabels, PusherLabels,
        VideoMessages, AudioMessages, Goto, Finish,
        ObjectInv, Undisturbed
  <1> DEFINE Still == UNCHANGED <<msg, pushing, word, rtmp, sent, faults>>
  <1>0. ASSUME Crash PROVE Undisturbed'
    BY <1>0 DEF Crash
  <1>1. ASSUME NEW t \in Threads, Alloc(t) PROVE Undisturbed'
    BY <1>1 DEF Alloc
  <1>2. ASSUME NEW t \in Threads, ConnectFails(t) PROVE Undisturbed'
    BY <1>2 DEF ConnectFails
  <1>3. ASSUME NEW t \in Threads, ConnectSucceeds(t) PROVE Undisturbed'
    BY <1>3 DEF ConnectSucceeds
  <1>4. ASSUME NEW t \in Threads, Spin(t) PROVE Undisturbed'
    BY <1>4 DEF Spin
  <1>5. ASSUME NEW t \in Threads, Raise(t) PROVE Undisturbed'
    BY <1>5 DEF Raise
  <1>6. ASSUME NEW t \in Threads, Prepare(t) PROVE Undisturbed'
    <2>1. CASE Goto(t, "prepare", "lower") /\ msg[t] = "bad" /\ Still
      BY <2>1
    <2>2. CASE Goto(t, "prepare", "streamid") /\ msg[t] # "bad" /\ Still
      BY <2>2
    <2> QED
      BY <1>6, <2>1, <2>2 DEF Prepare
  <1>7. ASSUME NEW t \in Threads, Lower(t) PROVE Undisturbed'
    BY <1>7 DEF Lower
  <1>8. ASSUME NEW t \in Threads, ReadStreamId(t) PROVE Undisturbed'
    <2>1. CASE Crash
      BY <1>0, <2>1
    <2>2. CASE Goto(t, "streamid", "lock") /\ msg[t] = "sps" /\ Still
      BY <2>2
    <2>3. CASE Goto(t, "streamid", "isconn") /\ msg[t] # "sps" /\ Still
      BY <2>3
    <2> QED
      BY <1>8, <2>1, <2>2, <2>3 DEF ReadStreamId
  <1>9. ASSUME NEW t \in Threads, IsConnected(t) PROVE Undisturbed'
    <2>1. CASE Crash
      BY <1>0, <2>1
    <2>2. CASE Goto(t, "isconn", "lock") /\ Still
      BY <2>2
    <2>3. CASE rtmp # "up" /\ Goto(t, "isconn", Finish(t)) /\ Still
      BY <2>3
    <2> QED
      BY <1>9, <2>1, <2>2, <2>3 DEF IsConnected
  <1>10. ASSUME NEW t \in Threads, Lock(t) PROVE Undisturbed'
    BY <1>10 DEF Lock
  <1>11. ASSUME NEW t \in Threads, Relock(t) PROVE Undisturbed'
    BY <1>11 DEF Relock
  <1>12. ASSUME NEW t \in Threads, Delivered(t) PROVE Undisturbed'
    BY <1>12 DEF Delivered
  <1>13. ASSUME NEW t \in Threads, Failed(t) PROVE Undisturbed'
    BY <1>13 DEF Failed
  <1>14. ASSUME NEW t \in Threads, Close(t) PROVE Undisturbed'
    BY <1>14 DEF Close
  <1>15. ASSUME NEW t \in Threads, Unlock(t) PROVE Undisturbed'
    BY <1>15 DEF Unlock, Sleepers
  <1>16. ASSUME NEW t \in Pushers, NEW m \in Inputs[t], BeginPush(t, m)
         PROVE Undisturbed'
    BY <1>16 DEF BeginPush, Inputs
  <1>17. CASE UNCHANGED vars
    BY <1>17 DEF vars
  <1> QED
    BY <1>1, <1>2, <1>3, <1>4, <1>5, <1>6, <1>7, <1>8, <1>9,
       <1>10, <1>11, <1>12, <1>13, <1>14, <1>15, <1>16, <1>17
       DEF Next, Run, Connecting, Flagging, Sending, Begin

(* Every step leaves a sleeper with the thread that will wake it, or, after*)
(* a reconnect, forgotten for good by a thread its flag holds up.           *)
LEMMA WakeupStep ==
    Control /\ Exclusion /\ ObjectInv /\ Undisturbed /\ SleepersKnown
    /\ [Next]_vars => SleepersKnown'
  <1> SUFFICES ASSUME Control, Exclusion, ObjectInv, Undisturbed,
                      SleepersKnown, [Next]_vars
               PROVE  SleepersKnown'
    OBVIOUS
  <1> USE DEF Control, TypeOK, Booting, Labels, Raised, Using, Reconnecting,
        Messages, Config, Objects, MainLabels, PusherLabels,
        VideoMessages, AudioMessages, Goto, Finish,
        Exclusion, Excludes, Away,
        ObjectInv, Undisturbed, SleepersKnown, SleeperWokenOrForgotten,
        WakerInside, Forgotten
  <1> DEFINE Still == UNCHANGED <<msg, pushing, word, rtmp, sent, faults>>
  <1>0. ASSUME Crash PROVE SleepersKnown'
    BY <1>0 DEF Crash
  <1>1. ASSUME NEW t \in Threads, Alloc(t) PROVE SleepersKnown'
    BY <1>1 DEF Alloc
  <1>2. ASSUME NEW t \in Threads, ConnectFails(t) PROVE SleepersKnown'
    BY <1>2 DEF ConnectFails
  <1>3. ASSUME NEW t \in Threads, ConnectSucceeds(t) PROVE SleepersKnown'
    BY <1>3 DEF ConnectSucceeds
  <1>4. ASSUME NEW t \in Threads, Spin(t) PROVE SleepersKnown'
    BY <1>4 DEF Spin
  <1>5. ASSUME NEW t \in Threads, Raise(t) PROVE SleepersKnown'
    BY <1>5 DEF Raise
  <1>6. ASSUME NEW t \in Threads, Prepare(t) PROVE SleepersKnown'
    <2>1. CASE Goto(t, "prepare", "lower") /\ msg[t] = "bad" /\ Still
      BY <2>1
    <2>2. CASE Goto(t, "prepare", "streamid") /\ msg[t] # "bad" /\ Still
      BY <2>2
    <2> QED
      BY <1>6, <2>1, <2>2 DEF Prepare
  <1>7. ASSUME NEW t \in Threads, Lower(t) PROVE SleepersKnown'
    BY <1>7 DEF Lower
  <1>8. ASSUME NEW t \in Threads, ReadStreamId(t) PROVE SleepersKnown'
    <2>1. CASE Crash
      BY <1>0, <2>1
    <2>2. CASE Goto(t, "streamid", "lock") /\ msg[t] = "sps" /\ Still
      BY <2>2
    <2>3. CASE Goto(t, "streamid", "isconn") /\ msg[t] # "sps" /\ Still
      BY <2>3
    <2> QED
      BY <1>8, <2>1, <2>2, <2>3 DEF ReadStreamId
  <1>9. ASSUME NEW t \in Threads, IsConnected(t) PROVE SleepersKnown'
    <2>1. CASE Crash
      BY <1>0, <2>1
    <2>2. CASE Goto(t, "isconn", "lock") /\ Still
      BY <2>2
    <2>3. CASE rtmp # "up" /\ Goto(t, "isconn", Finish(t)) /\ Still
      BY <2>3
    <2> QED
      BY <1>9, <2>1, <2>2, <2>3 DEF IsConnected
  <1>10. ASSUME NEW t \in Threads, Lock(t) PROVE SleepersKnown'
    BY <1>10 DEF Lock
  <1>11. ASSUME NEW t \in Threads, Relock(t) PROVE SleepersKnown'
    BY <1>11 DEF Relock
  <1>12. ASSUME NEW t \in Threads, Delivered(t) PROVE SleepersKnown'
    BY <1>12 DEF Delivered
  <1>13. ASSUME NEW t \in Threads, Failed(t) PROVE SleepersKnown'
    BY <1>13 DEF Failed
  <1>14. ASSUME NEW t \in Threads, Close(t) PROVE SleepersKnown'
    BY <1>14 DEF Close
  <1>15. ASSUME NEW t \in Threads, Unlock(t) PROVE SleepersKnown'
    BY <1>15 DEF Unlock, Sleepers
  <1>16. ASSUME NEW t \in Pushers, NEW m \in Inputs[t], BeginPush(t, m)
         PROVE SleepersKnown'
    BY <1>16 DEF BeginPush, Inputs
  <1>17. CASE UNCHANGED vars
    BY <1>17 DEF vars
  <1> QED
    BY <1>1, <1>2, <1>3, <1>4, <1>5, <1>6, <1>7, <1>8, <1>9,
       <1>10, <1>11, <1>12, <1>13, <1>14, <1>15, <1>16, <1>17
       DEF Next, Run, Connecting, Flagging, Sending, Begin

(* A crash is the crash of a thread that raced.                             *)
LEMMA RaceStep ==
    Control /\ ObjectInv /\ CrashNeedsRace /\ [Next]_vars => CrashNeedsRace'
  <1> SUFFICES ASSUME Control, ObjectInv, CrashNeedsRace, [Next]_vars
               PROVE  CrashNeedsRace'
    OBVIOUS
  <1> USE DEF Control, TypeOK, Booting, Labels, Raised, Using, Reconnecting,
        Messages, Config, Objects, MainLabels, PusherLabels,
        VideoMessages, AudioMessages, Goto, Finish, ObjectInv,
        CrashNeedsRace
  <1> DEFINE Still == UNCHANGED <<msg, pushing, word, rtmp, sent, faults>>
  <1>0. ASSUME NEW t \in Threads, pc[t] \in {"streamid", "isconn"},
               rtmp \in {"null", "freed"}, Crash
        PROVE CrashNeedsRace'
    <2>1. pc["main"] \notin {"alloc", "streamid", "isconn"}
      BY <1>0
    <2>2. PICK s \in Threads : pc[s] = "alloc"
      BY <1>0
    <2>3. pushing["video"] /\ pushing["audio"]
      BY <1>0, <2>1, <2>2
    <2> QED
      BY <1>0, <2>3 DEF Crash
  <1>1. ASSUME NEW t \in Threads, Alloc(t) PROVE CrashNeedsRace'
    BY <1>1 DEF Alloc
  <1>2. ASSUME NEW t \in Threads, ConnectFails(t) PROVE CrashNeedsRace'
    BY <1>2 DEF ConnectFails
  <1>3. ASSUME NEW t \in Threads, ConnectSucceeds(t) PROVE CrashNeedsRace'
    BY <1>3 DEF ConnectSucceeds
  <1>4. ASSUME NEW t \in Threads, Spin(t) PROVE CrashNeedsRace'
    BY <1>4 DEF Spin
  <1>5. ASSUME NEW t \in Threads, Raise(t) PROVE CrashNeedsRace'
    BY <1>5 DEF Raise
  <1>6. ASSUME NEW t \in Threads, Prepare(t) PROVE CrashNeedsRace'
    <2>1. CASE Goto(t, "prepare", "lower") /\ Still
      BY <2>1
    <2>2. CASE Goto(t, "prepare", "streamid") /\ Still
      BY <2>2
    <2> QED
      BY <1>6, <2>1, <2>2 DEF Prepare
  <1>7. ASSUME NEW t \in Threads, Lower(t) PROVE CrashNeedsRace'
    BY <1>7 DEF Lower
  <1>8. ASSUME NEW t \in Threads, ReadStreamId(t) PROVE CrashNeedsRace'
    <2>1. CASE pc[t] = "streamid" /\ rtmp \in {"null", "freed"} /\ Crash
      BY <1>0, <2>1
    <2>2. CASE Goto(t, "streamid", "lock") /\ Still
      BY <2>2
    <2>3. CASE Goto(t, "streamid", "isconn") /\ Still
      BY <2>3
    <2> QED
      BY <1>8, <2>1, <2>2, <2>3 DEF ReadStreamId
  <1>9. ASSUME NEW t \in Threads, IsConnected(t) PROVE CrashNeedsRace'
    <2>1. CASE pc[t] = "isconn" /\ rtmp \in {"null", "freed"} /\ Crash
      BY <1>0, <2>1
    <2>2. CASE Goto(t, "isconn", "lock") /\ Still
      BY <2>2
    <2>3. CASE Goto(t, "isconn", Finish(t)) /\ Still
      BY <2>3
    <2> QED
      BY <1>9, <2>1, <2>2, <2>3 DEF IsConnected
  <1>10. ASSUME NEW t \in Threads, Lock(t) PROVE CrashNeedsRace'
    BY <1>10 DEF Lock
  <1>11. ASSUME NEW t \in Threads, Relock(t) PROVE CrashNeedsRace'
    BY <1>11 DEF Relock
  <1>12. ASSUME NEW t \in Threads, Delivered(t) PROVE CrashNeedsRace'
    BY <1>12 DEF Delivered
  <1>13. ASSUME NEW t \in Threads, Failed(t) PROVE CrashNeedsRace'
    BY <1>13 DEF Failed
  <1>14. ASSUME NEW t \in Threads, Close(t) PROVE CrashNeedsRace'
    BY <1>14 DEF Close
  <1>15. ASSUME NEW t \in Threads, Unlock(t) PROVE CrashNeedsRace'
    BY <1>15 DEF Unlock, Sleepers
  <1>16. ASSUME NEW t \in Pushers, NEW m \in Inputs[t], BeginPush(t, m)
         PROVE CrashNeedsRace'
    BY <1>16 DEF BeginPush, Inputs
  <1>17. CASE UNCHANGED vars
    BY <1>17 DEF vars
  <1> QED
    BY <1>1, <1>2, <1>3, <1>4, <1>5, <1>6, <1>7, <1>8, <1>9,
       <1>10, <1>11, <1>12, <1>13, <1>14, <1>15, <1>16, <1>17
       DEF Next, Run, Connecting, Flagging, Sending, Begin

(* A session that was never lost has its configurations. *)
LEMMA ConfigStep ==
    Control /\ ObjectInv /\ Undisturbed /\ Configured /\ [Next]_vars
       => Configured'
  <1> SUFFICES ASSUME Control, ObjectInv, Undisturbed, Configured, [Next]_vars
               PROVE  Configured'
    OBVIOUS
  <1> USE DEF Control, TypeOK, Booting, Labels, Raised, Using, Reconnecting,
        Messages, Config, Objects, MainLabels, PusherLabels,
        VideoMessages, AudioMessages, Goto, Finish, ObjectInv,
        Undisturbed, Configured
  <1> DEFINE Still == UNCHANGED <<msg, pushing, word, rtmp, sent, faults>>
  <1>0. ASSUME Crash PROVE Configured'
    BY <1>0 DEF Crash
  <1>1. ASSUME NEW t \in Threads, Alloc(t) PROVE Configured'
    BY <1>1 DEF Alloc
  <1>2. ASSUME NEW t \in Threads, ConnectFails(t) PROVE Configured'
    BY <1>2 DEF ConnectFails
  <1>3. ASSUME NEW t \in Threads, ConnectSucceeds(t) PROVE Configured'
    BY <1>3 DEF ConnectSucceeds
  <1>4. ASSUME NEW t \in Threads, Spin(t) PROVE Configured'
    BY <1>4 DEF Spin
  <1>5. ASSUME NEW t \in Threads, Raise(t) PROVE Configured'
    BY <1>5 DEF Raise
  <1>6. ASSUME NEW t \in Threads, Prepare(t) PROVE Configured'
    <2>1. CASE Goto(t, "prepare", "lower") /\ msg[t] = "bad" /\ Still
      BY <2>1
    <2>2. CASE Goto(t, "prepare", "streamid") /\ msg[t] # "bad" /\ Still
      BY <2>2
    <2> QED
      BY <1>6, <2>1, <2>2 DEF Prepare
  <1>7. ASSUME NEW t \in Threads, Lower(t) PROVE Configured'
    BY <1>7 DEF Lower
  <1>8. ASSUME NEW t \in Threads, ReadStreamId(t) PROVE Configured'
    <2>1. CASE Crash
      BY <1>0, <2>1
    <2>2. CASE Goto(t, "streamid", "lock") /\ msg[t] = "sps" /\ Still
      BY <2>2
    <2>3. CASE Goto(t, "streamid", "isconn") /\ msg[t] # "sps" /\ Still
      BY <2>3
    <2> QED
      BY <1>8, <2>1, <2>2, <2>3 DEF ReadStreamId
  <1>9. ASSUME NEW t \in Threads, IsConnected(t) PROVE Configured'
    <2>1. CASE Crash
      BY <1>0, <2>1
    <2>2. CASE Goto(t, "isconn", "lock") /\ Still
      BY <2>2
    <2>3. CASE rtmp # "up" /\ Goto(t, "isconn", Finish(t)) /\ Still
      BY <2>3
    <2> QED
      BY <1>9, <2>1, <2>2, <2>3 DEF IsConnected
  <1>10. ASSUME NEW t \in Threads, Lock(t) PROVE Configured'
    BY <1>10 DEF Lock
  <1>11. ASSUME NEW t \in Threads, Relock(t) PROVE Configured'
    BY <1>11 DEF Relock
  <1>12. ASSUME NEW t \in Threads, Delivered(t) PROVE Configured'
    BY <1>12 DEF Delivered
  <1>13. ASSUME NEW t \in Threads, Failed(t) PROVE Configured'
    BY <1>13 DEF Failed
  <1>14. ASSUME NEW t \in Threads, Close(t) PROVE Configured'
    BY <1>14 DEF Close
  <1>15. ASSUME NEW t \in Threads, Unlock(t) PROVE Configured'
    BY <1>15 DEF Unlock, Sleepers
  <1>16. ASSUME NEW t \in Pushers, NEW m \in Inputs[t], BeginPush(t, m)
         PROVE Configured'
    BY <1>16 DEF BeginPush, Inputs
  <1>17. CASE UNCHANGED vars
    BY <1>17 DEF vars
  <1> QED
    BY <1>1, <1>2, <1>3, <1>4, <1>5, <1>6, <1>7, <1>8, <1>9,
       <1>10, <1>11, <1>12, <1>13, <1>14, <1>15, <1>16, <1>17
       DEF Next, Run, Connecting, Flagging, Sending, Begin

-----------------------------------------------------------------------------
(* The inductive invariant holds of every behaviour.                        *)
LEMMA Invariance == Spec => []IInv
  <1>1. Init => IInv
    <2> SUFFICES ASSUME Init PROVE IInv
      OBVIOUS
    <2>1. Control
      BY ControlInit
    <2>2. /\ Exclusion /\ CrashNeedsRace /\ Undisturbed
          /\ SleepersKnown /\ Configured
      BY DEF Init, Exclusion, Excludes, CrashNeedsRace, Undisturbed,
         SleepersKnown, SleeperWokenOrForgotten, Configured, Using, Reconnecting, Away
    <2>3. pc["main"] = "alloc"
      BY DEF Init
    <2>4. ObjectInv
      BY <2>3 DEF Init, ObjectInv, Booting
    <2> QED
      BY <2>1, <2>2, <2>4 DEF IInv
  <1>2. IInv /\ [Next]_vars => IInv'
    BY ControlStep, ExclusionStep, ObjectStep, RaceStep, UndisturbedStep,
       WakeupStep, ConfigStep DEF IInv
  <1> QED
    BY <1>1, <1>2, PTL DEF Spec

(* Every variable keeps its type: in particular the futex word of the mutex *)
(* stays a futex word although the mutex is initialised again while held.   *)
THEOREM TypeCorrect == Spec => []TypeOK
  <1>1. IInv => TypeOK
    BY DEF IInv, Control
  <1> QED
    BY Invariance, <1>1, PTL

(* The connection is used by one thread at a time, whatever the scheduling  *)
(* and however often it is lost and made again.                             *)
THEOREM Exclusivity == Spec => []LinkExclusive
  <1>1. IInv => LinkExclusive
    BY DEF IInv, Control, Booting, Exclusion, Excludes, LinkExclusive, Using,
       Reconnecting
  <1> QED
    BY Invariance, <1>1, PTL

(* RTMP_SendPacket is called on a connected or a lost connection, never on a*)
(* NULL, freed or half-built object.                                        *)
THEOREM LiveObject == Spec => []SendOnLiveObject
  <1>1. IInv => SendOnLiveObject
    BY DEF IInv, ObjectInv, SendOnLiveObject
  <1> QED
    BY Invariance, <1>1, PTL

(* A crash in a sender needs both threads past each other's flag.           *)
THEOREM CrashesNeedARace == Spec => []CrashNeedsRace
  <1>1. IInv => CrashNeedsRace
    BY DEF IInv
  <1> QED
    BY Invariance, <1>1, PTL

(* Both together: what senders read of rtmp outside the mutex is only stale *)
(* in a way that matters after a race on the flags.                         *)
THEOREM ObjectsKept == Spec => []ObjectOutlivesUse
  <1> QED
    BY LiveObject, CrashesNeedARace, PTL DEF ObjectOutlivesUse

(* In every state, however often the link is lost, a thread asleep on the   *)
(* mutex has a waker inside the critical section, or it was forgotten by a  *)
(* reconnect whose connected link nobody then uses.                         *)
THEOREM WakeupsAccounted == Spec => []SleeperWokenOrForgotten
  <1>1. IInv => SleeperWokenOrForgotten
    BY DEF IInv, SleepersKnown
  <1> QED
    BY Invariance, <1>1, PTL

(* On a session that was never lost, the AAC header precedes the AAC frames *)
(* and SPS and PPS precede the keyframe.                                    *)
THEOREM ConfigComesFirst == Spec => ConfigBeforeMedia
  <1> DEFINE Ordered == \A t \in Threads : faults = 0 =>
                           /\ Puts(t, "aac") => "header" \in sent
                           /\ Puts(t, "keyframe") => "sps" \in sent
  <1>1. IInv /\ [Next]_vars => [Ordered]_vars
    BY DEF IInv, Control, Configured, Puts, Booting, VideoMessages,
       AudioMessages
  <1> QED
    BY Invariance, <1>1, PTL DEF Spec, ConfigBeforeMedia

-----------------------------------------------------------------------------
(* The refinement.  User is well defined because the link is exclusive.     *)
LEMMA UserIs ==
    /\ LinkExclusive => \A t \in Threads : pc[t] \in Using => User = t
    /\ (\A t \in Threads : pc[t] \notin Using) => User = "nobody"
  BY DEF LinkExclusive, User

LEMMA UserIsNext ==
    /\ LinkExclusive' => \A t \in Threads : pc'[t] \in Using => User' = t
    /\ (\A t \in Threads : pc'[t] \notin Using) => User' = "nobody"
  BY DEF LinkExclusive, User

(* Every step of the senders is a step of ExclusiveLink, or leaves its      *)
(* variables alone.                                                         *)
LEMMA StepRefines ==
    IInv /\ IInv' /\ [Next]_vars => [Exclusive!Next]_Exclusive!vars
  <1> SUFFICES ASSUME IInv, IInv', [Next]_vars
               PROVE  Exclusive!Next \/ UNCHANGED Exclusive!vars
    BY DEF Exclusive!Next
  <1> DEFINE Still == UNCHANGED <<msg, pushing, word, rtmp, sent, faults>>
  <1>a. LinkExclusive /\ LinkExclusive'
    BY DEF IInv, Control, Booting, Exclusion, Excludes, LinkExclusive, Using,
       Reconnecting
  <1>b. pc \in [Threads -> Labels]
    BY DEF IInv, Control, TypeOK
  <1>c. ASSUME \A t \in Threads : pc'[t] \in Using <=> pc[t] \in Using,
               Link' = Link, Dead' <=> Dead
        PROVE  UNCHANGED Exclusive!vars
    <2>1. User' = User
      <3>1. CASE \E t \in Threads : pc[t] \in Using
        BY <1>a, <1>c, <3>1, UserIs, UserIsNext
      <3>2. CASE \A t \in Threads : pc[t] \notin Using
        BY <1>c, <3>2, UserIs, UserIsNext
      <3> QED
        BY <3>1, <3>2
    <2>2. (~Dead)' = ~Dead
      BY <1>c
    <2> QED
      BY <1>c, <2>1, <2>2 DEF Exclusive!vars
  \* a thread moves between labels outside Using, or within it
  <1>d. ASSUME NEW t \in Threads, NEW a \in Labels, NEW b \in Labels,
               Goto(t, a, b), a \in Using <=> b \in Using,
               a # "dead", b # "dead", Link' = Link
        PROVE  UNCHANGED Exclusive!vars
    <2>1. \A s \in Threads : pc'[s] \in Using <=> pc[s] \in Using
      BY <1>b, <1>d DEF Goto
    <2>2. Dead' <=> Dead
      BY <1>b, <1>d DEF Goto
    <2> QED
      BY <1>c, <1>d, <2>1, <2>2
  \* who uses the link before and after a thread moves
  <1>e. ASSUME NEW t \in Threads, NEW a \in Labels, NEW b \in Labels,
               Goto(t, a, b), a # "dead", b # "dead"
        PROVE  /\ ~Dead /\ ~Dead'
               /\ a \in Using => User = t
               /\ b \in Using => User' = t
               /\ a \notin Using /\ b \in Using => User = "nobody"
               /\ a \in Using /\ b \notin Using => User' = "nobody"
    <2>1. pc[t] = a /\ pc'[t] = b
      BY <1>b, <1>e DEF Goto
    <2>2. \A s \in Threads : s # t => pc'[s] = pc[s]
      BY <1>b, <1>e DEF Goto
    <2>3. ~Dead /\ ~Dead'
      BY <1>e, <2>1 DEF IInv, Control
    <2>4. a \in Using => User = t
      BY <1>a, <2>1, UserIs
    <2>5. b \in Using => User' = t
      BY <1>a, <2>1, UserIsNext
    <2>6. ASSUME a \notin Using, b \in Using PROVE User = "nobody"
      BY <1>a, <2>1, <2>2, <2>6, UserIs DEF LinkExclusive
    <2>7. ASSUME a \in Using, b \notin Using PROVE User' = "nobody"
      BY <1>a, <2>1, <2>2, <2>7, UserIsNext DEF LinkExclusive
    <2> QED
      BY <2>3, <2>4, <2>5, <2>6, <2>7
  <1> USE DEF Using, Reconnecting, Raised, Labels
  <1>f. ASSUME NEW t \in Threads, pc[t] # "dead", Crash PROVE Exclusive!Crash
    <2>1. ~Dead
      BY <1>f DEF IInv, Control
    <2>2. User' = "nobody" /\ Dead'
      BY <1>f, UserIsNext DEF Crash
    <2>3. Link' = Link
      BY <1>f DEF Crash, Link
    <2> QED
      BY <2>1, <2>2, <2>3 DEF Exclusive!Crash
  <1>1. ASSUME NEW t \in Threads, Alloc(t) PROVE UNCHANGED Exclusive!vars
    <2>1. Link' = Link
      BY <1>1 DEF Alloc, Link, IInv, ObjectInv, Goto
    <2> QED
      BY <1>1, <1>d, <2>1 DEF Alloc
  <1>2. ASSUME NEW t \in Threads, ConnectFails(t) PROVE UNCHANGED Exclusive!vars
    <2>1. Link' = Link
      BY <1>2 DEF ConnectFails, Link, IInv, ObjectInv, Goto
    <2> QED
      BY <1>2, <1>d, <2>1 DEF ConnectFails
  <1>3. ASSUME NEW t \in Threads, ConnectSucceeds(t)
        PROVE  Exclusive!Connect(t) /\ ~Dead
    <2>1. Link = "absent" /\ Link' = "up"
      BY <1>3 DEF ConnectSucceeds, Link, IInv, ObjectInv, Goto
    <2>2. CASE Goto(t, "dial", "streamid")
      BY <1>e, <2>1, <2>2 DEF Exclusive!Connect
    <2>3. CASE Goto(t, "dial", "unlock")
      BY <1>e, <2>1, <2>3 DEF Exclusive!Connect
    <2> QED
      BY <1>3, <2>2, <2>3 DEF ConnectSucceeds
  <1>4. ASSUME NEW t \in Threads, Flagging(t) PROVE UNCHANGED Exclusive!vars
    <2>1. CASE Spin(t) \/ Raise(t) \/ Lower(t)
      BY <1>d, <2>1 DEF Spin, Raise, Lower, Link
    <2>2. CASE UNCHANGED rtmp /\ Goto(t, "prepare", "lower")
      BY <1>d, <2>2 DEF Link
    <2>3. CASE UNCHANGED rtmp /\ Goto(t, "prepare", "streamid")
      BY <1>d, <2>3 DEF Link
    <2> QED
      BY <1>4, <2>1, <2>2, <2>3 DEF Flagging, Prepare
  <1>5. ASSUME NEW t \in Threads, ReadStreamId(t)
        PROVE  Exclusive!Crash \/ UNCHANGED Exclusive!vars
    <2>1. CASE Still /\ Goto(t, "streamid", "lock")
      BY <1>d, <2>1 DEF Link
    <2>2. CASE Still /\ Goto(t, "streamid", "isconn")
      BY <1>d, <2>2 DEF Link
    <2>3. CASE pc[t] = "streamid" /\ Crash
      BY <1>f, <2>3
    <2> QED
      BY <1>5, <2>1, <2>2, <2>3 DEF ReadStreamId
  <1>6. ASSUME NEW t \in Threads, IsConnected(t)
        PROVE  Exclusive!Crash \/ UNCHANGED Exclusive!vars
    <2>1. CASE Still /\ Goto(t, "isconn", "lock")
      BY <1>d, <2>1 DEF Link
    <2>2. CASE Still /\ Goto(t, "isconn", Finish(t))
      BY <1>d, <2>2 DEF Link, Finish
    <2>3. CASE pc[t] = "isconn" /\ Crash
      BY <1>f, <2>3
    <2> QED
      BY <1>6, <2>1, <2>2, <2>3 DEF IsConnected
  <1>7. ASSUME NEW t \in Threads,
               Goto(t, "lock", "send") \/ Goto(t, "relock", "send"),
               UNCHANGED rtmp
        PROVE  Exclusive!Acquire(t) /\ ~Dead
    <2>1. pc'[t] = "send"
      BY <1>7, <1>b DEF Goto
    <2>2. Link' = Link /\ Link # "absent"
      BY <1>7, <2>1 DEF Link, IInv, ObjectInv
    <2> QED
      BY <1>7, <1>e, <2>2 DEF Exclusive!Acquire
  <1>8. ASSUME NEW t \in Threads, Lock(t) \/ Relock(t)
        PROVE  (Exclusive!Acquire(t) /\ ~Dead) \/ UNCHANGED Exclusive!vars
    <2>1. CASE Goto(t, "lock", "sleep") /\ UNCHANGED rtmp
      BY <1>d, <2>1 DEF Link
    <2>2. CASE Goto(t, "relock", "sleep") /\ UNCHANGED rtmp
      BY <1>d, <2>2 DEF Link
    <2> QED
      BY <1>7, <1>8, <2>1, <2>2 DEF Lock, Relock
  <1>9. ASSUME NEW t \in Threads, Delivered(t)
        PROVE  Exclusive!Release(t) /\ ~Dead
    <2>1. Link' = Link /\ Link # "absent"
      BY <1>9 DEF Delivered, Link
    <2> QED
      BY <1>9, <1>e, <2>1 DEF Delivered, Exclusive!Release
  <1>10. ASSUME NEW t \in Threads, Failed(t)
         PROVE  \/ (Exclusive!Lose(t) \/ Exclusive!Release(t)) /\ ~Dead
                \/ UNCHANGED Exclusive!vars
    <2>1. CASE Goto(t, "send", "close") /\ rtmp = "closed" /\ UNCHANGED rtmp
      BY <1>d, <2>1 DEF Link
    <2>2. CASE Goto(t, "send", "unlock") /\ rtmp = "closed" /\ UNCHANGED rtmp
      BY <1>e, <2>2 DEF Link, Exclusive!Release
    <2>3. CASE Goto(t, "send", "close") /\ rtmp = "up" /\ rtmp' = "closed"
      BY <1>e, <2>3 DEF Link, Exclusive!Lose
    <2>4. CASE Goto(t, "send", "unlock") /\ rtmp = "up" /\ rtmp' = "closed"
      BY <1>e, <2>4 DEF Link, Exclusive!Lose
    <2> QED
      BY <1>10, <2>1, <2>2, <2>3, <2>4 DEF Failed
  <1>11. ASSUME NEW t \in Threads, Close(t) PROVE Exclusive!Discard(t) /\ ~Dead
    <2>1. Link = "down" /\ Link' = "absent"
      BY <1>11 DEF Close, Link, IInv, ObjectInv, Goto
    <2> QED
      BY <1>11, <1>e, <2>1 DEF Close, Exclusive!Discard
  <1>12. ASSUME NEW t \in Threads, Unlock(t) PROVE UNCHANGED Exclusive!vars
    <2>1. \A s \in Threads : pc'[s] \in Using <=> pc[s] \in Using
      BY <1>12, <1>b DEF Unlock, Sleepers, Finish
    <2>2. Dead' <=> Dead
      BY <1>12, <1>b DEF Unlock, Sleepers, Finish
    <2>3. Link' = Link
      BY <1>12 DEF Unlock, Link
    <2> QED
      BY <1>c, <2>1, <2>2, <2>3
  <1>13. ASSUME NEW t \in Pushers, NEW m \in Inputs[t], BeginPush(t, m)
         PROVE  UNCHANGED Exclusive!vars
    BY <1>13, <1>d DEF BeginPush, Link
  <1>14. CASE UNCHANGED vars
    BY <1>14, <1>c DEF vars, Link
  <1>15. \A t \in Threads : \/ Exclusive!Acquire(t) \/ Exclusive!Release(t)
                           \/ Exclusive!Lose(t) \/ Exclusive!Discard(t)
                           \/ Exclusive!Connect(t)
                           => (~Dead => Exclusive!Next)
    BY DEF Exclusive!Next
  <1>16. Exclusive!Crash => Exclusive!Next
    BY DEF Exclusive!Next
  <1> QED
    BY <1>1, <1>2, <1>3, <1>4, <1>5, <1>6, <1>8, <1>9, <1>10, <1>11, <1>12,
       <1>13, <1>14, <1>15, <1>16
       DEF Next, Run, Connecting, Sending, Begin

(* The senders, with their re-initialised mutex and their racing flags, give*)
(* the program the exclusive connection ExclusiveLink describes.            *)
THEOREM Implementation == Spec => ImplementsExclusiveLink
  <1>1. Init => Exclusive!Init
    <2> SUFFICES ASSUME Init PROVE Exclusive!Init
      OBVIOUS
    <2>1. /\ pc["main"] \in Using
          /\ \A t \in Threads \ {"main"} : pc[t] \notin Using
      BY DEF Init, Using, Reconnecting
    <2>2. User = "main"
      BY <2>1 DEF User
    <2>3. Link = "absent" /\ ~Dead
      BY DEF Init, Link
    <2> QED
      BY <2>2, <2>3 DEF Exclusive!Init
  <1> QED
    BY <1>1, Invariance, StepRefines, PTL
       DEF Spec, ImplementsExclusiveLink, Exclusive!Spec

-----------------------------------------------------------------------------
(* The capture of sound. *)
Inv == StreamTypeOK /\ NoBacklog /\ StreamIntact

-----------------------------------------------------------------------------
(* Two facts on sequences of chunks: what a push at the end and a take at   *)
(* the front do to ChunksFollow and LastPushed.                             *)
LEMMA LastIsByte ==
    ASSUME NEW s \in Seq(Chunk), NEW last \in Bytes
    PROVE  LastPushed(s, last) \in Bytes
BY SizeAssumption DEF LastPushed, LastBefore, Chunk

LEMMA PushAtEnd ==
    ASSUME NEW s \in Seq(Chunk), NEW last \in Bytes, ChunksFollow(s, last),
           NEW c \in Chunk,
           \A i \in 0..(pac_length - 1) : c[i] = LastPushed(s, last) + 1 + i
    PROVE  /\ ChunksFollow(Append(s, c), last)
           /\ LastPushed(Append(s, c), last)
                = LastPushed(s, last) + pac_length
<1> DEFINE t == Append(s, c)
<1>1. /\ Len(s) \in Nat /\ Len(t) = Len(s) + 1 /\ t[Len(s) + 1] = c
      /\ \A k \in 1..Len(s) : t[k] = s[k]
  OBVIOUS
<1>2. \A k \in 1..(Len(s) + 1) : LastBefore(k, t, last) = LastBefore(k, s, last)
  BY <1>1 DEF LastBefore
<1>3. ASSUME NEW k \in 1..Len(t), NEW i \in 0..(pac_length - 1)
      PROVE  t[k][i] = LastBefore(k, t, last) + 1 + i
  <2>1. CASE k \in 1..Len(s)
    BY <2>1, <1>1, <1>2 DEF ChunksFollow
  <2>2. CASE k = Len(s) + 1
    BY <2>2, <1>1, <1>2 DEF LastPushed
  <2> QED
    BY <2>1, <2>2, <1>1
<1>4. LastPushed(t, last) = c[pac_length - 1]
  BY <1>1 DEF LastPushed, LastBefore
<1>5. c[pac_length - 1] = LastPushed(s, last) + pac_length
  BY LastIsByte, SizeAssumption DEF Bytes
<1> QED
  BY <1>3, <1>4, <1>5 DEF ChunksFollow

LEMMA TakeAtFront ==
    ASSUME NEW s \in Seq(Chunk), s # <<>>, NEW last, ChunksFollow(s, last)
    PROVE  /\ ChunksFollow(Tail(s), s[1][pac_length - 1])
           /\ LastPushed(Tail(s), s[1][pac_length - 1]) = LastPushed(s, last)
<1> DEFINE t == Tail(s)
           first == s[1][pac_length - 1]
<1>1. /\ Len(s) \in Nat /\ Len(s) >= 1 /\ Len(t) = Len(s) - 1
      /\ \A k \in 1..(Len(s) - 1) : t[k] = s[k + 1]
  OBVIOUS
<1>2. \A k \in 1..Len(s) : LastBefore(k, t, first) = LastBefore(k + 1, s, last)
  BY <1>1 DEF LastBefore
<1>3. ASSUME NEW k \in 1..Len(t), NEW i \in 0..(pac_length - 1)
      PROVE  t[k][i] = LastBefore(k, t, first) + 1 + i
  <2>1. k \in 1..Len(s) /\ k + 1 \in 1..Len(s)
    BY <1>1
  <2> QED
    BY <2>1, <1>1, <1>2 DEF ChunksFollow
<1>4. LastPushed(t, first) = LastPushed(s, last)
  BY <1>1, <1>2 DEF LastPushed
<1> QED
  BY <1>3, <1>4 DEF ChunksFollow

-----------------------------------------------------------------------------
(* What one fragment does to pcmbuf: the bytes in use are those that were   *)
(* there, then those of the fragment.                                       *)
LEMMA FilledIs ==
    ASSUME StreamTypeOK, NoBacklog, StreamIntact,
           NEW n \in 1..MaxFragment, heard + n <= MaxHeard
    PROVE  /\ Filled(n) \in [Places -> Bytes]
           /\ \A i \in 0..(pcmoffset + n - 1) :
                 Filled(n)[i] = LastPushed(chunks, fed) + 1 + i
<1>1. /\ pac_length \in Nat /\ MaxFragment \in Nat /\ CACHE_LENGTH \in Nat
      /\ n \in Nat /\ n >= 1 /\ n <= pac_length /\ MaxHeard \in Nat
      /\ pcmoffset \in Nat /\ pcmoffset < pac_length
      /\ 2 * pac_length <= CACHE_LENGTH
      /\ heard \in Nat /\ heard <= MaxHeard
  BY SizeAssumption DEF StreamTypeOK, NoBacklog, Bytes
<1>2. heard = LastPushed(chunks, fed) + pcmoffset
  BY DEF StreamIntact
<1>3. LastPushed(chunks, fed) \in Int
  BY LastIsByte DEF StreamTypeOK, Bytes
<1>4. \A i \in Places : i \in pcmoffset..(pcmoffset + n - 1)
                          => heard + 1 + i - pcmoffset \in Bytes
  BY <1>1 DEF Places, Bytes
<1>5. \A i \in Places : pcmbuf[i] \in Bytes
  BY DEF StreamTypeOK
<1>6. Filled(n) \in [Places -> Bytes]
  BY <1>4, <1>5 DEF Filled
<1>7. ASSUME NEW i \in 0..(pcmoffset + n - 1)
      PROVE  Filled(n)[i] = LastPushed(chunks, fed) + 1 + i
  <2>1. i \in Places
    BY <1>1 DEF Places
  <2>2. CASE i \in pcmoffset..(pcmoffset + n - 1)
    <3>1. Filled(n)[i] = heard + 1 + i - pcmoffset
      BY <2>1, <2>2 DEF Filled
    <3> QED
      BY <3>1, <1>1, <1>2, <1>3
  <2>3. CASE i \notin pcmoffset..(pcmoffset + n - 1)
    <3>1. Filled(n)[i] = pcmbuf[i]
      BY <2>1, <2>3 DEF Filled
    <3>2. i \in 0..(pcmoffset - 1)
      BY <2>3, <1>1
    <3> QED
      BY <3>1, <3>2 DEF StreamIntact
  <2> QED
    BY <2>2, <2>3
<1> QED
  BY <1>6, <1>7

LEMMA Initially == ASSUME StreamInit PROVE Inv
<1>1. StreamTypeOK
  BY SizeAssumption DEF StreamInit, StreamTypeOK, Places, Bytes, Chunk
<1>2. NoBacklog
  BY SizeAssumption DEF StreamInit, NoBacklog
<1>3. StreamIntact
  BY SizeAssumption
     DEF StreamInit, StreamIntact, ChunksFollow, LastPushed, LastBefore
<1> QED
  BY <1>1, <1>2, <1>3 DEF Inv

(* A fragment that does not fill a chunk.                                   *)
LEMMA ReadPart ==
    ASSUME Inv, NEW n \in 1..MaxFragment, ReadFragment(n),
           pcmoffset + n < pac_length
    PROVE  Inv'
<1>0. StreamTypeOK /\ NoBacklog /\ StreamIntact
  BY DEF Inv
<1>1. /\ heard + n <= MaxHeard
      /\ heard' = heard + n
      /\ pcmbuf' = Filled(n)
      /\ pcmoffset' = pcmoffset + n
      /\ chunks' = chunks
      /\ fed' = fed
  BY <1>0, SizeAssumption DEF ReadFragment, StreamTypeOK
<1>2. /\ Filled(n) \in [Places -> Bytes]
      /\ \A i \in 0..(pcmoffset + n - 1) :
            Filled(n)[i] = LastPushed(chunks, fed) + 1 + i
  BY <1>0, <1>1, FilledIs
<1>3. StreamTypeOK'
  BY <1>0, <1>1, <1>2, SizeAssumption DEF StreamTypeOK, Bytes
<1>4. NoBacklog'
  BY <1>1 DEF NoBacklog
<1>5. StreamIntact'
  <2>1. ChunksFollow(chunks', fed')
    BY <1>0, <1>1 DEF StreamIntact
  <2>0. LastPushed(chunks', fed') = LastPushed(chunks, fed)
    BY <1>1
  <2>2. \A i \in 0..(pcmoffset' - 1) :
           pcmbuf'[i] = LastPushed(chunks', fed') + 1 + i
    <3>1. ASSUME NEW i \in 0..(pcmoffset + n - 1)
          PROVE  pcmbuf'[i] = LastPushed(chunks, fed) + 1 + i
      BY <1>1, <1>2
    <3>2. pcmoffset' - 1 = pcmoffset + n - 1
      BY <1>0, <1>1 DEF StreamTypeOK
    <3> QED
      BY <3>1, <3>2, <2>0
  <2>3. heard + n = LastPushed(chunks, fed) + (pcmoffset + n)
    <3>1. heard = LastPushed(chunks, fed) + pcmoffset
      BY <1>0 DEF StreamIntact
    <3>2. LastPushed(chunks, fed) \in Int
      BY <1>0, LastIsByte DEF StreamTypeOK, Bytes
    <3>3. pcmoffset \in Int /\ n \in Int
      BY <1>0 DEF StreamTypeOK
    <3> QED
      BY <3>1, <3>2, <3>3
  <2>4. heard' = LastPushed(chunks', fed') + pcmoffset'
    BY <2>0, <2>3, <1>1
  <2> QED
    BY <2>1, <2>2, <2>4 DEF StreamIntact
<1> QED
  BY <1>3, <1>4, <1>5 DEF Inv

(* A fragment that fills a chunk, which is pushed; what is left is moved to *)
(* the front of pcmbuf.                                                     *)
LEMMA ReadChunk ==
    ASSUME Inv, NEW n \in 1..MaxFragment, ReadFragment(n),
           pcmoffset + n >= pac_length
    PROVE  Inv'
<1>0. StreamTypeOK /\ NoBacklog /\ StreamIntact
  BY DEF Inv
<1>1. /\ heard + n <= MaxHeard
      /\ heard' = heard + n
      /\ chunks' = Append(chunks, Front(Filled(n)))
      /\ pcmbuf' = Shifted(Filled(n), pcmoffset + n)
      /\ pcmoffset' = pcmoffset + n - pac_length
      /\ fed' = fed
  BY <1>0, SizeAssumption DEF ReadFragment, StreamTypeOK
<1>2. /\ Filled(n) \in [Places -> Bytes]
      /\ \A i \in 0..(pcmoffset + n - 1) :
            Filled(n)[i] = LastPushed(chunks, fed) + 1 + i
  BY <1>0, <1>1, FilledIs
<1>3. /\ pac_length \in Nat /\ pac_length > 0 /\ n \in Nat
      /\ pcmoffset \in Nat /\ pac_length <= pcmoffset + n
      /\ pcmoffset + n < 2 * pac_length /\ 2 * pac_length <= CACHE_LENGTH
      /\ CACHE_LENGTH \in Nat /\ heard \in Nat /\ MaxHeard \in Nat
  BY <1>0, SizeAssumption DEF StreamTypeOK, NoBacklog, Bytes
<1>4. /\ chunks \in Seq(Chunk) /\ fed \in Bytes
      /\ ChunksFollow(chunks, fed)
      /\ heard = LastPushed(chunks, fed) + pcmoffset
  BY <1>0 DEF StreamTypeOK, StreamIntact
<1>5. LastPushed(chunks, fed) \in Int
  BY <1>4, LastIsByte DEF Bytes
<1>6. /\ Front(Filled(n)) \in Chunk
      /\ \A i \in 0..(pac_length - 1) :
            Front(Filled(n))[i] = LastPushed(chunks, fed) + 1 + i
  BY <1>2, <1>3 DEF Front, Chunk, Places
<1>7. /\ ChunksFollow(chunks', fed')
      /\ LastPushed(chunks', fed') = LastPushed(chunks, fed) + pac_length
  BY <1>1, <1>4, <1>6, PushAtEnd
<1>8. StreamTypeOK'
  <2>1. pcmbuf' \in [Places -> Bytes]
    <3>1. ASSUME NEW i \in Places, i < (pcmoffset + n) - pac_length
          PROVE  Filled(n)[i + pac_length] \in Bytes
      <4>1. i + pac_length \in Places
        BY <1>3, <3>1 DEF Places
      <4> QED
        BY <4>1, <1>2
    <3>2. 0 \in Bytes
      BY <1>3 DEF Bytes
    <3> DEFINE tail == (pcmoffset + n) - pac_length
    <3>3. [i \in Places |-> IF i < tail THEN Filled(n)[i + pac_length]
                            ELSE 0] \in [Places -> Bytes]
      BY <3>1, <3>2
    <3>4. pcmbuf' = [i \in Places |-> IF i < tail
                                      THEN Filled(n)[i + pac_length]
                                      ELSE 0]
      BY <1>1 DEF Shifted
    <3> QED
      BY <3>3, <3>4
  <2>2. pcmoffset' \in Nat
    BY <1>1, <1>3
  <2>3. chunks' \in Seq(Chunk)
    BY <1>1, <1>4, <1>6
  <2>4. heard' \in Bytes /\ fed' \in Bytes
    BY <1>0, <1>1, <1>3 DEF StreamTypeOK, Bytes
  <2> QED
    BY <2>1, <2>2, <2>3, <2>4 DEF StreamTypeOK
<1>9. NoBacklog'
  BY <1>1, <1>3 DEF NoBacklog
<1>10. StreamIntact'
  <2>1. ASSUME NEW i \in 0..(pcmoffset' - 1)
        PROVE  pcmbuf'[i] = LastPushed(chunks', fed') + 1 + i
    <3>1. /\ i \in Places /\ i < pcmoffset + n - pac_length
          /\ i + pac_length \in 0..(pcmoffset + n - 1)
      BY <1>1, <1>3 DEF Places
    <3>2. pcmbuf'[i] = Filled(n)[i + pac_length]
      <4> DEFINE tail == (pcmoffset + n) - pac_length
      <4>1. pcmbuf' = [j \in Places |-> IF j < tail
                                        THEN Filled(n)[j + pac_length]
                                        ELSE 0]
        BY <1>1 DEF Shifted
      <4>2. i < tail /\ i \in Places
        BY <3>1, <1>3
      <4> HIDE DEF tail
      <4> QED
        BY <4>1, <4>2
    <3>3. pcmbuf'[i] = LastPushed(chunks, fed) + 1 + (i + pac_length)
      BY <1>2, <3>1, <3>2
    <3> QED
      BY <3>3, <1>3, <1>5, <1>7
  <2>2. heard' = LastPushed(chunks', fed') + pcmoffset'
    BY <1>1, <1>3, <1>4, <1>5, <1>7
  <2> QED
    BY <2>1, <2>2, <1>7 DEF StreamIntact
<1> QED
  BY <1>8, <1>9, <1>10 DEF Inv

LEMMA Take == ASSUME Inv, TakeChunk PROVE Inv'
<1>0. StreamTypeOK /\ NoBacklog /\ StreamIntact
  BY DEF Inv
<1>1. /\ chunks # <<>> /\ chunks \in Seq(Chunk)
      /\ fed' = chunks[1][pac_length - 1]
      /\ chunks' = Tail(chunks)
      /\ pcmbuf' = pcmbuf /\ pcmoffset' = pcmoffset /\ heard' = heard
  BY <1>0 DEF TakeChunk, StreamTypeOK
<1>2. StreamTypeOK'
  <2>1. chunks[1] \in Chunk /\ chunks' \in Seq(Chunk)
    BY <1>1
  <2>2. chunks[1][pac_length - 1] \in Bytes
    BY <2>1, SizeAssumption DEF Chunk
  <2> QED
    BY <2>1, <2>2, <1>0, <1>1 DEF StreamTypeOK
<1>3. NoBacklog'
  BY <1>0, <1>1 DEF NoBacklog
<1>4. /\ ChunksFollow(chunks', fed')
      /\ LastPushed(chunks', fed') = LastPushed(chunks, fed)
  BY <1>0, <1>1, TakeAtFront DEF StreamIntact
<1>5. StreamIntact'
  BY <1>0, <1>1, <1>4 DEF StreamIntact
<1> QED
  BY <1>2, <1>3, <1>5 DEF Inv

LEMMA Stays == ASSUME Inv, [StreamNext]_streamVars PROVE Inv'
<1>1. CASE \E n \in 1..MaxFragment : ReadFragment(n)
  <2>1. PICK n \in 1..MaxFragment : ReadFragment(n)
    BY <1>1
  <2>2. pcmoffset + n < pac_length \/ pcmoffset + n >= pac_length
    BY SizeAssumption DEF Inv, StreamTypeOK
  <2> QED
    BY <2>1, <2>2, ReadPart, ReadChunk
<1>2. CASE TakeChunk
  BY <1>2, Take
<1>3. CASE UNCHANGED streamVars
  BY <1>3 DEF streamVars, Inv, StreamTypeOK, NoBacklog, StreamIntact
<1> QED
  BY <1>1, <1>2, <1>3 DEF StreamNext

LEMMA Always == StreamSpec => []Inv
<1> QED
  BY Initially, Stays, PTL DEF StreamSpec

-----------------------------------------------------------------------------
(* The variables of the capture keep their types.                           *)
THEOREM StreamTypeCorrect == StreamSpec => []StreamTypeOK
<1>1. Inv => StreamTypeOK
  BY DEF Inv
<1> QED
  BY <1>1, Always, PTL

(* Pushing one chunk per fragment is enough: a full chunk never waits in    *)
(* pcmbuf for the next fragment (stream_read_callback's single if).         *)
THEOREM OneChunkIsEnough == StreamSpec => []NoBacklog
<1>1. Inv => NoBacklog
  BY DEF Inv
<1> QED
  BY <1>1, Always, PTL

(* The unchecked memcpy of stream_read_callback stays inside pcmbuf.        *)
THEOREM CopyStaysInside == StreamSpec => []NoOverflow
<1>1. Inv => NoOverflow
  BY SizeAssumption DEF Inv, StreamTypeOK, NoBacklog, NoOverflow
<1> QED
  BY <1>1, Always, PTL

(* Both together: the callback keeps up with fragments of any size up to a  *)
(* chunk.                                                                   *)
THEOREM CallbackKeepsUp == StreamSpec => []KeepsUp
<1> QED
  BY OneChunkIsEnough, CopyStaysInside, PTL DEF KeepsUp

(* The encoder is given the microphone's stream, byte after byte.           *)
THEOREM StreamKept == StreamSpec => []StreamIntact
<1>1. Inv => StreamIntact
  BY DEF Inv
<1> QED
  BY <1>1, Always, PTL

-----------------------------------------------------------------------------
(* The start as a table.                                                    *)
Order == <<"log_lock", "mac", "url", "librtmp", "video_queue", "pcm_queue", "pulse",
           "pa_thread", "encoder", "configuration", "audio_queue", "faac_thread", "connect",
           "aac_header", "push_video", "push_audio", "video_fps", "number", "fps_thread",
           "provider", "cameras", "session", "settings", "consumer", "request", "source",
           "repeat">>
Fails(what) ==
    CASE what = "url" -> {"exit", "crash", "ignored"}
      [] what \in {"mac", "pulse", "encoder", "configuration", "faac_thread", "provider",
                   "cameras", "consumer", "request", "source", "repeat"} -> {"exit"}
      [] what \in {"pa_thread", "aac_header", "push_video", "push_audio", "video_fps",
                   "fps_thread"} -> {"ignored"}
      [] what = "connect" -> {"retry"}
      [] what \in {"number", "settings"} -> {"crash"}
      [] what = "session" -> {"exit", "crash"}
      [] OTHER -> {}

Entry(i) == [does |-> Order[i], fails |-> Fails(Order[i])]
Steps == {Entry(i) : i \in 1..27}

\* s is the m entries of the table behind the n-th.
Piece(s, n, m) ==
    /\ s \in Seq(Steps) /\ Len(s) = m
    /\ \A i \in 1..m : s[i] = Entry(n + i)

LEMMA Joined ==
    ASSUME NEW s, NEW t, NEW n \in Nat, NEW m \in Nat, NEW k \in Nat,
           Piece(s, n, m), Piece(t, n + m, k)
    PROVE  Piece(s \o t, n, m + k)
  <1>0. s \in Seq(Steps) /\ t \in Seq(Steps) /\ Len(s) = m /\ Len(t) = k
    BY DEF Piece
  <1>1. /\ s \o t \in Seq(Steps) /\ Len(s \o t) = m + k
        /\ \A i \in 1..(m + k) : (s \o t)[i] = IF i <= m THEN s[i] ELSE t[i - m]
    BY <1>0
  <1>2. ASSUME NEW i \in 1..(m + k) PROVE (s \o t)[i] = Entry(n + i)
    <2>1. CASE i <= m
      BY <1>1, <2>1 DEF Piece
    <2>2. CASE i > m
      <3>1. i - m \in 1..k /\ (n + m) + (i - m) = n + i
        BY <2>2
      <3>2. t[i - m] = Entry((n + m) + (i - m))
        BY <3>1 DEF Piece
      <3> QED
        BY <1>1, <2>2, <3>1, <3>2
    <2> QED
      BY <2>1, <2>2, i <= m \/ i > m
  <1> QED
    BY <1>1, <1>2 DEF Piece

LEMMA Single ==
    ASSUME NEW n \in 0..26
    PROVE  Piece(Does(Order[n + 1], Fails(Order[n + 1])), n, 1)
  <1>1. Does(Order[n + 1], Fails(Order[n + 1])) = <<Entry(n + 1)>>
    BY DEF Does, Entry
  <1>2. Entry(n + 1) \in Steps
    BY DEF Steps
  <1> QED
    BY <1>1, <1>2 DEF Piece

LEMMA MainIs ==
    ASSUME PcmType = "pulse"
    PROVE  Piece(Main, 0, 27)
  <1>1. /\ Piece(Does("log_lock", {}), 0, 1) /\ Piece(Does("mac", {"exit"}), 1, 1)
        /\ Piece(Does("url", {"exit", "crash", "ignored"}), 2, 1)
        /\ Piece(Does("librtmp", {}), 3, 1) /\ Piece(Does("video_queue", {}), 4, 1)
        /\ Piece(Does("pcm_queue", {}), 5, 1) /\ Piece(Does("pulse", {"exit"}), 6, 1)
        /\ Piece(Does("pa_thread", {"ignored"}), 7, 1) /\ Piece(Does("encoder", {"exit"}), 8, 1)
    BY Single DEF Order, Fails
  <1>2. /\ Piece(Does("configuration", {"exit"}), 9, 1) /\ Piece(Does("audio_queue", {}), 10, 1)
        /\ Piece(Does("faac_thread", {"exit"}), 11, 1) /\ Piece(Does("connect", {"retry"}), 12, 1)
        /\ Piece(Does("aac_header", {"ignored"}), 13, 1)
        /\ Piece(Does("push_video", {"ignored"}), 14, 1)
        /\ Piece(Does("push_audio", {"ignored"}), 15, 1)
        /\ Piece(Does("video_fps", {"ignored"}), 16, 1) /\ Piece(Does("number", {"crash"}), 17, 1)
    BY Single DEF Order, Fails
  <1>3. /\ Piece(Does("fps_thread", {"ignored"}), 18, 1) /\ Piece(Does("provider", {"exit"}), 19, 1)
        /\ Piece(Does("cameras", {"exit"}), 20, 1) /\ Piece(Does("session", {"exit", "crash"}), 21, 1)
        /\ Piece(Does("settings", {"crash"}), 22, 1) /\ Piece(Does("consumer", {"exit"}), 23, 1)
        /\ Piece(Does("request", {"exit"}), 24, 1) /\ Piece(Does("source", {"exit"}), 25, 1)
        /\ Piece(Does("repeat", {"exit"}), 26, 1)
    BY Single DEF Order, Fails
  <1>4. Piece(GetRTMPUrlInfo, 1, 2)
    BY <1>1, Joined DEF GetRTMPUrlInfo, GetMacAddr, GetUrl
  <1>5. Piece(PcmInit, 5, 3)
    BY <1>1, Joined DEF PcmInit, PulseInit
  <1>6. Piece(AacInit, 8, 2)
    BY <1>1, <1>2, Joined DEF AacInit
  <1>7. Piece(Execute, 19, 8)
    BY <1>3, Joined DEF Execute
  <1> DEFINE upTo8 == Does("log_lock", {}) \o GetRTMPUrlInfo \o Does("librtmp", {})
                        \o Does("video_queue", {}) \o PcmInit
             upTo13 == upTo8 \o AacInit \o Does("audio_queue", {}) \o Does("faac_thread", {"exit"})
                         \o Does("connect", {"retry"})
             upTo16 == upTo13 \o Does("aac_header", {"ignored"}) \o Does("push_video", {"ignored"})
                         \o Does("push_audio", {"ignored"})
  <1>8. Piece(upTo8, 0, 8)
    BY <1>1, <1>4, <1>5, Joined
  <1>9. Piece(upTo13, 0, 13)
    <2> HIDE DEF upTo8
    <2> QED
      BY <1>2, <1>6, <1>8, Joined
  <1>10. Piece(upTo16, 0, 16)
    <2> HIDE DEF upTo13
    <2> QED
      BY <1>2, <1>9, Joined
  <1>11. Main = upTo16 \o Does("video_fps", {"ignored"}) \o Does("number", {"crash"})
                  \o Does("fps_thread", {"ignored"}) \o Execute
    BY DEF Main
  <1> HIDE DEF upTo16
  <1> QED
    BY <1>2, <1>3, <1>7, <1>10, <1>11, Joined

LEMMA PlacesOf ==
    ASSUME NEW i \in 1..27
    PROVE  /\ Order[i] = "pa_thread" <=> i = 8
           /\ Order[i] = "faac_thread" => i = 12
           /\ Order[i] = "connect" <=> i = 13
           /\ Order[i] = "push_video" => i = 15
           /\ Order[i] = "push_audio" => i = 16
           /\ Order[i] = "consumer" => i = 24
           /\ Order[i] = "url" => i = 3
  <1>1. \/ i = 1 \/ i = 2 \/ i = 3 \/ i = 4 \/ i = 5 \/ i = 6 \/ i = 7 \/ i = 8 \/ i = 9
        \/ i = 10 \/ i = 11 \/ i = 12 \/ i = 13 \/ i = 14 \/ i = 15 \/ i = 16 \/ i = 17
        \/ i = 18 \/ i = 19 \/ i = 20 \/ i = 21 \/ i = 22 \/ i = 23 \/ i = 24 \/ i = 25
        \/ i = 26 \/ i = 27
    OBVIOUS
  <1> QED
    BY <1>1 DEF Order

(* main is somewhere in the table, on this side of connect with the URL     *)
(* perhaps missing, beyond it not; what has failed may be done without; the *)
(* sound thread lives only where it was created.                            *)
Optional == {"url", "pa_thread", "aac_header", "push_video", "push_audio", "video_fps",
             "fps_thread"}
StartInv ==
    /\ at \in 0..27
    /\ failed \subseteq Optional
    /\ at >= 13 => "url" \notin failed
    /\ "pa_thread" \in failed => at >= 8
    /\ pa # "none" => at >= 8 /\ "pa_thread" \notin failed
    /\ get_audio => pa \in {"recording", "lost", "ended"}

LEMMA Main27 ==
    ASSUME PcmType = "pulse"
    PROVE  /\ Len(Main) = 27
           /\ \A i \in 1..27 : Main[i].does = Order[i] /\ Main[i].fails = Fails(Order[i])
  <1>1. Len(Main) = 27 /\ \A i \in 1..27 : Main[i] = Entry(0 + i)
    BY MainIs DEF Piece
  <1>2. \A i \in 1..27 : Main[i] = Entry(i)
    BY <1>1
  <1>3. ASSUME NEW i \in 1..27
        PROVE  Main[i].does = Order[i] /\ Main[i].fails = Fails(Order[i])
    <2>1. Main[i] = Entry(i)
      BY <1>2
    <2>2. Entry(i).does = Order[i] /\ Entry(i).fails = Fails(Order[i])
      BY DEF Entry
    <2> QED
      BY <2>1, <2>2
  <1> QED
    BY <1>1, <1>3

LEMMA StartInvHolds ==
    ASSUME PcmType = "pulse"
    PROVE  StartSpec => []StartInv
  <1>1. StartInit => StartInv
    BY DEF StartInit, StartInv
  <1>2. StartInv /\ [StartNext]_startVars => StartInv'
    <2> SUFFICES ASSUME StartInv, [StartNext]_startVars PROVE StartInv'
      OBVIOUS
    <2> DEFINE what == Order[at + 1]
    <2>0. ~Running => /\ at + 1 \in 1..27 /\ Step.does = what /\ Step.fails = Fails(what)
      BY Main27 DEF StartInv, Running, Step
    <2> HIDE DEF what
    <2>1. CASE Succeed
      <3>1. /\ at' = at + 1 /\ at' \in 0..27 /\ failed' = failed /\ get_audio' = get_audio
            /\ pa' = IF what = "pa_thread" THEN "starting" ELSE pa
        BY <2>0, <2>1 DEF Succeed, StartInv
      <3>2. at' >= 13 => "url" \notin failed
        <4>1. at = 12 => what = "connect"
          BY PlacesOf DEF what
        <4> QED
          BY <2>0, <2>1, <3>1, <4>1 DEF Succeed, MissesUrl, StartInv
      <3>3. what = "pa_thread" => at' = 8 /\ ~get_audio /\ "pa_thread" \notin failed
        BY <2>0, <2>1, <3>1, PlacesOf DEF StartInv, what, Succeed
      <3> QED
        BY <3>1, <3>2, <3>3 DEF StartInv
    <2>2. CASE Ignored
      <3>1. /\ at' = at + 1 /\ at' \in 0..27 /\ failed' = failed \cup {what}
            /\ get_audio' = get_audio /\ pa' = pa /\ "ignored" \in Fails(what)
        BY <2>0, <2>2 DEF Ignored, StartInv
      <3>2. what \in Optional
        BY <3>1 DEF Fails, Optional
      <3>3. at' >= 13 => "url" \notin failed'
        <4>1. at = 12 => what = "connect"
          BY PlacesOf DEF what
        <4>2. what = "url" => at = 2
          <5>1. at + 1 \in 1..27 /\ at \in 0..27
            BY <2>0, <2>2 DEF Ignored, StartInv
          <5>2. Order[at + 1] = "url" => at + 1 = 3
            BY <5>1, PlacesOf
          <5> QED
            BY <5>1, <5>2 DEF what
        <4>3. "ignored" \notin Fails("connect")
          BY DEF Fails
        <4> QED
          BY <3>1, <4>1, <4>2, <4>3 DEF StartInv
      <3>4. what = "pa_thread" => at = 7
        <4>1. at + 1 \in 1..27 /\ at \in 0..27
          BY <2>0, <2>2 DEF Ignored, StartInv
        <4>2. Order[at + 1] = "pa_thread" => at + 1 = 8
          BY <4>1, PlacesOf
        <4> QED
          BY <4>1, <4>2 DEF what
      <3> QED
        BY <3>1, <3>2, <3>3, <3>4 DEF StartInv
    <2>3. CASE Exit \/ Crashed \/ Destroyed \/ Frame \/ UNCHANGED startVars
      BY <2>3 DEF Exit, Crashed, Destroyed, Frame, startVars, StartInv
    <2>4. CASE PaConnect \/ ContextReady \/ StreamReady \/ Fragment
      BY <2>4 DEF PaConnect, ContextReady, StreamReady, Fragment, Sound, StartInv
    <2>5. CASE ServerLost \/ CallbackEnds \/ ContextFailed
      BY <2>5 DEF ServerLost, CallbackEnds, ContextFailed, Sound, StartInv
    <2> QED
      BY <2>1, <2>2, <2>3, <2>4, <2>5 DEF StartNext, OwnStep
  <1> QED
    BY <1>1, <1>2, PTL DEF StartSpec

\* What has been tried is what the table has up to there.
LEMMA DoneAt ==
    ASSUME PcmType = "pulse", StartInv
    PROVE  Done = {Order[i] : i \in 1..at}
  BY Main27 DEF Done, StartInv

(* For the sound source that main sets; with the other there is no queue    *)
(* for the encoding thread, which takes no notice of that.                  *)
THEOREM StartUpIsOrdered == PcmType = "pulse" => (StartSpec => []ThreadsFindWhatTheyUse)
  <1> SUFFICES ASSUME PcmType = "pulse" PROVE StartSpec => []ThreadsFindWhatTheyUse
    OBVIOUS
  <1>1. StartInv => ThreadsFindWhatTheyUse
    <2> SUFFICES ASSUME StartInv, NEW t \in DOMAIN Needs \cap Built PROVE Needs[t] \subseteq Built
      BY DEF ThreadsFindWhatTheyUse
    <2>1. PICK i \in 1..at : t = Order[i]
      BY DoneAt DEF Built
    <2>2. i \in 1..27 /\ at \in 0..27
      BY <2>1 DEF StartInv
    <2>3. {Order[j] : j \in 1..i} \ Optional \subseteq Built
      BY <2>1, <2>2, DoneAt DEF Built, StartInv
    <2>4. DOMAIN Needs = {"pa_thread", "faac_thread", "push_video", "push_audio", "consumer"}
      BY DEF Needs
    <2>5. CASE t = "pa_thread"
      <3>1. i = 8 /\ Order[6] = "pcm_queue" /\ Needs[t] = {"pcm_queue"}
        BY <2>1, <2>2, <2>5, PlacesOf DEF Order, Needs
      <3> QED
        BY <2>3, <3>1 DEF Optional
    <2>6. CASE t = "faac_thread"
      <3>1. /\ i = 12 /\ Order[6] = "pcm_queue" /\ Order[9] = "encoder"
            /\ Order[10] = "configuration" /\ Order[11] = "audio_queue"
            /\ Needs[t] = {"pcm_queue", "encoder", "configuration", "audio_queue"}
        BY <2>1, <2>2, <2>6, PlacesOf DEF Order, Needs
      <3> QED
        BY <2>3, <3>1 DEF Optional
    <2>7. CASE t = "push_video"
      <3>1. /\ i = 15 /\ Order[4] = "librtmp" /\ Order[5] = "video_queue" /\ Order[13] = "connect"
            /\ Needs[t] = {"librtmp", "video_queue", "connect"}
        BY <2>1, <2>2, <2>7, PlacesOf DEF Order, Needs
      <3> QED
        BY <2>3, <3>1 DEF Optional
    <2>8. CASE t = "push_audio"
      <3>1. /\ i = 16 /\ Order[4] = "librtmp" /\ Order[11] = "audio_queue" /\ Order[13] = "connect"
            /\ Needs[t] = {"librtmp", "audio_queue", "connect"}
        BY <2>1, <2>2, <2>8, PlacesOf DEF Order, Needs
      <3> QED
        BY <2>3, <3>1 DEF Optional
    <2>9. CASE t = "consumer"
      <3>1. /\ i = 24 /\ Order[5] = "video_queue" /\ Order[23] = "settings" /\ Order[22] = "session"
            /\ Needs[t] = {"video_queue", "settings", "session"}
        BY <2>1, <2>2, <2>9, PlacesOf DEF Order, Needs
      <3> QED
        BY <2>3, <3>1 DEF Optional
    <2> QED
      BY <2>4, <2>5, <2>6, <2>7, <2>8, <2>9
  <1> QED
    BY <1>1, StartInvHolds, PTL

(* What main has done without, and where sound came from.                   *)
THEOREM RunsWhole == PcmType = "pulse" => (StartSpec => []RunningIsWhole)
  <1> SUFFICES ASSUME PcmType = "pulse" PROVE StartSpec => []RunningIsWhole
    OBVIOUS
  <1>1. StartInv => RunningIsWhole
    <2> SUFFICES ASSUME StartInv PROVE RunningIsWhole
      OBVIOUS
    <2>1. Running => failed \subseteq Optional \ {"url"}
      <3>1. Running => at = 27
        BY Main27 DEF Running
      <3> QED
        BY <3>1 DEF StartInv
    <2>2. get_audio => /\ at \in 8..27 /\ "pa_thread" \notin failed
                       /\ pa \in {"recording", "lost", "ended"}
      BY DEF StartInv
    <2>3. Order[8] = "pa_thread"
      BY DEF Order
    <2>4. get_audio => "pa_thread" \in Built
      BY <2>2, <2>3, DoneAt DEF Built
    <2> QED
      BY <2>1, <2>2, <2>4 DEF RunningIsWhole, Optional
  <1> QED
    BY <1>1, StartInvHolds, PTL

(* The start and the capture together: a step of both is a step of each, or  *)
(* leaves it alone, so that what is proved of either holds of the program    *)
(* that does both.  (main.cpp, stream_read_callback)                         *)
THEOREM SoundStartKeepsBoth == SoundSpec => StartSpec /\ StreamSpec
  <1>1. SoundInit => StartInit /\ StreamInit
    BY DEF SoundInit
  <1>2. ASSUME [SoundNext]_soundVars
        PROVE  [StartNext]_startVars /\ [StreamNext]_streamVars
    <2>1. CASE OwnStep /\ UNCHANGED streamVars
      BY <2>1 DEF StartNext
    <2>2. CASE FragmentRead
      BY <2>2 DEF FragmentRead, StartNext, StreamNext
    <2>3. CASE ChunkTaken
      BY <2>3 DEF ChunkTaken, StreamNext
    <2>4. CASE UNCHANGED soundVars
      BY <2>4 DEF soundVars
    <2> QED
      BY <1>2, <2>1, <2>2, <2>3, <2>4 DEF SoundNext
  <1> QED
    BY <1>1, <1>2, PTL DEF SoundSpec, StartSpec, StreamSpec
=============================================================================
