--------------------------- MODULE ExclusiveLink ---------------------------
(***************************************************************************)
(* What the push side of the program needs from LibRtmpClass, said without *)
(* its mutex and without its two spin flags: the RTMP connection object is *)
(* used by at most one thread at a time, and only the thread using it can  *)
(* lose the connection, discard the object or connect a new one.           *)
(***************************************************************************)

CONSTANTS
    Threads,    \* the threads that use the connection
    Nobody,     \* the value of user when no thread does: not a thread
    Connector   \* the thread in Threads that makes the first connection

VARIABLES
    user,       \* the thread using the connection, or Nobody
    link,       \* "up", "down" (lost) or "absent" (no connected object)
    running     \* FALSE once the process has crashed

vars == <<user, link, running>>

\* The process starts with a thread that is connecting, and no connection.
Init == user = Connector /\ link = "absent" /\ running = TRUE

Acquire(t) == /\ user = Nobody
              /\ link # "absent"
              /\ user' = t
              /\ UNCHANGED <<link, running>>

Release(t) == /\ user = t
              /\ link # "absent"
              /\ user' = Nobody
              /\ UNCHANGED <<link, running>>

\* A send fails: the connection is lost; its user goes on to reconnect, or
\* gives the lost connection up.
Lose(t) == /\ user = t
           /\ link = "up"
           /\ link' = "down"
           /\ user' \in {t, Nobody}
           /\ UNCHANGED running

Discard(t) == /\ user = t
              /\ link = "down"
              /\ link' = "absent"
              /\ UNCHANGED <<user, running>>

Connect(t) == /\ user = t
              /\ link = "absent"
              /\ link' = "up"
              /\ user' = Nobody
              /\ UNCHANGED running

Crash == running /\ running' = FALSE /\ user' = Nobody /\ UNCHANGED link

Next == \/ /\ running
           /\ \E t \in Threads : \/ Acquire(t) \/ Release(t) \/ Lose(t)
                                 \/ Discard(t) \/ Connect(t)
        \/ Crash

Spec == Init /\ [][Next]_vars
=============================================================================
