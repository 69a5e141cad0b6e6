------------------------------ MODULE FrameFlow ------------------------------
(***************************************************************************)
(* What the way from camera to encoded video promises.  Frames, numbered   *)
(* in the order of their capture, are read by the encoder and come out     *)
(* encoded in that order and each once.  A frame's pictures are in a       *)
(* dmabuf that exists until the encoder has read it; a dmabuf is one       *)
(* frame's at a time.  An empty unit, 0, comes last, after all frames.     *)
(***************************************************************************)
EXTENDS Naturals, Sequences

CONSTANT Dmabufs

VARIABLES
    captured,   \* how many frames have been captured
    live,       \* the dmabufs that exist
    waiting,    \* the dmabufs the encoder has yet to read, oldest first
    read,       \* how many frames it has read
    out,        \* what has come out
    phase       \* "open"; "ending", no more frames are captured; "gone"

vars == <<captured, live, waiting, read, out, phase>>

Init == /\ captured = 0 /\ live = {} /\ waiting = <<>> /\ read = 0
        /\ out = <<>> /\ phase = "open"

Waits(f) == \E k \in 1..Len(waiting) : waiting[k] = f

\* A frame may fail to get a dmabuf; it is then never handed over.
Capture == /\ phase = "open"
           /\ captured' = captured + 1
           /\ UNCHANGED live \/ \E f \in Dmabufs \ live : live' = live \cup {f}
           /\ UNCHANGED <<waiting, read, out, phase>>

HandOver(f) == /\ phase = "open" /\ f \in live /\ ~Waits(f)
               /\ read + Len(waiting) < captured
               /\ waiting' = Append(waiting, f)
               /\ UNCHANGED <<captured, live, read, out, phase>>

Read == /\ phase # "gone" /\ waiting # <<>> /\ Head(waiting) \in live
        /\ waiting' = Tail(waiting)
        /\ read' = read + 1
        /\ UNCHANGED <<captured, live, out, phase>>

Release(f) == /\ phase = "open" /\ f \in live /\ ~Waits(f)
              /\ live' = live \ {f}
              /\ UNCHANGED <<captured, waiting, read, out, phase>>

ComeOut == /\ phase # "gone" /\ Len(out) < read
           /\ out' = Append(out, Len(out) + 1)
           /\ UNCHANGED <<captured, live, waiting, read, phase>>

Finish == /\ phase = "open" /\ phase' = "ending"
          /\ UNCHANGED <<captured, live, waiting, read, out>>

ComeLast == /\ phase = "ending" /\ read = captured /\ Len(out) = captured
            /\ out' = Append(out, 0)
            /\ UNCHANGED <<captured, live, waiting, read, phase>>

\* With the process go the frames that have been read and not come out.
Die == /\ phase = "open" /\ phase' = "gone" /\ read' = Len(out)
       /\ UNCHANGED <<captured, live, waiting, out>>

Next == \/ Capture \/ Read \/ ComeOut \/ Finish \/ ComeLast \/ Die
        \/ \E f \in Dmabufs : HandOver(f) \/ Release(f)

Spec == Init /\ [][Next]_vars
=============================================================================
