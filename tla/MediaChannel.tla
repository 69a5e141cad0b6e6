---------------------------- MODULE MediaChannel ----------------------------
(***************************************************************************)
(* What each queue of the program, with its one producer and its one       *)
(* consumer, promises: what is captured is settled in the order of its     *)
(* capture, one unit at a time and each once, either by being handed on or *)
(* by being dropped.  Units are numbered in the order of their capture.    *)
(***************************************************************************)
EXTENDS Naturals, Sequences

VARIABLES
    captured,   \* how many units have been captured
    settled,    \* how many of them have been handed on or dropped
    out         \* the numbers of the units handed on, in that order

vars == <<captured, settled, out>>

Init == captured = 0 /\ settled = 0 /\ out = <<>>

Capture == captured' = captured + 1 /\ UNCHANGED <<settled, out>>

Drop == /\ settled < captured
        /\ settled' = settled + 1
        /\ UNCHANGED <<captured, out>>

HandOn == /\ settled < captured
          /\ settled' = settled + 1
          /\ out' = Append(out, settled + 1)
          /\ UNCHANGED captured

Next == Capture \/ Drop \/ HandOn

Spec == Init /\ [][Next]_vars
=============================================================================
