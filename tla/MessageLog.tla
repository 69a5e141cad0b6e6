----------------------------- MODULE MessageLog -----------------------------
(***************************************************************************)
(* What an asynchronous logger promises (async_logger.h:11-16): a message  *)
(* it accepts is settled in its turn, given to each sink that takes one of *)
(* its level but those that throw; and it closes after the last is settled.*)
(***************************************************************************)
EXTENDS Naturals, Sequences, FiniteSets

CONSTANTS Sinks,
          Picky     \* those that take urgent messages alone

VARIABLES
    accepted,   \* the messages accepted, in order
    settled,    \* how many of them have been through the sinks
    written,    \* [Sinks -> the messages each has taken]
    faults,     \* how many exceptions the sinks have thrown
    closed

vars == <<accepted, settled, written, faults, closed>>

Init == /\ accepted = <<>> /\ settled = 0 /\ faults = 0 /\ closed = FALSE
        /\ written = [s \in Sinks |-> <<>>]

Accept == /\ ~closed
          /\ Len(accepted') = Len(accepted) + 1
          /\ SubSeq(accepted', 1, Len(accepted)) = accepted
          /\ UNCHANGED <<settled, written, faults, closed>>

Settle == /\ settled < Len(accepted)
          /\ settled' = settled + 1
          /\ \E bad \in SUBSET Sinks :
                /\ faults' >= faults + Cardinality(bad)
                /\ written' = [s \in Sinks |->
                       IF s \in bad \/ (s \in Picky /\ ~accepted[settled'].urgent)
                       THEN written[s]
                       ELSE Append(written[s], accepted[settled'])]
          /\ UNCHANGED <<accepted, closed>>

\* A sink throws as it is flushed.
FlushFails == faults' > faults /\ UNCHANGED <<accepted, settled, written, closed>>

Close == /\ settled = Len(accepted)
         /\ ~closed /\ closed' = TRUE
         /\ faults' >= faults
         /\ UNCHANGED <<accepted, settled, written>>

Next == Accept \/ Settle \/ FlushFails \/ Close

Spec == Init /\ [][Next]_vars
=============================================================================
