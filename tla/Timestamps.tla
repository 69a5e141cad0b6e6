------------------------------ MODULE Timestamps ------------------------------
(***************************************************************************)
(* The timestamps of video packets (src/src/rtmp_push_librtmp.cpp): the    *)
(* pushing thread turns the wall clock a buffer was captured at into       *)
(* milliseconds since the first one.  A time is <<tv_sec, tv_usec>>.  The  *)
(* count, vid_pts, is a long; a packet carries it as an unsigned int.      *)
(***************************************************************************)
EXTENDS Integers, Sequences

CONSTANT UIntRange      \* how many values an unsigned int has: 2^32

ASSUME UIntRangeAssumption == UIntRange \in Nat \ {0}

DEFAULT_FPS == 25

Micros(tv) == tv[1] * 1000 * 1000 + tv[2]

\* C++ division drops the fraction.
Over1000(us) == IF us < 0 THEN -((-us) \div 1000) ELSE us \div 1000

\* (Mutant: a time is counted from the one before.)
VideoPtsStep(st, tv) ==
    IF st.start_tv[1] = 0
    THEN [vid_pts |-> st.vid_pts + (1000 \div DEFAULT_FPS), start_tv |-> tv]
    ELSE [vid_pts |-> Over1000(Micros(tv) - Micros(st.start_tv)), start_tv |-> tv]

\* What the pushing thread does with the time of a buffer.  A start in second
\* 0 of the clock counts as none.
VideoPts(st, tv) ==
    IF st.start_tv[1] = 0
    THEN [vid_pts |-> st.vid_pts + (1000 \div DEFAULT_FPS), start_tv |-> tv]
    ELSE [vid_pts |-> Over1000(Micros(tv) - Micros(st.start_tv)), start_tv |-> st.start_tv]

\* What it holds after n buffers, and the timestamp of the nth's packet, which
\* SendH264Packet takes as an unsigned int.
Stamps(tvs) ==
    LET st[n \in 0..Len(tvs)] == IF n = 0 THEN [vid_pts |-> 0, start_tv |-> <<0, 0>>]
                                 ELSE VideoPts(st[n - 1], tvs[n])
    IN  st
Stamp(tvs, n) == Stamps(tvs)[n].vid_pts % UIntRange

\* The stamp is the time in milliseconds, dropping a fraction, as an unsigned int.
Tells(stamp, us) ==
    \E ms \in {us \div 1000, (us \div 1000) + 1} :
        1000 * ms - us \in -999..999 /\ stamp = ms % UIntRange

(* From the first buffer with a clock on, a packet's timestamp is the time  *)
(* since that buffer, to the millisecond, as far as an unsigned int can say:*)
(* it starts anew every 2^32 ms, and a clock set back behind the first      *)
(* buffer's puts the packet 2^32 ms ahead, not back.  Until either happens  *)
(* packets are in the order of their capture.  The first one with a clock is*)
(* stamped a frame late for every buffer so far, so the packet after it may *)
(* go back.  (LibRtmpPushVideoFun, SendH264Packet)                          *)
TimesFollow(tvs) ==
    LET Clocked == {k \in 1..Len(tvs) : tvs[k][1] # 0}
        f == CHOOSE k \in Clocked : \A j \in Clocked : k <= j
        pts == [k \in 1..Len(tvs) |-> Stamp(tvs, k)]
        After == (f + 1)..Len(tvs)
        Elapsed(i) == Micros(tvs[i]) - Micros(tvs[f])
    IN  Clocked # {} =>
          /\ \A i \in 1..f : pts[i] = (40 * i) % UIntRange
          /\ \A i \in After : Tells(pts[i], Elapsed(i))
          /\ \A i, j \in After :
                0 <= Elapsed(i) /\ Elapsed(i) <= Elapsed(j) /\ Elapsed(j) < 1000 * UIntRange
                   => pts[i] <= pts[j]
          /\ \A i \in After :
                Elapsed(i) <= -1000 /\ Elapsed(i) >= -1000 * UIntRange
                   => 1000 * (pts[i] - UIntRange) - Elapsed(i) \in 0..999
=============================================================================
