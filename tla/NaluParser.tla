----------------------------- MODULE NaluParser -----------------------------
(***************************************************************************)
(* ReadOneNaluFromBuf (src/src/LibRtmpTool.cpp): how the video pushing     *)
(* thread finds SPS, PPS and the slice in a buffer of the encoder.         *)
(*                                                                         *)
(* A buffer is made of NAL units, each behind a start code of two or more  *)
(* zeros and a one.  The parser sees the bytes; the properties compare what*)
(* it finds with the units.  It tests index < len at the head of its loops *)
(* only, so that what lies beyond the buffer is part of the model.         *)
(***************************************************************************)
EXTENDS Integers, Sequences, SequencesExt

CONSTANTS
    Types,      \* types of NAL unit the encoder puts out
    Zeros,      \* numbers of zeros in its start codes
    Bodies,     \* what follows a unit's first byte
    Beyonds,    \* what may lie beyond a buffer
    Capacity,   \* bytes of spsdata and of ppsdata: 100
    MaxUnits    \* bound: units of a buffer

ASSUME CapacityAssumption == Capacity \in Nat
ASSUME TypesAssumption == Types \subseteq 0..31 /\ Zeros \subseteq {2, 3}
\* Emulation prevention: a unit holds no start code and does not end in zero.
ASSUME BodiesAssumption ==
          /\ Bodies \subseteq Seq(0..255)
          /\ \A b \in Bodies : /\ b # <<>> => Last(b) # 0
                               /\ \A i \in 1..(Len(b) - 2) :
                                     b[i] = 0 /\ b[i + 1] = 0 => b[i + 2] > 2
ASSUME BeyondAssumption == \A b \in Beyonds : Len(b) = 4

Unit == [zeros : Zeros, type : Types, body : Bodies]

VARIABLES
    units,      \* the units of the buffer
    beyond,     \* the bytes beyond it
    pc,
    index,
    type, size, \* nalu->type, nalu->size
    spslen, ppslen,     \* nalu->spslen, nalu->ppslen
    spsdata, ppsdata    \* what has been copied

nalu == <<type, size, spslen, ppslen, spsdata, ppsdata>>
vars == <<units, beyond, pc, index, nalu>>

\* (nal_ref_idc is 3)
Bytes(u) == [i \in 1..u.zeros |-> 0] \o <<1, 96 + u.type>> \o u.body
buff == FlattenSeq([k \in 1..Len(units) |-> Bytes(units[k])])
len == Len(buff)

Unset == -1

Init == /\ units \in UNION {[1..n -> Unit] : n \in 0..MaxUnits}
        /\ beyond \in Beyonds
        /\ pc = IF units = <<>> THEN "refused" ELSE "scan"
        /\ index = 0
        /\ size = 0
        /\ type = Unset
        /\ spslen = Unset /\ ppslen = Unset
        /\ spsdata = <<>> /\ ppsdata = <<>>

TypeOK == /\ pc \in {"scan", "unit", "done", "refused", "crashed", "overrun"}
          /\ index \in 0..(len + 4)
          /\ type \in 0..31 \cup {Unset}
          /\ size \in 0..len
          /\ spslen \in 0..len \cup {Unset}
          /\ ppslen \in 0..len \cup {Unset}

-----------------------------------------------------------------------------
(* The bytes in memory, counted from 0 as in the code.                      *)
Byte(i) == IF i < len THEN buff[i + 1] ELSE beyond[i - len + 1]
Copied(i, n) == [k \in 1..n |-> Byte(i + k - 1)]

\* One round of the search at i: the length of the start code found, 0 if
\* none, and where the next round begins, just after the last byte read.
Match(i) ==
    CASE Byte(i) # 0     -> [code |-> 0, next |-> i + 1]
      [] Byte(i) = 0 /\ Byte(i + 1) # 0 -> [code |-> 0, next |-> i + 2]
      [] Byte(i) = 0 /\ Byte(i + 1) = 0 ->
            CASE Byte(i + 2) = 1         -> [code |-> 3, next |-> i + 3]
              [] Byte(i + 2) \notin 0..1 -> [code |-> 0, next |-> i + 3]
              [] Byte(i + 2) = 0 ->
                    [code |-> IF Byte(i + 3) = 1 THEN 4 ELSE 0,
                     next |-> i + 4]

\* The search from i on, as long as i < len.
Search[i \in 0..(len + 4)] ==
    IF i >= len THEN [code |-> 0, next |-> i]
    ELSE LET m == Match(i) IN IF m.code # 0 THEN m ELSE Search[m.next]

\* The outer loop finds the next unit, or ends.
Scan == /\ pc = "scan"
        /\ index' = Search[index].next
        /\ pc' = IF Search[index].code # 0 THEN "unit" ELSE "done"
        /\ UNCHANGED <<units, beyond, nalu>>

ReadType == type' = Byte(index) % 32

\* (Mutant: the length includes a start code's last zero.)
SetLengthLong(old) ==
    LET s == Search[index]
    IN  IF s.code # 0 THEN s.next - 3 - index ELSE old

\* The length of the parameter set at index: up to the next start code, and
\* unchanged if there is none.
SetLength(old) ==
    LET s == Search[index]
    IN  IF s.code # 0 THEN s.next - s.code - index ELSE old

\* What copying n bytes of a parameter set comes to.  With a length never set
\* it may end the process, or copy anything; a set longer than the array runs
\* over what is behind it in the unit, which is not followed further.
Copying(n) == CASE n = Unset    -> {"scan", "crashed"}
                [] n > Capacity -> {"overrun"}
                [] OTHER        -> {"scan"}

\* SPS and PPS are copied and the search goes on inside them.
Sps == /\ pc = "unit" /\ ReadType /\ type' = 7
       /\ spslen' = SetLength(spslen)
       /\ spsdata' = Copied(index, spslen')
       /\ pc' \in Copying(spslen')
       /\ UNCHANGED <<units, beyond, index, size, ppslen, ppsdata>>

Pps == /\ pc = "unit" /\ ReadType /\ type' = 8
       /\ ppslen' = SetLength(ppslen)
       /\ ppsdata' = Copied(index, ppslen')
       /\ pc' \in Copying(ppslen')
       /\ UNCHANGED <<units, beyond, index, size, spslen, spsdata>>

\* The slice is all the rest of the buffer.
Slice == /\ pc = "unit" /\ ReadType /\ type' \in {1, 5}
         /\ size' = len - index
         /\ pc' = "done"
         /\ UNCHANGED <<units, beyond, index, spslen, ppslen, spsdata, ppsdata>>

Skip == /\ pc = "unit" /\ ReadType /\ type' \notin {1, 5, 7, 8}
        /\ pc' = "scan"
        /\ UNCHANGED <<units, beyond, index, size, spslen, ppslen, spsdata,
                       ppsdata>>

Next == Scan \/ Sps \/ Pps \/ Slice \/ Skip

Spec == Init /\ [][Next]_vars

-----------------------------------------------------------------------------
(* What is in the buffer, told from its units.                              *)
Slices == {k \in 1..Len(units) : units[k].type \in {1, 5}}
FirstSlice == CHOOSE k \in Slices : \A j \in Slices : k <= j
Before == IF Slices = {} THEN 1..Len(units) ELSE 1..(FirstSlice - 1)
Start(k) == Len(FlattenSeq([j \in 1..(k - 1) |-> Bytes(units[j])]))
               + units[k].zeros + 1
Whole(k) == <<96 + units[k].type>> \o units[k].body
LastOf(t) == LET K == {k \in Before : units[k].type = t}
             IN  CHOOSE k \in K : \A j \in K : j <= k
Has(t) == \E k \in Before : units[k].type = t

(* The search reads no byte beyond the buffer, although it looks ahead by up*)
(* to three bytes without a test: its last round ends within it.            *)
StaysInside == /\ pc = "scan" => Search[index].next <= len
               /\ pc = "unit" => index < len

(* The slice found is the first one in the buffer, with all that follows;   *)
(* without a slice nothing is returned for sending.                         *)
FindsSlice ==
    pc = "done" =>
       IF Slices = {} THEN size = 0
       ELSE /\ index = Start(FirstSlice)
            /\ size = len - index
            /\ type = units[FirstSlice].type

(* A slice is returned with the parameter sets that precede it in the       *)
(* buffer, byte for byte and nothing of the start code that follows them.   *)
FindsSets ==
    pc = "done" /\ Slices # {} =>
       /\ Has(7) => spsdata = Whole(LastOf(7))
       /\ Has(8) => ppsdata = Whole(LastOf(8))

(* A length that was never set is used only for a parameter set at the very *)
(* end of the buffer; an array is overrun only by a set before the slice    *)
(* that is longer than it, and by every such set that something follows.    *)
TooLong(k) == /\ units[k].type \in {7, 8} /\ k < Len(units)
              /\ Len(Whole(k)) > Capacity
StopsOnSets ==
    /\ pc = "crashed" => Last(units).type \in {7, 8}
    /\ pc = "overrun" => \E k \in Before : TooLong(k)
    /\ pc = "done"    => \A k \in Before : ~TooLong(k)

(* What the parser makes of a buffer, without a look beyond it: the slice   *)
(* and the parameter sets before it, unless one of these is longer than the *)
(* array it is copied to, and no length used unset but for a set at the very*)
(* end.  (ReadOneNaluFromBuf)                                               *)
FindsUnits == TypeOK /\ StaysInside /\ FindsSlice /\ FindsSets /\ StopsOnSets
=============================================================================
