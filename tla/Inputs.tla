-------------------------------- MODULE Inputs --------------------------------
(***************************************************************************)
(* What the sequential algorithms that are proved about are given: a       *)
(* pattern, a list of capture times or the specification of a number's     *)
(* layout, which a behaviour puts together a part at a time, or a message  *)
(* to be dated.  The invariants say what the algorithms make of every      *)
(* input.                                                                  *)
(***************************************************************************)
EXTENDS PatternFormatter, Timestamps, NumberLayout

CONSTANTS
    Characters,     \* what patterns are made of
    Words,          \* what messages are made of
    Messages,
    Tried,          \* those that patterns are tried on
    CaptureTimes,   \* of buffers, as <<tv_sec, tv_usec>>
    Symbols,        \* what buffers hold, numbers are filled with and snprintf prints
    Buffers,        \* that numbers are appended to
    Ints, Doubles,  \* arguments that are numbers
    IntSpecs, DoubleSpecs,  \* without the alignment
    MaxPattern,     \* bound: characters of a pattern
    MaxTimes        \* bound: capture times

\* "colour" and "reset" stand for the codes of a terminal.
ASSUME WordsAssumption == {"colour", "reset"} \cap (Words \cup Characters) = {}
Texts == {Ch(w) : w \in Words}
Nanoseconds == {n \in Nat : n < 1000000000}
\* Clocks are past the epoch, and time zones off by whole minutes.
Zones == {z \in Int : z % 60 = 0}
ASSUME MessagesAssumption ==
    /\ Tried \subseteq Messages
    /\ Messages \subseteq [name : Words, level : Words, thread : Words, id : Int,
                           raw : Seq(Texts), time : Nat \X Nanoseconds, zone : Zones]
    /\ \A m \in Messages : \A offset \in {0, m.zone} : DayOf(m.time[1], offset) \in DOMAIN Calendar
ASSUME TimesAssumption == CaptureTimes \subseteq Int \X Int

\* Without a width snprintf prints no blank before a number.
MemoryBuffers == {b \in [cells : Seq(Symbols), size : Nat, gen : Nat, lost : {FALSE}] :
                     b.size <= Len(b.cells)}
Lowest(type_) == IF type_ \in {"int", "llong"} THEN -Power(2, BitsOf(type_) - 1) ELSE 0
Highest(type_) == IF type_ \in {"int", "llong"} THEN Power(2, BitsOf(type_) - 1) - 1
                   ELSE Power(2, BitsOf(type_)) - 1
SpecParts(types) == [width : Nat, fill : Symbols, flags : SUBSET {"sign", "plus", "hash"},
                     precision : {-1} \cup Nat, type : types]
ASSUME NumbersAssumption ==
    /\ Buffers \subseteq MemoryBuffers
    /\ \A x \in Ints : x.type \in IntTypes /\ x.value \in Lowest(x.type)..Highest(x.type)
    /\ Doubles \subseteq [type : {"double"},
                         value : [negative : BOOLEAN, finite : BOOLEAN, digits : Seq(Symbols)]]
    /\ \A x \in Doubles : Len(x.value.digits) > 0 /\ x.value.digits[1] # Blank
    /\ IntSpecs \subseteq SpecParts(IntCodes)
    /\ DoubleSpecs \subseteq SpecParts(DoubleCodes)

VARIABLE input      \* what is being built

Input(kind, of, with) == [kind |-> kind, of |-> of, with |-> with]

InputInit == \/ \E m \in Messages : input = Input("message", m, <<>>)
             \/ \E m \in Tried : input = Input("pattern", <<>>, m)
             \/ input = Input("times", <<>>, <<>>)
             \/ \E a \in Aligns, b \in Buffers : input = Input("aligned", a, b)

Grow(kind, bound, S) ==
    /\ input.kind = kind /\ Len(input.of) < bound
    /\ \E x \in S : input' = Input(kind, Append(input.of, x), input.with)
GrowPattern == Grow("pattern", MaxPattern, Characters)
GrowTimes == Grow("times", MaxTimes, CaptureTimes)

\* A specification is completed with its alignment.
WithAlign(s, align) == [width |-> s.width, fill |-> s.fill, flags |-> s.flags, align |-> align,
                        precision |-> s.precision, type |-> s.type]
Aligned(kind, S) ==
    /\ input.kind = "aligned"
    /\ \E s \in S : input' = Input(kind, WithAlign(s, input.of), input.with)
IntSpec == Aligned("int", IntSpecs)
DoubleSpec == Aligned("double", DoubleSpecs)

InputNext == GrowPattern \/ GrowTimes \/ IntSpec \/ DoubleSpec

InputSpec == InputInit /\ [][InputNext]_input

-----------------------------------------------------------------------------
(* A pattern's flags are found and all else is kept in its place.           *)
(* (compile_pattern)                                                        *)
PatternIsRead == input.kind = "pattern" => FlagsFound(input.of)

(* Colour codes wrap the text marked for it, or are left out; they change   *)
(* nothing else of a line, however the marks stand.  (ansicolor_sink)       *)
ColoursWrapTheMarked == input.kind = "pattern" => MarkedWrapped(input.of, input.with)

(* A line dates its message: its date, clock, zone and fractions agree.     *)
(* (z_formatter, full_formatter)                                            *)
LineDatesTheMessage == input.kind = "message" => Dated(input.of)

(* Video packets are stamped as far apart as they were captured, in the     *)
(* unsigned int that a packet carries.  (LibRtmpPushVideoFun)               *)
VideoTimesFollowCapture == input.kind = "times" => TimesFollow(input.of)

(* A number is written whole, with its prefix and padding in their places,  *)
(* whatever the room in the buffer; commas group thousands.  (BasicWriter)  *)
NumberIsWhole ==
    /\ input.kind = "int" => \A x \in Ints : IsWhole(input.with, x, input.of, <<",">>)
    /\ input.kind = "double" => \A x \in Doubles : IsWhole(input.with, x, input.of, <<>>)
=============================================================================
