----------------------------- MODULE PrintfFormat -----------------------------
(***************************************************************************)
(* The logger's printf style (spdlog/fmt/bundled/printf.h), on the same    *)
(* argument lists and writers as BraceFormat.                              *)
(*                                                                         *)
(* Arguments carry their own type, so that a conversion does not say what  *)
(* is on the stack but what the argument is turned into first.             *)
(***************************************************************************)
EXTENDS BraceFormat

\* The widths of short and char; Bits is that of int.
ShortBits == Bits \div 2
CharBits == Bits \div 4

ToUnsigned(value, bits) == value % 2^bits
ToSigned(value, bits) == LET u == value % 2^bits
                         IN  IF u >= 2^(bits - 1) THEN u - 2^bits ELSE u

-----------------------------------------------------------------------------
(* Arguments.                                                               *)

\* The value that visit_any_int sees, of an argument of an integer type.
IntOf(arg) == IF arg.type = "bool" THEN (IF arg.value THEN 1 ELSE 0) ELSE arg.value

\* The width of the type it sees: that of a bool is told by its values.
OwnBits(arg) == IF arg.type = "bool" THEN 1 ELSE BitsOf(arg.type)

\* Lengths that make a short integer, and those that make a long one.
Narrow == [hh |-> CharBits, h |-> ShortBits]
Long == {"l", "ll", "j", "z", "t"}

\* Whether a conversion makes a signed integer.
is_signed(arg, t) == IF t = "s" THEN arg.type \in {"int", "llong"} ELSE t \in {"d", "i"}

Signed(v, long, bits) ==
    [type |-> IF long THEN "llong" ELSE "int",
     value |-> ToSigned(v, CASE long -> 2 * Bits [] ~long /\ bits = 1 -> Bits [] OTHER -> bits)]
Unsigned(v, long, bits) == [type |-> IF long THEN "ullong" ELSE "uint", value |-> ToUnsigned(v, bits)]

\* (Mutant: an unsigned short keeps its sign.)
ConvertedSigned(arg, length, signed, bits) ==
    IF signed \/ length \in DOMAIN Narrow
    THEN Signed(IntOf(arg), length \in Long \/ (length = "" /\ bits > Bits), bits)
    ELSE Unsigned(IntOf(arg), length \in Long \/ (length = "" /\ bits > Bits), bits)

\* A long unsigned integer is that of the argument's own unsigned type.
Converted(arg, length, signed, bits) ==
    IF signed THEN Signed(IntOf(arg), length \in Long \/ (length = "" /\ bits > Bits), bits)
    ELSE Unsigned(IntOf(arg), length \in Long \/ (length = "" /\ bits > Bits), bits)

\* ArgConverter for a length and a conversion type.
Convert(arg, length, t) ==
    IF arg.type \notin IntegerTypes \/ length = "L" \/ (t = "s" /\ arg.type \in {"bool", "char"})
    THEN arg
    ELSE Converted(arg, length, is_signed(arg, t),
                   IF length \in DOMAIN Narrow THEN Narrow[length] ELSE OwnBits(arg))

CharConverter(arg) == [type |-> "char", value |-> ToSigned(IntOf(arg), CharBits)]
IsZeroInt(arg) == arg.type \in IntegerTypes /\ IntOf(arg) = 0
DefaultType(arg) == CASE arg.type = "char" -> "c"
                      [] arg.type = "pointer" -> "p"
                      [] arg.type \in IntTypes -> "d"
                      [] arg.type = "double" -> "g"
                      [] OTHER -> "s"

\* WidthHandler: a negative width stands for the flag -.
WidthHandler(st) ==
    LET width == IF st.arg.type \in IntegerTypes THEN IntOf(st.arg) ELSE 0
        abs == IF width < 0 THEN -width ELSE width
    IN  CASE st.arg.type \notin IntegerTypes -> Thrown(st, "width is not integer")
          [] st.arg.type \in IntegerTypes /\ abs > MaxInt -> Thrown(st, "number is too big")
          [] OTHER -> Put(IF width < 0 THEN Put(st, "align", "left") ELSE st, "width", abs)

PrecisionHandler(st) ==
    CASE st.arg.type \notin IntegerTypes -> Thrown(st, "precision is not integer")
      [] /\ st.arg.type \in IntegerTypes
         /\ IntOf(st.arg) \notin (-(MaxInt + 1))..MaxInt -> Thrown(st, "number is too big")
      [] OTHER -> Put(st, "precision", IntOf(st.arg))

\* PrintfFormatter::get_arg; the next one if none is told.
NoIndex == -1
GetArg(args, st, arg_index) ==
    CASE arg_index = NoIndex -> next_arg(st, args)
      [] arg_index = 0 -> Thrown(check_no_auto_index(st), "argument index out of range")
      [] OTHER -> get_arg(st, args, arg_index - 1)

-----------------------------------------------------------------------------
(* Reading a conversion.                                                    *)
FlagOf == [c \in {"-", "+", "0", " ", "#"} |-> c]

\* parse_flags: any number of flags in any order
parse_flags(str, st) ==
    LET ends == {j \in st.i..(Len(str) + 1) : At(str, j) \notin DOMAIN FlagOf}
        end == CHOOSE j \in ends : \A k \in ends : j <= k
        seen == {str[j] : j \in st.i..(end - 1)}
        spec == st.spec
    IN  [st EXCEPT
           !.i = end,
           !.spec = [spec EXCEPT
               !.align = IF "-" \in seen THEN "left" ELSE @,
               !.fill = IF "0" \in seen THEN "0" ELSE @,
               !.flags = @ \cup (IF "+" \in seen THEN {"sign", "plus"} ELSE {})
                           \cup (IF " " \in seen THEN {"sign"} ELSE {})
                           \cup (IF "#" \in seen THEN {"hash"} ELSE {})]]

\* The width behind the flags.
ParseStarWidth(str, args, st) ==
    CASE At(str, st.i) \in Digit10 ->
            Then(parse_nonnegative_int(str, st), LAMBDA n : Numbered(n, "width"))
      [] At(str, st.i) = "*" -> Then(GetArg(args, Skip(st, 1), NoIndex), WidthHandler)
      [] OTHER -> st
FlagsAndWidth(str, args, st) == ParseStarWidth(str, args, parse_flags(str, st))

\* parse_header: index is left with the argument's index, or NoIndex.  Digits
\* are an index or a width; a 0 before them is the flag.
ReadHeader(str, args, zero, st) ==
    CASE At(str, st.i) = "$" -> [FlagsAndWidth(str, args, Skip(st, 1)) EXCEPT !.index = st.number]
      [] At(str, st.i) # "$" /\ st.number # 0 -> Numbered(IF zero THEN Put(st, "fill", "0") ELSE st, "width")
      [] OTHER -> FlagsAndWidth(str, args, Put(st, "fill", "0"))
parse_header(str, args, st) ==
    IF At(str, st.i) \in Digit10
    THEN Then(parse_nonnegative_int(str, st),
              LAMBDA n : ReadHeader(str, args, At(str, st.i) = "0", n))
    ELSE FlagsAndWidth(str, args, st)

ParseDotPrecision(str, args, st) ==
    CASE At(str, st.i) # "." -> st
      [] At(str, st.i) = "." /\ At(str, st.i + 1) \in Digit10 ->
            Then(parse_nonnegative_int(str, Skip(st, 1)), LAMBDA n : Numbered(n, "precision"))
      [] At(str, st.i) = "." /\ At(str, st.i + 1) = "*" ->
            Then(GetArg(args, Skip(st, 2), NoIndex), PrecisionHandler)
      [] OTHER -> Put(Skip(st, 1), "precision", 0)

\* The length and how many characters it takes.
Length(str, i) == CASE At(str, i) = "h" -> IF At(str, i + 1) = "h" THEN <<"hh", 2>> ELSE <<"h", 1>>
                    [] At(str, i) = "l" -> IF At(str, i + 1) = "l" THEN <<"ll", 2>> ELSE <<"l", 1>>
                    [] At(str, i) \in {"j", "z", "t", "L"} -> <<At(str, i), 1>>
                    [] OTHER -> <<"", 0>>

\* 0 fills numbers only, and a zero has no prefix.
AdjustFill(st) ==
    CASE st.spec.fill = "0" /\ Numeric(st.arg) -> Put(st, "align", "numeric")
      [] st.spec.fill = "0" /\ ~Numeric(st.arg) -> Put(st, "fill", " ")
      [] OTHER -> st

Adjust(st) == AdjustFill(IF IsZeroInt(st.arg) THEN Put(st, "flags", st.spec.flags \ {"hash"}) ELSE st)

\* Length and type, with the argument at hand converted.
Typed(st, arg, u) ==
    LET integer == arg.type \in IntegerTypes
    IN  [Put(st, "type", IF integer /\ u \in {"i", "u"} THEN "d" ELSE u)
         EXCEPT !.arg = IF integer /\ u = "c" THEN CharConverter(arg) ELSE arg]
TypedAs(st, arg, t) == Typed(st, arg, IF t = "s" THEN DefaultType(arg) ELSE t)
ParseConversion(str, st) ==
    LET l == Length(str, st.i)
        t == At(str, st.i + l[2])
    IN  IF t = "nul" THEN Thrown(st, "invalid format string")
        ELSE TypedAs(Skip(st, l[2] + 1), Convert(st.arg, l[1], t), t)

Chars(s) == [null |-> FALSE, chars |-> s]
Untyped(spec) == [spec EXCEPT !.type = ""]

\* visit_char: a number printed first is followed by the character.
PrintPlain(b, arg, spec) ==
    IF Failed(b) THEN b
    ELSE write_str(b, <<CharOf(arg.value)>>,
                   AlignSpec(spec.width, " ", IF spec.align = "left" THEN "left" ELSE "right"))
PrintChar(b, arg, spec) ==
    PrintPlain(IF spec.type \in {"", "c"} THEN b ELSE write_int(b, arg, spec, <<>>), arg, spec)

\* BasicPrintfArgFormatter: what it does itself, and what it leaves to visit.
PrintArg(b, arg, spec) ==
    CASE arg.type = "char" -> PrintChar(b, arg, spec)
      [] arg.type = "cstring" /\ arg.value.null ->
            IF spec.type = "p" THEN write_string(b, Chars(<<"(", "n", "i", "l", ")">>), Untyped(spec))
            ELSE write_string(b, Chars(<<"(", "n", "u", "l", "l", ")">>), spec)
      [] arg.type = "pointer" /\ arg.value = 0 ->
            write_string(b, Chars(<<"(", "n", "i", "l", ")">>), Untyped(spec))
      [] OTHER -> visit(b, arg, IF arg.type = "bool" /\ spec.type = "s" THEN Untyped(spec) ELSE spec, <<>>)

\* One conversion, from behind its % sign.
Conversion(str, args, st) ==
    LET Precision(s) == ParseDotPrecision(str, args, s)
        Argument(s) == GetArg(args, s, s.index)
        Rest(s) == ParseConversion(str, Adjust(s))
        start == [i |-> st.i, next |-> st.next, error |-> "", arg |-> None, number |-> 0,
                  index |-> NoIndex, spec |-> [FormatSpec EXCEPT !.align = "right"]]
    IN  Then(Then(Then(parse_header(str, args, start), Precision), Argument), Rest)

\* The loop of PrintfFormatter::format.
RECURSIVE PrintfFrom(_, _, _, _, _)
PrintfFrom(str, args, b, st, start) ==
    LET c == At(str, st.i)
        before == SubSeq(str, start, st.i - 1)
        Continue(r) == IF r.st.error # "" THEN r ELSE PrintfFrom(str, args, r.b, r.st, r.st.i)
        Print1(s) == IF s.error # "" THEN [st |-> s, b |-> b]
                       ELSE Written(b, s, PrintArg(append(b, before), s.arg, s.spec))
    IN  CASE c = "nul" -> [st |-> st, b |-> append(b, before)]
          [] c \notin {"nul", "%"} -> PrintfFrom(str, args, b, Skip(st, 1), start)
          [] c = "%" /\ At(str, st.i + 1) = "%" ->
                PrintfFrom(str, args, append(b, SubSeq(str, start, st.i)), Skip(st, 2), st.i + 2)
          [] OTHER -> Continue(Print1(Conversion(str, args, Skip(st, 1))))

printf(str, args, b) == PrintfFrom(str, args, b, Start, 1)

-----------------------------------------------------------------------------
(* A conversion by its parts: index (<<>> or the argument's number), flags  *)
(* in their order, width and precision (characters, "*" for an argument),   *)
(* length and type.                                                         *)
Directive(s) == <<"%">> \o (IF s.index = <<>> THEN <<>> ELSE s.index \o <<"$">>)
                  \o s.flags \o s.width \o s.precision \o s.length \o <<s.type>>
Has(s, flag) == flag \in {s.flags[k] : k \in DOMAIN s.flags}
Stars(s) == (IF s.width = <<"*">> THEN <<s.star>> ELSE <<>>)
              \o (IF s.precision = <<".", "*">> THEN <<s.star>> ELSE <<>>)
ArgsOf(s, arg) == LET stars == [k \in 1..Len(Stars(s)) |-> [type |-> "int", value |-> s.star]]
                  IN  IF s.index = <<>> THEN stars \o <<arg>>
                      ELSE IF stars = <<>> THEN <<[type |-> "int", value |-> 0], arg>>
                           ELSE stars \o <<arg>>

\* C's value of an integer argument: the one of the type that is congruent.
Wrapped(value, bits, signed) ==
    LET least == IF signed THEN -(2^(bits - 1)) ELSE 0
    IN  least + ((value - least) % 2^bits)
ValueOf(s, arg) ==
    IF s.length = <<"L">> THEN IntOf(arg) ELSE
    LET bits == CASE s.length = <<"h", "h">> -> CharBits
                  [] s.length = <<"h">> -> ShortBits
                  [] s.length \notin {<<>>, <<"h">>, <<"h", "h">>} /\ s.type \in {"d", "i"} -> 2 * Bits
                  [] OTHER -> BitsOf(arg.type)
        own == arg.type \in {"int", "llong"}
    IN  Wrapped(IntOf(arg), bits, IF s.type = "s" THEN own ELSE s.type \in {"d", "i"})

SpecOf(s, arg) ==
    LET star == s.width = <<"*">>
        width == CASE s.width = <<>> -> 0 [] star /\ s.star < 0 -> -s.star
                   [] star /\ s.star >= 0 -> s.star [] OTHER -> Number(s.width)
    IN  [width |-> width,
         fill |-> IF Has(s, "0") /\ Numeric(arg) THEN "0" ELSE " ",
         align |-> CASE Has(s, "0") /\ Numeric(arg) -> "numeric"
                     [] ~(Has(s, "0") /\ Numeric(arg)) /\ (Has(s, "-") \/ (star /\ s.star < 0)) ->
                           "left"
                     [] OTHER -> "right",
         flags |-> (IF Has(s, "+") THEN {"sign", "plus"} ELSE {})
                    \cup (IF Has(s, " ") THEN {"sign"} ELSE {})
                    \cup (IF Has(s, "#") /\ ~IsZeroInt(arg) THEN {"hash"} ELSE {}),
         precision |-> CASE s.precision = <<>> -> -1 [] s.precision = <<".">> -> 0
                         [] s.precision = <<".", "*">> -> s.star
                         [] OTHER -> Number(Tail(s.precision)),
         type |-> CASE s.type \in {"i", "u"} -> "d" [] s.type = "s" -> "" [] OTHER -> s.type]

Truncated(chars, precision) == IF precision \in 0..(Len(chars) - 1)
                               THEN SubSeq(chars, 1, precision) ELSE chars
Side(spec) == IF spec.align = "left" THEN "left" ELSE "right"

\* What a directive should print, or nothing it can.
IntTypeCodes == {"d", "i", "u", "x", "X", "o", "s"}
Fits(s, arg) ==
    CASE arg.type \in IntegerTypes -> s.type \in IntTypeCodes \cup {"c"}
      [] arg.type = "double" -> s.type \in {"e", "f", "g", "s"}
      [] arg.type = "string" -> s.type = "s"
      [] arg.type = "cstring" -> s.type \in {"s", "p"}
      [] arg.type = "pointer" -> s.type \in {"s", "p"} \/ arg.value = 0
Printed(s, arg) ==
    LET spec == SpecOf(s, arg)
        T(chars) == Padded(<<>>, Truncated(chars, spec.precision),
                           IF spec.align = "right" THEN "right" ELSE "left", spec.fill, spec.width)
        C(value) == Padded(<<>>, <<CharOf(Wrapped(value, CharBits, TRUE))>>, Side(spec), " ", spec.width)
        Pointer(address) == IF address = 0 THEN T(<<"(", "n", "i", "l", ")">>)
                            ELSE IntLayout(address, [spec EXCEPT !.flags = {"hash"}, !.type = "x"], <<>>)
    IN  CASE arg.type \in IntegerTypes /\ (s.type = "c" \/ (s.type = "s" /\ arg.type = "char")) ->
                C(IntOf(arg))
          [] arg.type = "bool" /\ s.type = "s" -> T(Word(arg.value).chars)
          [] arg.type = "double" -> DoubleLayout(arg.value, spec)
          [] arg.type = "cstring" /\ s.type = "p" -> Pointer(arg.value.address)
          [] arg.type \in {"string", "cstring"} /\ s.type = "s" ->
                T(IF arg.value.null THEN <<"(", "n", "u", "l", "l", ")">> ELSE arg.value.chars)
          [] arg.type = "pointer" -> Pointer(arg.value)
          [] arg.type = "char" /\ s.length = <<"L">> -> IntLayout(arg.value, spec, <<>>) \o C(arg.value)
          [] OTHER -> IntLayout(ValueOf(s, arg), spec, <<>>)

Printing(s, arg, b, str, r) ==
    LET big == s.width \notin {<<>>, <<"*">>} /\ Number(s.width) > MaxInt
    IN  /\ StopsAtTheEnd(str, r)
        /\ (r.st.error = "") <=> /\ Fits(s, arg) /\ ~big
                                 /\ s.index = <<>> \/ Stars(s) = <<>>
        /\ r.st.error = "" => Contents(r.b) = Contents(b) \o Printed(s, arg)

(* A directive prints its argument as C has it, whatever the argument's own *)
(* type: an integer is first taken modulo the size that length and type ask *)
(* for, flags may stand in any order, a negative width argument is one to   *)
(* the left.  (Unlike C, long unsigned integers keep the size of the        *)
(* argument, 0 wins over - and fills before a sign if there is a precision, *)
(* and L leaves integers as they are and prints a character twice.)  A      *)
(* directive that does not fit its argument, mixes ways to refer to         *)
(* arguments or has a number too big for an int is refused.                 *)
(* (ArgConverter, WidthHandler, PrintfFormatter)                            *)
DirectivePrints(s, arg, b) ==
    Printing(s, arg, b, Directive(s), printf(Directive(s), ArgsOf(s, arg), b))
=============================================================================
