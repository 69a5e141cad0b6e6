----------------------------- MODULE NumberLayout -----------------------------
(***************************************************************************)
(* How the fmt library under the logger lays out an argument: the growing  *)
(* buffer, digits, prefixes, padding (spdlog/fmt/bundled/format.h).        *)
(*                                                                         *)
(* The writers size the area of a number first, get a pointer into it and  *)
(* then write the digits leftwards from there.  A pointer is <<gen, at>>:  *)
(* growing gives the buffer a new storage, and a pointer made before it    *)
(* points to one that has been freed.                                      *)
(***************************************************************************)
EXTENDS Integers, Sequences, FiniteSets, SequencesExt

\* Width of an int, half that of a long long.
CONSTANT Bits
ASSUME BitsAssumption == Bits \in 4..32

\* Fills what is told no other fill.
Blank == " "

-----------------------------------------------------------------------------
(* MemoryBuffer.  cells is the storage (its length is capacity_), size the  *)
(* part in use; lost is set by a write through a dangling pointer.          *)
Junk == "junk"
capacity(b) == Len(b.cells)
Contents(b) == SubSeq(b.cells, 1, b.size)
Buffer(text, free) ==
    [cells |-> text \o [i \in 1..free |-> Junk], size |-> Len(text), gen |-> 0,
     lost |-> FALSE]

\* (Mutant: the new storage is half as large again and no larger.)
growHalf(b, size) ==
    LET c == capacity(b) + (capacity(b) \div 2)
    IN  [b EXCEPT !.cells = [i \in 1..c |-> IF i <= b.size THEN @[i] ELSE Junk],
                  !.gen = @ + 1]

grow(b, size) ==
    LET half == capacity(b) + (capacity(b) \div 2)
    IN  [b EXCEPT !.cells = [i \in 1..(IF size > half THEN size ELSE half) |->
                                IF i <= b.size THEN @[i] ELSE Junk],
                  !.gen = @ + 1]
reserve(b, size) == IF size > capacity(b) THEN grow(b, size) ELSE b
resize(b, size) == [reserve(b, size) EXCEPT !.size = size]
grow_buffer(b, n) == resize(b, b.size + n)

Ptr(b, at) == <<b.gen, at>>
Moved(p, n) == <<p[1], p[2] + n>>
WriteTo(b, p, chars) ==
    IF p[1] # b.gen THEN [b EXCEPT !.lost = TRUE]
    ELSE [b EXCEPT !.cells = [i \in DOMAIN @ |-> IF i - p[2] \in 1..Len(chars)
                                                 THEN chars[i - p[2]] ELSE @[i]]]
WriteAt(b, at, chars) == WriteTo(b, Ptr(b, at), chars)
append(b, chars) == WriteAt(grow_buffer(b, Len(chars)), b.size, chars)
Fill(c, n) == [i \in 1..(IF n < 0 THEN 0 ELSE n) |-> c]

-----------------------------------------------------------------------------
(* Digits.                                                                  *)
DIGITS == <<"0", "1", "2", "3", "4", "5", "6", "7", "8", "9", "a", "b", "c", "d",
            "e", "f", "A", "B", "C", "D", "E", "F">>
Digit(d, upper) == IF d >= 10 /\ upper THEN DIGITS[d + 7] ELSE DIGITS[d + 1]

Power(base, n) ==
    LET p[k \in 0..n] == IF k = 0 THEN 1 ELSE base * p[k - 1]
    IN  p[n]

\* Leading zeros of n | 1 (external): the number of bits that are left.
Length2(n) ==
    LET bits[v \in 0..n] == IF v < 2 THEN 1 ELSE bits[v \div 2] + 1
    IN  bits[n]

\* The table's first entry is 0: zero has one digit.
POWERS_OF_10(t) == IF t = 0 THEN 0 ELSE Power(10, t)

\* 1233 / 4096 is about the logarithm of 2 to base 10.
count_digits(n) == LET t == (Length2(n) * 1233) \div 4096
                   IN  IF n < POWERS_OF_10(t) THEN t ELSE t + 1

\* The loops of x, X, b, B and o, which shift the value until it is 0.
CountDigits(n, base) ==
    LET count[v \in 0..n] == IF v \div base = 0 THEN 1 ELSE count[v \div base] + 1
    IN  count[n]

\* What ThousandsSep writes after a digit, counted from the right.
ThousandsSep(sep, digit_index) == IF digit_index % 3 = 0 THEN sep ELSE <<>>

\* The digits of format_decimal, from the right: the last one needs no separator
\* before it.
Decimal(value, sep) ==
    LET f[k \in 0..(2 * Bits)] ==    \* without the last k
          LET v == value \div Power(10, k)
          IN  IF v < 10 THEN <<Digit(v, FALSE)>>
              ELSE f[k + 1] \o ThousandsSep(sep, k + 1) \o <<Digit(v % 10, FALSE)>>
    IN  f[0]

PowerDigits(value, base, upper) ==
    LET d[v \in 0..value] == (IF v < base THEN <<>> ELSE d[v \div base])
                                \o <<Digit(v % base, upper)>>
    IN  d[value]

-----------------------------------------------------------------------------
(* A FormatSpec: width, fill, align, the flags that are set, precision      *)
(* (-1 for none) and type ("" for none).                                    *)
FormatSpec == [width |-> 0, fill |-> Blank, align |-> "default", flags |-> {},
               precision |-> -1, type |-> ""]
Aligns == {"default", "left", "right", "center", "numeric"}
AlignSpec(width, fill, align) ==
    [FormatSpec EXCEPT !.width = width, !.fill = fill, !.align = align]

\* The content's offset in an area with padding on both sides.
fill_padding(total, content) == (total - content) \div 2

write_str(b, s, spec) ==
    LET total == IF spec.width > Len(s) THEN spec.width ELSE Len(s)
        left == CASE spec.align = "right" -> total - Len(s)
                  [] spec.align = "center" -> fill_padding(total, Len(s))
                  [] OTHER -> 0
    IN  append(b, Fill(spec.fill, left) \o s \o Fill(spec.fill, (total - Len(s)) - left))

\* The buffer with the prefix and the padding, and where the last digit goes.
Spread(b, at, area, last) == [b |-> WriteAt(b, at, area), last |-> Ptr(b, at + last)]
Sized(b, num_digits, spec, prefix) ==
    LET size == Len(prefix) + num_digits
        pad == IF spec.width <= size THEN 0 ELSE spec.width - size
        left == CASE spec.align = "left" -> 0
                  [] spec.align = "center" -> fill_padding(size + pad, size)
                  [] OTHER -> pad
    IN  Spread(grow_buffer(b, size + pad), b.size,
               (IF spec.align = "numeric" THEN prefix \o Fill(spec.fill, left)
                ELSE Fill(spec.fill, left) \o prefix)
                 \o Fill(Junk, num_digits) \o Fill(spec.fill, pad - left),
               (left + size) - 1)

\* A number with a precision is laid out in an area of its own, padded before
\* or after it; only spec.width is reserved for both.
Trailed(r, chars) == [r EXCEPT !.b = append(@, chars)]
prepare_int_buffer(b, num_digits, spec, prefix) ==
    LET p == IF prefix # <<>> /\ Last(prefix) = "0" THEN Front(prefix) ELSE prefix
        number_size == Len(p) + spec.precision
        fill == Fill(spec.fill, spec.width - number_size)
        left == spec.align = "left"
    IN  IF spec.precision <= num_digits THEN Sized(b, num_digits, spec, prefix)
        ELSE Trailed(Sized(append(IF number_size < spec.width THEN reserve(b, spec.width) ELSE b,
                                  IF left THEN <<>> ELSE fill),
                           num_digits, AlignSpec(number_size, "0", "numeric"), p),
                     IF left THEN fill ELSE <<>>)

\* An argument is its type and value.  A long long has twice the bits of an int.
IntTypes == {"int", "uint", "llong", "ullong"}
BitsOf(type) == IF type \in {"llong", "ullong"} THEN 2 * Bits ELSE Bits

\* report_unknown_type and every other exception.
Error(what) == [error |-> what]
Failed(r) == "error" \in DOMAIN r

SignPrefix(negative, spec) ==
    CASE negative -> <<"-">>
      [] ~negative /\ "plus" \in spec.flags -> <<"+">>
      [] ~negative /\ "plus" \notin spec.flags /\ "sign" \in spec.flags -> <<Blank>>
      [] OTHER -> <<>>

\* abs_value = 0 - abs_value, in the unsigned type of that width
Magnitude(value, bits) ==
    LET M == Power(2, bits)
    IN  IF value < 0 THEN (-(value % M)) % M ELSE value

\* How many digits there are to be, and which.
IntCodes == {"", "d", "n", "x", "X", "b", "B", "o"}
\* Shifting by 4, 1 or 3 bits divides by the base.
Base(type) == CASE type \in {"x", "X"} -> 16 [] type \in {"b", "B"} -> 2 [] type = "o" -> 8
                [] OTHER -> 10
DigitCount(type, value, sep) ==
    CASE type \in {"", "d"} -> count_digits(value)
      [] type = "n" -> count_digits(value) + (Len(sep) * ((count_digits(value) - 1) \div 3))
      [] OTHER -> CountDigits(value, Base(type))
DigitsOf(type, value, sep) ==
    IF type \in {"", "d", "n"} THEN Decimal(value, IF type = "n" THEN sep ELSE <<>>)
    ELSE PowerDigits(value, Base(type), type = "X")
HashPrefix(spec) == CASE "hash" \notin spec.flags \/ spec.type \in {"", "d", "n"} -> <<>>
                      [] "hash" \in spec.flags /\ spec.type = "o" -> <<"0">>
                      [] OTHER -> <<"0", spec.type>>

EndAt(r, digits) == WriteTo(r.b, Moved(r.last, 1 - Len(digits)), digits)
write_magnitude(b, m, spec, sign, sep) ==
    EndAt(prepare_int_buffer(b, DigitCount(spec.type, m, sep), spec, sign \o HashPrefix(spec)),
          DigitsOf(spec.type, m, sep))
write_int(b, arg, spec, sep) ==
    IF spec.type \notin IntCodes THEN Error("unknown format code")
    ELSE write_magnitude(b, Magnitude(arg.value, BitsOf(arg.type)), spec,
                         SignPrefix(arg.value < 0, spec), sep)

\* write_decimal, of << without a spec
write_decimal(b, value) ==
    LET m == Magnitude(value, Bits)
        prefix == IF value < 0 THEN <<"-">> ELSE <<>>
        d == Decimal(m, <<>>)
        size == Len(prefix) + count_digits(m)
    IN  WriteAt(WriteAt(grow_buffer(b, size), (b.size + size) - Len(d), d), b.size, prefix)

-----------------------------------------------------------------------------
(* Strings and characters.                                                  *)
CharOf(code) == "#" \o ToString(code)

\* A StringValue: its characters, or none behind a null pointer.
write_string(b, s, spec) ==
    CASE spec.type \notin {"", "s"} -> Error("unknown format code")
      [] spec.type \in {"", "s"} /\ s.null -> Error("string pointer is null")
      [] OTHER -> write_str(b, IF spec.precision \in 0..(Len(s.chars) - 1)
                               THEN SubSeq(s.chars, 1, spec.precision) ELSE s.chars, spec)

-----------------------------------------------------------------------------
(* write_double.  A value is its sign and what snprintf prints of its       *)
(* magnitude with no width: the digits, or <<"n", "a", "n">>, <<"i", ...>>. *)

\* snprintf with a width (external)
snprintf(digits, width, left) ==
    LET blanks == Fill(Blank, width - Len(digits))
    IN  IF left THEN digits \o blanks ELSE blanks \o digits

\* The sign belongs behind the blanks that snprintf has written.
SignInside(sign, out, spec) == /\ sign # <<>> /\ spec.align \in {"right", "default"}
                               /\ out[1] = Blank

Blanks(out) == CHOOSE k \in 0..Len(out) : /\ \A i \in 1..k : out[i] = Blank
                                          /\ k = Len(out) \/ out[k + 1] # Blank

\* snprintf prints behind the sign, with its terminator.
format_float(b, offset, out) ==
    WriteAt(IF offset + Len(out) < capacity(b) THEN b ELSE reserve(b, offset + Len(out) + 1),
            offset, Append(out, "nul"))

\* The sign's place is at, the number's behind it.
SignAndFill(b, at, sign, out, spec) ==
    LET inside == SignInside(sign, out, spec)
        start == at + Len(sign)
    IN  WriteAt(WriteAt(WriteAt(b, at, IF inside THEN <<spec.fill>> ELSE sign),
                        start, IF spec.fill # Blank \/ inside THEN Fill(spec.fill, Blanks(out)) ELSE <<>>),
                (start + Blanks(out)) - 1, IF inside THEN sign ELSE <<>>)

\* A number is centred in what grow_buffer(spec.width) has copied of it.
Centred(b, at, n, spec) ==
    LET left == fill_padding(spec.width, n)
    IN  WriteAt(b, at, Fill(spec.fill, left) \o SubSeq(b.cells, at + 1, at + n)
                         \o Fill(spec.fill, (spec.width - n) - left))

write_number(b, value, spec) ==
    LET sign == SignPrefix(value.negative, spec)
        room == IF sign = <<>> THEN b
                ELSE reserve(b, b.size + (IF spec.width > 1 THEN spec.width ELSE 1))
        width == IF sign # <<>> /\ spec.width > 0 THEN spec.width - 1 ELSE spec.width
        out == snprintf(value.digits, IF spec.align = "center" THEN 0 ELSE width,
                        spec.align = "left")
        n == Len(out) + Len(sign)
        printed == SignAndFill(format_float(room, b.size + Len(sign), out), b.size, sign, out, spec)
    IN  IF spec.align = "center" /\ spec.width > n
        THEN Centred(grow_buffer(printed, spec.width), b.size, n, spec)
        ELSE grow_buffer(printed, n)

DoubleCodes == {"", "e", "f", "g", "a", "F", "E", "G", "A"}
write_double(b, value, spec) ==
    CASE spec.type \notin DoubleCodes -> Error("unknown format code")
      [] spec.type \in DoubleCodes /\ ~value.finite ->
            write_str(b, SignPrefix(value.negative, spec) \o value.digits, spec)
      [] OTHER -> write_number(b, value, spec)

-----------------------------------------------------------------------------
(* ArgFormatterBase.                                                        *)
IntegerTypes == IntTypes \cup {"bool", "char"}      \* up to LAST_INTEGER_TYPE
NumericTypes == IntegerTypes \cup {"double"}        \* up to LAST_NUMERIC_TYPE

write_pointer(b, address, spec) ==
    write_int(b, [type |-> "ullong", value |-> address], [spec EXCEPT !.flags = {"hash"}, !.type = "x"], <<>>)

Word(value) == [null |-> FALSE,
                chars |-> IF value THEN <<"t", "r", "u", "e">> ELSE <<"f", "a", "l", "s", "e">>]

write_char(b, code, spec) ==
    IF spec.align = "numeric" \/ spec.flags # {} THEN Error("invalid format specifier for char")
    ELSE write_str(b, <<CharOf(code)>>, spec)

\* The argument as a number: a bool or a character is one if the type says so.
AsInt(arg) == IF arg.type = "bool" THEN [type |-> "int", value |-> IF arg.value THEN 1 ELSE 0]
              ELSE arg
visit(b, arg, spec, sep) ==
    CASE \/ arg.type \in IntTypes
         \/ arg.type = "bool" /\ spec.type # ""
         \/ arg.type = "char" /\ spec.type \notin {"", "c"} -> write_int(b, AsInt(arg), spec, sep)
      [] arg.type = "char" /\ spec.type \in {"", "c"} -> write_char(b, arg.value, spec)
      [] arg.type = "double" -> write_double(b, arg.value, spec)
      [] arg.type = "pointer" /\ spec.type \notin {"", "p"} -> Error("unknown format code")
      [] \/ arg.type = "pointer" /\ spec.type \in {"", "p"}
         \/ arg.type = "cstring" /\ spec.type = "p" ->
            write_pointer(b, IF arg.type = "pointer" THEN arg.value ELSE arg.value.address, spec)
      [] OTHER -> write_string(b, IF arg.type = "bool" THEN Word(arg.value) ELSE arg.value, spec)

-----------------------------------------------------------------------------
(* What the layout of a number should be, told from its value.              *)
\* How many digits: the least power that the value is below, and each by its place.
Places(value, base) == CHOOSE n \in 1..(2 * Bits) : /\ value < Power(base, n)
                                                    /\ n > 1 => value >= Power(base, n - 1)
Positional(value, base, upper) ==
    LET n == Places(value, base)
    IN  [i \in 1..n |-> Digit((value \div Power(base, n - i)) % base, upper)]
Grouped(value, sep) ==
    LET d == Positional(value, 10, FALSE)
    IN  FlattenSeq([i \in 1..Len(d) |->
            (IF i > 1 /\ (Len(d) - i) % 3 = 2 THEN sep ELSE <<>>) \o <<d[i]>>])
Digits(value, type, sep) ==
    LET m == IF value < 0 THEN -value ELSE value
    IN  CASE type \in {"", "d"} -> Positional(m, 10, FALSE)
          [] type = "n" -> Grouped(m, sep)
          [] OTHER -> Positional(m, Base(type), type = "X")
Prefix(spec) == CASE "hash" \notin spec.flags -> <<>>
                  [] "hash" \in spec.flags /\ spec.type \in {"x", "X", "b", "B"} ->
                        <<"0", spec.type>>
                  [] "hash" \in spec.flags /\ spec.type = "o" -> <<"0">>
                  [] OTHER -> <<>>

\* Padding goes where align says; numeric splits a number from what precedes it.
Padded(before, number, align, fill, width) ==
    LET pad == width - (Len(before) + Len(number))
    IN  CASE pad <= 0 -> before \o number
          [] pad > 0 /\ align = "left" -> before \o number \o Fill(fill, pad)
          [] pad > 0 /\ align = "numeric" -> before \o Fill(fill, pad) \o number
          [] pad > 0 /\ align = "center" ->
                Fill(fill, pad \div 2) \o before \o number \o Fill(fill, pad - (pad \div 2))
          [] OTHER -> Fill(fill, pad) \o before \o number

\* With a precision the number is padded on the left unless it is to stand
\* there, whatever else align says; an octal prefix is then not counted.
IntLayout(value, spec, sep) ==
    LET d == Digits(value, spec.type, sep)
        sign == SignPrefix(value < 0, spec)
    IN  IF spec.precision <= Len(d)
        THEN Padded(sign \o Prefix(spec), d, spec.align, spec.fill, spec.width)
        ELSE Padded(sign \o (IF spec.type = "o" THEN <<>> ELSE Prefix(spec)),
                    Fill("0", spec.precision - Len(d)) \o d,
                    IF spec.align = "left" THEN "left" ELSE "right", spec.fill, spec.width)

\* Blanks fill the right of a number that stands on the left, whatever fill
\* says, and words stand on the left unless they are told otherwise.
DoubleLayout(value, spec) ==
    Padded(SignPrefix(value.negative, spec), value.digits,
           IF value.finite THEN spec.align
           ELSE IF spec.align \in {"right", "center"} THEN spec.align ELSE "left",
           IF value.finite /\ spec.align = "left" THEN Blank ELSE spec.fill, spec.width)

\* The two layouts that are not safe when the buffer has to grow: the digits
\* go to a storage that has been freed, or are not copied to the new one.
DigitsLate(b, value, spec, sep) ==
    /\ spec.align = "left" /\ spec.precision > Len(Digits(value, spec.type, sep))
    /\ b.size + spec.width > capacity(b)
MovedLate(b, value, spec) ==
    /\ spec.align = "center" /\ value.finite /\ SignPrefix(value.negative, spec) = <<>>
    /\ b.size + spec.width > capacity(b)

LaidOut(b, r, layout, unsafe) ==
    /\ r.size <= capacity(r)
    /\ unsafe \/ (~r.lost /\ Contents(r) = Contents(b) \o layout)

(* A number is appended to a buffer with its own digits, its prefix and     *)
(* padding in their places, whatever the buffer's room, and what was in the *)
(* buffer stays: the size counted first is the one that is written.         *)
(* (write_int, prepare_int_buffer, write_double, grow)                      *)
IsWhole(b, arg, spec, sep) ==
    IF arg.type = "double"
    THEN LaidOut(b, write_double(b, arg.value, spec), DoubleLayout(arg.value, spec),
                 MovedLate(b, arg.value, spec))
    ELSE /\ LaidOut(b, write_int(b, arg, spec, sep), IntLayout(arg.value, spec, sep),
                    DigitsLate(b, arg.value, spec, sep))
         /\ arg.type = "int" /\ spec = FormatSpec =>
               LaidOut(b, write_decimal(b, arg.value), IntLayout(arg.value, spec, <<>>), FALSE)
=============================================================================
