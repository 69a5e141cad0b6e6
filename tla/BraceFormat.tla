------------------------------ MODULE BraceFormat ------------------------------
(***************************************************************************)
(* The format strings of the logger's calls: "{}" and its arguments        *)
(* (spdlog/fmt/bundled/format.h).                                          *)
(*                                                                         *)
(* The scanner is a pointer into a string with a terminator and no length. *)
(* A state of it is a record st: i is the pointer, next the index of the   *)
(* next argument (-1 once one was named or numbered), error the exception. *)
(***************************************************************************)
EXTENDS NumberLayout

\* Arguments whose types are packed in a word: at least 1.
CONSTANT MAX_PACKED_ARGS

MaxInt == 2^(Bits - 1) - 1

-----------------------------------------------------------------------------
(* Argument lists.  A named argument is [type |-> "named", name, arg].      *)
None == [type |-> "none"]

\* The type of argument i in the word, for i below MAX_PACKED_ARGS.
type(args, i) == IF i < Len(args) THEN args[i + 1].type ELSE "none"

\* Few arguments are an array of values, more an array with an end marker.
use_values(args) == type(args, MAX_PACKED_ARGS - 1) = "none"
Item(args, i) == IF i < Len(args) THEN args[i + 1] ELSE None

\* ArgList::operator[]
ArgAt(args, index) ==
    CASE index < MAX_PACKED_ARGS -> IF type(args, index) = "none" THEN None
                                    ELSE Item(args, index)
      [] index >= MAX_PACKED_ARGS /\ use_values(args) -> None
      [] index >= MAX_PACKED_ARGS /\ ~use_values(args) ->
            IF \E i \in MAX_PACKED_ARGS..index : Item(args, i).type = "none" THEN None
            ELSE Item(args, index)

Packed(args) == IF use_values(args) THEN args ELSE SubSeq(args, 1, MAX_PACKED_ARGS)
NamedOf(args) == SelectSeq(args, LAMBDA a : a.type = "named")

\* (Mutant: only the arguments packed in the word are looked at.)
ArgMapShort(args) == NamedOf(Packed(args))

\* ArgMap::init: the named arguments, in their order
ArgMap(args) ==
    LET rest == IF use_values(args) THEN <<>>
                ELSE SubSeq(args, MAX_PACKED_ARGS + 1, Len(args))
    IN  NamedOf(Packed(args) \o rest)

Thrown(st, what) == [st EXCEPT !.error = what]

\* A step is taken on what the step before it has left, unless that has thrown.
Then(st, Step(_)) == IF st.error # "" THEN st ELSE Step(st)

Found(st, a) == CASE a.type = "none" -> Thrown(st, "argument index out of range")
                  [] a.type = "named" -> [st EXCEPT !.arg = a.arg]
                  [] OTHER -> [st EXCEPT !.arg = a]
do_get_arg(st, args, index) == Found(st, ArgAt(args, index))

next_arg(st, args) ==
    IF st.next >= 0 THEN do_get_arg([st EXCEPT !.next = @ + 1], args, st.next)
    ELSE Thrown(st, "cannot switch from manual to automatic argument indexing")

check_no_auto_index(st) ==
    IF st.next > 0 THEN Thrown(st, "cannot switch from automatic to manual argument indexing")
    ELSE [st EXCEPT !.next = -1]

get_arg(st, args, index) == Then(check_no_auto_index(st), LAMBDA c : do_get_arg(c, args, index))

FirstOf(st, found) == IF found = <<>> THEN Thrown(st, "argument not found")
                      ELSE [st EXCEPT !.arg = found[1].arg]
get_named_arg(st, args, name) ==
    Then(check_no_auto_index(st),
         LAMBDA c : FirstOf(c, SelectSeq(ArgMap(args), LAMBDA a : a.name = name)))

-----------------------------------------------------------------------------
(* Reading.                                                                 *)
At(str, i) == IF i <= Len(str) THEN str[i] ELSE "nul"
Digit10 == {"0", "1", "2", "3", "4", "5", "6", "7", "8", "9"}
DigitValue(c) == CHOOSE d \in 0..9 : DIGITS[d + 1] = c
is_name_start(c) == c \in {"a", "b", "n", "_"}      \* letters

\* One round of parse_nonnegative_int, in unsigned arithmetic.
NextDigit(value, c) ==
    IF value > MaxInt \div 10 THEN MaxInt + 1 ELSE (value * 10 + DigitValue(c)) % 2^Bits

\* The digits end at a character that is none, or where they overflow.
AtNumber(st, i, value) == IF value > MaxInt THEN Thrown(st, "number is too big")
                          ELSE [st EXCEPT !.i = i, !.number = value]
parse_nonnegative_int(str, st) ==
    LET read[i \in Nat, value \in Nat] ==
          IF At(str, i) \notin Digit10 \/ value > MaxInt THEN AtNumber(st, i, value)
          ELSE read[i + 1, NextDigit(value, str[i])]
    IN  read[st.i, 0]

ClosedArg(str, st) ==
    IF st.error \in {"", "number is too big"} \/ At(str, st.i) \in {"}", ":"} THEN st
    ELSE Thrown(st, "invalid format string")
parse_arg_index(str, args, st) ==
    ClosedArg(str, IF At(str, st.i) \notin Digit10 THEN next_arg(st, args)
                   ELSE Then(parse_nonnegative_int(str, st),
                             LAMBDA n : get_arg(n, args, n.number)))

parse_arg_name(str, args, st) ==
    LET ends == {j \in st.i..(Len(str) + 1) : /\ j > st.i
                                              /\ ~is_name_start(At(str, j))
                                              /\ At(str, j) \notin Digit10}
        end == CHOOSE j \in ends : \A k \in ends : j <= k
    IN  get_named_arg([st EXCEPT !.i = end], args, SubSeq(str, st.i, end - 1))

parse_arg(str, args, st) == IF is_name_start(At(str, st.i)) THEN parse_arg_name(str, args, st)
                            ELSE parse_arg_index(str, args, st)

-----------------------------------------------------------------------------
(* A format specifier, part by part.  Every part has the argument at hand.  *)
Alignments == [c \in {"<", ">", "=", "^"} |->
                  CASE c = "<" -> "left" [] c = ">" -> "right"
                    [] c = "=" -> "numeric" [] c = "^" -> "center"]

Numeric(arg) == arg.type \in NumericTypes
require_numeric_argument(st, arg) ==
    IF Numeric(arg) THEN st ELSE Thrown(st, "format specifier requires numeric argument")
Put(st, field, value) == [st EXCEPT !.spec[field] = value]
Skip(st, n) == [st EXCEPT !.i = @ + n]
Flag(st, flags) == [st EXCEPT !.spec.flags = @ \cup flags]

\* A character with an alignment behind it is the fill.
Aligned(st, n, c, arg) ==
    IF Alignments[c] = "numeric"
    THEN require_numeric_argument(Put(Skip(st, n), "align", "numeric"), arg)
    ELSE Put(Skip(st, n), "align", Alignments[c])
ParseFill(str, arg, st) ==
    LET c == At(str, st.i)
        next == At(str, st.i + 1)
    IN  CASE c # "nul" /\ next \in DOMAIN Alignments ->
                CASE c = "}" -> Put(st, "align", Alignments[next])
                  [] c = "{" -> Thrown(st, "invalid fill character '{'")
                  [] OTHER -> Put(Aligned(st, 2, next, arg), "fill", c)
          [] next \notin DOMAIN Alignments /\ c \in DOMAIN Alignments -> Aligned(st, 1, c, arg)
          [] OTHER -> st

check_sign(st, arg) ==
    IF Numeric(arg) /\ arg.type \in {"uint", "ullong"}
    THEN Thrown(st, "format specifier requires signed argument")
    ELSE require_numeric_argument(Skip(st, 1), arg)

SignFlags == [c \in {"+", "-", " "} |->
                 CASE c = "+" -> {"sign", "plus"} [] c = "-" -> {"minus"} [] c = " " -> {"sign"}]
ParseSign(str, arg, st) ==
    IF At(str, st.i) \notin DOMAIN SignFlags THEN st
    ELSE Flag(check_sign(st, arg), SignFlags[At(str, st.i)])

ParseHash(str, arg, st) ==
    IF At(str, st.i) = "#" THEN require_numeric_argument(Flag(Skip(st, 1), {"hash"}), arg)
    ELSE st

ParseZero(str, arg, st) ==
    IF At(str, st.i) = "0"
    THEN require_numeric_argument(Put(Put(Skip(st, 1), "align", "numeric"), "fill", "0"), arg)
    ELSE st

\* A width or precision that is an argument.
NumberFrom(str, st, arg) ==
    CASE At(str, st.i) # "}" -> Thrown(st, "invalid format string")
      [] At(str, st.i) = "}" /\ arg.type \notin IntTypes -> Thrown(st, "not integer")
      [] At(str, st.i) = "}" /\ arg.type \in IntTypes /\ arg.value < 0 -> Thrown(st, "negative")
      [] At(str, st.i) = "}" /\ arg.type \in IntTypes /\ arg.value > MaxInt ->
            Thrown(st, "number is too big")
      [] OTHER -> [Skip(st, 1) EXCEPT !.number = arg.value]
ParseNested(str, args, st) ==
    Then(parse_arg(str, args, Skip(st, 1)), LAMBDA a : NumberFrom(str, a, a.arg))

ParseNumber(str, args, st) == IF At(str, st.i) = "{" THEN ParseNested(str, args, st)
                              ELSE parse_nonnegative_int(str, st)

Numbered(st, field) == Put(st, field, st.number)
ParseWidth(str, args, st) ==
    IF At(str, st.i) \in Digit10 \cup {"{"} THEN Numbered(ParseNumber(str, args, st), "width")
    ELSE st

\* (Mutant: the argument's type is not looked at.)
AllowPrecisionAny(arg, st) == Numbered(st, "precision")

AllowPrecision(arg, st) ==
    IF arg.type \in IntTypes \cup {"bool", "char", "pointer"} THEN Thrown(st, "precision not allowed")
    ELSE Numbered(st, "precision")

ParsePrecision(str, args, arg, st) ==
    CASE At(str, st.i) # "." -> st
      [] At(str, st.i) = "." /\ At(str, st.i + 1) \notin Digit10 \cup {"{"} ->
            Thrown(st, "missing precision specifier")
      [] OTHER -> Then(ParseNumber(str, args, Skip(st, 1)), LAMBDA s : AllowPrecision(arg, s))

ParseType(str, st) == IF At(str, st.i) \in {"}", "nul"} THEN st
                      ELSE Put(Skip(st, 1), "type", At(str, st.i))

\* What stands between the argument and the closing brace, from left to right.
ParseSpec(str, args, arg, st) ==
    LET Sign(s) == ParseSign(str, arg, s)
        Hash(s) == ParseHash(str, arg, s)
        Zero(s) == ParseZero(str, arg, s)
        Width(s) == ParseWidth(str, args, s)
        Precision(s) == ParsePrecision(str, args, arg, s)
        Type(s) == ParseType(str, s)
    IN  Then(Then(Then(Then(Then(Then(ParseFill(str, arg, Skip(st, 1)),
                                      Sign), Hash), Zero), Width), Precision), Type)

\* format(format_str, arg); arguments of a user's own type are left out.
Written(b, st, v) == IF Failed(v) THEN [st |-> Thrown(st, v.error), b |-> b]
                     ELSE [st |-> st, b |-> v]
CloseField(str, arg, b, st) ==
    CASE st.error # "" -> [st |-> st, b |-> b]
      [] st.error = "" /\ At(str, st.i) # "}" ->
            [st |-> Thrown(st, "missing '}' in format string"), b |-> b]
      [] OTHER -> Written(b, Skip(st, 1), visit(b, arg, st.spec, <<>>))
FormatArg(str, args, b, st) ==
    LET s == [st EXCEPT !.spec = FormatSpec]
    IN  CloseField(str, st.arg, b, IF At(str, st.i) # ":" THEN s
                                   ELSE ParseSpec(str, args, st.arg, s))

Start == [i |-> 1, next |-> 0, error |-> "", arg |-> None, number |-> 0,
          spec |-> FormatSpec]

\* The loop of format(format_str): start is where unwritten text begins.
RECURSIVE FormatFrom(_, _, _, _, _)
FormatFrom(str, args, b, st, start) ==
    LET c == At(str, st.i)
        before == SubSeq(str, start, st.i - 1)
        Continue(r) == IF r.st.error # "" THEN r ELSE FormatFrom(str, args, r.b, r.st, r.st.i)
        Argument(a) == IF a.error # "" THEN [st |-> a, b |-> b]
                       ELSE FormatArg(str, args, append(b, before), a)
    IN  CASE c = "nul" -> [st |-> st, b |-> append(b, before)]
          [] c \notin {"nul", "{", "}"} -> FormatFrom(str, args, b, Skip(st, 1), start)
          [] c \in {"{", "}"} /\ At(str, st.i + 1) = c ->
                FormatFrom(str, args, append(b, SubSeq(str, start, st.i)), Skip(st, 2), st.i + 2)
          [] c = "}" /\ At(str, st.i + 1) # "}" ->
                [st |-> Thrown(st, "unmatched '}' in format string"), b |-> b]
          [] OTHER -> Continue(Argument(parse_arg(str, args, Skip(st, 1))))

format(str, args, b) == FormatFrom(str, args, b, Start, 1)

-----------------------------------------------------------------------------
(* The properties build a format string from its meaning.                   *)

\* The scan of a string ends at its terminator, wherever it is cut off.
StopsAtTheEnd(str, r) == IF r.st.error = "" THEN r.st.i = Len(str) + 1
                         ELSE r.st.i <= Len(str) + 1

\* A piece is text as it is written and shown, or a field: the reference to
\* its argument and perhaps one to its width; <<>> is an automatic one.
Nested(w) == IF w = <<>> THEN <<>> ELSE <<":", "{">> \o w[1] \o <<"}">>
Render(p) == IF p.field THEN <<"{">> \o p.ref \o Nested(p.width) \o <<"}">> ELSE p.text
Uses(p) == IF p.field THEN <<p.ref>> \o p.width ELSE <<>>
Cat(pieces, Op(_)) == FlattenSeq([k \in 1..Len(pieces) |-> Op(pieces[k])])

Holder(args, index) == IF index >= Len(args) THEN None
                       ELSE IF args[index + 1].type = "named" THEN args[index + 1].arg
                            ELSE args[index + 1]
Named(args, name) == LET K == {k \in 1..Len(args) : /\ args[k].type = "named"
                                                    /\ args[k].name = name}
                     IN  IF K = {} THEN None
                         ELSE args[CHOOSE k \in K : \A j \in K : k <= j].arg
Target(args, use, k) == CASE use = <<>> -> Holder(args, k - 1)
                          [] use # <<>> /\ use[1] \in Digit10 -> Holder(args, DigitValue(use[1]))
                          [] OTHER -> Named(args, use)

\* Text and arguments, each field's width at the place behind its own.
Shown(p, k, targets) ==
    IF p.field THEN Padded(<<>>, Positional(targets[k].value, 10, FALSE), "right", " ",
                           IF p.width # <<>> THEN targets[k + 1].value ELSE 0)
    ELSE p.shown
ShowsTargets(pieces, uses, targets, b, r) ==
    LET First(k) == Len(Cat(SubSeq(pieces, 1, k - 1), Uses)) + 1
        legal == /\ \A k \in 1..Len(uses) : targets[k] # None
                 /\ \/ \A k \in 1..Len(uses) : uses[k] = <<>>
                    \/ \A k \in 1..Len(uses) : uses[k] # <<>>
    IN  /\ (r.st.error = "") <=> legal
        /\ legal => Contents(r.b) = Contents(b) \o FlattenSeq([k \in 1..Len(pieces) |->
                                                         Shown(pieces[k], First(k), targets)])
Finds(str, pieces, uses, args, b, r) ==
    /\ StopsAtTheEnd(str, r)
    /\ ShowsTargets(pieces, uses, [k \in 1..Len(uses) |-> Target(args, uses[k], k)], b, r)

(* Every field shows the argument it refers to: automatic references count  *)
(* from the first, a number counts the arguments, a name finds the first    *)
(* argument of that name; a width is an argument too, and counts.  A string *)
(* that mixes automatic references with others, or refers to no argument,   *)
(* is refused.  (get_arg, next_arg, ArgList, ArgMap, format)                *)
FieldsFindTheirArguments(pieces, args, b) ==
    Finds(Cat(pieces, Render), pieces, Cat(pieces, Uses), args, b,
          format(Cat(pieces, Render), args, b))

\* A specifier by its parts, each a sequence of characters, and its meaning.
Spelled(s) == s.fill \o s.align \o s.sign \o s.hash \o s.zero \o s.width \o s.precision
                \o s.type
Number(chars) == FoldLeft(LAMBDA n, c : n * 10 + DigitValue(c), 0, chars)
Meant(s) ==
    [width |-> Number(s.width),
     fill |-> IF s.zero # <<>> THEN "0" ELSE IF s.fill # <<>> THEN s.fill[1] ELSE " ",
     align |-> IF s.zero # <<>> THEN "numeric"
               ELSE IF s.align # <<>> THEN Alignments[s.align[1]] ELSE "default",
     flags |-> (CASE s.sign = <<"+">> -> {"sign", "plus"} [] s.sign = <<"-">> -> {"minus"}
                  [] s.sign = <<" ">> -> {"sign"} [] OTHER -> {})
               \cup (IF s.hash # <<>> THEN {"hash"} ELSE {}),
     precision |-> IF s.precision = <<>> THEN -1 ELSE Number(Tail(s.precision)),
     type |-> IF s.type = <<>> THEN "" ELSE s.type[1]]
Forbidden(s, arg) ==
    \/ s.fill \in {<<"{">>, <<"}">>}
    \/ ~Numeric(arg) /\ (s.align = <<"=">> \/ s.sign # <<>> \/ s.hash # <<>> \/ s.zero # <<>>)
    \/ arg.type \in {"uint", "ullong"} /\ s.sign # <<>>
    \/ s.precision # <<>> /\ arg.type \notin {"double", "string", "cstring"}
    \/ s.precision = <<".">>
    \/ Number(s.width) > MaxInt
    \/ s.precision # <<>> /\ Number(Tail(s.precision)) > MaxInt

Obeyed(str, s, arg, r, v) ==
    /\ StopsAtTheEnd(str, r)
    /\ IF Forbidden(s, arg) THEN r.st.error # ""
       ELSE IF Failed(v) THEN r.st.error = v.error
            ELSE r.st.error = "" /\ Contents(r.b) = Contents(v)

(* A specifier does what its parts say, in whatever company: the argument is*)
(* written with that fill, alignment, sign, prefix, width, precision and    *)
(* type, or the string is refused because a part does not fit the argument  *)
(* or a number does not fit an int.  (format, parse_nonnegative_int)        *)
SpecifierIsObeyed(s, arg, b) ==
    LET str == <<"{", ":">> \o Spelled(s) \o <<"}">>
    IN  Obeyed(str, s, arg, format(str, <<arg>>, b), visit(b, arg, Meant(s), <<>>))
=============================================================================
