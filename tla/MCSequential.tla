----------------------------- MODULE MCSequential -----------------------------
(***************************************************************************)
(* The sequential algorithms on bounded inputs.  A behaviour either parses *)
(* a buffer of the encoder (NaluParser, whose steps are its actions) or    *)
(* builds an input of one of the others, a part at a time (those of Inputs *)
(* and of the format library); the properties say what the algorithm makes *)
(* of every input that is built.                                           *)
(***************************************************************************)
EXTENDS NaluParser, Inputs

CONSTANTS MAX_PACKED_ARGS,
          MaxRaw,       \* bound: characters of an arbitrary format string
          MaxPieces     \* bound: pieces of a format string

F == INSTANCE PrintfFormat

\* A unit's body may hold a zero before its last byte, or two before an escape,
\* and with the first byte may be longer than Capacity.
MCBodies == {<<0, 1>>, <<0, 0, 3>>, <<9, 9, 0, 1>>}
MCBeyonds == {<<0, 0, 1, 101>>, <<1, 101, 0, 0>>}

-----------------------------------------------------------------------------
(* Inputs.                                                                  *)

\* The days around the epoch.
MCCalendar == [day \in -1..1 |-> IF day < 0 THEN [year |-> 69, mon |-> 11, mday |-> 31]
                                 ELSE [year |-> 70, mon |-> 0, mday |-> 1 + day]]
\* Messages: at midnight, noon, the last second of a day; zones on both sides.
Message(time, zone, raw) == [name |-> "logger", level |-> "info", thread |-> "tid", id |-> 7,
                             raw |-> raw, time |-> time, zone |-> zone]
Raw == <<<<"a">>, <<"b">>>>
MCMessages == {Message(t, z, r) :
                  t \in {<<0, 0>>, <<43200, 999999999>>, <<86399, 1234567>>, <<46859, 5000>>},
                  z \in {0, 3600, -12600, -1800, 20700}, r \in {<<>>, Raw}}
MCTried == {Message(<<0, 0>>, 0, Raw)}
\* A buffer without a clock, the clock set back, and 69 s between two buffers, more
\* milliseconds than an unsigned int of UIntRange values holds.
MCCaptureTimes == {<<0, 900000>>, <<1, 0>>, <<1, 20999>>, <<1, 60000>>, <<2, 999>>, <<40, 0>>, <<70, 0>>}

Arg(type_, value) == [type |-> type_, value |-> value]
Name(name, value) == [type |-> "named", name |-> <<name>>, arg |-> Arg("int", value)]
Str(chars, null) == [null |-> null, chars |-> chars, address |-> IF null THEN 0 ELSE 77]
Double(negative, finite, digits) == [negative |-> negative, finite |-> finite, digits |-> digits]

\* Ends of the ranges, and both sides of a power of ten or two.
IntArgs == <<Arg("int", -2048), Arg("int", -1000), Arg("int", -1), Arg("int", 0), Arg("int", 8),
             Arg("int", 999), Arg("int", 1000), Arg("uint", 4095), Arg("llong", -8388608)>>
MCInts == {IntArgs[k] : k \in 1..Len(IntArgs)}
MCDoubles == {Arg("double", Double(n, TRUE, <<"1", ".", "5">>)) : n \in BOOLEAN}
             \cup {Arg("double", Double(n, FALSE, <<"n", "a", "n">>)) : n \in BOOLEAN}
Others == <<Arg("double", Double(TRUE, TRUE, <<"1", ".", "5">>)),
            Arg("double", Double(FALSE, FALSE, <<"n", "a", "n">>)),
            Arg("string", Str(<<"h", "i">>, FALSE)), Arg("cstring", Str(<<>>, TRUE)),
            Arg("pointer", 300), Arg("pointer", 0), Arg("bool", TRUE), Arg("char", 3)>>
Arguments == Others \o <<Arg("int", -1000), Arg("int", 0), Arg("uint", 4095),
                          Arg("llong", -8388608)>>

\* Buffers that are empty, full, or have some room.
MCSymbols == {"s", "t", "0", "1", ".", "5", "n", "a", Blank, Junk}
MCBuffers == {Buffer(<<>>, 0), Buffer(<<"s", "t">>, 0), Buffer(<<"s", "t">>, 5),
              Buffer(<<"s", "t">>, 20)}
Roomy == Buffer(<<"s", "t">>, 60)
FlagSets == {{}, {"sign"}, {"sign", "plus"}, {"hash"}, {"sign", "hash"}}
MCIntSpecs == [width : {0, 3, 7, 12}, fill : {" ", "0"}, flags : FlagSets,
               precision : {-1, 0, 2, 6}, type : {"", "x", "B", "o", "n"}]
MCDoubleSpecs == [width : {0, 3, 4, 7, 12}, fill : {" ", "0"}, flags : FlagSets,
                  precision : {-1}, type : {"", "E"}]

Optional(S) == {<<>>} \cup {<<x>> : x \in S}
BraceParts == [align : Optional({"<", "=", "^"}), sign : Optional({"+"}),
               hash : Optional({"#"}), zero : Optional({"0"}),
               width : {<<>>, <<"7">>, <<"5", "0", "0", "0">>},
               precision : {<<>>, <<".">>, <<".", "1">>, <<".", "2", "0", "4", "8">>},
               type : Optional({"x", "s", "f"})]
Filled(s, fill) == [fill |-> fill, align |-> s.align, sign |-> s.sign, hash |-> s.hash,
                    zero |-> s.zero, width |-> s.width, precision |-> s.precision,
                    type |-> s.type]
DirectiveParts == [index : {<<>>, <<"2">>},
                   width : {<<>>, <<"7">>, <<"*">>, <<"5", "0", "0", "0">>},
                   precision : {<<".">>, <<".", "3">>, <<".", "*">>, <<>>},
                   length : {<<>>, <<"h">>, <<"l">>, <<"L">>},
                   type : {"d", "x", "s", "f", "c"}, star : {-5, 6}]
Flagged(s, flags) == [flags |-> flags, index |-> s.index, width |-> s.width,
                      precision |-> s.precision, length |-> s.length, type |-> s.type,
                      star |-> s.star]
FlagOrders == {<<>>, <<"-">>, <<"0">>, <<"#">>, <<"0", "-">>, <<"+", " ", "0">>,
               <<"#", "-", "+">>}

\* More arguments than are packed, names that come twice.
ArgLists == {<<>>, <<Arg("int", 3), Name("n", 2)>>,
             <<Name("n", 1), Arg("int", 4), Name("n", 2), Name("a", 12)>>,
             <<Arg("int", 2), Arg("int", 4), Arg("uint", 5)>>}
TextPiece(text, shown) == [field |-> FALSE, text |-> text, shown |-> shown]
Reference(ref, width) == [field |-> TRUE, ref |-> ref, width |-> width]
FormatPieces ==
    {TextPiece(<<"x">>, <<"x">>), TextPiece(<<"{", "{">>, <<"{">>),
     TextPiece(<<"}", "}">>, <<"}">>)}
      \cup {Reference(r, w) : r \in {<<>>, <<"0">>, <<"2">>, <<"n">>},
                                w \in {<<>>, <<<<>>>>, <<<<"1">>>>, <<<<"a">>>>}}

-----------------------------------------------------------------------------
(* Building.                                                                *)
Seed == \/ InputInit
        \/ input = Input("raw", <<>>, <<Arg("int", 3), Name("a", 2)>>)
        \/ \E args \in ArgLists : input = Input("pieces", <<>>, args)
        \/ \E f \in Optional({"*", "}", "{", "<"}), k \in DOMAIN Arguments :
               input = Input("filled", f, Arguments[k])
        \/ \E f \in FlagOrders, k \in DOMAIN Arguments : input = Input("flagged", f, Arguments[k])

\* (Without a buffer to parse the parser has refused the empty one.)
MCInit == /\ \/ input = Input("buffer", <<>>, <<>>)
             \/ Seed /\ units = <<>> /\ beyond = <<0, 0, 1, 101>>
          /\ Init

Parse == Next /\ UNCHANGED input
Build == InputNext /\ UNCHANGED vars

GrowRaw == Grow("raw", MaxRaw, {"{", "}", ":", "0", "<", ".", "a"}) /\ UNCHANGED vars
GrowPieces == Grow("pieces", MaxPieces, FormatPieces) /\ UNCHANGED vars

Specifier == /\ input.kind = "filled"
             /\ \E s \in BraceParts : /\ input.of = <<>> \/ s.align # <<>>
                                     /\ input' = Input("specifier", Filled(s, input.of), input.with)
             /\ UNCHANGED vars
Directive == /\ input.kind = "flagged"
             /\ \E s \in DirectiveParts :
                   /\ s.star = 6 \/ s.width = <<"*">> \/ s.precision = <<".", "*">>
                   /\ input' = Input("directive", Flagged(s, input.of), input.with)
             /\ UNCHANGED vars

MCNext == \/ Parse \/ Build \/ GrowRaw \/ GrowPieces \/ Specifier \/ Directive

MCSpec == MCInit /\ [][MCNext]_<<vars, input>>

-----------------------------------------------------------------------------
(* Fields of a format string show the arguments they refer to, and a scan   *)
(* of any string ends with it.  (BasicFormatter, ArgList)                   *)
FieldsFindTheirArguments ==
    /\ input.kind = "pieces" => F!FieldsFindTheirArguments(input.of, input.with, Roomy)
    /\ input.kind = "raw" =>
          F!StopsAtTheEnd(input.of, F!format(input.of, input.with, Roomy))

(* A specifier does what its parts say, or is refused.  (BasicFormatter)    *)
SpecifierIsObeyed ==
    input.kind = "specifier" => F!SpecifierIsObeyed(input.of, input.with, Roomy)

(* A printf directive prints its argument as C has it.  (PrintfFormatter)   *)
DirectivePrints == input.kind = "directive" => F!DirectivePrints(input.of, input.with, Roomy)
=============================================================================
